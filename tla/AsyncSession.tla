---------------------------- MODULE AsyncSession ----------------------------
(***************************************************************************)
(* Tasks that open connections from clones of one configuration and share  *)
(* the first one that is asynchronous: ConnectionConfig, and from then on  *)
(* AsyncConnection.                                                        *)
(***************************************************************************)
EXTENDS AsyncConnection

CONSTANTS
  Configurations,
  UsedProtocols   \* Those whose connections are used, and not just opened.

VARIABLES config, style, slot, todo, holds, result

opening == <<config, style, slot, todo, holds, result>>

Config == INSTANCE ConnectionConfig WITH Openers <- Tasks

ASSUME SessionAssumption ==
  /\ Configurations \subseteq Config!Configuration
  /\ UsedProtocols \subseteq Config!Protocols

\* The transport that open_async builds, a server or a client.
TransportOf(protocol) ==
  CASE protocol \in {"tcpin", "tcpout"}    -> "tcp"
    [] protocol = "udpin"                  -> "udp_server"
    [] protocol \in {"udpout", "udpbcast"} -> "udp_client"
    [] OTHER                               -> protocol

SessionInit ==
  /\ Config!Init
  /\ Init
  /\ transport = TransportOf(config.protocol)

Open == Config!Next /\ UNCHANGED vars

\* An open that fails, or is not over yet, leaves nothing behind that a
\* connection in use could notice: use follows the opens that went well.
Opened ==
  /\ config.protocol \in UsedProtocols
  /\ \A t \in Tasks : style[t] = "async" /\ result[t] \in {"opened", "used_up"}
  /\ \E t \in Tasks : result[t] = "opened"

Use == Opened /\ Next /\ UNCHANGED opening

SessionNext == Open \/ Use

SessionSpec ==
  /\ SessionInit /\ [][SessionNext]_<<opening, vars>>
  /\ Fairness
  /\ \A t \in Tasks : WF_opening(Config!Advance(t))

-----------------------------------------------------------------------------
\* The types of both modules: what opens and what is opened.
SessionTypeOK == TypeOK /\ Config!TypeOK

\* A socket-backed configuration is used once, across its clones.
SocketInOnePlace == Config!SocketInOnePlace

\* An open ends, also when the socket is gone.
OpenSettles == Config!OpenSettles
=============================================================================
