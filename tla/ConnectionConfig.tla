-------------------------- MODULE ConnectionConfig --------------------------
(***************************************************************************)
(* Opening connections from one configuration and its clones               *)
(* (mavlink-core/src/connectable.rs, connection/*/config.rs, and the open  *)
(* and open_async of each transport).  A configuration made from a socket  *)
(* holds it in a slot that its clones share: the first open takes it.      *)
(*                                                                         *)
(* An open is a path of steps, each of which another opener can come       *)
(* between, fail, or, where it awaits, be dropped at.                      *)
(***************************************************************************)
EXTENDS SequencesExt, FiniteSets

CONSTANTS
  Openers,        \* Those who open a connection from a clone, once each.
  Configurations  \* The configurations there may be.

VARIABLES
  config,  \* The configuration they share.
  style,   \* Of each opener: blocking or asynchronous.
  slot,    \* The shared socket: "none", "full" or "empty".
  todo,    \* Of each opener: the steps that are left,
  holds,   \* the socket it has got,
  result   \* and where its open is.

vars == <<config, style, slot, todo, holds, result>>

TcpModes == {"tcpin", "tcpout"}
UdpModes == {"udpin", "udpout", "udpbcast"}

\* The protocols parse_address knows.
Protocols == TcpModes \union UdpModes \union {"serial", "file"}

\* parse_address gives no socket; from_stream, from_listener and from_socket do.
Configuration ==
  {c \in [protocol : Protocols, backed : BOOLEAN] :
     c.backed => c.protocol \in TcpModes \union UdpModes}

-----------------------------------------------------------------------------
Blocking(o) == style[o] = "blocking"

When(condition, step) == IF condition THEN <<step>> ELSE <<>>

TcpSteps(o) ==
  (IF config.backed THEN <<"take">> \o When(~ Blocking(o), "configure")
   ELSE <<"resolve", IF config.protocol = "tcpin" THEN "bind" ELSE "connect">>)
  \o When(config.protocol = "tcpin", "accept")
  \o When(Blocking(o), "configure")

UdpSteps(o) ==
  When(config.protocol # "udpin", "resolve")
  \o <<IF config.backed THEN "take" ELSE "bind">>
  \o When(Blocking(o) \/ config.backed \/ config.protocol = "udpbcast", "configure")

SerialSteps(o) == <<"open", "configure">>

FileSteps(o) == <<"open">>

Steps(o) ==
  CASE config.protocol \in TcpModes -> TcpSteps(o)
    [] config.protocol \in UdpModes -> UdpSteps(o)
    [] config.protocol = "serial"   -> SerialSteps(o)
    [] config.protocol = "file"     -> FileSteps(o)

\* Where an asynchronous open awaits, and can be dropped.
Awaits ==
  {"connect", "accept"}
    \union (IF config.protocol \in UdpModes \union {"tcpin"} THEN {"bind"} ELSE {})
    \union (IF config.protocol = "file" THEN {"open"} ELSE {})

Init ==
  /\ config \in Configurations
  /\ style \in [Openers -> {"blocking", "async"}]
  /\ slot = IF config.backed THEN "full" ELSE "none"
  /\ todo = [o \in Openers |-> <<>>]
  /\ holds = [o \in Openers |-> "nothing"]
  /\ result = [o \in Openers |-> "none"]

At(o, step) == result[o] = "running" /\ Head(todo[o]) = step

Connect(o) ==
  /\ result[o] = "none"
  /\ result' = [result EXCEPT ![o] = "running"]
  /\ todo' = [todo EXCEPT ![o] = Steps(o)]
  /\ UNCHANGED <<config, style, slot, holds>>

\* The step is done; after the last one there is a connection.
Done(o, socket) ==
  /\ todo' = [todo EXCEPT ![o] = Tail(@)]
  /\ holds' = [holds EXCEPT ![o] = socket]
  /\ result' = [result EXCEPT ![o] = IF Len(todo[o]) = 1 THEN "opened" ELSE @]
  /\ UNCHANGED <<config, style>>

\* The open ends without a connection, and closes the socket it has got.
Stop(o, how) ==
  /\ holds' = [holds EXCEPT ![o] = "nothing"]
  /\ result' = [result EXCEPT ![o] = how]
  /\ UNCHANGED <<config, style, slot, todo>>

\* Mutants of TakeSocket: the socket stays in the slot; nobody is told that
\* it is gone.
CopySocket(o) ==
  /\ At(o, "take") /\ slot = "full"
  /\ Done(o, "given") /\ UNCHANGED slot

AwaitSocket(o) ==
  /\ At(o, "take") /\ slot = "full"
  /\ slot' = "empty" /\ Done(o, "given")

TakeSocket(o) ==
  /\ At(o, "take")
  /\ \/ slot = "full" /\ slot' = "empty" /\ Done(o, "given")
     \/ slot = "empty" /\ Stop(o, "used_up")

Resolve(o) == At(o, "resolve") /\ Done(o, holds[o]) /\ UNCHANGED slot

\* bind, connect, or the opening of a port or a file.
OwnSocket(o) ==
  /\ \E step \in {"bind", "connect", "open"} : At(o, step)
  /\ Done(o, "own") /\ UNCHANGED slot

\* set_nonblocking, from_std, set_read_timeout, set_broadcast, try_clone,
\* and the settings of a port.
Configure(o) == At(o, "configure") /\ Done(o, holds[o]) /\ UNCHANGED slot

\* The listener is closed once a peer is connected.
Accept(o) == At(o, "accept") /\ Done(o, "own") /\ UNCHANGED slot

\* A blocking accept tries again when it fails.  The address of a
\* configuration made from a socket is the text of the socket's own, which is
\* looked up without fail.
StepFails(o) ==
  /\ result[o] = "running" /\ Head(todo[o]) # "take"
  /\ At(o, "accept") => ~ Blocking(o)
  /\ At(o, "resolve") => ~ config.backed
  /\ Stop(o, "failed")

DropOpen(o) ==
  /\ result[o] = "running" /\ ~ Blocking(o) /\ Head(todo[o]) \in Awaits
  /\ Stop(o, "dropped")

Advance(o) == TakeSocket(o) \/ Resolve(o) \/ OwnSocket(o) \/ Configure(o)

Next ==
  \E o \in Openers : Connect(o) \/ Advance(o) \/ Accept(o) \/ StepFails(o) \/ DropOpen(o)

Spec == Init /\ [][Next]_vars /\ \A o \in Openers : WF_vars(Advance(o))

-----------------------------------------------------------------------------
TypeOK ==
  /\ config \in Configuration
  /\ slot \in {"none", "full", "empty"}
  /\ holds \in [Openers -> {"nothing", "given", "own"}]
  /\ result \in [Openers -> {"none", "running", "opened", "failed", "dropped", "used_up"}]

(***************************************************************************)
(* "Socket-backed configurations are one-shot, including across cloned     *)
(* configurations": the socket is in the slot, or with one opener, or      *)
(* closed, and who is told that it was used is told the truth.             *)
(***************************************************************************)
SocketInOnePlace ==
  /\ Cardinality({o \in Openers : holds[o] = "given"})
       <= (IF slot = "empty" THEN 1 ELSE 0)
  /\ \A o \in Openers : result[o] = "used_up" =>
       \E p \in Openers \ {o} : result[p] # "none" /\ ~ Contains(todo[p], "take")

(***************************************************************************)
(* An open ends, also when the socket is gone, unless it waits for a peer  *)
(* to connect.                                                             *)
(***************************************************************************)
OpenSettles ==
  \A o \in Openers :
    result[o] = "running" ~> result[o] # "running" \/ At(o, "accept")
=============================================================================
