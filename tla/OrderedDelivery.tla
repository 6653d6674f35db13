-------------------------- MODULE OrderedDelivery --------------------------
(***************************************************************************)
(* What message signing promises a receiver over a network that loses,     *)
(* repeats and reorders: of each stream it accepts messages that were sent *)
(* on it by a node that has the receiver's key, each at most once and in   *)
(* the order in which they were sent.                                      *)
(***************************************************************************)
EXTENDS Naturals, Sequences

CONSTANTS
  Nodes,
  Streams,   \* A stream: one (link id, system id, component id).
  Owner,     \* The node that sends on it.
  Secret     \* The secret key of each node.

VARIABLES
  sends,     \* How many messages were sent on each stream.
  accepted   \* accepted[r][s]: the numbers of those r accepted, in order.

vars == <<sends, accepted>>

Init ==
  /\ sends = [s \in Streams |-> 0]
  /\ accepted = [r \in Nodes |-> [s \in Streams |-> <<>>]]

Send(s) ==
  /\ sends' = [sends EXCEPT ![s] = @ + 1]
  /\ UNCHANGED accepted

Accept(r, s, nr) ==
  /\ Secret[r] = Secret[Owner[s]]
  /\ nr \in 1 .. sends[s]
  /\ \A i \in 1 .. Len(accepted[r][s]) : accepted[r][s][i] < nr
  /\ accepted' = [accepted EXCEPT ![r][s] = Append(@, nr)]
  /\ UNCHANGED sends

Next ==
  \/ \E s \in Streams : Send(s)
  \/ \E r \in Nodes : \E s \in Streams : \E nr \in 1 .. sends[s] : Accept(r, s, nr)

Spec == Init /\ [][Next]_vars
=============================================================================
