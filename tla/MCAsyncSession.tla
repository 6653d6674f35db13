--------------------------- MODULE MCAsyncSession ---------------------------
(***************************************************************************)
(* Two tasks that open, receive and send, and are dropped.                 *)
(***************************************************************************)
EXTENDS AsyncSession

CONSTANTS t1, t2, p1, p2

\* A server, a client made from a socket, and two streams.
SessionConfigurations ==
  {[protocol |-> "udpin", backed |-> FALSE], [protocol |-> "udpbcast", backed |-> TRUE],
   [protocol |-> "tcpin", backed |-> TRUE], [protocol |-> "serial", backed |-> FALSE],
   [protocol |-> "file", backed |-> FALSE]}

\* Of either version and peer; the dialect cannot parse the second.
SomeFrames ==
  {[from |-> p1, version |-> "V1", parses |-> TRUE],
   [from |-> p2, version |-> "V2", parses |-> FALSE]}
=============================================================================
