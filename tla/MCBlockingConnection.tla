------------------------ MODULE MCBlockingConnection ------------------------
(***************************************************************************)
(* A few threads on one connection, and two peers.                         *)
(***************************************************************************)
EXTENDS BlockingConnection, TLC

CONSTANTS t1, t2, t3, p1, p2

Alike == Permutations({t1, t2, t3}) \union Permutations({p1, p2})
=============================================================================
