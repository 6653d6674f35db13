----------------------------- MODULE FrameQueue -----------------------------
(***************************************************************************)
(* What a connection promises those who receive from it: the frames that   *)
(* arrive are handed over in the order of their arrival, each once; one is *)
(* left out only if it is not wanted, or when the connection fails.        *)
(***************************************************************************)
EXTENDS Naturals, Sequences

VARIABLES
  arrivals,  \* The frames that arrived.
  left,      \* How many of them have left the queue.
  handed,    \* The places in arrivals of those handed over.
  unwanted,  \* The places of those that cannot be handed over as things are.
  failures   \* How often the connection failed.

vars == <<arrivals, left, handed, failures>>

Init == arrivals = <<>> /\ left = 0 /\ handed = <<>> /\ failures = 0

Arrive ==
  /\ Len(arrivals') > Len(arrivals)
  /\ \A i \in 1 .. Len(arrivals) : arrivals'[i] = arrivals[i]
  /\ UNCHANGED <<left, handed, failures>>

Hand ==
  /\ left < Len(arrivals)
  /\ left' = left + 1
  /\ handed' = Append(handed, left + 1)
  /\ UNCHANGED <<arrivals, failures>>

\* One that is not wanted is dropped.
Drop ==
  /\ left < Len(arrivals) /\ left + 1 \in unwanted
  /\ left' = left + 1
  /\ UNCHANGED <<arrivals, handed, failures>>

\* A failure may cost one frame.
Fail ==
  /\ failures' = failures + 1
  /\ left' = left \/ (left < Len(arrivals) /\ left' = left + 1)
  /\ UNCHANGED <<arrivals, handed>>

Next == Arrive \/ Hand \/ Drop \/ Fail

Spec == Init /\ [][Next]_vars
=============================================================================
