---------------------------- MODULE FrameScanner ----------------------------
(***************************************************************************)
(* What frame decoding promises, whatever the sizes of the chunks in which *)
(* the input arrives, of the buffer and of the calls: a cursor moves over  *)
(* the input, takes the valid frames it meets in order, and passes over no *)
(* byte that begins one.                                                   *)
(***************************************************************************)
EXTENDS FrameLayout, Sequences

VARIABLES
  input,     \* [len, at]: the bytes at[0] .. at[len - 1] of the stream.
  received,  \* How many of them have arrived.
  cursor,    \* The first byte not yet taken or passed over.
  filter,    \* The version filter in force.
  taken      \* The frames taken, [at, len, returned], in order.

vars == <<input, received, cursor, filter, taken>>

BeginsFrame(p) == FrameAt(input.at, p, input.len, filter)

Init ==
  /\ received = 0
  /\ cursor = 0
  /\ filter \in Filters
  /\ taken = <<>>

\* More of the input arrives.
Receive(n) ==
  /\ n \in received .. input.len
  /\ received' = n
  /\ UNCHANGED <<input, cursor, filter, taken>>

\* The caller asks for another version.
Choose(f) ==
  /\ f \in Filters
  /\ filter' = f
  /\ UNCHANGED <<input, received, cursor, taken>>

\* The cursor passes over bytes none of which begins a frame.
Pass(q) ==
  /\ q \in cursor .. received
  /\ \A p \in cursor .. q - 1 : ~ BeginsFrame(p)
  /\ cursor' = q
  /\ UNCHANGED <<input, received, filter, taken>>

\* The first frame from the cursor on, at q and wholly arrived, is taken.
Take(q, returned) ==
  /\ q \in cursor .. received - 1
  /\ \A p \in cursor .. q - 1 : ~ BeginsFrame(p)
  /\ BeginsFrame(q)
  /\ q + FrameLen(input.at, q) <= received
  /\ cursor' = q + FrameLen(input.at, q)
  /\ taken' = Append(taken, [at |-> q, len |-> FrameLen(input.at, q),
                             returned |-> returned])
  /\ UNCHANGED <<input, received, filter>>

Next ==
  \/ \E n \in received .. input.len : Receive(n)
  \/ \E f \in Filters : Choose(f)
  \/ \E q \in cursor .. received : Pass(q)
  \/ \E q \in cursor .. received : \E returned \in BOOLEAN : Take(q, returned)

Spec == Init /\ [][Next]_vars
=============================================================================
