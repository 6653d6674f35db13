---------------------------- MODULE FrameDecoder ----------------------------
(***************************************************************************)
(* The incremental frame decoder (mavlink-core/src/frame_decoder.rs) and   *)
(* the reader loop around it (reader.rs; async_reader.rs is the same loop  *)
(* with an await inside read_more).  One step is one turn of the loop in   *)
(* next_frame, or one return of the source's read.                         *)
(***************************************************************************)
EXTENDS FrameLayout, Sequences

CONSTANTS
  RequestedCapacity, \* The argument of with_capacity.
  Inputs,            \* The byte streams a source may hold.
  Policies           \* The signing_data arguments callers may pass.

VARIABLES
  buffer, start, end, \* FrameDecoder: its bytes and its window start .. end - 1.
  filter, policy,     \* Arguments of the call in progress, or of the last one.
  pc,                 \* "idle", "decoding" (in next_frame) or "reading" (in read).
  result,             \* What the last call returned.
  input,              \* The stream, [len, at], as FrameScanner describes it.
  base,               \* Where in it buffer[0] was read from.
  taken               \* Every frame taken from the stream, in order.

decoder == <<buffer, start, end, base>>
vars == <<buffer, start, end, filter, policy, pc, result, input, base, taken>>

\* Mutant of Capacity: the requested capacity is taken as it is.
CapacityAsRequested == RequestedCapacity

Capacity ==
  IF RequestedCapacity < MAX_FRAME_SIZE THEN MAX_FRAME_SIZE ELSE RequestedCapacity

Slots == 0 .. Capacity - 1

\* No SigningData; SigningData with allow_unsigned cleared; with it set.
AllPolicies == {"none", "strict", "permissive"}

Failures == {"eof", "io_error", "cancelled"}
Results == {"none", "message", "parse_error"} \union Failures

ASSUME DecoderAssumption ==
  /\ RequestedCapacity \in Nat
  /\ Policies \subseteq AllPolicies
  /\ \A s \in Inputs : s.len \in Nat /\ s.at \in [0 .. s.len - 1 -> Byte]

-----------------------------------------------------------------------------
(***************************************************************************)
(* The candidate frame at index q of the buffer.                           *)
(***************************************************************************)

\* find_marker: q is the first marker of the window.
FirstMarker(q) ==
  /\ q \in start .. end - 1
  /\ buffer[q] \in Marker(filter)
  /\ \A p \in start .. q - 1 : buffer[p] \notin Marker(filter)

PrefixArrived(q) == q + HeaderPrefix(buffer, q) <= end

\* Mutants of FrameArrived: the signature is forgotten; one byte too many is awaited.
FrameArrivedUnsigned(q) == q + ChecksumOffset(buffer, q) + ChecksumSize <= end
FrameArrivedLate(q) == q + FrameLen(buffer, q) < end

FrameArrived(q) == q + FrameLen(buffer, q) <= end

Malformed(q) ==
  /\ PrefixArrived(q)
  /\ \/ ~ FlagsSupported(buffer, q)
     \/ FrameArrived(q) /\ ~ CrcMatches(buffer, q)

Valid(q) ==
  PrefixArrived(q) /\ FlagsSupported(buffer, q) /\ FrameArrived(q) /\ CrcMatches(buffer, q)

Incomplete(q) ==
  PrefixArrived(q) => FlagsSupported(buffer, q) /\ ~ FrameArrived(q)

(***************************************************************************)
(* signature_is_valid: MAVLink 1 and unsigned frames pass by the policy    *)
(* alone.  The verdict on a signed frame is the module SignedLink's        *)
(* business; here it may be either.                                        *)
(***************************************************************************)
MayAccept(q) == policy \in {"none", "permissive"} \/ IsSigned(buffer, q)
MayRefuse(q) == policy # "none" /\ (policy = "strict" \/ IsSigned(buffer, q))

-----------------------------------------------------------------------------
Init ==
  /\ buffer = [i \in Slots |-> 0]
  /\ start = 0 /\ end = 0
  /\ filter \in Filters /\ policy \in Policies
  /\ pc = "idle" /\ result = "none"
  /\ input \in Inputs
  /\ base = 0
  /\ taken = <<>>

\* read_message and its variants, and a retry after a failed or cancelled one.
Call(f, s) ==
  /\ pc = "idle"
  /\ pc' = "decoding"
  /\ filter' = f /\ policy' = s
  /\ UNCHANGED <<decoder, result, input, taken>>

Clear ==
  /\ start' = 0 /\ end' = 0
  /\ base' = base + end
  /\ UNCHANGED buffer

\* Mutant of Compact: the indices move and the bytes do not.
CompactInPlace(q) ==
  /\ start' = 0 /\ end' = end - q
  /\ base' = base + q
  /\ UNCHANGED buffer

\* compact: the window moves to the front; the bytes behind it stay.
Compact(q) ==
  /\ buffer' = [i \in Slots |-> IF i < end - q THEN buffer[q + i] ELSE buffer[i]]
  /\ start' = 0 /\ end' = end - q
  /\ base' = base + q

\* Mutant of Advance: a returned frame is left like a rejected one.
AdvanceByOne(q) == start' = q + 1 /\ UNCHANGED <<buffer, end, base>>

Advance(q) ==
  IF q + FrameLen(buffer, q) = end THEN Clear
  ELSE start' = q + FrameLen(buffer, q) /\ UNCHANGED <<buffer, end, base>>

\* seek_marker finds none: the window is dropped and the reader reads.
NoMarker ==
  /\ pc = "decoding"
  /\ \A p \in start .. end - 1 : buffer[p] \notin Marker(filter)
  /\ Clear
  /\ pc' = "reading"
  /\ UNCHANGED <<filter, policy, result, input, taken>>

\* The candidate is cut short by the end of the window: the reader reads.
AwaitBytes(q) ==
  /\ pc = "decoding"
  /\ FirstMarker(q) /\ Incomplete(q)
  /\ Compact(q)
  /\ pc' = "reading"
  /\ UNCHANGED <<filter, policy, result, input, taken>>

\* Mutants of RejectCandidate: all the bytes it claims are skipped; none is.
RejectWhole(q) ==
  /\ pc = "decoding"
  /\ FirstMarker(q) /\ Malformed(q)
  /\ start' = IF FrameArrived(q) THEN q + FrameLen(buffer, q) ELSE q + 1
  /\ UNCHANGED <<buffer, end, base, filter, policy, pc, result, input, taken>>

RejectNothing(q) ==
  /\ pc = "decoding"
  /\ FirstMarker(q) /\ Malformed(q)
  /\ start' = q
  /\ UNCHANGED <<buffer, end, base, filter, policy, pc, result, input, taken>>

\* An invalid candidate is retried from its second byte.
RejectCandidate(q) ==
  /\ pc = "decoding"
  /\ FirstMarker(q) /\ Malformed(q)
  /\ start' = q + 1
  /\ UNCHANGED <<buffer, end, base, filter, policy, pc, result, input, taken>>

Take(q, returned) ==
  /\ pc = "decoding"
  /\ FirstMarker(q) /\ Valid(q)
  /\ Advance(q)
  /\ taken' = Append(taken, [at |-> base + q, len |-> FrameLen(buffer, q),
                             returned |-> returned])
  /\ UNCHANGED <<filter, policy, input>>

\* The call returns the frame, as a message or as the error parsing it gave.
ReturnFrame(q, outcome) ==
  /\ Take(q, TRUE) /\ MayAccept(q)
  /\ pc' = "idle" /\ result' = outcome

\* A frame whose signature is refused is dropped and the loop goes on.
RefuseFrame(q) ==
  /\ Take(q, FALSE) /\ MayRefuse(q)
  /\ UNCHANGED <<pc, result>>

\* read returned n bytes.
ReadChunk(n) ==
  /\ pc = "reading"
  /\ n \in 1 .. Capacity - end
  /\ base + end + n <= input.len
  /\ buffer' = [i \in Slots |->
                  IF i \in end .. end + n - 1 THEN input.at[base + i] ELSE buffer[i]]
  /\ end' = end + n
  /\ pc' = "decoding"
  /\ UNCHANGED <<start, base, filter, policy, result, input, taken>>

\* read returned 0 or an error, or the future was dropped while it awaited.
\* A 0 need not be the last: an empty datagram or a growing file gives one.
ReadFails(failure) ==
  /\ pc = "reading"
  /\ pc' = "idle" /\ result' = failure
  /\ UNCHANGED <<decoder, filter, policy, input, taken>>

-----------------------------------------------------------------------------
Decode ==
  \/ NoMarker
  \/ \E q \in Slots : AwaitBytes(q)
  \/ \E q \in Slots : RejectCandidate(q)
  \/ \E q \in Slots : \E outcome \in {"message", "parse_error"} : ReturnFrame(q, outcome)
  \/ \E q \in Slots : RefuseFrame(q)

Source ==
  \/ \E n \in 1 .. Capacity : ReadChunk(n)
  \/ \E failure \in Failures : ReadFails(failure)

Caller == \E f \in Filters : \E s \in Policies : Call(f, s)

Next == Decode \/ Source \/ Caller

Spec == Init /\ [][Next]_vars

\* The decoder loop runs without waiting for anyone.
FairSpec == Spec /\ WF_vars(Decode)

\* ... and the caller is a receive loop that calls again after each return.
ReceiveLoopSpec == FairSpec /\ WF_vars(Caller)

-----------------------------------------------------------------------------
cursor == base + start
received == base + end

Scanner == INSTANCE FrameScanner

TypeOK ==
  /\ buffer \in [Slots -> Byte]
  /\ start \in 0 .. end /\ end \in 0 .. Capacity
  /\ filter \in Filters /\ policy \in Policies
  /\ pc \in {"idle", "decoding", "reading"} /\ result \in Results
  /\ input \in Inputs
  /\ base \in Nat
  /\ taken \in Seq([at : Nat, len : Nat, returned : BOOLEAN])

(***************************************************************************)
(* The window is exactly the stretch of the stream it claims to be:        *)
(* whatever was read, compacted, cleared or taken, no byte is lost,        *)
(* repeated or stale.                                                      *)
(***************************************************************************)
WindowMatchesInput ==
  /\ received <= input.len
  /\ \A i \in start .. end - 1 : buffer[i] = input.at[base + i]

(***************************************************************************)
(* read_more asserts that "a pending MAVLink frame must fit in the decoder *)
(* buffer": whatever candidate is pending, a read has room for a byte.     *)
(***************************************************************************)
ReadMoreHasSpace == pc = "reading" => start = 0 /\ end < Capacity

(***************************************************************************)
(* The reader goes to the source only for bytes it needs: while it waits,  *)
(* no valid frame of the requested version lies whole at its cursor.  The  *)
(* frame's other end may arrive later, with any chunking.                  *)
(***************************************************************************)
WaitsOnlyForMissingBytes ==
  pc = "reading" => ~ FrameAt(input.at, cursor, received, filter)

(***************************************************************************)
(* A byte of the stream belongs to at most one taken frame, the taken      *)
(* frames are in stream order and the cursor is past all of them: a frame  *)
(* is not delivered twice, and nothing inside a delivered frame is         *)
(* delivered on its own.                                                   *)
(***************************************************************************)
TakenOnce ==
  \A i \in DOMAIN taken :
    /\ taken[i].at + taken[i].len <= cursor
    /\ \A j \in DOMAIN taken :
         i < j => taken[i].at + taken[i].len <= taken[j].at

(***************************************************************************)
(* The decoder implements the scanner: buffer sizes, chunks, compaction,   *)
(* failed reads and changes of version never make it lose or invent a      *)
(* frame.                                                                  *)
(***************************************************************************)
ImplementsScanner == Scanner!Spec

(***************************************************************************)
(* next_frame ends: a call returns or waits for the source, whatever       *)
(* garbage it is fed.                                                      *)
(***************************************************************************)
CallSettles == pc = "decoding" ~> pc # "decoding"

(***************************************************************************)
(* "complete trailing frames remain buffered for the next call": a frame   *)
(* read ahead is dealt with by later calls, even when the source is silent *)
(* from then on and whatever versions the calls ask for.                   *)
(***************************************************************************)
Positions == UNION {0 .. s.len : s \in Inputs}

ReadAheadIsTaken ==
  \A c \in Positions :
    (cursor = c /\ \E f \in Filters : FrameAt(input.at, c, received, f)) ~> cursor > c
=============================================================================
