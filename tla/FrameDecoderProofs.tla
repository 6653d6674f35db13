------------------------- MODULE FrameDecoderProofs -------------------------
(***************************************************************************)
(* Proofs about FrameDecoder, for every layout, capacity and input that    *)
(* LayoutAssumption and DecoderAssumption allow.                           *)
(***************************************************************************)
EXTENDS FrameDecoder, SequenceTheorems, TLAPS

-----------------------------------------------------------------------------
(* The layout: what a candidate's fields may be, and which bytes they read. *)

\* A candidate whose length byte has arrived is a frame of bounded length,
\* and its header and checksum lie inside it.
LEMMA LayoutBounds ==
  ASSUME NEW b, NEW p \in Int, b[p + PAYLOAD_LEN_OFFSET] \in Byte
  PROVE  /\ HeaderPrefix(b, p) \in Nat /\ 2 <= HeaderPrefix(b, p)
         /\ HeaderSize(b, p) \in Nat /\ HeaderPrefix(b, p) <= HeaderSize(b, p)
         /\ ChecksumOffset(b, p) \in Nat /\ HeaderSize(b, p) < ChecksumOffset(b, p)
         /\ FrameLen(b, p) \in Nat /\ ChecksumOffset(b, p) < FrameLen(b, p)
         /\ FrameLen(b, p) <= MAX_FRAME_SIZE
<1>1. HeaderPrefix(b, p) \in Nat /\ 2 <= HeaderPrefix(b, p)
  BY DEF HeaderPrefix
<1>2. /\ HeaderSize(b, p) \in Nat /\ HeaderPrefix(b, p) <= HeaderSize(b, p)
      /\ HeaderSize(b, p) <= V2MinHeaderSize + SysId32Extra
  BY LayoutAssumption DEF HeaderPrefix, HeaderSize
<1>3. /\ ChecksumOffset(b, p) \in Nat /\ HeaderSize(b, p) < ChecksumOffset(b, p)
      /\ ChecksumOffset(b, p) <= STX_SIZE + V2MinHeaderSize + SysId32Extra + MaxByte
  BY <1>2, LayoutAssumption DEF ChecksumOffset, STX_SIZE, Byte
<1>4. /\ FrameLen(b, p) \in Nat /\ ChecksumOffset(b, p) < FrameLen(b, p)
      /\ FrameLen(b, p) <= MAX_FRAME_SIZE
  BY <1>3, LayoutAssumption DEF FrameLen, MAX_FRAME_SIZE, STX_SIZE
<1>5. QED
  BY <1>1, <1>2, <1>3, <1>4

\* The fields that decide a candidate's length read its prefix only.
LEMMA PrefixDecides ==
  ASSUME NEW b, NEW c, NEW p \in Int, NEW d \in Int, NEW n \in Nat,
         0 < n, \A i \in 0 .. n - 1 : b[p + i] = c[d + i],
         HeaderPrefix(b, p) <= n
  PROVE  /\ HeaderPrefix(c, d) = HeaderPrefix(b, p)
         /\ IncompatFlags(c, d) = IncompatFlags(b, p)
         /\ HeaderSize(c, d) = HeaderSize(b, p)
         /\ ChecksumOffset(c, d) = ChecksumOffset(b, p)
         /\ FrameLen(c, d) = FrameLen(b, p)
<1>1. b[p] = c[d]
  BY Z3
<1>2. HeaderPrefix(c, d) = HeaderPrefix(b, p) /\ MarkerVersion(c[d]) = MarkerVersion(b[p])
  BY <1>1 DEF HeaderPrefix
<1>3. b[p + PAYLOAD_LEN_OFFSET] = c[d + PAYLOAD_LEN_OFFSET]
  BY DEF HeaderPrefix, PAYLOAD_LEN_OFFSET
<1>4. MarkerVersion(b[p]) # "V1" => b[p + INCOMPAT_FLAGS_OFFSET] = c[d + INCOMPAT_FLAGS_OFFSET]
  BY DEF HeaderPrefix, INCOMPAT_FLAGS_OFFSET
<1>5. IncompatFlags(c, d) = IncompatFlags(b, p)
  BY <1>2, <1>4 DEF IncompatFlags
<1>6. HeaderSize(c, d) = HeaderSize(b, p)
  BY <1>2, <1>5 DEF HeaderSize
<1>7. ChecksumOffset(c, d) = ChecksumOffset(b, p)
  BY <1>3, <1>6 DEF ChecksumOffset
<1>8. FrameLen(c, d) = FrameLen(b, p)
  BY <1>5, <1>7 DEF FrameLen, IsSigned
<1>9. QED
  BY <1>2, <1>5, <1>6, <1>7, <1>8

\* Whether a whole candidate is valid depends on its own bytes only.
LEMMA FrameDecides ==
  ASSUME NEW b, NEW c, NEW p \in Int, NEW d \in Int, NEW n \in Nat,
         \A i \in 0 .. n - 1 : b[p + i] = c[d + i],
         b[p + PAYLOAD_LEN_OFFSET] \in Byte,
         FrameLen(b, p) <= n
  PROVE  CrcMatches(c, d) <=> CrcMatches(b, p)
<1>1. /\ HeaderPrefix(b, p) \in Nat /\ 2 <= HeaderPrefix(b, p)
      /\ HeaderSize(b, p) \in Nat /\ HeaderPrefix(b, p) <= HeaderSize(b, p)
      /\ ChecksumOffset(b, p) \in Nat /\ HeaderSize(b, p) < ChecksumOffset(b, p)
      /\ FrameLen(b, p) \in Nat /\ ChecksumOffset(b, p) < FrameLen(b, p)
  BY LayoutBounds
<1>2. 0 < n /\ HeaderPrefix(b, p) <= n
  BY <1>1
<1>3. HeaderSize(c, d) = HeaderSize(b, p)
  BY <1>2, PrefixDecides
<1>4. ChecksumOffset(c, d) = ChecksumOffset(b, p)
  BY <1>2, PrefixDecides
<1>5. MessageId(c, d) = MessageId(b, p)
  BY <1>1, <1>3 DEF MessageId
<1>6. b[p + ChecksumOffset(b, p)] = c[d + ChecksumOffset(b, p)]
  BY <1>1
<1>7. [i \in 1 .. ChecksumOffset(b, p) - 1 |-> b[p + i]]
        = [i \in 1 .. ChecksumOffset(b, p) - 1 |-> c[d + i]]
  BY <1>1
<1>8. QED
  BY <1>4, <1>5, <1>6, <1>7 DEF CrcMatches

-----------------------------------------------------------------------------
(* Type correctness.                                                       *)

LEMMA CapacityType == Capacity \in Nat /\ MAX_FRAME_SIZE \in Nat /\ MAX_FRAME_SIZE <= Capacity
  BY LayoutAssumption, DecoderAssumption DEF Capacity, MAX_FRAME_SIZE, STX_SIZE

\* A whole candidate in the window ends inside it.
LEMMA WholeCandidate ==
  ASSUME TypeOK, NEW q, FirstMarker(q), Valid(q)
  PROVE  /\ q \in Nat /\ start <= q /\ q < end
         /\ FrameLen(buffer, q) \in Nat /\ 0 < FrameLen(buffer, q)
         /\ q + FrameLen(buffer, q) <= end
<1>1. q \in Nat /\ start <= q /\ q < end /\ end \in Nat /\ end <= Capacity
  BY CapacityType DEF FirstMarker, TypeOK
<1>2. q + HeaderPrefix(buffer, q) <= end /\ q + FrameLen(buffer, q) <= end
  BY DEF Valid, PrefixArrived, FrameArrived
<1>3. q + PAYLOAD_LEN_OFFSET \in Slots
  BY <1>1, <1>2, CapacityType DEF HeaderPrefix, PAYLOAD_LEN_OFFSET, Slots
<1>4. buffer[q + PAYLOAD_LEN_OFFSET] \in Byte
  BY <1>3 DEF TypeOK
<1>5. FrameLen(buffer, q) \in Nat /\ 0 < FrameLen(buffer, q)
  BY <1>1, <1>4, LayoutBounds
<1>6. QED
  BY <1>1, <1>2, <1>5

LEMMA TypeInit == Init => TypeOK
<1> SUFFICES ASSUME Init PROVE TypeOK
  OBVIOUS
<1>1. buffer \in [Slots -> Byte]
  BY LayoutAssumption DEF Init, Byte
<1>2. taken \in Seq([at : Nat, len : Nat, returned : BOOLEAN])
  BY DEF Init
<1>3. policy \in AllPolicies
  BY DecoderAssumption DEF Init
<1>4. QED
  BY <1>1, <1>2, CapacityType DEF Init, TypeOK, Results

LEMMA TypeStep == TypeOK /\ [Next]_vars => TypeOK'
<1> SUFFICES ASSUME TypeOK, [Next]_vars PROVE TypeOK'
  OBVIOUS
<1>0. /\ buffer \in [Slots -> Byte]
      /\ start \in Nat /\ end \in Nat /\ start <= end /\ end <= Capacity
      /\ base \in Nat /\ Capacity \in Nat
  BY CapacityType DEF TypeOK
<1>1. ASSUME NEW f \in Filters, NEW s \in Policies, Call(f, s) PROVE TypeOK'
  BY <1>1 DEF Call, TypeOK, decoder
<1>2. CASE NoMarker
  BY <1>0, <1>2 DEF NoMarker, Clear, TypeOK
<1>3. ASSUME NEW q \in Slots, AwaitBytes(q) PROVE TypeOK'
  <2>1. q \in Nat /\ start <= q /\ q < end
    BY <1>0, <1>3 DEF AwaitBytes, FirstMarker
  <2>2. buffer' \in [Slots -> Byte]
    <3>1. ASSUME NEW i \in Slots, i < end - q PROVE q + i \in Slots
      BY <1>0, <2>1, <3>1 DEF Slots
    <3>2. QED
      BY <1>0, <1>3, <3>1 DEF AwaitBytes, Compact
  <2>3. QED
    BY <1>0, <1>3, <2>1, <2>2 DEF AwaitBytes, Compact, TypeOK
<1>4. ASSUME NEW q \in Slots, RejectCandidate(q) PROVE TypeOK'
  BY <1>0, <1>4 DEF RejectCandidate, FirstMarker, TypeOK
<1>5. ASSUME NEW q \in Slots, NEW returned \in BOOLEAN, Take(q, returned),
             pc' \in {"idle", "decoding", "reading"}, result' \in Results
      PROVE  TypeOK'
  <2>1. /\ q \in Nat /\ start <= q /\ q < end
        /\ FrameLen(buffer, q) \in Nat /\ q + FrameLen(buffer, q) <= end
    BY <1>5, WholeCandidate DEF Take
  <2>2. taken' \in Seq([at : Nat, len : Nat, returned : BOOLEAN])
    BY <1>0, <1>5, <2>1 DEF Take, TypeOK
  <2>3. /\ buffer' \in [Slots -> Byte] /\ base' \in Nat
        /\ start' \in 0 .. end' /\ end' \in 0 .. Capacity
    BY <1>0, <1>5, <2>1 DEF Take, Advance, Clear
  <2>4. QED
    BY <1>5, <2>2, <2>3 DEF Take, TypeOK
<1>6. ASSUME NEW q \in Slots, NEW outcome \in {"message", "parse_error"},
             ReturnFrame(q, outcome)
      PROVE  TypeOK'
  BY <1>5, <1>6 DEF ReturnFrame, Results
<1>7. ASSUME NEW q \in Slots, RefuseFrame(q) PROVE TypeOK'
  BY <1>5, <1>7 DEF RefuseFrame, TypeOK
<1>8. ASSUME NEW n \in 1 .. Capacity, ReadChunk(n) PROVE TypeOK'
  <2>1. /\ n \in Nat /\ end + n <= Capacity /\ base + end + n <= input.len
        /\ input.len \in Nat /\ input.at \in [0 .. input.len - 1 -> Byte]
    BY <1>0, <1>8, DecoderAssumption DEF ReadChunk, TypeOK
  <2>2. ASSUME NEW i \in end .. end + n - 1 PROVE input.at[base + i] \in Byte
    <3>1. base + i \in 0 .. input.len - 1
      BY <1>0, <2>1
    <3>2. QED
      BY <2>1, <3>1
  <2>3. buffer' \in [Slots -> Byte]
    BY <1>0, <1>8, <2>2 DEF ReadChunk
  <2>4. QED
    BY <1>0, <1>8, <2>1, <2>3 DEF ReadChunk, TypeOK
<1>9. ASSUME NEW failure \in Failures, ReadFails(failure) PROVE TypeOK'
  BY <1>9 DEF ReadFails, TypeOK, decoder, Results
<1>10. CASE UNCHANGED vars
  BY <1>10 DEF vars, TypeOK
<1>11. QED
  BY <1>1, <1>2, <1>3, <1>4, <1>6, <1>7, <1>8, <1>9, <1>10
  DEF Next, Decode, Source, Caller

\* Every reachable state has the types TypeOK gives.
THEOREM TypeCorrect == Spec => []TypeOK
  BY TypeInit, TypeStep, PTL DEF Spec

-----------------------------------------------------------------------------
(* What a candidate is in the window, it is in the stream.                 *)

LEMMA WindowDecides ==
  ASSUME TypeOK, WindowMatchesInput, NEW q \in start .. end - 1
  PROVE  /\ input.at[base + q] = buffer[q]
         /\ HeaderPrefix(input.at, base + q) = HeaderPrefix(buffer, q)
         /\ PrefixArrived(q) =>
              /\ FlagsSupported(input.at, base + q) <=> FlagsSupported(buffer, q)
              /\ FrameLen(input.at, base + q) = FrameLen(buffer, q)
              /\ FrameLen(buffer, q) \in Nat /\ 0 < FrameLen(buffer, q)
              /\ FrameLen(buffer, q) <= MAX_FRAME_SIZE
              /\ FrameArrived(q) =>
                   (CrcMatches(input.at, base + q) <=> CrcMatches(buffer, q))
<1>1. /\ q \in Nat /\ base \in Nat /\ base + q \in Int /\ end \in Nat /\ end <= Capacity
      /\ end - q \in Nat /\ 0 < end - q /\ start \in Nat /\ Capacity \in Nat
  BY CapacityType DEF TypeOK
<1>2. \A i \in 0 .. (end - q) - 1 : buffer[q + i] = input.at[(base + q) + i]
  <2>1. ASSUME NEW i \in 0 .. (end - q) - 1 PROVE buffer[q + i] = input.at[(base + q) + i]
    <3>1. q + i \in start .. end - 1 /\ base + (q + i) = (base + q) + i
      BY <1>1
    <3>2. QED
      BY <3>1 DEF WindowMatchesInput
  <2>2. QED
    BY <2>1
<1>3. input.at[base + q] = buffer[q]
  BY DEF WindowMatchesInput
<1>4. HeaderPrefix(input.at, base + q) = HeaderPrefix(buffer, q)
  BY <1>3 DEF HeaderPrefix
<1>5. ASSUME PrefixArrived(q)
      PROVE  /\ FlagsSupported(input.at, base + q) <=> FlagsSupported(buffer, q)
             /\ FrameLen(input.at, base + q) = FrameLen(buffer, q)
             /\ FrameLen(buffer, q) \in Nat /\ 0 < FrameLen(buffer, q)
             /\ FrameLen(buffer, q) <= MAX_FRAME_SIZE
             /\ FrameArrived(q) =>
                  (CrcMatches(input.at, base + q) <=> CrcMatches(buffer, q))
  <2>1. HeaderPrefix(buffer, q) <= end - q
    BY <1>1, <1>5 DEF PrefixArrived, HeaderPrefix
  <2>2. q \in Int /\ base + q \in Int /\ end - q \in Nat /\ 0 < end - q
    BY <1>1
  <2>3. /\ IncompatFlags(input.at, base + q) = IncompatFlags(buffer, q)
        /\ FrameLen(input.at, base + q) = FrameLen(buffer, q)
    BY ONLY <1>2, <2>1, <2>2, PrefixDecides, Zenon
  <2>4. q + PAYLOAD_LEN_OFFSET \in Slots
    BY <1>1, <2>1 DEF HeaderPrefix, PAYLOAD_LEN_OFFSET, Slots
  <2>5. buffer[q + PAYLOAD_LEN_OFFSET] \in Byte
    BY <2>4 DEF TypeOK
  <2>6. /\ FrameLen(buffer, q) \in Nat /\ 0 < FrameLen(buffer, q)
        /\ FrameLen(buffer, q) <= MAX_FRAME_SIZE
    BY <1>1, <2>5, LayoutBounds, CapacityType
  <2>7. ASSUME FrameArrived(q)
        PROVE  CrcMatches(input.at, base + q) <=> CrcMatches(buffer, q)
    <3>1. FrameLen(buffer, q) <= end - q
      BY <1>1, <2>6, <2>7 DEF FrameArrived
    <3>2. QED
      BY <1>1, <1>2, <2>5, <3>1, FrameDecides
  <2>8. QED
    BY <2>3, <2>6, <2>7 DEF FlagsSupported
<1>6. QED
  BY <1>3, <1>4, <1>5

\* A byte that is no marker begins no frame, however much more arrives.
LEMMA NoMarkerNoFrame ==
  ASSUME TypeOK, WindowMatchesInput, NEW p \in start .. end - 1,
         buffer[p] \notin Marker(filter), NEW m
  PROVE  ~ FrameAt(input.at, base + p, m, filter)
BY DEF WindowMatchesInput, FrameAt

\* A rejected candidate begins no frame, however much more arrives.
LEMMA MalformedNoFrame ==
  ASSUME TypeOK, WindowMatchesInput, NEW q \in start .. end - 1, Malformed(q), NEW m
  PROVE  ~ FrameAt(input.at, base + q, m, filter)
BY WindowDecides DEF Malformed, FrameAt

\* A candidate the decoder waits on is no whole frame in what has arrived.
LEMMA IncompleteNoFrame ==
  ASSUME TypeOK, WindowMatchesInput, NEW q \in start .. end - 1, Incomplete(q)
  PROVE  ~ FrameAt(input.at, base + q, received, filter)
<1>1. base \in Nat /\ q \in Int /\ end \in Int
  BY CapacityType DEF TypeOK
<1>2. CASE ~ PrefixArrived(q)
  BY <1>1, <1>2, WindowDecides DEF PrefixArrived, FrameAt, received, HeaderPrefix
<1>3. CASE PrefixArrived(q)
  BY <1>1, <1>3, WindowDecides DEF Incomplete, FrameArrived, FrameAt, received
<1>4. QED
  BY <1>2, <1>3

\* A candidate the decoder takes is a frame of the stream.
LEMMA ValidFrame ==
  ASSUME TypeOK, WindowMatchesInput, NEW q, FirstMarker(q), Valid(q)
  PROVE  /\ FrameAt(input.at, base + q, input.len, filter)
         /\ FrameLen(input.at, base + q) = FrameLen(buffer, q)
         /\ base + q + FrameLen(buffer, q) <= received
<1>1. /\ q \in start .. end - 1 /\ q \in Int /\ base \in Nat /\ end \in Int
      /\ input.len \in Nat /\ base + end <= input.len
  BY CapacityType, DecoderAssumption DEF FirstMarker, TypeOK, WindowMatchesInput, received
<1>2. /\ PrefixArrived(q) /\ FrameArrived(q)
      /\ FlagsSupported(buffer, q) /\ CrcMatches(buffer, q) /\ buffer[q] \in Marker(filter)
  BY DEF Valid, FirstMarker
<1>3. /\ input.at[base + q] \in Marker(filter)
      /\ FlagsSupported(input.at, base + q) /\ CrcMatches(input.at, base + q)
      /\ HeaderPrefix(input.at, base + q) = HeaderPrefix(buffer, q)
      /\ FrameLen(input.at, base + q) = FrameLen(buffer, q)
      /\ FrameLen(buffer, q) \in Nat
  BY <1>1, <1>2, WindowDecides
<1>4. /\ base + q + HeaderPrefix(buffer, q) <= base + end
      /\ base + q + FrameLen(buffer, q) <= base + end
  BY <1>1, <1>2, <1>3 DEF PrefixArrived, FrameArrived, HeaderPrefix
<1>5. base + q < input.len
  BY <1>1
<1>6. QED
  BY <1>1, <1>3, <1>4, <1>5 DEF FrameAt, received, HeaderPrefix

-----------------------------------------------------------------------------
(* The safety invariants, one inductive step for each.                     *)

LEMMA BasicTypes ==
  ASSUME TypeOK
  PROVE  /\ start \in Nat /\ end \in Nat /\ start <= end /\ end <= Capacity
         /\ base \in Nat /\ Capacity \in Nat /\ Capacity >= MAX_FRAME_SIZE
         /\ input.len \in Nat /\ input.at \in [0 .. input.len - 1 -> Byte]
         /\ received \in Nat /\ cursor \in Nat
BY CapacityType, DecoderAssumption DEF TypeOK, received, cursor

LEMMA WindowStep ==
  ASSUME TypeOK, WindowMatchesInput, [Next]_vars
  PROVE  WindowMatchesInput'
<1>0. /\ start \in Nat /\ end \in Nat /\ start <= end /\ end <= Capacity
      /\ base \in Nat /\ Capacity \in Nat /\ input.len \in Nat
      /\ base + end <= input.len
      /\ \A i \in start .. end - 1 : buffer[i] = input.at[base + i]
  BY BasicTypes DEF WindowMatchesInput, received
<1>1. ASSUME UNCHANGED decoder, UNCHANGED input PROVE WindowMatchesInput'
  BY <1>0, <1>1 DEF WindowMatchesInput, received, decoder
<1>2. ASSUME Clear, UNCHANGED input PROVE WindowMatchesInput'
  BY <1>0, <1>2 DEF Clear, WindowMatchesInput, received
<1>3. ASSUME NEW q \in Slots, AwaitBytes(q) PROVE WindowMatchesInput'
  <2>1. q \in Nat /\ start <= q /\ q < end
    BY <1>0, <1>3 DEF AwaitBytes, FirstMarker
  <2>2. /\ start' = 0 /\ end' = end - q /\ base' = base + q /\ input' = input
        /\ buffer' = [i \in Slots |-> IF i < end - q THEN buffer[q + i] ELSE buffer[i]]
    BY <1>3 DEF AwaitBytes, Compact
  <2>3. ASSUME NEW i \in 0 .. (end - q) - 1 PROVE buffer'[i] = input.at[(base + q) + i]
    <3>1. i \in Slots /\ i < end - q
      BY <1>0, <2>1 DEF Slots
    <3>2. buffer'[i] = buffer[q + i]
      BY <2>2, <3>1
    <3>3. q + i \in start .. end - 1 /\ base + (q + i) = (base + q) + i
      BY <1>0, <2>1
    <3>4. QED
      BY <1>0, <3>2, <3>3
  <2>4. QED
    BY <1>0, <2>1, <2>2, <2>3 DEF WindowMatchesInput, received
<1>4. ASSUME NEW q \in Slots, RejectCandidate(q) PROVE WindowMatchesInput'
  BY <1>0, <1>4 DEF RejectCandidate, FirstMarker, WindowMatchesInput, received
<1>5. ASSUME NEW q \in Slots, NEW returned, Take(q, returned) PROVE WindowMatchesInput'
  <2>1. CASE q + FrameLen(buffer, q) = end
    BY <1>2, <1>5, <2>1 DEF Take, Advance
  <2>2. CASE q + FrameLen(buffer, q) # end
    <3>1. start' = q + FrameLen(buffer, q) /\ UNCHANGED <<buffer, end, base, input>>
      BY <1>5, <2>2 DEF Take, Advance
    <3>2. /\ FrameLen(buffer, q) \in Nat /\ start <= q /\ q \in Nat
      BY <1>5, WholeCandidate DEF Take
    <3>3. QED
      BY <1>0, <3>1, <3>2 DEF WindowMatchesInput, received
  <2>3. QED
    BY <2>1, <2>2
<1>6. ASSUME NEW n \in 1 .. Capacity, ReadChunk(n) PROVE WindowMatchesInput'
  <2>1. /\ n \in Nat /\ end + n <= Capacity /\ base + end + n <= input.len
        /\ start' = start /\ end' = end + n /\ base' = base /\ input' = input
        /\ buffer' = [i \in Slots |->
                        IF i \in end .. end + n - 1 THEN input.at[base + i] ELSE buffer[i]]
    BY <1>0, <1>6 DEF ReadChunk
  <2>2. ASSUME NEW i \in start .. end + n - 1 PROVE buffer'[i] = input.at[base + i]
    <3>1. i \in Slots /\ (i \in start .. end - 1 \/ i \in end .. end + n - 1)
      BY <1>0, <2>1 DEF Slots
    <3>2. QED
      BY <1>0, <2>1, <3>1
  <2>3. QED
    BY <1>0, <2>1, <2>2 DEF WindowMatchesInput, received
<1>7. QED
  BY <1>1, <1>2, <1>3, <1>4, <1>5, <1>6
  DEF Next, Decode, Source, Caller, Call, NoMarker, ReturnFrame, RefuseFrame, ReadFails,
      vars, decoder

LEMMA SpaceStep ==
  ASSUME TypeOK, WindowMatchesInput, ReadMoreHasSpace, [Next]_vars
  PROVE  ReadMoreHasSpace'
<1>0. /\ start \in Nat /\ end \in Nat /\ start <= end /\ Capacity \in Nat
      /\ 3 <= MAX_FRAME_SIZE /\ MAX_FRAME_SIZE \in Nat /\ MAX_FRAME_SIZE <= Capacity
      /\ Capacity' = Capacity
  BY BasicTypes, CapacityType, LayoutAssumption DEF MAX_FRAME_SIZE, STX_SIZE
<1>1. ASSUME NEW q \in Slots, AwaitBytes(q) PROVE end - q < MAX_FRAME_SIZE
  <2>1. q \in start .. end - 1 /\ Incomplete(q) /\ q \in Int
    BY <1>0, <1>1 DEF AwaitBytes, FirstMarker
  <2>2. CASE ~ PrefixArrived(q)
    BY <1>0, <2>1, <2>2 DEF PrefixArrived, HeaderPrefix
  <2>3. CASE PrefixArrived(q)
    <3>1. FrameLen(buffer, q) \in Nat /\ FrameLen(buffer, q) <= MAX_FRAME_SIZE
      BY <2>1, <2>3, WindowDecides
    <3>2. ~ (q + FrameLen(buffer, q) <= end)
      BY <2>1, <2>3 DEF Incomplete, FrameArrived
    <3>3. QED
      BY <1>0, <2>1, <3>1, <3>2
  <2>4. QED
    BY <2>2, <2>3
<1>2. ASSUME NEW q \in Slots, AwaitBytes(q) PROVE ReadMoreHasSpace'
  BY <1>0, <1>1, <1>2 DEF AwaitBytes, Compact, ReadMoreHasSpace
<1>3. CASE NoMarker
  BY <1>0, <1>3 DEF NoMarker, Clear, ReadMoreHasSpace
<1>4. ASSUME pc' # "reading" PROVE ReadMoreHasSpace'
  BY <1>4 DEF ReadMoreHasSpace
<1>5. ASSUME NEW q \in Slots, RejectCandidate(q) \/ RefuseFrame(q) PROVE pc' # "reading"
  BY <1>5 DEF RejectCandidate, RefuseFrame, Take
<1>6. CASE UNCHANGED vars
  BY <1>6, <1>0 DEF vars, ReadMoreHasSpace
<1>7. QED
  BY <1>2, <1>3, <1>4, <1>5, <1>6
  DEF Next, Decode, Source, Caller, Call, ReturnFrame, ReadChunk, ReadFails

LEMMA WaitsStep ==
  ASSUME TypeOK, WindowMatchesInput, WaitsOnlyForMissingBytes, [Next]_vars
  PROVE  WaitsOnlyForMissingBytes'
<1>0. /\ start \in Nat /\ end \in Nat /\ start <= end /\ base \in Nat
  BY BasicTypes
<1>1. ASSUME NEW q \in Slots, AwaitBytes(q) PROVE WaitsOnlyForMissingBytes'
  <2>1. q \in start .. end - 1 /\ Incomplete(q) /\ q \in Int
    BY <1>0, <1>1 DEF AwaitBytes, FirstMarker
  <2>2. /\ cursor' = base + q /\ received' = received /\ input' = input /\ filter' = filter
    BY <1>0, <1>1, <2>1 DEF AwaitBytes, Compact, cursor, received
  <2>3. ~ FrameAt(input.at, base + q, received, filter)
    BY <2>1, IncompleteNoFrame
  <2>4. QED
    BY <2>2, <2>3 DEF WaitsOnlyForMissingBytes
<1>2. CASE NoMarker
  <2>1. cursor' = received' /\ received' \in Int
    BY <1>0, <1>2 DEF NoMarker, Clear, cursor, received
  <2>2. QED
    BY <2>1 DEF WaitsOnlyForMissingBytes, FrameAt
<1>3. ASSUME pc' # "reading" PROVE WaitsOnlyForMissingBytes'
  BY <1>3 DEF WaitsOnlyForMissingBytes
<1>4. ASSUME NEW q \in Slots, RejectCandidate(q) \/ RefuseFrame(q) PROVE pc' # "reading"
  BY <1>4 DEF RejectCandidate, RefuseFrame, Take
<1>5. CASE UNCHANGED vars
  BY <1>5 DEF vars, WaitsOnlyForMissingBytes, cursor, received
<1>6. QED
  BY <1>1, <1>2, <1>3, <1>4, <1>5
  DEF Next, Decode, Source, Caller, Call, ReturnFrame, ReadChunk, ReadFails

\* The cursor never goes back, and a taken frame lies between its two values.
LEMMA TakenStep ==
  ASSUME TypeOK, TakenOnce, [Next]_vars
  PROVE  TakenOnce'
<1>a. /\ start \in Nat /\ end \in Nat /\ start <= end /\ base \in Nat /\ cursor = base + start
  BY BasicTypes DEF cursor
<1>b. /\ \A i \in 1 .. Len(taken) : taken[i].at \in Nat /\ taken[i].len \in Nat
      /\ Len(taken) \in Nat /\ DOMAIN taken = 1 .. Len(taken)
  <2>1. taken \in Seq([at : Nat, len : Nat, returned : BOOLEAN])
    BY DEF TypeOK
  <2>2. Len(taken) \in Nat /\ DOMAIN taken = 1 .. Len(taken)
    BY <2>1
  <2>3. \A i \in 1 .. Len(taken) : taken[i] \in [at : Nat, len : Nat, returned : BOOLEAN]
    BY <2>1, ElementOfSeq
  <2>4. QED
    BY <2>2, <2>3
<1>0. /\ start \in Nat /\ end \in Nat /\ start <= end /\ base \in Nat /\ cursor = base + start
      /\ \A i \in 1 .. Len(taken) : taken[i].at \in Nat /\ taken[i].len \in Nat
      /\ Len(taken) \in Nat /\ DOMAIN taken = 1 .. Len(taken)
  BY <1>a, <1>b
<1>1. ASSUME cursor' \in Int, cursor <= cursor', taken' = taken PROVE TakenOnce'
  BY <1>0, <1>1 DEF TakenOnce
<1>2. ASSUME UNCHANGED decoder, taken' = taken PROVE TakenOnce'
  BY <1>2 DEF TakenOnce, cursor, decoder
<1>3. CASE NoMarker
  BY <1>0, <1>1, <1>3 DEF NoMarker, Clear, cursor
<1>4. ASSUME NEW q \in Slots, AwaitBytes(q) PROVE TakenOnce'
  BY <1>0, <1>1, <1>4 DEF AwaitBytes, FirstMarker, Compact, cursor
<1>5. ASSUME NEW q \in Slots, RejectCandidate(q) PROVE TakenOnce'
  BY <1>0, <1>1, <1>5 DEF RejectCandidate, FirstMarker, cursor
<1>6. ASSUME NEW q \in Slots, NEW returned, Take(q, returned) PROVE TakenOnce'
  <2> DEFINE frame == [at |-> base + q, len |-> FrameLen(buffer, q), returned |-> returned]
  <2>1. /\ q \in Nat /\ start <= q /\ q < end
        /\ FrameLen(buffer, q) \in Nat /\ q + FrameLen(buffer, q) <= end
    BY <1>6, WholeCandidate DEF Take
  <2>2. cursor' = base + q + FrameLen(buffer, q)
    <3>1. CASE q + FrameLen(buffer, q) = end
      <4>1. start' = 0 /\ base' = base + end
        BY <1>6, <3>1 DEF Take, Advance, Clear
      <4>2. cursor' = base + end
        BY <1>0, <4>1 DEF cursor
      <4>3. end = q + FrameLen(buffer, q)
        BY <3>1
      <4>4. QED
        BY <1>0, <2>1, <4>2, <4>3
    <3>2. CASE q + FrameLen(buffer, q) # end
      <4>1. start' = q + FrameLen(buffer, q) /\ base' = base
        BY <1>6, <3>2 DEF Take, Advance
      <4>2. QED
        BY <1>0, <2>1, <4>1 DEF cursor
    <3>3. QED
      BY <3>1, <3>2
  <2>3. taken' = Append(taken, frame)
    BY <1>6 DEF Take
  <2>4. /\ Len(taken') = Len(taken) + 1 /\ DOMAIN taken' = 1 .. Len(taken) + 1
        /\ taken'[Len(taken) + 1] = frame
        /\ \A i \in 1 .. Len(taken) : taken'[i] = taken[i]
    BY <1>0, <2>3 DEF TypeOK
  <2>5. \A i \in 1 .. Len(taken) : taken[i].at + taken[i].len <= base + q
    BY <1>0, <2>1 DEF TakenOnce
  <2>6. ASSUME NEW i \in DOMAIN taken'
        PROVE  /\ taken'[i].at + taken'[i].len <= cursor'
               /\ \A j \in DOMAIN taken' :
                    i < j => taken'[i].at + taken'[i].len <= taken'[j].at
    <3>1. CASE i = Len(taken) + 1
      BY <1>0, <2>1, <2>2, <2>4, <3>1
    <3>2. CASE i \in 1 .. Len(taken)
      <4>1. taken'[i].at + taken'[i].len <= base + q /\ taken[i].at + taken[i].len \in Nat
        BY <1>0, <2>4, <2>5, <3>2
      <4>2. ASSUME NEW j \in 1 .. Len(taken), i < j
            PROVE  taken'[i].at + taken'[i].len <= taken'[j].at
        BY <1>0, <2>4, <3>2, <4>2 DEF TakenOnce
      <4>3. taken'[i].at + taken'[i].len <= taken'[Len(taken) + 1].at
        BY <2>4, <4>1
      <4>4. ASSUME NEW j \in DOMAIN taken', i < j
            PROVE  taken'[i].at + taken'[i].len <= taken'[j].at
        BY <1>0, <2>4, <4>2, <4>3, <4>4
      <4>5. taken'[i].at + taken'[i].len <= cursor'
        BY <1>0, <2>1, <2>2, <2>4, <3>2, <4>1
      <4>6. QED
        BY <4>4, <4>5
    <3>3. QED
      BY <1>0, <2>4, <3>1, <3>2
  <2>7. QED
    BY <2>6 DEF TakenOnce
<1>7. ASSUME NEW n \in 1 .. Capacity, ReadChunk(n) PROVE TakenOnce'
  BY <1>0, <1>1, <1>7 DEF ReadChunk, cursor
<1>8. QED
  BY <1>2, <1>3, <1>4, <1>5, <1>6, <1>7
  DEF Next, Decode, Source, Caller, Call, ReturnFrame, RefuseFrame, ReadFails, vars, decoder

\* What every reachable state satisfies.
DecoderInv ==
  TypeOK /\ WindowMatchesInput /\ ReadMoreHasSpace /\ WaitsOnlyForMissingBytes /\ TakenOnce

LEMMA InvInit == Init => DecoderInv
<1> SUFFICES ASSUME Init PROVE DecoderInv
  OBVIOUS
<1>1. TypeOK
  BY TypeInit
<1>2. WindowMatchesInput
  BY <1>1, BasicTypes DEF Init, WindowMatchesInput, received
<1>3. QED
  BY <1>1, <1>2
  DEF DecoderInv, Init, ReadMoreHasSpace, WaitsOnlyForMissingBytes, TakenOnce

THEOREM DecoderInvariant == Spec => []DecoderInv
<1>1. DecoderInv /\ [Next]_vars => DecoderInv'
  BY TypeStep, WindowStep, SpaceStep, WaitsStep, TakenStep DEF DecoderInv
<1>2. QED
  BY <1>1, InvInit, PTL DEF Spec

\* The buffered window is the stretch of the stream it claims to be.
THEOREM WindowCorrect == Spec => []WindowMatchesInput
  BY DecoderInvariant, PTL DEF DecoderInv

\* The assertion of read_more never fails, at any capacity.
THEOREM ReadMoreCorrect == Spec => []ReadMoreHasSpace
  BY DecoderInvariant, PTL DEF DecoderInv

\* The reader never waits for the source over a whole frame.
THEOREM WaitsCorrect == Spec => []WaitsOnlyForMissingBytes
  BY DecoderInvariant, PTL DEF DecoderInv

\* No byte is delivered twice or out of order.
THEOREM TakenCorrect == Spec => []TakenOnce
  BY DecoderInvariant, PTL DEF DecoderInv

-----------------------------------------------------------------------------
(* The decoder implements the scanner.                                     *)

\* The scanner's own copy of the layout is the layout.
LEMMA ScannerLayout ==
  ASSUME NEW b, NEW p, NEW n, NEW f
  PROVE  /\ Scanner!FrameAt(b, p, n, f) <=> FrameAt(b, p, n, f)
         /\ Scanner!FrameLen(b, p) = FrameLen(b, p)
<1>1. /\ Scanner!HeaderPrefix(b, p) = HeaderPrefix(b, p)
      /\ Scanner!IncompatFlags(b, p) = IncompatFlags(b, p)
      /\ Scanner!HeaderSize(b, p) = HeaderSize(b, p)
  BY DEF Scanner!HeaderPrefix, HeaderPrefix, Scanner!IncompatFlags, IncompatFlags,
         Scanner!HeaderSize, HeaderSize, Scanner!MarkerVersion, MarkerVersion,
         Scanner!HasFlag, HasFlag, Scanner!INCOMPAT_FLAGS_OFFSET, INCOMPAT_FLAGS_OFFSET,
         Scanner!IFLAG_SYSID32, IFLAG_SYSID32
<1>2. Scanner!ChecksumOffset(b, p) = ChecksumOffset(b, p)
  BY <1>1 DEF Scanner!ChecksumOffset, ChecksumOffset, Scanner!STX_SIZE, STX_SIZE,
              Scanner!PAYLOAD_LEN_OFFSET, PAYLOAD_LEN_OFFSET
<1>3. Scanner!FrameLen(b, p) = FrameLen(b, p)
  BY <1>1, <1>2 DEF Scanner!FrameLen, FrameLen, Scanner!IsSigned, IsSigned,
              Scanner!HasFlag, HasFlag, Scanner!IFLAG_SIGNED, IFLAG_SIGNED
<1>4. Scanner!FlagsSupported(b, p) <=> FlagsSupported(b, p)
  BY <1>1 DEF Scanner!FlagsSupported, FlagsSupported, Scanner!SUPPORTED_IFLAGS,
              SUPPORTED_IFLAGS, Scanner!IFLAG_SIGNED, IFLAG_SIGNED,
              Scanner!IFLAG_SYSID32, IFLAG_SYSID32
<1>5. Scanner!CrcMatches(b, p) <=> CrcMatches(b, p)
  BY <1>1, <1>2 DEF Scanner!CrcMatches, CrcMatches, Scanner!MessageId, MessageId
<1>6. QED
  BY <1>1, <1>3, <1>4, <1>5 DEF Scanner!FrameAt, FrameAt, Scanner!Marker, Marker

\* The cursor may pass over bytes of the window that begin no frame.
LEMMA PassWindow ==
  ASSUME TypeOK, WindowMatchesInput, NEW q \in start .. end,
         \A p \in start .. q - 1 : ~ FrameAt(input.at, base + p, input.len, filter),
         cursor' = base + q, UNCHANGED <<input, received, filter, taken>>
  PROVE  Scanner!Next
<1>0. /\ start \in Nat /\ end \in Nat /\ base \in Nat /\ q \in Nat
      /\ cursor = base + start /\ received = base + end
  BY BasicTypes DEF cursor, received
<1>1. base + q \in cursor .. received
  BY <1>0
<1>2. ASSUME NEW p \in cursor .. (base + q) - 1 PROVE ~ Scanner!BeginsFrame(p)
  <2>1. p - base \in start .. q - 1 /\ base + (p - base) = p
    BY <1>0
  <2>2. ~ FrameAt(input.at, p, input.len, filter)
    BY <2>1
  <2>3. QED
    BY <2>2, ScannerLayout DEF Scanner!BeginsFrame
<1>3. Scanner!Pass(base + q)
  BY <1>1, <1>2 DEF Scanner!Pass
<1>4. QED
  BY <1>1, <1>3 DEF Scanner!Next

LEMMA ImplementsInit == Init => Scanner!Init
BY DEF Init, Scanner!Init, received, cursor, Filters, Scanner!Filters, Versions,
       Scanner!Versions

LEMMA ImplementsStep ==
  ASSUME DecoderInv, [Next]_vars
  PROVE  [Scanner!Next]_Scanner!vars
<1>0. /\ start \in Nat /\ end \in Nat /\ start <= end /\ base \in Nat
      /\ cursor = base + start /\ received = base + end
      /\ input.len \in Nat /\ received <= input.len
      /\ TypeOK /\ WindowMatchesInput
  BY BasicTypes DEF DecoderInv, cursor, received, WindowMatchesInput
<1>1. ASSUME NEW q \in start .. end - 1, FirstMarker(q), NEW p \in start .. q - 1
      PROVE  ~ FrameAt(input.at, base + p, input.len, filter)
  BY <1>0, <1>1, NoMarkerNoFrame DEF FirstMarker
<1>2. ASSUME NEW f \in Filters, NEW s \in Policies, Call(f, s) PROVE Scanner!Next
  <2>1. Scanner!Choose(f) /\ f \in Scanner!Filters
    BY <1>2 DEF Call, Scanner!Choose, decoder, cursor, received, Filters, Scanner!Filters,
                Versions, Scanner!Versions
  <2>2. QED
    BY <2>1 DEF Scanner!Next
<1>3. CASE NoMarker
  <2>1. \A p \in start .. end - 1 : ~ FrameAt(input.at, base + p, input.len, filter)
    BY <1>0, <1>3, NoMarkerNoFrame DEF NoMarker
  <2>2. cursor' = base + end /\ UNCHANGED <<input, received, filter, taken>>
    BY <1>0, <1>3 DEF NoMarker, Clear, cursor, received
  <2>3. QED
    BY <1>0, <2>1, <2>2, PassWindow
<1>4. ASSUME NEW q \in Slots, AwaitBytes(q) PROVE Scanner!Next
  <2>1. q \in start .. end - 1 /\ FirstMarker(q) /\ q \in Nat
    BY <1>0, <1>4 DEF AwaitBytes, FirstMarker
  <2>2. cursor' = base + q /\ UNCHANGED <<input, received, filter, taken>>
    BY <1>0, <1>4, <2>1 DEF AwaitBytes, Compact, cursor, received
  <2>3. \A p \in start .. q - 1 : ~ FrameAt(input.at, base + p, input.len, filter)
    BY <1>1, <2>1
  <2>4. QED
    BY <1>0, <2>1, <2>2, <2>3, PassWindow
<1>5. ASSUME NEW q \in Slots, RejectCandidate(q) PROVE Scanner!Next
  <2>1. q \in start .. end - 1 /\ FirstMarker(q) /\ Malformed(q) /\ q \in Nat
    BY <1>0, <1>5 DEF RejectCandidate, FirstMarker
  <2>2. cursor' = base + (q + 1) /\ UNCHANGED <<input, received, filter, taken>>
    BY <1>0, <1>5, <2>1 DEF RejectCandidate, cursor, received
  <2>3. ~ FrameAt(input.at, base + q, input.len, filter)
    BY <1>0, <2>1, MalformedNoFrame
  <2>4. \A p \in start .. (q + 1) - 1 : ~ FrameAt(input.at, base + p, input.len, filter)
    <3>1. ASSUME NEW p \in start .. (q + 1) - 1
          PROVE  ~ FrameAt(input.at, base + p, input.len, filter)
      <4>1. p = q \/ p \in start .. q - 1
        BY <1>0, <2>1
      <4>2. QED
        BY <1>1, <2>1, <2>3, <4>1
    <3>2. QED
      BY <3>1
  <2>5. q + 1 \in start .. end
    BY <1>0, <2>1
  <2>6. QED
    BY <1>0, <2>2, <2>4, <2>5, PassWindow
<1>6. ASSUME NEW q \in Slots, NEW returned \in BOOLEAN, Take(q, returned)
      PROVE  Scanner!Next
  <2>1. /\ q \in Nat /\ start <= q /\ q < end /\ FirstMarker(q) /\ Valid(q)
        /\ FrameLen(buffer, q) \in Nat /\ q + FrameLen(buffer, q) <= end
    BY <1>0, <1>6, WholeCandidate DEF Take
  <2>2. /\ FrameAt(input.at, base + q, input.len, filter)
        /\ FrameLen(input.at, base + q) = FrameLen(buffer, q)
        /\ base + q + FrameLen(buffer, q) <= received
    BY <1>0, <2>1, ValidFrame
  <2>3. /\ Scanner!BeginsFrame(base + q)
        /\ Scanner!FrameLen(input.at, base + q) = FrameLen(buffer, q)
    BY <2>2, ScannerLayout DEF Scanner!BeginsFrame
  <2>4. ASSUME NEW p \in cursor .. (base + q) - 1 PROVE ~ Scanner!BeginsFrame(p)
    <3>1. p - base \in start .. q - 1 /\ base + (p - base) = p /\ q \in start .. end - 1
      BY <1>0, <2>1
    <3>2. ~ FrameAt(input.at, p, input.len, filter)
      BY <1>1, <2>1, <3>1
    <3>3. QED
      BY <3>2, ScannerLayout DEF Scanner!BeginsFrame
  <2>5. base' + start' = base + q + FrameLen(buffer, q) /\ base' + end' = base + end
    <3>1. CASE q + FrameLen(buffer, q) = end
      <4>1. start' = 0 /\ end' = 0 /\ base' = base + end
        BY <1>6, <3>1 DEF Take, Advance, Clear
      <4>2. QED
        BY <1>0, <2>1, <3>1, <4>1
    <3>2. CASE q + FrameLen(buffer, q) # end
      <4>1. start' = q + FrameLen(buffer, q) /\ base' = base /\ end' = end
        BY <1>6, <3>2 DEF Take, Advance
      <4>2. QED
        BY <1>0, <2>1, <4>1
    <3>3. QED
      BY <3>1, <3>2
  <2>6. /\ cursor' = base + q + FrameLen(buffer, q) /\ received' = received
        /\ input' = input /\ filter' = filter
        /\ taken' = Append(taken, [at |-> base + q, len |-> FrameLen(buffer, q),
                                   returned |-> returned])
    BY <1>0, <1>6, <2>5 DEF Take, cursor, received
  <2>7. base + q \in cursor .. received - 1 /\ base + q \in cursor .. received
    BY <1>0, <2>1
  <2>8. Scanner!Take(base + q, returned)
    BY <2>2, <2>3, <2>4, <2>6, <2>7 DEF Scanner!Take
  <2>9. QED
    BY <2>7, <2>8 DEF Scanner!Next
<1>7. ASSUME NEW n \in 1 .. Capacity, ReadChunk(n) PROVE Scanner!Next
  <2>1. n \in 1 .. Capacity - end /\ base + end + n <= input.len
    BY <1>7 DEF ReadChunk
  <2>2. /\ received' = received + n /\ cursor' = cursor
        /\ UNCHANGED <<input, filter, taken>>
    BY <1>0, <1>7, <2>1, BasicTypes DEF ReadChunk, received, cursor
  <2>3. received + n \in received .. input.len
    BY <1>0, <2>1, BasicTypes
  <2>4. Scanner!Receive(received + n)
    BY <2>2, <2>3 DEF Scanner!Receive
  <2>5. QED
    BY <2>3, <2>4 DEF Scanner!Next
<1>8. ASSUME NEW failure, ReadFails(failure) PROVE UNCHANGED Scanner!vars
  BY <1>8 DEF ReadFails, decoder, Scanner!vars, cursor, received
<1>9. CASE UNCHANGED vars
  BY <1>9 DEF vars, Scanner!vars, cursor, received
<1>10. QED
  BY <1>2, <1>3, <1>4, <1>5, <1>6, <1>7, <1>8, <1>9
  DEF Next, Decode, Source, Caller, ReturnFrame, RefuseFrame

\* Decoding promises what FrameScanner says, whatever the capacity, the
\* chunks, the failed reads and the versions asked for.
THEOREM ScannerImplemented == Spec => ImplementsScanner
<1>1. DecoderInv /\ [Next]_vars => [Scanner!Next]_Scanner!vars
  BY ImplementsStep
<1>2. QED
  BY <1>1, ImplementsInit, DecoderInvariant, PTL DEF Spec, ImplementsScanner, Scanner!Spec

=============================================================================
