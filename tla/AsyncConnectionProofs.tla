----------------------- MODULE AsyncConnectionProofs -----------------------
(***************************************************************************)
(* Proofs about AsyncConnection, for any number of tasks, calls, frames    *)
(* and drops; and, last, about AsyncSession, where connections are opened  *)
(* beside: a session is a behaviour of each of the two specifications it   *)
(* composes, and keeps what they keep.                                     *)
(***************************************************************************)
EXTENDS AsyncSession, WaitingFramesProofs

Opening == INSTANCE ConnectionConfigProofs WITH Openers <- Tasks

-----------------------------------------------------------------------------
(***************************************************************************)
(* The inductive invariant.                                                *)
(***************************************************************************)

\* Who reads or writes holds the lock.
LocksHeld ==
  \A t \in Tasks :
    /\ pc[t] = "decode" => reader = t
    /\ pc[t] = "write" => writer = t

CallsInPlace ==
  \A t \in Tasks :
    /\ pc[t] \in {"want_reader", "decode"} => call[t] \in Receives
    /\ pc[t] \in {"want_writer", "write"} => call[t] \in Sends
    /\ outcome[t].what = "sent" => pc[t] = "idle"

\* The parts written so far of the frame being written end the wire.
FrameBegun ==
  \A t \in Tasks :
    pc[t] = "write" =>
      /\ part[t] < WriteParts /\ part[t] <= Len(wire)
      /\ \A k \in 1 .. part[t] :
           /\ wire[Len(wire) - part[t] + k].by = t
           /\ wire[Len(wire) - part[t] + k].header = header[t]
           /\ wire[Len(wire) - part[t] + k].part = k

\* The frames of a chunk have arrived, and from its sender.
ChunkFrames ==
  \A c \in DOMAIN socket : \A i \in DOMAIN socket[c].frames :
    /\ socket[c].frames[i] \in DOMAIN arrivals
    /\ arrivals[socket[c].frames[i]].from = socket[c].from

\* So have those that were read; another datagram was read since, or their
\* sender is the destination.
BufferedFrames ==
  \A i \in DOMAIN buffered :
    /\ buffered[i] \in DOMAIN arrivals
    /\ transport = "udp_server" /\ buffered[i] \notin overtaken =>
         arrivals[buffered[i]].from = destination

IInv ==
  /\ TypeOK
  /\ LocksHeld /\ CallsInPlace
  /\ FrameBegun /\ SentWhole
  /\ RecvPersists
  /\ ChunkFrames /\ BufferedFrames

Phases == {"idle", "panicked", "want_reader", "decode", "want_writer", "write"}
Chunk == [from : Peers, frames : Seq(Nat)]

-----------------------------------------------------------------------------
(***************************************************************************)
(* The initial states.                                                     *)
(***************************************************************************)
LEMMA InitInv == Init => IInv
  <1> SUFFICES ASSUME Init PROVE IInv
    OBVIOUS
  <1> USE AsyncAssumption
  <1>1. TypeOK
    <2>1. WriteParts \in Nat
      BY DEF WriteParts
    <2>2. outcome \in [Tasks -> Outcomes] /\ Other("none") = [what |-> "none", nr |-> 0, version |-> "none"]
      BY DEF Init, Other, Outcome, Outcomes
    <2>3. header \in [Tasks -> Nat] /\ part \in [Tasks -> 0 .. WriteParts]
      BY <2>1 DEF Init, Raw
    <2>4. /\ arrivals \in Seq(Frames) /\ socket \in Seq([from : Peers, frames : Seq(Nat)])
          /\ buffered \in Seq(Nat) /\ handed \in Seq(Nat)
          /\ wire \in Seq([by : Tasks, header : Nat, part : Nat, to : Peers \union {NoPeer}])
      BY DEF Init
    <2>5. destination \in Peers \union {NoPeer}
      BY DEF Init
    <2>6. withheld \in BOOLEAN /\ overtaken \subseteq Nat
      BY DEF Init
    <2> QED
      BY <2>2, <2>3, <2>4, <2>5, <2>6 DEF Init, TypeOK
  <1>2. LocksHeld /\ CallsInPlace /\ FrameBegun /\ SentWhole /\ RecvPersists
    BY DEF Init, LocksHeld, CallsInPlace, FrameBegun, SentWhole, RecvPersists, Other, Outcome
  <1>3. ChunkFrames /\ BufferedFrames
    BY DEF Init, ChunkFrames, BufferedFrames
  <1> QED
    BY <1>1, <1>2, <1>3 DEF IInv

(***************************************************************************)
(* The types.                                                              *)
(***************************************************************************)
LEMMA TypeOfWorld == TypeOK /\ World => TypeOK'
  <1> SUFFICES ASSUME TypeOK, World PROVE TypeOK'
    OBVIOUS
  <1> USE DEF TypeOK, candidate, sending, WriteParts, Datagrams
  <1>1. ASSUME NEW k \in 0 .. MaxArrivals, NEW frame \in Frames, Arrive(k, frame)
        PROVE TypeOK'
    <2> DEFINE some == [i \in 1 .. k |-> frame]
               numbers == [i \in 1 .. k |-> Len(arrivals) + i]
    <2>1. k \in Nat /\ frame.from \in Peers
      BY AsyncAssumption
    <2>2. some \in Seq(Frames) /\ numbers \in Seq(Nat)
      BY <2>1
    <2>3. arrivals' \in Seq(Frames)
      BY <2>2, <1>1 DEF Arrive
    <2>4. socket' \in Seq([from : Peers, frames : Seq(Nat)])
      BY <2>1, <2>2, <1>1 DEF Arrive
    <2> QED
      BY <2>3, <2>4, <1>1 DEF Arrive
  <1>2. ASSUME NEW v \in Versions, SetProtocolVersion(v) PROVE TypeOK'
    BY <1>2, AsyncAssumption DEF SetProtocolVersion, receiving
  <1>3. CASE SetAllowRecvAnyVersion
    BY <1>3 DEF SetAllowRecvAnyVersion, receiving
  <1> QED
    BY <1>1, <1>2, <1>3 DEF World

LEMMA TypeOfCall ==
  ASSUME TypeOK, NEW t \in Tasks, NEW operation \in Operations, Call(t, operation)
  PROVE  TypeOK'
  BY DEF TypeOK, Call, GoTo, Other, Outcome, Outcomes, candidate, receiving, sending,
         WriteParts, Datagrams

LEMMA OutcomesGiven ==
  /\ \A what \in {"eof", "io_error", "parse_error", "skipped", "sent", "encoder_error",
                  "dropped"} : Other(what) \in Outcomes
  /\ TypeOK => \A nr \in Nat : Message(nr) \in Outcomes
  BY DEF Other, Message, Outcome, Outcomes, TypeOK

LEMMA TypeOfReturn ==
  ASSUME TypeOK, NEW t \in Tasks, NEW answer \in Outcomes, Return(t, answer)
  PROVE  pc' \in [Tasks -> Phases] /\ outcome' \in [Tasks -> Outcomes]
  BY DEF TypeOK, Return, GoTo, Phases

LEMMA TypeOfGiveError ==
  ASSUME TypeOK, NEW t \in Tasks, NEW error \in {"eof", "io_error", "parse_error"},
         GiveError(t, error)
  PROVE  /\ pc' \in [Tasks -> Phases] /\ outcome' \in [Tasks -> Outcomes]
         /\ reader' \in Tasks \union {NoTask} /\ handed' = handed
  <1>1. CASE UNCHANGED <<pc, outcome, reader>>
    BY <1>1 DEF GiveError, TypeOK, Phases
  <1>2. CASE Return(t, Other(error)) /\ reader' = NoTask
    <2>1. Other(error) \in Outcomes
      BY OutcomesGiven
    <2> QED
      BY <1>2, <2>1, TypeOfReturn DEF GiveError
  <1> QED
    BY <1>1, <1>2 DEF GiveError

LEMMA TypeOfOvertake == ASSUME TypeOK, Overtake PROVE overtaken' \subseteq Nat
  BY DEF TypeOK, Overtake, Range

LEMMA TypeOfReceive == ASSUME TypeOK, NEW t \in Tasks, Receive(t) PROVE TypeOK'
  <1> USE DEF TypeOK, outside, candidate, sending, WriteParts, Datagrams
  <1>1. CASE LockReader(t)
    BY <1>1 DEF LockReader, GoTo
  <1>2. CASE DecodeFrame(t)
    <2> DEFINE nr == Head(buffered)
    <2>1. nr \in Nat /\ Tail(buffered) \in Seq(Nat)
      BY <1>2 DEF DecodeFrame
    <2>2. /\ pc' \in [Tasks -> Phases] /\ outcome' \in [Tasks -> Outcomes]
          /\ reader' \in Tasks \union {NoTask} /\ handed' \in Seq(Nat)
      <3>1. CASE UNCHANGED <<pc, outcome, reader, handed>>
        BY <3>1 DEF Phases
      <3>2. CASE GiveMessage(t, nr)
        <4>1. Message(nr) \in Outcomes
          BY <2>1, OutcomesGiven
        <4>2. pc' \in [Tasks -> Phases] /\ outcome' \in [Tasks -> Outcomes]
          BY <3>2, <4>1, TypeOfReturn DEF GiveMessage
        <4> QED
          BY <2>1, <3>2, <4>2 DEF GiveMessage
      <3>3. CASE GiveError(t, "parse_error")
        BY <3>3, TypeOfGiveError
      <3> QED
        BY <1>2, <3>1, <3>2, <3>3 DEF DecodeFrame
    <2> QED
      BY <1>2, <2>1, <2>2 DEF DecodeFrame, Phases
  <1>3. CASE ReadChunk(t)
    <2>1. Head(socket) \in Chunk /\ Tail(socket) \in Seq(Chunk)
      <3>1. socket \in Seq(Chunk) /\ socket # <<>>
        BY <1>3 DEF ReadChunk, Chunk
      <3> QED
        BY ONLY <3>1, HeadTailProperties
    <2>2. overtaken' \subseteq Nat
      BY <1>3, TypeOfOvertake DEF ReadChunk
    <2>3. buffered' \in Seq(Nat)
      <3>1. /\ buffered \in Seq(Nat) /\ Head(socket).frames \in Seq(Nat)
            /\ buffered' = buffered \o Head(socket).frames
        BY <1>3, <2>1 DEF ReadChunk, Chunk
      <3> QED
        BY ONLY <3>1, ConcatProperties
    <2>4. /\ socket' \in Seq(Chunk) /\ destination' \in Peers \union {NoPeer}
          /\ withheld' \in BOOLEAN
      BY <1>3, <2>1 DEF ReadChunk, Chunk
    <2>5. UNCHANGED <<outside, pc, call, outcome, sending, reader, handed>>
      BY <1>3 DEF ReadChunk
    <2> QED
      BY <2>2, <2>3, <2>4, <2>5 DEF Chunk
  <1> QED
    BY <1>1, <1>2, <1>3 DEF Receive

LEMMA TypeOfSend == ASSUME TypeOK, FrameBegun, NEW t \in Tasks, Send(t) PROVE TypeOK'
  <1> USE DEF TypeOK, outside, candidate, receiving, GoTo, Return, Other, Outcome, Outcomes
  <1>1. CASE SkipSend(t)
    BY <1>1 DEF SkipSend, sending, WriteParts, Datagrams
  <1>2. CASE StartWrite(t)
    <2>1. Draws(t) \in Nat /\ Draws(t) * (drawn + 1) \in Nat
      BY DEF Draws
    <2>2. 0 \in 0 .. WriteParts
      BY AsyncAssumption DEF WriteParts
    <2>3. header' \in [Tasks -> Nat] /\ drawn' \in Nat
      BY <1>2, <2>1 DEF StartWrite
    <2> QED
      BY <1>2, <2>2, <2>3 DEF StartWrite, WriteParts, Datagrams
  <1>3. CASE EncodeFails(t)
    BY <1>3 DEF EncodeFails, WriteParts, Datagrams
  <1>4. CASE EncodePanics(t)
    BY <1>4 DEF EncodePanics, WriteParts, Datagrams
  <1>5. CASE WritePart(t)
    <2>1. WriteParts' = WriteParts /\ WriteParts \in Nat /\ part[t] < WriteParts
      BY <1>5, AsyncAssumption DEF WritePart, FrameBegun, WriteParts, Datagrams
    <2>2. part' \in [Tasks -> 0 .. WriteParts']
      BY <1>5, <2>1 DEF WritePart
    <2>3. wire' \in Seq([by : Tasks, header : Nat, part : Nat, to : Peers \union {NoPeer}])
      BY <1>5, <2>1 DEF WritePart
    <2>4. /\ pc' \in [Tasks -> Phases] /\ outcome' \in [Tasks -> Outcomes]
          /\ writer' \in Tasks \union {NoTask}
      <3>1. CASE Return(t, Other("sent")) /\ writer' = NoTask
        BY <3>1 DEF Phases
      <3>2. CASE UNCHANGED <<pc, outcome, writer>>
        BY <3>2 DEF Phases
      <3> QED
        BY <1>5, <3>1, <3>2 DEF WritePart
    <2>5. UNCHANGED <<outside, call, receiving, drawn, header>>
      BY <1>5 DEF WritePart
    <2> QED
      BY <2>2, <2>3, <2>4, <2>5 DEF Phases
  <1> QED
    BY <1>1, <1>2, <1>3, <1>4, <1>5 DEF Send

LEMMA TypeOfFail == ASSUME TypeOK, NEW t \in Tasks, Fail(t) PROVE TypeOK'
  <1> USE DEF TypeOK, outside, candidate, WriteParts, Datagrams
  <1>1. ASSUME NEW error \in {"eof", "io_error"}, ReadFails(t, error) PROVE TypeOK'
    <2>1. /\ pc' \in [Tasks -> Phases] /\ outcome' \in [Tasks -> Outcomes]
          /\ reader' \in Tasks \union {NoTask} /\ handed' = handed
      BY <1>1, TypeOfGiveError DEF ReadFails
    <2> QED
      BY <1>1, <2>1 DEF ReadFails, sending, Phases
  <1>2. CASE WriteFails(t)
    BY <1>2, OutcomesGiven, TypeOfReturn DEF WriteFails, receiving, Phases
  <1>3. CASE Cancel(t)
    BY <1>3, OutcomesGiven, TypeOfReturn DEF Cancel, Phases
  <1>4. CASE AwaitRest(t)
    BY <1>4 DEF AwaitRest, sending
  <1>5. ASSUME NEW from \in Peers, ReadEmpty(t, from) PROVE TypeOK'
    <2>1. /\ pc' \in [Tasks -> Phases] /\ outcome' \in [Tasks -> Outcomes]
          /\ reader' \in Tasks \union {NoTask} /\ handed' = handed
          /\ overtaken' \subseteq Nat
      BY <1>5, TypeOfGiveError, TypeOfOvertake DEF ReadEmpty
    <2> QED
      BY <1>5, <2>1 DEF ReadEmpty, sending, Phases
  <1> QED
    BY <1>1, <1>2, <1>3, <1>4, <1>5 DEF Fail

LEMMA TypeOfNext == TypeOK /\ FrameBegun /\ [Next]_vars => TypeOK'
  <1> SUFFICES ASSUME TypeOK, FrameBegun, [Next]_vars PROVE TypeOK'
    OBVIOUS
  <1>1. CASE UNCHANGED vars
    BY <1>1 DEF TypeOK, vars, outside, candidate, receiving, sending, WriteParts, Datagrams
  <1>2. CASE Next
    BY <1>2, TypeOfWorld, TypeOfCall, TypeOfReceive, TypeOfSend, TypeOfFail DEF Next
  <1> QED
    BY <1>1, <1>2

(***************************************************************************)
(* The locks, and where the calls are.                                     *)
(***************************************************************************)
LEMMA LocksOfReceive ==
  ASSUME TypeOK, LocksHeld, CallsInPlace, NEW t \in Tasks, Receive(t)
  PROVE  LocksHeld' /\ CallsInPlace'
  <1> USE AsyncAssumption DEF TypeOK, LocksHeld, CallsInPlace, outside, sending
  <1>1. CASE LockReader(t)
    BY <1>1 DEF LockReader, GoTo, ReaderFree
  <1>2. CASE DecodeFrame(t)
    <2>1. /\ pc[t] = "decode" /\ UNCHANGED <<call, writer>>
          /\ \/ UNCHANGED <<pc, outcome, reader>>
             \/ \E answer : Return(t, answer) /\ answer.what # "sent" /\ reader' = NoTask
      BY <1>2 DEF DecodeFrame, GiveMessage, GiveError, Message, Other, Outcome
    <2> QED
      BY <2>1 DEF Return, GoTo
  <1>3. CASE ReadChunk(t)
    BY <1>3 DEF ReadChunk
  <1> QED
    BY <1>1, <1>2, <1>3 DEF Receive

LEMMA LocksOfSend ==
  ASSUME TypeOK, LocksHeld, CallsInPlace, NEW t \in Tasks, Send(t)
  PROVE  LocksHeld' /\ CallsInPlace'
  <1> USE AsyncAssumption DEF TypeOK, LocksHeld, CallsInPlace, outside, receiving, GoTo, Return,
                              Other, Outcome
  <1>1. CASE SkipSend(t)
    BY <1>1 DEF SkipSend, sending
  <1>2. CASE StartWrite(t)
    BY <1>2 DEF StartWrite, WriterReady
  <1>3. CASE EncodeFails(t)
    BY <1>3 DEF EncodeFails
  <1>4. CASE EncodePanics(t)
    BY <1>4 DEF EncodePanics
  <1>5. CASE WritePart(t)
    BY <1>5 DEF WritePart
  <1> QED
    BY <1>1, <1>2, <1>3, <1>4, <1>5 DEF Send

LEMMA LocksOfFail ==
  ASSUME TypeOK, LocksHeld, CallsInPlace, NEW t \in Tasks, Fail(t)
  PROVE  LocksHeld' /\ CallsInPlace'
  <1> USE AsyncAssumption DEF TypeOK, LocksHeld, CallsInPlace, outside, GoTo, Return, Other, Outcome
  <1>1. ASSUME NEW error \in {"eof", "io_error"}, ReadFails(t, error)
        PROVE  LocksHeld' /\ CallsInPlace'
    <2>1. /\ pc[t] = "decode" /\ UNCHANGED <<call, writer>>
          /\ \/ UNCHANGED <<pc, outcome, reader>>
             \/ Return(t, Other(error)) /\ reader' = NoTask
      BY <1>1 DEF ReadFails, Reads, GiveError, sending
    <2> QED
      BY <2>1
  <1>2. CASE WriteFails(t)
    BY <1>2 DEF WriteFails, receiving
  <1>3. CASE Cancel(t)
    BY <1>3 DEF Cancel
  <1>4. CASE AwaitRest(t)
    BY <1>4 DEF AwaitRest, sending
  <1>5. ASSUME NEW from \in Peers, ReadEmpty(t, from)
        PROVE  LocksHeld' /\ CallsInPlace'
    <2>1. /\ pc[t] = "decode" /\ UNCHANGED <<call, writer>>
          /\ \/ UNCHANGED <<pc, outcome, reader>>
             \/ Return(t, Other("eof")) /\ reader' = NoTask
      BY <1>5 DEF ReadEmpty, Reads, GiveError, sending
    <2> QED
      BY <2>1
  <1> QED
    BY <1>1, <1>2, <1>3, <1>4, <1>5 DEF Fail

LEMMA LocksOfNext ==
  TypeOK /\ LocksHeld /\ CallsInPlace /\ [Next]_vars => LocksHeld' /\ CallsInPlace'
  <1> SUFFICES ASSUME TypeOK, LocksHeld, CallsInPlace, [Next]_vars
               PROVE  LocksHeld' /\ CallsInPlace'
    OBVIOUS
  <1>1. CASE UNCHANGED <<pc, call, outcome, reader, writer>>
    BY <1>1 DEF LocksHeld, CallsInPlace
  <1>2. CASE World
    BY <1>1, <1>2 DEF World, Arrive, SetProtocolVersion, SetAllowRecvAnyVersion, receiving, sending
  <1>3. ASSUME NEW t \in Tasks, NEW operation \in Operations, Call(t, operation)
        PROVE  LocksHeld' /\ CallsInPlace'
    BY <1>3, AsyncAssumption
    DEF TypeOK, LocksHeld, CallsInPlace, Call, GoTo, Other, Outcome, receiving, sending
  <1>4. CASE UNCHANGED vars
    BY <1>1, <1>4 DEF vars, receiving, sending
  <1> QED
    BY <1>2, <1>3, <1>4, LocksOfReceive, LocksOfSend, LocksOfFail DEF Next

(***************************************************************************)
(* What is on the wire.                                                    *)
(***************************************************************************)

\* A step that writes nothing.
LEMMA WireKept ==
  ASSUME TypeOK, FrameBegun, SentWhole,
         UNCHANGED <<transport, wire>>,
         \A u \in Tasks : pc'[u] = "write" =>
           \/ pc[u] = "write" /\ header'[u] = header[u] /\ part'[u] = part[u]
           \/ part'[u] = 0,
         \A u \in Tasks : outcome'[u].what = "sent" =>
           outcome[u].what = "sent" /\ header'[u] = header[u]
  PROVE  FrameBegun' /\ SentWhole'
  <1>1. WriteParts' = WriteParts /\ WriteParts \in Nat \ {0}
    BY AsyncAssumption DEF WriteParts, Datagrams
  <1>2. FrameBegun'
    <2> SUFFICES ASSUME NEW u \in Tasks, pc'[u] = "write"
                 PROVE  /\ part'[u] < WriteParts' /\ part'[u] <= Len(wire')
                        /\ \A k \in 1 .. part'[u] :
                             /\ wire'[Len(wire') - part'[u] + k].by = u
                             /\ wire'[Len(wire') - part'[u] + k].header = header'[u]
                             /\ wire'[Len(wire') - part'[u] + k].part = k
      BY DEF FrameBegun
    <2>1. CASE part'[u] = 0
      <3>1. Len(wire) \in Nat
        BY LenProperties DEF TypeOK
      <3> QED
        BY <1>1, <2>1, <3>1
    <2>2. CASE pc[u] = "write" /\ header'[u] = header[u] /\ part'[u] = part[u]
      BY <1>1, <2>2 DEF FrameBegun
    <2> QED
      BY <2>1, <2>2
  <1>3. SentWhole'
    BY <1>1 DEF SentWhole
  <1> QED
    BY <1>2, <1>3

LEMMA WireOfWritePart ==
  ASSUME TypeOK, LocksHeld, CallsInPlace, FrameBegun, SentWhole, NEW t \in Tasks, WritePart(t)
  PROVE  FrameBegun' /\ SentWhole'
  <1> DEFINE written == [by |-> t, header |-> header[t], part |-> part[t] + 1, to |-> destination]
             Entry == [by : Tasks, header : Nat, part : Nat, to : Peers \union {NoPeer}]
  <1>1. WriteParts' = WriteParts /\ WriteParts \in Nat \ {0}
    BY AsyncAssumption DEF WritePart, outside, WriteParts, Datagrams
  <1>2. part[t] \in Nat /\ part[t] < WriteParts /\ part[t] <= Len(wire) /\ Len(wire) \in Nat
    BY <1>1, LenProperties DEF TypeOK, FrameBegun, WritePart
  <1>3. /\ Len(wire') = Len(wire) + 1 /\ wire'[Len(wire) + 1] = written
        /\ \A i \in 1 .. Len(wire) : wire'[i] = wire[i]
        /\ DOMAIN wire = 1 .. Len(wire) /\ DOMAIN wire' = 1 .. Len(wire) + 1
    <2>1. wire \in Seq(Entry) /\ written \in Entry /\ wire' = Append(wire, written)
      BY <1>2 DEF TypeOK, WritePart
    <2> HIDE DEF Entry, written
    <2> QED
      BY <2>1, AppendProperties, LenProperties
  <1>4. \A u \in Tasks : u # t => pc'[u] # "write" /\ outcome'[u] = outcome[u]
    BY DEF TypeOK, LocksHeld, WritePart, Return, GoTo
  <1>5. part' = [part EXCEPT ![t] = part[t] + 1] /\ header' = header
    BY DEF WritePart
  <1>6. \A k \in 1 .. part[t] + 1 :
          LET w == wire'[Len(wire) - part[t] + k]
          IN  w.by = t /\ w.header = header[t] /\ w.part = k
    <2> SUFFICES ASSUME NEW k \in 1 .. part[t] + 1
                 PROVE  LET w == wire'[Len(wire) - part[t] + k]
                        IN  w.by = t /\ w.header = header[t] /\ w.part = k
      OBVIOUS
    <2>1. CASE k = part[t] + 1
      <3>1. wire'[Len(wire) - part[t] + k] = written
        BY <1>2, <1>3, <2>1
      <3> QED
        BY <2>1, <3>1
    <2>2. CASE k \in 1 .. part[t]
      <3>1. Len(wire) - part[t] + k \in 1 .. Len(wire)
        BY <1>2, <2>2
      <3>2. pc[t] = "write"
        BY DEF WritePart
      <3> QED
        BY <1>3, <2>2, <3>1, <3>2 DEF FrameBegun
    <2> QED
      BY <1>2, <2>1, <2>2
  <1>7. FrameBegun'
    <2> SUFFICES ASSUME pc'[t] = "write"
                 PROVE  /\ part'[t] < WriteParts' /\ part'[t] <= Len(wire')
                        /\ \A k \in 1 .. part'[t] :
                             /\ wire'[Len(wire') - part'[t] + k].by = t
                             /\ wire'[Len(wire') - part'[t] + k].header = header'[t]
                             /\ wire'[Len(wire') - part'[t] + k].part = k
      BY <1>4 DEF FrameBegun
    <2>1. part'[t] = part[t] + 1
      BY <1>5 DEF TypeOK
    <2>2. part[t] + 1 # WriteParts
      BY DEF WritePart, Return, GoTo, TypeOK
    <2>3. Len(wire') - part'[t] = Len(wire) - part[t]
      BY <1>2, <1>3, <2>1
    <2>4. part'[t] < WriteParts' /\ part'[t] <= Len(wire')
      BY <1>1, <1>2, <1>3, <2>1, <2>2
    <2>5. \A k \in 1 .. part'[t] :
            /\ wire'[Len(wire') - part'[t] + k].by = t
            /\ wire'[Len(wire') - part'[t] + k].header = header'[t]
            /\ wire'[Len(wire') - part'[t] + k].part = k
      BY <1>5, <1>6, <2>1, <2>3
    <2> QED
      BY <2>4, <2>5
  <1>8. SentWhole'
    <2> SUFFICES ASSUME NEW u \in Tasks, outcome'[u].what = "sent"
                 PROVE  \E i \in DOMAIN wire' :
                          /\ i + WriteParts' - 1 \in DOMAIN wire'
                          /\ \A k \in 1 .. WriteParts' :
                               LET w == wire'[i + k - 1]
                               IN  w.by = u /\ w.header = header'[u] /\ w.part = k
      BY DEF SentWhole
    <2>1. CASE outcome'[u] = outcome[u]
      <3>1. PICK i \in DOMAIN wire :
              /\ i + WriteParts - 1 \in DOMAIN wire
              /\ \A k \in 1 .. WriteParts :
                   LET w == wire[i + k - 1]
                   IN  w.by = u /\ w.header = header[u] /\ w.part = k
        BY <2>1 DEF SentWhole
      <3>2. \A k \in 1 .. WriteParts : wire'[i + k - 1] = wire[i + k - 1]
        BY <1>1, <1>2, <1>3, <3>1
      <3>3. \A k \in 1 .. WriteParts' :
              LET w == wire'[i + k - 1]
              IN  w.by = u /\ w.header = header'[u] /\ w.part = k
        BY <1>1, <1>5, <3>1, <3>2
      <3>4. i \in DOMAIN wire' /\ i + WriteParts' - 1 \in DOMAIN wire'
        BY <1>1, <1>2, <1>3, <3>1
      <3> QED
        BY ONLY <3>3, <3>4, Zenon
    <2>2. CASE outcome'[u] # outcome[u]
      <3>1. u = t /\ part[t] + 1 = WriteParts
        BY <1>4, <2>2 DEF WritePart
      <3> DEFINE start == Len(wire) - part[t] + 1
      <3>2. start \in DOMAIN wire' /\ start + WriteParts' - 1 \in DOMAIN wire'
        BY <1>1, <1>2, <1>3, <3>1
      <3>3. \A k \in 1 .. WriteParts' :
              LET w == wire'[start + k - 1]
              IN  w.by = u /\ w.header = header'[u] /\ w.part = k
        <4> SUFFICES ASSUME NEW k \in 1 .. WriteParts'
                     PROVE  LET w == wire'[start + k - 1]
                            IN  w.by = u /\ w.header = header'[u] /\ w.part = k
          OBVIOUS
        <4>1. start + k - 1 = Len(wire) - part[t] + k /\ k \in 1 .. part[t] + 1
          BY <1>1, <1>2, <3>1
        <4> QED
          BY <1>5, <1>6, <3>1, <4>1
      <3> HIDE DEF start
      <3> QED
        BY ONLY <3>2, <3>3, Zenon
    <2> QED
      BY <2>1, <2>2
  <1> QED
    BY <1>7, <1>8

LEMMA WireOfNext ==
  TypeOK /\ LocksHeld /\ CallsInPlace /\ FrameBegun /\ SentWhole /\ [Next]_vars
    => FrameBegun' /\ SentWhole'
  <1> SUFFICES ASSUME TypeOK, LocksHeld, CallsInPlace, FrameBegun, SentWhole, [Next]_vars
               PROVE  FrameBegun' /\ SentWhole'
    OBVIOUS
  <1>1. CASE UNCHANGED <<transport, pc, outcome, sending>>
    BY <1>1, WireKept DEF sending
  <1>2. CASE World
    BY <1>1, <1>2 DEF World, Arrive, SetProtocolVersion, SetAllowRecvAnyVersion
  <1>3. ASSUME NEW t \in Tasks, NEW operation \in Operations, Call(t, operation)
        PROVE  FrameBegun' /\ SentWhole'
    <2>1. UNCHANGED <<transport, wire, header, part>>
      BY <1>3 DEF Call, sending
    <2>2. \A u \in Tasks : pc'[u] = "write" => pc[u] = "write"
      BY <1>3 DEF TypeOK, Call, GoTo
    <2>3. \A u \in Tasks : outcome'[u].what = "sent" => outcome[u].what = "sent"
      BY <1>3 DEF TypeOK, Call, Other, Outcome
    <2> QED
      BY <2>1, <2>2, <2>3, WireKept
  <1>4. ASSUME NEW t \in Tasks, Receive(t) PROVE FrameBegun' /\ SentWhole'
    <2>1. UNCHANGED <<transport, wire, header, part>>
      BY <1>4 DEF Receive, LockReader, DecodeFrame, ReadChunk, outside, sending
    <2>2. /\ \A u \in Tasks : pc'[u] = "write" => pc[u] = "write"
          /\ \A u \in Tasks : outcome'[u].what = "sent" => outcome[u].what = "sent"
      <3>1. CASE LockReader(t) \/ ReadChunk(t)
        BY <3>1 DEF TypeOK, LockReader, ReadChunk, GoTo
      <3>2. CASE DecodeFrame(t)
        <4>1. \/ UNCHANGED <<pc, outcome>>
              \/ \E answer : Return(t, answer) /\ answer.what # "sent"
          BY <3>2 DEF DecodeFrame, GiveMessage, GiveError, Message, Other, Outcome
        <4> QED
          BY <4>1 DEF TypeOK, Return, GoTo
      <3> QED
        BY <1>4, <3>1, <3>2 DEF Receive
    <2> QED
      BY <2>1, <2>2, WireKept
  <1>5. ASSUME NEW t \in Tasks, Send(t) PROVE FrameBegun' /\ SentWhole'
    <2>1. CASE SkipSend(t)
      <3>1. UNCHANGED <<transport, sending>>
        BY <2>1 DEF SkipSend, outside
      <3>2. /\ \A u \in Tasks : pc'[u] = "write" => pc[u] = "write"
            /\ \A u \in Tasks : outcome'[u].what = "sent" => outcome[u].what = "sent"
        BY <2>1 DEF TypeOK, SkipSend, Return, GoTo, Other, Outcome
      <3> QED
        BY <3>1, <3>2, WireKept DEF sending
    <2>2. CASE StartWrite(t)
      <3>1. UNCHANGED <<transport, wire, outcome>>
        BY <2>2 DEF StartWrite, outside
      <3>2. \A u \in Tasks : pc'[u] = "write" =>
              \/ pc[u] = "write" /\ header'[u] = header[u] /\ part'[u] = part[u]
              \/ part'[u] = 0
        BY <2>2 DEF TypeOK, StartWrite, GoTo
      <3>3. \A u \in Tasks : outcome[u].what = "sent" => header'[u] = header[u]
        BY <2>2 DEF TypeOK, CallsInPlace, StartWrite
      <3> QED
        BY <3>1, <3>2, <3>3, WireKept
    <2>3. CASE EncodeFails(t) \/ EncodePanics(t)
      <3>1. UNCHANGED <<transport, wire, header, part>>
        BY <2>3 DEF EncodeFails, EncodePanics, outside
      <3>2. /\ \A u \in Tasks : pc'[u] = "write" => pc[u] = "write"
            /\ \A u \in Tasks : outcome'[u].what = "sent" => outcome[u].what = "sent"
        <4>1. CASE EncodeFails(t)
          BY <4>1 DEF TypeOK, EncodeFails, Return, GoTo, Other, Outcome
        <4>2. CASE EncodePanics(t)
          BY <4>2 DEF TypeOK, EncodePanics, GoTo
        <4> QED
          BY <2>3, <4>1, <4>2
      <3> QED
        BY <3>1, <3>2, WireKept
    <2>4. CASE WritePart(t)
      BY <2>4, WireOfWritePart
    <2> QED
      BY <1>5, <2>1, <2>2, <2>3, <2>4 DEF Send
  <1>6. ASSUME NEW t \in Tasks, Fail(t) PROVE FrameBegun' /\ SentWhole'
    <2>1. UNCHANGED <<transport, wire, header, part>>
      BY <1>6 DEF Fail, AwaitRest, ReadEmpty, ReadFails, WriteFails, Cancel, outside, sending
    <2>2. /\ \A u \in Tasks : pc'[u] = "write" => pc[u] = "write"
          /\ \A u \in Tasks : outcome'[u].what = "sent" => outcome[u].what = "sent"
      <3>1. \/ UNCHANGED <<pc, outcome>>
            \/ \E answer : Return(t, answer) /\ answer.what # "sent"
        BY <1>6 DEF Fail, AwaitRest, ReadEmpty, ReadFails, WriteFails, Cancel, GiveError, Other,
                    Outcome
      <3> QED
        BY <3>1 DEF TypeOK, Return, GoTo
    <2> QED
      BY <2>1, <2>2, WireKept
  <1>7. CASE UNCHANGED vars
    BY <1>1, <1>7 DEF vars, outside, sending
  <1> QED
    BY <1>2, <1>3, <1>4, <1>5, <1>6, <1>7 DEF Next

(***************************************************************************)
(* What a recv gives up on.                                                *)
(***************************************************************************)

\* An error that is returned is not retried.
LEMMA ErrorsGivenUp ==
  ASSUME TypeOK, RecvPersists, NEW t \in Tasks, NEW error \in {"eof", "io_error", "parse_error"},
         GiveError(t, error), UNCHANGED <<transport, call>>
  PROVE  RecvPersists'
  <1>1. CASE UNCHANGED outcome
    BY <1>1 DEF RecvPersists
  <1>2. CASE Return(t, Other(error)) /\ ~ (call[t] # "try_recv" /\ Retries(error))
    <2>1. outcome'[t].what = error /\ \A u \in Tasks \ {t} : outcome'[u] = outcome[u]
      BY <1>2 DEF TypeOK, Return, Other, Outcome
    <2>2. /\ transport # "tcp" /\ call[t] \in Receives \ {"try_recv"}
          => error = "eof" /\ transport \in {"serial", "file"}
      BY <1>2, AsyncAssumption DEF TypeOK, Retries, Datagrams
    <2> QED
      BY <2>1, <2>2 DEF RecvPersists
  <1> QED
    BY <1>1, <1>2 DEF GiveError

LEMMA PersistsInNext ==
  TypeOK /\ CallsInPlace /\ RecvPersists /\ [Next]_vars => RecvPersists'
  <1> SUFFICES ASSUME TypeOK, CallsInPlace, RecvPersists, [Next]_vars
               PROVE  RecvPersists'
    OBVIOUS
  <1>1. CASE UNCHANGED <<transport, call, outcome>>
    BY <1>1 DEF RecvPersists
  <1>2. CASE World
    BY <1>1, <1>2 DEF World, Arrive, SetProtocolVersion, SetAllowRecvAnyVersion
  <1>3. ASSUME NEW t \in Tasks,
               UNCHANGED transport, \A u \in Tasks \ {t} : call'[u] = call[u],
               \/ outcome'[t].what \notin {"parse_error", "eof", "io_error"}
               \/ call'[t] \notin Receives,
               \A u \in Tasks \ {t} : outcome'[u] = outcome[u]
        PROVE  RecvPersists'
    BY <1>3 DEF RecvPersists
  <1>4. ASSUME NEW t \in Tasks, NEW operation \in Operations, Call(t, operation)
        PROVE  RecvPersists'
    <2>1. /\ UNCHANGED transport /\ \A u \in Tasks \ {t} : call'[u] = call[u]
          /\ outcome'[t].what = "none" /\ \A u \in Tasks \ {t} : outcome'[u] = outcome[u]
      BY <1>4 DEF TypeOK, Call, Other, Outcome
    <2> QED
      BY <1>3, <2>1
  <1>5. ASSUME NEW t \in Tasks, Receive(t) PROVE RecvPersists'
    <2>1. CASE LockReader(t) \/ ReadChunk(t)
      BY <1>1, <2>1 DEF LockReader, ReadChunk, outside
    <2>2. CASE DecodeFrame(t)
      <3>1. UNCHANGED <<transport, call>>
        BY <2>2 DEF DecodeFrame, outside
      <3>2. CASE UNCHANGED outcome
        BY <1>1, <3>1, <3>2
      <3>3. CASE GiveMessage(t, Head(buffered))
        <4>1. outcome'[t].what = "message" /\ \A u \in Tasks \ {t} : outcome'[u] = outcome[u]
          BY <3>3 DEF TypeOK, GiveMessage, Return, Message, Outcome
        <4> QED
          BY <1>3, <3>1, <4>1
      <3>4. CASE GiveError(t, "parse_error")
        BY <3>1, <3>4, ErrorsGivenUp
      <3> QED
        BY <2>2, <3>2, <3>3, <3>4 DEF DecodeFrame
    <2> QED
      BY <1>5, <2>1, <2>2 DEF Receive
  <1>6. ASSUME NEW t \in Tasks, Send(t) PROVE RecvPersists'
    <2>1. UNCHANGED <<transport, call>>
      BY <1>6 DEF Send, SkipSend, StartWrite, EncodeFails, EncodePanics, WritePart, outside
    <2>2. \/ UNCHANGED outcome
          \/ \E what \in {"skipped", "encoder_error", "sent"} : Return(t, Other(what))
      BY <1>6 DEF Send, SkipSend, StartWrite, EncodeFails, EncodePanics, WritePart
    <2>3. ASSUME NEW what \in {"skipped", "encoder_error", "sent"}, Return(t, Other(what))
          PROVE  outcome'[t].what = what /\ \A u \in Tasks \ {t} : outcome'[u] = outcome[u]
      BY <2>3 DEF TypeOK, Return, Other, Outcome
    <2> QED
      BY <1>1, <1>3, <2>1, <2>2, <2>3
  <1>7. ASSUME NEW t \in Tasks, Fail(t) PROVE RecvPersists'
    <2>1. UNCHANGED <<transport, call>>
      BY <1>7 DEF Fail, AwaitRest, ReadEmpty, ReadFails, WriteFails, Cancel, outside
    <2>2. ASSUME NEW error \in {"eof", "io_error"}, ReadFails(t, error) PROVE RecvPersists'
      BY <2>1, <2>2, ErrorsGivenUp DEF ReadFails
    <2>5. ASSUME NEW from \in Peers, ReadEmpty(t, from) PROVE RecvPersists'
      BY <2>1, <2>5, ErrorsGivenUp DEF ReadEmpty
    <2>6. CASE AwaitRest(t)
      BY <1>1, <2>1, <2>6 DEF AwaitRest
    <2>3. CASE WriteFails(t)
      <3>1. call[t] \notin Receives /\ \A u \in Tasks \ {t} : outcome'[u] = outcome[u]
        BY <2>3 DEF CallsInPlace, Receives, Sends, TypeOK, WriteFails, Return
      <3> QED
        BY <1>3, <2>1, <3>1
    <2>4. CASE Cancel(t)
      <3>1. outcome'[t].what = "dropped" /\ \A u \in Tasks \ {t} : outcome'[u] = outcome[u]
        BY <2>4 DEF TypeOK, Cancel, Return, Other, Outcome
      <3> QED
        BY <1>3, <2>1, <3>1
    <2> QED
      BY <1>7, <2>2, <2>3, <2>4, <2>5, <2>6 DEF Fail
  <1>8. CASE UNCHANGED vars
    BY <1>1, <1>8 DEF vars, outside
  <1> QED
    BY <1>2, <1>4, <1>5, <1>6, <1>7, <1>8 DEF Next

(***************************************************************************)
(* Where the frames that wait came from.                                   *)
(***************************************************************************)
LEMMA FramesKept ==
  ASSUME ChunkFrames, BufferedFrames,
         UNCHANGED <<transport, arrivals, destination, socket, buffered, overtaken>>
  PROVE  ChunkFrames' /\ BufferedFrames'
  BY DEF ChunkFrames, BufferedFrames

\* What a candidate withholds while a datagram is read is overtaken.
LEMMA WithheldOvertaken ==
  ASSUME NEW t \in Tasks, Reads(t), Overtake, transport = "udp_server",
         NEW i \in DOMAIN buffered
  PROVE  buffered[i] \in overtaken'
  <1>1. withheld
    BY DEF Reads
  <1> QED
    BY <1>1 DEF Overtake, Range

LEMMA FramesOfArrive ==
  ASSUME TypeOK, ChunkFrames, BufferedFrames,
         NEW k \in 0 .. MaxArrivals, NEW frame \in Frames, Arrive(k, frame)
  PROVE  ChunkFrames' /\ BufferedFrames'
  <1> DEFINE some == [i \in 1 .. k |-> frame]
             numbers == [i \in 1 .. k |-> Len(arrivals) + i]
             chunk == [from |-> frame.from, frames |-> numbers]
  <1>1. k \in Nat /\ frame.from \in Peers /\ Len(arrivals) \in Nat
    BY AsyncAssumption, LenProperties DEF TypeOK
  <1>2. /\ some \in Seq(Frames) /\ Len(some) = k /\ chunk \in Chunk
        /\ arrivals' = arrivals \o some /\ socket' = Append(socket, chunk)
        /\ UNCHANGED <<transport, destination, buffered, overtaken>>
    <2>1. some \in Seq(Frames) /\ Len(some) = k
      BY <1>1
    <2>2. chunk \in Chunk
      BY <1>1 DEF Chunk
    <2>3. /\ arrivals' = arrivals \o some /\ socket' = Append(socket, chunk)
          /\ UNCHANGED <<transport, destination, buffered, overtaken>>
      BY DEF Arrive, candidate
    <2> QED
      BY <2>1, <2>2, <2>3
  <1>3. /\ DOMAIN arrivals = 1 .. Len(arrivals) /\ DOMAIN arrivals' = 1 .. Len(arrivals) + k
        /\ \A i \in DOMAIN arrivals : arrivals'[i] = arrivals[i]
        /\ \A i \in 1 .. k : arrivals'[Len(arrivals) + i] = frame
    BY <1>1, <1>2 DEF TypeOK
  <1>4. /\ DOMAIN socket' = 1 .. Len(socket) + 1 /\ DOMAIN socket = 1 .. Len(socket)
        /\ Len(socket) \in Nat
        /\ \A c \in DOMAIN socket : socket'[c] = socket[c]
        /\ socket'[Len(socket) + 1] = chunk
    <2>1. socket \in Seq(Chunk)
      BY DEF TypeOK, Chunk
    <2> HIDE DEF chunk
    <2> QED
      BY <1>2, <2>1, AppendProperties, LenProperties
  <1>5. ChunkFrames'
    <2> SUFFICES ASSUME NEW c \in DOMAIN socket', NEW i \in DOMAIN socket'[c].frames
                 PROVE  /\ socket'[c].frames[i] \in DOMAIN arrivals'
                        /\ arrivals'[socket'[c].frames[i]].from = socket'[c].from
      BY DEF ChunkFrames
    <2>1. CASE c \in DOMAIN socket
      BY <1>1, <1>3, <1>4, <2>1 DEF ChunkFrames
    <2>2. CASE c = Len(socket) + 1
      <3>1. socket'[c].frames = numbers /\ socket'[c].from = frame.from /\ i \in 1 .. k
        BY <1>4, <2>2
      <3> QED
        BY <1>1, <1>3, <3>1
    <2> QED
      BY <1>4, <2>1, <2>2
  <1>6. BufferedFrames'
    BY <1>1, <1>2, <1>3 DEF BufferedFrames
  <1> QED
    BY <1>5, <1>6

LEMMA FramesOfReceive ==
  ASSUME TypeOK, ChunkFrames, BufferedFrames, NEW t \in Tasks, Receive(t)
  PROVE  ChunkFrames' /\ BufferedFrames'
  <1> USE DEF outside, candidate
  <1>1. CASE LockReader(t)
    BY <1>1, FramesKept DEF LockReader
  <1>2. CASE DecodeFrame(t)
    <2>1. UNCHANGED <<transport, arrivals, destination, socket, overtaken>>
          /\ buffered' = Tail(buffered) /\ buffered \in Seq(Nat) /\ buffered # <<>>
      BY <1>2 DEF TypeOK, DecodeFrame
    <2>2. \A i \in DOMAIN buffered' : i + 1 \in DOMAIN buffered /\ buffered'[i] = buffered[i + 1]
      BY <2>1
    <2> QED
      BY <2>1, <2>2 DEF ChunkFrames, BufferedFrames
  <1>3. CASE ReadChunk(t)
    <2> DEFINE first == Head(socket).frames
               sender == Head(socket).from
    <2>1. /\ UNCHANGED <<transport, arrivals>>
          /\ buffered \in Seq(Nat) /\ buffered' = buffered \o first
          /\ socket' = Tail(socket) /\ socket # <<>> /\ socket \in Seq(Chunk)
          /\ transport = "udp_server" => destination' = sender
      BY <1>3 DEF TypeOK, ReadChunk, Chunk
    <2>2. Head(socket) = socket[1] /\ 1 \in DOMAIN socket
      BY ONLY <2>1, FirstAndRest, Zenon
    <2>3. \A c \in DOMAIN socket' : c + 1 \in DOMAIN socket /\ socket'[c] = socket[c + 1]
      BY ONLY <2>1, FirstAndRest, Zenon
    <2>4. ChunkFrames'
      BY ONLY <2>1, <2>3, ChunkFrames DEF ChunkFrames
    <2>5. \A j \in DOMAIN first : first[j] \in DOMAIN arrivals /\ arrivals[first[j]].from = sender
      BY ONLY <2>1, <2>2, ChunkFrames DEF ChunkFrames
    <2>6. first \in Seq(Nat)
      <3>1. Head(socket) \in Chunk
        BY ONLY <2>1, HeadTailProperties
      <3> QED
        BY ONLY <3>1 DEF Chunk
    <2> HIDE DEF first, sender
    <2>7. \A i \in DOMAIN buffered' :
            \/ i \in DOMAIN buffered /\ buffered'[i] = buffered[i]
            \/ \E j \in DOMAIN first : buffered'[i] = first[j]
      <3>1. /\ \A i \in DOMAIN buffered : buffered'[i] = buffered[i]
            /\ \A i \in DOMAIN first : buffered'[Len(buffered) + i] = first[i]
            /\ \A i \in DOMAIN buffered' :
                 i \in DOMAIN buffered \/ i - Len(buffered) \in DOMAIN first
            /\ Len(buffered) \in Nat /\ DOMAIN buffered' = 1 .. Len(buffered) + Len(first)
        BY ONLY <2>1, <2>6, Joined, Zenon
      <3>2. \A i \in DOMAIN buffered' : Len(buffered) + (i - Len(buffered)) = i
        BY ONLY <3>1
      <3> QED
        BY ONLY <3>1, <3>2, Zenon
    <2>8. transport = "udp_server" => \A i \in DOMAIN buffered : buffered[i] \in overtaken'
      BY <1>3, WithheldOvertaken DEF ReadChunk
    <2>9. BufferedFrames'
      <3> SUFFICES ASSUME NEW i \in DOMAIN buffered'
                   PROVE  /\ buffered'[i] \in DOMAIN arrivals
                          /\ transport = "udp_server" /\ buffered'[i] \notin overtaken' =>
                               arrivals[buffered'[i]].from = destination'
        BY <2>1 DEF BufferedFrames
      <3>1. CASE i \in DOMAIN buffered /\ buffered'[i] = buffered[i]
        BY <2>8, <3>1 DEF BufferedFrames
      <3>2. ASSUME NEW j \in DOMAIN first, buffered'[i] = first[j]
            PROVE  /\ buffered'[i] \in DOMAIN arrivals
                   /\ transport = "udp_server" => arrivals[buffered'[i]].from = destination'
        BY <2>1, <2>5, <3>2
      <3> QED
        BY <2>7, <3>1, <3>2
    <2> QED
      BY <2>4, <2>9
  <1> QED
    BY <1>1, <1>2, <1>3 DEF Receive

LEMMA FramesOfNext ==
  TypeOK /\ ChunkFrames /\ BufferedFrames /\ [Next]_vars => ChunkFrames' /\ BufferedFrames'
  <1> SUFFICES ASSUME TypeOK, ChunkFrames, BufferedFrames, [Next]_vars
               PROVE  ChunkFrames' /\ BufferedFrames'
    OBVIOUS
  <1> DEFINE Kept == UNCHANGED <<transport, arrivals, destination, socket, buffered, overtaken>>
  <1>1. CASE Kept
    BY <1>1, FramesKept
  <1>2. CASE World
    <2>1. ASSUME NEW v \in Versions, SetProtocolVersion(v) PROVE Kept
      BY <2>1 DEF SetProtocolVersion, candidate, receiving
    <2>2. CASE SetAllowRecvAnyVersion
      BY <1>1, <2>2 DEF SetAllowRecvAnyVersion, candidate, receiving
    <2> QED
      BY <1>1, <1>2, <2>1, <2>2, FramesOfArrive DEF World
  <1>3. ASSUME NEW t \in Tasks, NEW operation \in Operations, Call(t, operation) PROVE Kept
    BY <1>3 DEF Call, candidate, receiving
  <1>4. ASSUME NEW t \in Tasks, Send(t) PROVE Kept
    BY <1>4 DEF Send, SkipSend, StartWrite, EncodeFails, EncodePanics, WritePart, outside, candidate, receiving
  <1>5. ASSUME NEW t \in Tasks, Fail(t) PROVE ChunkFrames' /\ BufferedFrames'
    <2>1. ASSUME NEW from \in Peers, ReadEmpty(t, from) PROVE ChunkFrames' /\ BufferedFrames'
      <3>1. UNCHANGED <<transport, arrivals, socket, buffered>> /\ transport = "udp_server"
        BY <2>1 DEF ReadEmpty, outside
      <3>2. \A i \in DOMAIN buffered : buffered[i] \in overtaken'
        BY <2>1, <3>1, WithheldOvertaken DEF ReadEmpty
      <3> QED
        BY <3>1, <3>2 DEF ChunkFrames, BufferedFrames
    <2>2. CASE \A from \in Peers : ~ ReadEmpty(t, from)
      <3>1. Kept
        BY <1>5, <2>2
        DEF Fail, AwaitRest, ReadFails, WriteFails, Cancel, outside, candidate, receiving
      <3> QED
        BY <1>1, <3>1
    <2> QED
      BY <2>1, <2>2
  <1>6. CASE UNCHANGED vars
    BY <1>1, <1>6 DEF vars, outside, candidate, receiving
  <1> QED
    BY <1>1, <1>2, <1>3, <1>4, <1>5, <1>6, FramesOfReceive DEF Next

-----------------------------------------------------------------------------
(***************************************************************************)
(* The theorems.                                                           *)
(***************************************************************************)
LEMMA StepInv == IInv /\ [Next]_vars => IInv'
  BY TypeOfNext, LocksOfNext, WireOfNext, PersistsInNext, FramesOfNext DEF IInv

LEMMA AlwaysInv == Spec => []IInv
  BY InitInv, StepInv, PTL DEF Spec

\* Every variable of an asynchronous connection keeps its type: no frame that
\* is decoded or written leaves what the connection may hold.
THEOREM TypeCorrect == Spec => []TypeOK
  BY AlwaysInv, PTL DEF IInv

\* A send that returned Ok has its whole frame on the wire in one piece,
\* however many tasks write, and wherever their sends are dropped or fail.
THEOREM SentWholeCorrect == Spec => []SentWhole
  BY AlwaysInv, PTL DEF IInv

\* A recv over UDP, a serial port or a file gives up at the end of a serial
\* port or a file only, and try_recv and TCP are the only ones to return
\* another error.
THEOREM RecvPersistsCorrect == Spec => []RecvPersists
  BY AlwaysInv, PTL DEF IInv

\* Only DecodeFrame hands a frame over: the first of those read ahead.
LEMMA HandedByDecode ==
  ASSUME Next, handed' # handed
  PROVE  \E t \in Tasks : DecodeFrame(t) /\ GiveMessage(t, Head(buffered))
  <1>1. ~ World
    BY DEF World, Arrive, SetProtocolVersion, SetAllowRecvAnyVersion, receiving
  <1>2. ASSUME NEW t \in Tasks, NEW operation \in Operations PROVE ~ Call(t, operation)
    BY DEF Call, receiving
  <1>3. ASSUME NEW t \in Tasks PROVE ~ Send(t)
    BY DEF Send, SkipSend, StartWrite, EncodeFails, EncodePanics, WritePart, receiving
  <1>4. ASSUME NEW t \in Tasks PROVE ~ Fail(t)
    BY DEF Fail, AwaitRest, ReadEmpty, ReadFails, WriteFails, Cancel, GiveError, receiving
  <1>5. ASSUME NEW t \in Tasks, Receive(t)
        PROVE  DecodeFrame(t) /\ GiveMessage(t, Head(buffered))
    BY <1>5 DEF Receive, LockReader, ReadChunk, DecodeFrame, GiveError
  <1> QED
    BY <1>1, <1>2, <1>3, <1>4, <1>5 DEF Next

\* When a UDP server hands a message over, the destination that its sends
\* share is the sender of that message, whichever task read its datagram, but
\* for a message that waited behind an incomplete candidate while another
\* datagram was read.
THEOREM RepliesReachSenderCorrect == Spec => RepliesReachSender
  <1>1. IInv /\ [Next]_vars =>
          (transport = "udp_server" /\ handed' # handed /\ Last(handed') \notin overtaken =>
             destination = arrivals[Last(handed')].from)
    <2> SUFFICES ASSUME IInv, Next, transport = "udp_server", handed' # handed,
                        Last(handed') \notin overtaken
                 PROVE  destination = arrivals[Last(handed')].from
      BY DEF vars, receiving
    <2>1. PICK t \in Tasks : DecodeFrame(t) /\ GiveMessage(t, Head(buffered))
      BY HandedByDecode
    <2>2. buffered \in Seq(Nat) /\ buffered # <<>> /\ handed \in Seq(Nat)
          /\ handed' = Append(handed, Head(buffered))
      BY <2>1 DEF IInv, TypeOK, DecodeFrame, GiveMessage
    <2>3. Last(handed') = Head(buffered)
      BY <2>2 DEF Last
    <2>4. 1 \in DOMAIN buffered /\ Head(buffered) = buffered[1]
      BY <2>2
    <2> QED
      BY <2>3, <2>4 DEF IInv, BufferedFrames
  <1> QED
    BY <1>1, AlwaysInv, PTL DEF Spec, RepliesReachSender

\* recv_frame labels a frame with the connection's version.  With one version
\* received only, the label is the frame's own, also after the version was
\* changed over frames that were read ahead.
THEOREM FrameKeepsVersionCorrect == Spec => FrameKeepsVersion
  <1> DEFINE Labelled ==
        \A t \in Tasks :
          /\ call[t] = "recv_frame" /\ ~ recv_any_version
          /\ outcome'[t] # outcome[t] /\ outcome'[t].what = "message"
          => outcome'[t].version = arrivals[outcome'[t].nr].version
  <1>1. IInv /\ [Next]_vars => Labelled
    <2> SUFFICES ASSUME IInv, Next,
                        NEW t \in Tasks, ~ recv_any_version,
                        outcome'[t] # outcome[t], outcome'[t].what = "message"
                 PROVE  outcome'[t].version = arrivals[outcome'[t].nr].version
      BY DEF vars
    <2>1. TypeOK
      BY DEF IInv
    <2>2. ~ World
      BY DEF World, Arrive, SetProtocolVersion, SetAllowRecvAnyVersion
    <2>3. ASSUME NEW u \in Tasks, NEW operation \in Operations PROVE ~ Call(u, operation)
      BY <2>1 DEF TypeOK, Call, Other, Outcome
    <2>4. ASSUME NEW u \in Tasks PROVE ~ Send(u)
      BY <2>1 DEF TypeOK, Send, SkipSend, StartWrite, EncodeFails, EncodePanics, WritePart,
                  Return, Other, Outcome
    <2>5. ASSUME NEW u \in Tasks PROVE ~ Fail(u)
      <3>1. Fail(u) => UNCHANGED outcome
                       \/ \E what \in {"eof", "io_error", "dropped"} : Return(u, Other(what))
        BY DEF Fail, AwaitRest, ReadEmpty, ReadFails, WriteFails, Cancel, GiveError
      <3>2. ASSUME NEW what \in {"eof", "io_error", "dropped"} PROVE ~ Return(u, Other(what))
        BY <2>1 DEF TypeOK, Return, Other, Outcome
      <3> QED
        BY <3>1, <3>2
    <2>6. PICK u \in Tasks : Receive(u)
      BY <2>2, <2>3, <2>4, <2>5 DEF Next
    <2>7. Accepted(Head(buffered)) /\ Return(u, Message(Head(buffered)))
      BY <2>1, <2>6 DEF TypeOK, Receive, LockReader, ReadChunk, DecodeFrame, GiveMessage, GiveError,
                        Return, Other, Outcome
    <2>8. outcome'[t] = Message(Head(buffered))
      BY <2>1, <2>7 DEF TypeOK, Return
    <2> QED
      BY <2>7, <2>8 DEF Accepted, Message, Outcome
  <1> QED
    BY <1>1, AlwaysInv, PTL DEF Spec, FrameKeepsVersion

-----------------------------------------------------------------------------
(***************************************************************************)
(* The refinement of FrameQueue.                                           *)
(***************************************************************************)

\* The frames that wait are all that arrived after those that have left, in
\* order.
QueueInv ==
  /\ WaitInOrder(buffered, socket)
  /\ left \in 0 .. Len(arrivals)
  /\ WaitingIn(buffered, socket) = left + 1 .. Len(arrivals)

LEMMA ArrivalsType == TypeOK => Len(arrivals) \in Nat
  BY LenProperties DEF TypeOK

\* The frames that wait determine how many have left.
LEMMA LeftFromWaiting ==
  ASSUME Len(arrivals') \in Nat, NEW n \in 0 .. Len(arrivals'),
         WaitInOrder(buffered', socket'),
         WaitingIn(buffered', socket') = n + 1 .. Len(arrivals')
  PROVE  QueueInv' /\ left' = n
  <1>1. left' = n
    BY CountWaiting DEF left
  <1> QED
    BY <1>1 DEF QueueInv

LEMMA QueueInit == Init => QueueInv /\ Queue!Init
  <1> SUFFICES ASSUME Init PROVE QueueInv /\ Queue!Init
    OBVIOUS
  <1>1. arrivals = <<>> /\ socket = <<>> /\ buffered = <<>> /\ handed = <<>> /\ Len(arrivals) = 0
    BY DEF Init
  <1>2. WaitingIn(buffered, socket) = {}
    BY <1>1 DEF WaitingIn, FramesIn
  <1>3. left = 0
    BY <1>1, <1>2, FS_EmptySet DEF left
  <1>4. WaitInOrder(buffered, socket)
    BY <1>1 DEF WaitInOrder, Rising, FramesIn
  <1> QED
    BY <1>1, <1>2, <1>3, <1>4 DEF QueueInv, Queue!Init

LEMMA QueueOfArrive ==
  ASSUME TypeOK, QueueInv, NEW k \in 0 .. MaxArrivals, NEW frame \in Frames, Arrive(k, frame)
  PROVE  QueueInv' /\ [Queue!Next]_Queue!vars
  <1> DEFINE some == [i \in 1 .. k |-> frame]
             last == Len(arrivals)
  <1>1. k \in Nat /\ frame.from \in Peers /\ last \in Nat
    BY AsyncAssumption, ArrivalsType
  <1>2. /\ buffered \in Seq(Nat) /\ socket \in Seq(ChunkOf(Peers))
        /\ buffered' = buffered /\ handed' = handed
        /\ socket' = Append(socket, [from |-> frame.from,
                                    frames |-> [i \in 1 .. k |-> last + i]])
    BY DEF TypeOK, ChunkOf, Arrive
  <1>3. \A n \in WaitingIn(buffered, socket) : n <= last
    BY <1>1 DEF QueueInv
  <1>4. /\ WaitInOrder(buffered, socket')
        /\ WaitingIn(buffered, socket')
             = WaitingIn(buffered, socket) \union (last + 1 .. last + k)
    <2>1. WaitInOrder(buffered, socket)
      BY DEF QueueInv
    <2> HIDE DEF last
    <2> QED
      BY ONLY <1>1, <1>2, <1>3, <2>1, WaitingOfArrive
  <1>5. /\ Len(arrivals') = last + k
        /\ \A i \in 1 .. last : arrivals'[i] = arrivals[i]
        /\ k = 0 => arrivals' = arrivals
    BY <1>1 DEF TypeOK, Arrive
  <1>6. QueueInv' /\ left' = left
    <2>1. left \in 0 .. last /\ WaitingIn(buffered, socket) = left + 1 .. last
      BY DEF QueueInv
    <2>2. (left + 1 .. last) \union (last + 1 .. last + k) = left + 1 .. last + k
      BY <1>1, <2>1
    <2>3. left \in 0 .. Len(arrivals') /\ Len(arrivals') \in Nat
      BY <1>1, <1>5, <2>1
    <2>4. WaitingIn(buffered', socket') = left + 1 .. Len(arrivals')
      BY <1>2, <1>4, <1>5, <2>1, <2>2
    <2> HIDE DEF last
    <2> QED
      BY <1>2, <1>4, <2>3, <2>4, LeftFromWaiting
  <1>7. CASE k = 0
    BY <1>2, <1>5, <1>6, <1>7 DEF Queue!vars
  <1>8. CASE k > 0
    <2>1. Queue!Arrive
      BY <1>1, <1>2, <1>5, <1>6, <1>8 DEF Queue!Arrive
    <2> QED
      BY <1>6, <2>1 DEF Queue!Next
  <1> QED
    BY <1>1, <1>6, <1>7, <1>8

LEMMA QueueOfDecode ==
  ASSUME TypeOK, QueueInv, NEW t \in Tasks, DecodeFrame(t)
  PROVE  QueueInv' /\ [Queue!Next]_Queue!vars
  <1> DEFINE nr == Head(buffered)
             last == Len(arrivals)
  <1>1. /\ buffered \in Seq(Nat) /\ buffered # <<>> /\ buffered' = Tail(buffered)
        /\ UNCHANGED <<arrivals, socket>> /\ last \in Nat /\ nr \in Nat
    BY ArrivalsType DEF TypeOK, DecodeFrame, outside
  <1>2. /\ WaitInOrder(buffered', socket)
        /\ WaitingIn(buffered', socket) = WaitingIn(buffered, socket) \ {nr}
        /\ nr \in WaitingIn(buffered, socket)
        /\ \A n \in WaitingIn(buffered', socket) : nr < n
    BY <1>1, WaitingOfDecode DEF QueueInv
  <1>3. left \in 0 .. last /\ WaitingIn(buffered, socket) = left + 1 .. last
    BY DEF QueueInv
  <1> HIDE DEF nr
  <1>4. nr = left + 1 /\ left < last /\ WaitingIn(buffered', socket) = left + 2 .. last
    <2>1. left + 1 \in WaitingIn(buffered, socket)
      BY <1>1, <1>2, <1>3
    <2>2. left + 1 = nr \/ nr < left + 1
      BY <1>2, <2>1
    <2>3. nr \in left + 1 .. last
      BY <1>2, <1>3
    <2>4. nr = left + 1 /\ left < last
      BY <1>1, <1>3, <2>2, <2>3
    <2>5. (left + 1 .. last) \ {left + 1} = left + 2 .. last
      BY <1>1, <1>3
    <2> QED
      BY <1>2, <1>3, <2>4, <2>5
  <1>5. QueueInv' /\ left' = left + 1
    <2>1. left + 1 \in 0 .. Len(arrivals') /\ Len(arrivals') \in Nat
      BY <1>1, <1>3, <1>4
    <2>2. WaitingIn(buffered', socket') = (left + 1) + 1 .. Len(arrivals')
      BY <1>1, <1>3, <1>4
    <2>3. WaitInOrder(buffered', socket')
      BY <1>1, <1>2
    <2> QED
      BY <2>1, <2>2, <2>3, LeftFromWaiting
  <1>6. nr \in DOMAIN arrivals
    BY <1>1, <1>3, <1>4 DEF TypeOK
  <1>7. CASE handed' = Append(handed, nr)
    BY <1>1, <1>4, <1>5, <1>7 DEF Queue!Next, Queue!Hand
  <1>8. CASE handed' = handed /\ nr \in Unwanted
    BY <1>1, <1>4, <1>5, <1>8 DEF Queue!Next, Queue!Drop
  <1>9. \/ handed' = Append(handed, nr)
        \/ handed' = handed /\ nr \in Unwanted
    BY <1>6 DEF DecodeFrame, GiveMessage, GiveError, Unwanted, nr
  <1> QED
    BY <1>5, <1>7, <1>8, <1>9

LEMMA QueueStep ==
  TypeOK /\ QueueInv /\ [Next]_vars => QueueInv' /\ [Queue!Next]_Queue!vars
  <1> SUFFICES ASSUME TypeOK, QueueInv, [Next]_vars
               PROVE  QueueInv' /\ [Queue!Next]_Queue!vars
    OBVIOUS
  <1> DEFINE Kept == UNCHANGED <<arrivals, socket, buffered, handed>>
  <1>1. CASE Kept
    BY <1>1 DEF QueueInv, left, Queue!vars
  <1>2. CASE World
    <2>1. ASSUME NEW v \in Versions, SetProtocolVersion(v) PROVE Kept
      BY <2>1 DEF SetProtocolVersion, receiving
    <2>2. CASE SetAllowRecvAnyVersion
      BY <1>1, <2>2 DEF SetAllowRecvAnyVersion, receiving
    <2> QED
      BY <1>1, <1>2, <2>1, <2>2, QueueOfArrive DEF World
  <1>3. ASSUME NEW t \in Tasks, NEW operation \in Operations, Call(t, operation) PROVE Kept
    BY <1>3 DEF Call, receiving
  <1>4. ASSUME NEW t \in Tasks, Send(t) PROVE Kept
    BY <1>4 DEF Send, SkipSend, StartWrite, EncodeFails, EncodePanics, WritePart, outside, receiving
  <1>5. ASSUME NEW t \in Tasks, Fail(t) PROVE Kept
    BY <1>5 DEF Fail, AwaitRest, ReadEmpty, ReadFails, WriteFails, Cancel, GiveError, outside,
                receiving
  <1>6. ASSUME NEW t \in Tasks, ReadChunk(t)
        PROVE  QueueInv' /\ [Queue!Next]_Queue!vars
    <2>1. /\ socket \in Seq(ChunkOf(Peers)) /\ socket # <<>> /\ buffered \in Seq(Nat)
          /\ buffered' = buffered \o Head(socket).frames /\ socket' = Tail(socket)
          /\ UNCHANGED <<arrivals, handed>>
      BY <1>6 DEF TypeOK, ChunkOf, ReadChunk, outside
    <2>2. /\ WaitInOrder(buffered', socket')
          /\ WaitingIn(buffered', socket') = WaitingIn(buffered, socket)
      BY <2>1, WaitingOfRead, Zenon DEF QueueInv
    <2>3. left' = left
      BY <2>1, <2>2 DEF left
    <2> QED
      BY <2>1, <2>2, <2>3 DEF QueueInv, Queue!vars
  <1>7. ASSUME NEW t \in Tasks, LockReader(t) PROVE Kept
    BY <1>7 DEF LockReader, outside
  <1>8. CASE UNCHANGED vars
    BY <1>1, <1>8 DEF vars, outside, receiving
  <1> QED
    BY <1>1, <1>2, <1>3, <1>4, <1>5, <1>6, <1>7, <1>8, QueueOfDecode DEF Next, Receive

\* Whatever tasks are dropped, fail or have their calls interleaved, the frames
\* that arrive are handed over in order, each once, but for those that no call
\* could return: the connection implements a queue that loses nothing.
THEOREM QueueImplemented == Spec => ImplementsQueue
  BY QueueInit, QueueStep, AlwaysInv, PTL DEF Spec, IInv, ImplementsQueue, Queue!Spec

-----------------------------------------------------------------------------
(***************************************************************************)
(* Sessions.  The steps of a session are steps of its parts.               *)
(***************************************************************************)
LEMMA SessionStartsParts == SessionInit => Init /\ Opening!Init
  BY DEF SessionInit, Config!Init, Opening!Init

LEMMA SameSteps == \A o \in Tasks : Config!Steps(o) = Opening!Steps(o)
  BY DEF Config!Steps, Config!TcpSteps, Config!UdpSteps, Config!SerialSteps, Config!FileSteps,
         Config!When, Config!Blocking, Config!TcpModes, Config!UdpModes,
         Opening!Steps, Opening!TcpSteps, Opening!UdpSteps, Opening!SerialSteps,
         Opening!FileSteps, Opening!When, Opening!Blocking, Opening!TcpModes, Opening!UdpModes

LEMMA SameNext == Config!Next => Opening!Next
  <1> USE DEF Config!At, Config!Done, Config!Stop, Opening!At, Opening!Done, Opening!Stop,
              Config!Blocking, Opening!Blocking
  <1>1. ASSUME NEW o \in Tasks, Config!Connect(o) PROVE Opening!Connect(o)
    BY <1>1, SameSteps DEF Config!Connect, Opening!Connect
  <1>2. ASSUME NEW o \in Tasks, Config!TakeSocket(o) PROVE Opening!TakeSocket(o)
    BY <1>2 DEF Config!TakeSocket, Opening!TakeSocket
  <1>3. ASSUME NEW o \in Tasks, Config!Resolve(o) PROVE Opening!Resolve(o)
    BY <1>3 DEF Config!Resolve, Opening!Resolve
  <1>4. ASSUME NEW o \in Tasks, Config!OwnSocket(o) PROVE Opening!OwnSocket(o)
    BY <1>4 DEF Config!OwnSocket, Opening!OwnSocket
  <1>5. ASSUME NEW o \in Tasks, Config!Configure(o) PROVE Opening!Configure(o)
    BY <1>5 DEF Config!Configure, Opening!Configure
  <1>6. ASSUME NEW o \in Tasks, Config!Accept(o) PROVE Opening!Accept(o)
    BY <1>6 DEF Config!Accept, Opening!Accept
  <1>7. ASSUME NEW o \in Tasks, Config!StepFails(o) PROVE Opening!StepFails(o)
    BY <1>7 DEF Config!StepFails, Opening!StepFails
  <1>8. ASSUME NEW o \in Tasks, Config!DropOpen(o) PROVE Opening!DropOpen(o)
    BY <1>8 DEF Config!DropOpen, Opening!DropOpen, Config!Awaits, Opening!Awaits,
                Config!UdpModes, Opening!UdpModes
  <1> QED
    BY <1>1, <1>2, <1>3, <1>4, <1>5, <1>6, <1>7, <1>8
    DEF Config!Next, Opening!Next, Config!Advance, Opening!Advance

LEMMA SessionStepsParts ==
  [SessionNext]_<<opening, vars>> => [Next]_vars /\ [Opening!Next]_(Opening!vars)
  BY SameNext DEF SessionNext, Open, Use, opening, Opening!vars

LEMMA SessionInvariance == SessionSpec => [](IInv /\ Opening!IInv)
  <1>1. Opening!Init => Opening!IInv
    BY SessionAssumption, Opening!InitInv
    DEF Opening!Configuration, Opening!Protocols, Opening!TcpModes, Opening!UdpModes,
        Config!Configuration, Config!Protocols, Config!TcpModes, Config!UdpModes
  <1>2. Opening!IInv /\ [Opening!Next]_(Opening!vars) => Opening!IInv'
    BY Opening!StepInv
  <1> QED
    BY <1>1, <1>2, SessionStartsParts, SessionStepsParts, InitInv, StepInv, PTL DEF SessionSpec

-----------------------------------------------------------------------------
(***************************************************************************)
(* The theorems about sessions.                                            *)
(***************************************************************************)

\* What is opened is used as AsyncConnection has it: an open that is going on,
\* is dropped or fails does not show in a connection.  So what is proved about
\* AsyncConnection holds in a session.
THEOREM SessionUsesConnection == SessionSpec => Spec
  BY SessionStartsParts, SessionStepsParts, PTL DEF SessionSpec, Spec

\* Whatever opens go on, fail or are dropped beside it, a connection delivers
\* the frames of its peer as the queue does, its sends stay whole, its recvs
\* go on, and replies and versions are those of the frames handed over, but
\* for the frames RepliesReachSender leaves out.
THEOREM SessionKeepsConnection ==
  SessionSpec => /\ []SentWhole /\ []RecvPersists
                 /\ RepliesReachSender /\ FrameKeepsVersion
                 /\ ImplementsQueue
  BY SessionUsesConnection, SentWholeCorrect, RecvPersistsCorrect, RepliesReachSenderCorrect,
     FrameKeepsVersionCorrect, QueueImplemented

\* The variables of both modules keep their types.
THEOREM SessionTypesCorrect == SessionSpec => []SessionTypeOK
  <1>1. Opening!TypeOK => Config!TypeOK
    BY DEF Opening!TypeOK, Opening!Configuration, Opening!Protocols, Opening!TcpModes,
           Opening!UdpModes, Config!TypeOK, Config!Configuration, Config!Protocols,
           Config!TcpModes, Config!UdpModes
  <1>2. IInv /\ Opening!IInv => SessionTypeOK
    BY <1>1 DEF IInv, Opening!IInv, SessionTypeOK
  <1> QED
    BY <1>2, SessionInvariance, PTL

\* A socket-backed configuration is used once, across all its clones, for any
\* number of tasks that open connections and use them, and are dropped.
THEOREM SessionSocketCorrect == SessionSpec => []SocketInOnePlace
  <1>1. Opening!SocketInOnePlace => SocketInOnePlace
    BY DEF Opening!SocketInOnePlace, SocketInOnePlace, Config!SocketInOnePlace,
           Opening!Contains, Config!Contains, Opening!Cardinality, Config!Cardinality
  <1> QED
    BY <1>1, SessionInvariance, Opening!OneSocket, PTL
=============================================================================
