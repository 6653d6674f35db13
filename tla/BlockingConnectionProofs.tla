---------------------- MODULE BlockingConnectionProofs ----------------------
(***************************************************************************)
(* Proofs about BlockingConnection, for any number of threads and calls.   *)
(*                                                                         *)
(* Sending and receiving meet in three places only: the program counters,  *)
(* the destination and the nonblocking mode.  SendingQuiet and             *)
(* ReceivingQuiet say what a step of one side leaves alone of the other;   *)
(* with them each invariant is checked against the steps of its own side.  *)
(***************************************************************************)
EXTENDS BlockingConnection, WaitingFramesProofs

Phases ==
  {"idle", "panicked", "want_reader", "set_nonblocking", "decode", "record_sender",
   "record_empty", "restore_blocking", "want_writer", "next_header", "encode", "write",
   "send_to"}
WriterPhases == {"next_header", "encode", "write", "send_to"}
ReaderPhases ==
  {"set_nonblocking", "decode", "record_sender", "record_empty", "restore_blocking"}

-----------------------------------------------------------------------------
(***************************************************************************)
(* The inductive invariant, the side of the senders.                       *)
(***************************************************************************)

\* Who writes holds the lock.
WriterHeld == \A t \in Threads : pc[t] \in WriterPhases => writer = t

\* The frame being written is the latest on the wire, and its number the
\* latest drawn.
LatestHeader ==
  /\ \A i \in DOMAIN wire : wire[i].header <= drawn
  /\ \A t \in Threads : pc[t] \in {"encode", "write", "send_to"} /\ header[t] # Raw =>
       /\ header[t] = drawn
       /\ \A i \in DOMAIN wire :
            wire[i].header = header[t] => wire[i].part <= part[t]

\* The parts written so far of the frame being written end the wire.
LastPart ==
  \A t \in Threads :
    /\ pc[t] \in {"next_header", "encode"} => part[t] = 0
    /\ pc[t] \in {"write", "send_to"} => part[t] < WriteParts
    /\ pc[t] \in {"write", "send_to"} /\ part[t] > 0 =>
         /\ Len(wire) > 0
         /\ wire[Len(wire)].by = t
         /\ wire[Len(wire)].header = header[t]
         /\ wire[Len(wire)].part = part[t]

\* Whoever writes has someone to write to.
PeerKnown == \A t \in Threads : pc[t] \in WriterPhases => HasPeer

SendCalls ==
  \A t \in Threads : pc[t] \in WriterPhases \union {"want_writer"} => call[t] \in Sends

SendInv ==
  /\ WriterHeld /\ LatestHeader /\ LastPart /\ PeerKnown /\ SendCalls
  /\ SequenceFollowsWriteOrder /\ FramesContiguous

(***************************************************************************)
(* The side of the receivers.                                              *)
(***************************************************************************)

\* Who reads holds the lock.
ReaderHeld == \A t \in Threads : pc[t] \in ReaderPhases => reader = t

\* There is a sender to be recorded.
SenderKnown == \A t \in Threads : pc[t] \in {"record_sender", "record_empty"} => address # NoPeer

TryRecvCalls ==
  \A t \in Threads :
    pc[t] \in {"set_nonblocking", "restore_blocking"} => call[t] = "try_recv"

\* Only the try_recv that holds the reader has the socket nonblocking.
ModeHeld ==
  nonblocking =>
    /\ SwitchesMode
    /\ \/ switch_failures > 0
       \/ \E t \in Threads : /\ pc[t] \in ReaderPhases \ {"set_nonblocking"}
                            /\ call[t] = "try_recv"

ReceiveInv == ReaderHeld /\ SenderKnown /\ TryRecvCalls /\ ModeHeld /\ RecvWaits

IInv == TypeOK /\ SendInv /\ ReceiveInv

-----------------------------------------------------------------------------
(***************************************************************************)
(* The types.                                                              *)
(***************************************************************************)
LEMMA InitInv == Init => IInv
  <1> SUFFICES ASSUME Init PROVE IInv
    OBVIOUS
  <1> USE ConnectionAssumption
  <1>1. TypeOK
    <2>1. Threads # {} => WriteParts \in Nat
      BY ConnectionAssumption DEF WriteParts
    <2>2. /\ pc \in [Threads -> Phases]
          /\ call \in [Threads -> Operations \union {"none"}]
          /\ outcome \in [Threads -> Outcomes]
      BY DEF Init, Other, Outcome, Outcomes, Phases
    <2>3. header \in [Threads -> Nat] /\ part \in [Threads -> 0 .. WriteParts]
      BY <2>1 DEF Init, Raw
    <2>4. /\ arrivals \in Seq([from : Peers, parses : BOOLEAN])
          /\ socket \in Seq([from : Peers, frames : Seq(Nat)])
          /\ buffered \in Seq(Nat) /\ handed \in Seq(Nat)
          /\ wire \in Seq([by : Threads, header : Nat, part : Nat,
                           to : Peers \union {NoPeer}])
      BY DEF Init
    <2>5. destination \in Peers \union {NoPeer}
      BY DEF Init
    <2>6. /\ transport \in Transports /\ read_timeout \in BOOLEAN
          /\ protocol_version = "V2" /\ calls = 0
          /\ reader = NoThread /\ writer = NoThread /\ address = NoPeer
          /\ nonblocking = FALSE /\ switch_failures = 0 /\ poisoned = FALSE /\ drawn = 0
      BY DEF Init
    <2>7. withheld \in BOOLEAN /\ overtaken \subseteq Nat
      BY DEF Init
    <2> QED
      BY ONLY <2>2, <2>3, <2>4, <2>5, <2>6, <2>7 DEF TypeOK, Phases
  <1>2. SendInv
    BY DEF Init, SendInv, WriterHeld, LatestHeader, LastPart, PeerKnown, SendCalls,
           WriterPhases, SequenceFollowsWriteOrder, FramesContiguous
  <1>3. ReceiveInv
    BY DEF Init, ReceiveInv, ReaderHeld, SenderKnown, TryRecvCalls, ModeHeld,
           RecvWaits, ReaderPhases, Other, Outcome
  <1> QED
    BY <1>1, <1>2, <1>3 DEF IInv

LEMMA TypeOfWorld == TypeOK /\ World => TypeOK'
  <1> SUFFICES ASSUME TypeOK, World PROVE TypeOK'
    OBVIOUS
  <1> USE DEF TypeOK, outside, mode, peer, candidate, receiving, sending, WriteParts, Datagrams
  <1>1. ASSUME NEW from \in Peers, NEW k \in 0 .. MaxArrivals, NEW parses \in BOOLEAN,
               Arrive(from, k, parses)
        PROVE TypeOK'
    <2> DEFINE some == [i \in 1 .. k |-> [from |-> from, parses |-> parses]]
               numbers == [i \in 1 .. k |-> Len(arrivals) + i]
    <2>1. k \in Nat
      BY ConnectionAssumption
    <2>2. some \in Seq([from : Peers, parses : BOOLEAN])
      BY <2>1
    <2>3. numbers \in Seq(Nat)
      BY <2>1
    <2>4. arrivals' \in Seq([from : Peers, parses : BOOLEAN])
      BY <2>2, <1>1 DEF Arrive
    <2>5. socket' \in Seq([from : Peers, frames : Seq(Nat)])
      BY <2>3, <1>1 DEF Arrive
    <2> QED
      BY <2>4, <2>5, <1>1 DEF Arrive
  <1>2. ASSUME NEW v \in Versions, SetProtocolVersion(v) PROVE TypeOK'
    BY <1>2, ConnectionAssumption DEF SetProtocolVersion
  <1> QED
    BY <1>1, <1>2 DEF World

LEMMA TypeOfCall ==
  ASSUME TypeOK, NEW t \in Threads, NEW operation \in Operations, Call(t, operation)
  PROVE  TypeOK'
  BY DEF TypeOK, Call, GoTo, Other, Outcome, Outcomes, outside, mode, peer, candidate, receiving,
         sending, WriteParts, Datagrams

LEMMA TypeOfConclude ==
  ASSUME TypeOK, NEW t \in Threads, NEW result \in Outcomes, Conclude(t, result),
         buffered' \in Seq(Nat), destination' \in {destination, address},
         UNCHANGED <<address, candidate>>
  PROVE  TypeOK'
  <1> USE DEF TypeOK, outside, mode, candidate, sending, WriteParts, Datagrams
  <1>1. outcome' \in [Threads -> Outcomes] /\ reader' \in Threads \union {NoThread}
    BY DEF Conclude, Return
  <1>2. pc' \in [Threads -> Phases]
    BY DEF Conclude, Return, GoTo, Phases
  <1>3. handed' \in Seq(Nat)
    <2>1. handed' = handed \/ handed' = Append(handed, result.nr)
      BY Zenon DEF Conclude
    <2>2. result.nr \in Nat /\ handed \in Seq(Nat)
      BY DEF Outcomes
    <2> QED
      BY ONLY <2>1, <2>2
  <1> QED
    BY <1>1, <1>2, <1>3 DEF Conclude, Phases

LEMMA TypeOfOvertake == ASSUME TypeOK, Overtake PROVE overtaken' \subseteq Nat
  BY DEF TypeOK, Overtake, Range

LEMMA TypeOfReceive == ASSUME TypeOK, NEW t \in Threads, Receive(t) PROVE TypeOK'
  <1> USE DEF TypeOK, outside, mode, peer, candidate, receiving, sending, WriteParts, Datagrams,
              GoTo, Return, Other, Outcome, Outcomes
  <1>1. CASE LockReader(t)
    BY <1>1 DEF LockReader
  <1>2. CASE SetNonblocking(t)
    BY <1>2 DEF SetNonblocking, SwitchesMode
  <1>3. CASE DecodeFrame(t)
    <2>1. Head(buffered) \in Nat /\ Tail(buffered) \in Seq(Nat)
      BY <1>3 DEF DecodeFrame
    <2>2. PICK result \in Outcomes : Conclude(t, result)
      BY <1>3, <2>1 DEF DecodeFrame, Message
    <2> QED
      BY <1>3, <2>1, <2>2, TypeOfConclude DEF DecodeFrame
  <1>4. CASE ReadChunk(t)
    <2> DEFINE Chunks == [from : Peers, frames : Seq(Nat)]
    <2>1. Head(socket) \in Chunks /\ Tail(socket) \in Seq(Chunks)
      <3>1. socket \in Seq(Chunks) /\ socket # <<>>
        BY <1>4 DEF ReadChunk
      <3> HIDE DEF Chunks
      <3> QED
        BY ONLY <3>1, HeadTailProperties
    <2>2. overtaken' \subseteq Nat
      BY <1>4, TypeOfOvertake DEF ReadChunk
    <2>3. buffered' \in Seq(Nat)
      <3>1. /\ buffered \in Seq(Nat) /\ Head(socket).frames \in Seq(Nat)
            /\ buffered' = buffered \o Head(socket).frames
        BY <1>4, <2>1 DEF ReadChunk
      <3> QED
        BY ONLY <3>1, ConcatProperties
    <2>4. socket' \in Seq(Chunks) /\ address' \in Peers \union {NoPeer} /\ withheld' \in BOOLEAN
      BY <1>4, <2>1 DEF ReadChunk
    <2>5. pc' \in [Threads -> Phases]
      BY <1>4 DEF ReadChunk, Phases
    <2>6. UNCHANGED <<outside, call, outcome, sending, reader, mode, destination, handed>>
      BY <1>4 DEF ReadChunk
    <2> QED
      BY <2>2, <2>3, <2>4, <2>5, <2>6 DEF Phases
  <1>5. CASE RecordSender(t)
    BY <1>5 DEF RecordSender
  <1>6. CASE ReadGivesUp(t)
    <2>1. PICK result \in Outcomes : Conclude(t, result) /\ UNCHANGED <<peer, buffered, candidate>>
      BY <1>6 DEF ReadGivesUp
    <2> QED
      BY <2>1, TypeOfConclude
  <1>7. CASE RestoreBlocking(t)
    <2>1. handed' \in Seq(Nat)
      <3>1. outcome[t].nr \in Nat /\ handed \in Seq(Nat)
        OBVIOUS
      <3>2. handed' = handed \/ handed' = Append(handed, outcome[t].nr)
        BY <1>7, Zenon DEF RestoreBlocking
      <3> QED
        BY ONLY <3>1, <3>2
    <2>2. nonblocking' \in BOOLEAN /\ reader' = NoThread /\ pc' \in [Threads -> Phases]
      BY <1>7 DEF RestoreBlocking, SwitchesMode, Phases
    <2>3. /\ UNCHANGED <<outside, call, outcome, sending>>
          /\ UNCHANGED <<switch_failures, peer, socket, buffered, candidate>>
      BY <1>7 DEF RestoreBlocking
    <2> QED
      BY <2>1, <2>2, <2>3 DEF Phases
  <1>8. CASE RecordEmpty(t)
    <2>1. /\ Conclude(t, Other("eof")) /\ destination' = address
          /\ UNCHANGED <<address, buffered, candidate>> /\ Other("eof") \in Outcomes
      BY <1>8 DEF RecordEmpty
    <2> QED
      BY <2>1, TypeOfConclude
  <1> QED
    BY <1>1, <1>2, <1>3, <1>4, <1>5, <1>6, <1>7, <1>8 DEF Receive

LEMMA TypeOfSend == ASSUME TypeOK, LastPart, NEW t \in Threads, Send(t) PROVE TypeOK'
  <1> USE DEF TypeOK, outside, mode, peer, candidate, receiving, sending, GoTo, Return, Other,
              Outcome, Outcomes
  <1>1. CASE LockWriter(t)
    BY <1>1, ConnectionAssumption DEF LockWriter, WriteParts, Datagrams, Raw
  <1>2. CASE SkipSend(t)
    BY <1>2 DEF SkipSend, WriteParts, Datagrams
  <1>3. CASE PoisonedPanic(t)
    BY <1>3 DEF PoisonedPanic, WriteParts, Datagrams
  <1>4. CASE NextHeader(t)
    BY <1>4 DEF NextHeader, WriteParts, Datagrams
  <1>5. CASE Encode(t)
    BY <1>5 DEF Encode, WriteParts, Datagrams
  <1>6. CASE EncodeFails(t)
    BY <1>6 DEF EncodeFails, WriteParts, Datagrams
  <1>7. CASE EncodePanics(t)
    BY <1>7 DEF EncodePanics, WriteParts, Datagrams
  <1>8. CASE WritePart(t)
    <2>1. WriteParts' = WriteParts /\ WriteParts \in Nat /\ part[t] < WriteParts
      BY <1>8, ConnectionAssumption DEF WritePart, Writes, LastPart, WriteParts, Datagrams
    <2>2. part' \in [Threads -> 0 .. WriteParts']
      BY <1>8, <2>1 DEF WritePart
    <2>3. wire' \in Seq([by : Threads, header : Nat, part : Nat,
                         to : Peers \union {NoPeer}])
      BY <1>8, <2>1 DEF WritePart
    <2>4. \/ Return(t, Other("sent")) /\ writer' = NoThread
          \/ UNCHANGED <<pc, outcome, writer>>
      BY <1>8 DEF WritePart
    <2>5. /\ pc' \in [Threads -> Phases]
          /\ outcome' \in [Threads -> Outcomes]
          /\ writer' \in Threads \union {NoThread}
      <3>1. CASE Return(t, Other("sent")) /\ writer' = NoThread
        BY <3>1 DEF Phases
      <3>2. CASE UNCHANGED <<pc, outcome, writer>>
        BY <3>2 DEF Phases
      <3> QED
        BY <2>4, <3>1, <3>2
    <2>6. UNCHANGED <<outside, call, receiving, poisoned, drawn, header>>
      BY <1>8 DEF WritePart
    <2> QED
      BY <2>2, <2>3, <2>5, <2>6 DEF Phases
  <1>9. CASE LockDestination(t)
    BY <1>9 DEF LockDestination, WriteParts, Datagrams
  <1> QED
    BY <1>1, <1>2, <1>3, <1>4, <1>5, <1>6, <1>7, <1>8, <1>9 DEF Send

LEMMA TypeOfFail == ASSUME TypeOK, NEW t \in Threads, Fail(t) PROVE TypeOK'
  <1> USE DEF TypeOK, outside, mode, peer, candidate, receiving, sending, GoTo, Return, Other,
              Outcome, Outcomes
  <1>1. CASE SetNonblockingFails(t)
    BY <1>1 DEF SetNonblockingFails, WriteParts, Datagrams
  <1>2. CASE RestoreBlockingFails(t)
    BY <1>2 DEF RestoreBlockingFails, WriteParts, Datagrams
  <1>3. ASSUME NEW error \in {"eof", "io_error"}, ReadFails(t, error) PROVE TypeOK'
    <2>1. /\ Conclude(t, Other(error)) /\ UNCHANGED <<peer, buffered, candidate>>
          /\ Other(error) \in Outcomes
      BY <1>3 DEF ReadFails
    <2> QED
      BY <2>1, TypeOfConclude
  <1>4. ASSUME NEW error \in {"would_block", "io_error"}, WriteFails(t, error)
        PROVE TypeOK'
    BY <1>4 DEF WriteFails, WriteParts, Datagrams
  <1>5. CASE AwaitRest(t)
    BY <1>5 DEF AwaitRest, WriteParts, Datagrams
  <1>6. ASSUME NEW from \in Peers, ReadEmpty(t, from) PROVE TypeOK'
    <2>1. overtaken' \subseteq Nat
      BY <1>6, TypeOfOvertake DEF ReadEmpty
    <2> QED
      BY <1>6, <2>1 DEF ReadEmpty, WriteParts, Datagrams
  <1> QED
    BY <1>1, <1>2, <1>3, <1>4, <1>5, <1>6 DEF Fail

-----------------------------------------------------------------------------
(***************************************************************************)
(* What the two sides leave alone of each other.                           *)
(***************************************************************************)
SendingQuiet ==
  /\ UNCHANGED <<transport, sending>>
  /\ destination # NoPeer => destination' # NoPeer
  /\ \A t \in Threads : pc'[t] \in WriterPhases \union {"want_writer"} =>
       \/ pc'[t] = pc[t] /\ call'[t] = call[t]
       \/ pc'[t] = "want_writer" /\ call'[t] \in Sends

ReceivingQuiet ==
  /\ UNCHANGED <<transport, read_timeout, reader, mode, address>>
  /\ \A t \in Threads :
       /\ pc[t] \in ReaderPhases \/ pc'[t] \in ReaderPhases =>
            pc'[t] = pc[t] /\ call'[t] = call[t]
       /\ call'[t] \in {"recv", "recv_raw"} /\ outcome'[t].what = "would_block" =>
            outcome'[t] = outcome[t] /\ call'[t] = call[t]

\* A reader's step.
Reading(t) ==
  \/ Receive(t) \/ AwaitRest(t) \/ SetNonblockingFails(t) \/ RestoreBlockingFails(t)
  \/ \E from \in Peers : ReadEmpty(t, from)
  \/ \E error \in {"eof", "io_error"} : ReadFails(t, error)

LEMMA QuietSending == ASSUME SendInv, SendingQuiet PROVE SendInv'
  <1> USE DEF SendInv, SendingQuiet, sending, WriterPhases
  <1>1. WriterHeld' /\ SendCalls'
    BY DEF WriterHeld, SendCalls
  <1>2. LatestHeader'
    BY DEF LatestHeader
  <1>3. LastPart'
    BY DEF LastPart, WriteParts, Datagrams
  <1>4. PeerKnown'
    BY DEF PeerKnown, HasPeer, Datagrams
  <1>5. SequenceFollowsWriteOrder' /\ FramesContiguous'
    BY DEF SequenceFollowsWriteOrder, FramesContiguous
  <1> QED
    BY <1>1, <1>2, <1>3, <1>4, <1>5

LEMMA QuietReceiving == ASSUME ReceiveInv, ReceivingQuiet PROVE ReceiveInv'
  <1> USE DEF ReceiveInv, ReceivingQuiet, mode, ReaderPhases
  <1>1. ReaderHeld' /\ SenderKnown' /\ TryRecvCalls'
    BY DEF ReaderHeld, SenderKnown, TryRecvCalls
  <1>2. ModeHeld'
    BY DEF ModeHeld, SwitchesMode, Datagrams
  <1>3. RecvWaits'
    BY DEF RecvWaits
  <1> QED
    BY <1>1, <1>2, <1>3

LEMMA CallIsQuiet ==
  ASSUME IInv, NEW t \in Threads, NEW operation \in Operations, Call(t, operation)
  PROVE  SendingQuiet /\ ReceivingQuiet
  <1> USE DEF IInv, TypeOK, Call, GoTo, receiving, sending, mode, peer
  <1>1. SendingQuiet
    BY ConnectionAssumption DEF SendingQuiet, WriterPhases, Receives
  <1>2. ReceivingQuiet
    BY DEF ReceivingQuiet, ReaderPhases, Other, Outcome
  <1> QED
    BY <1>1, <1>2

LEMMA WorldIsQuiet == ASSUME IInv, World PROVE SendingQuiet /\ ReceivingQuiet
  BY DEF World, Arrive, SetProtocolVersion, SendingQuiet, ReceivingQuiet, receiving,
         sending, mode, peer

LEMMA ReceiveIsQuiet ==
  ASSUME IInv, NEW t \in Threads,
         Reading(t)
  PROVE  SendingQuiet
  <1> USE DEF IInv, TypeOK, SendingQuiet, WriterPhases, GoTo, Return, outside, mode, peer,
              sending
  <1>1. ASSUME NEW result, Conclude(t, result), destination' # NoPeer \/ destination' = destination
        PROVE  SendingQuiet
    BY <1>1 DEF Conclude
  <1>2. CASE DecodeFrame(t) \/ ReadGivesUp(t) \/ \E error \in {"eof", "io_error"} : ReadFails(t, error)
    BY <1>1, <1>2 DEF DecodeFrame, ReadGivesUp, ReadFails
  <1>3. CASE LockReader(t)
    BY <1>3 DEF LockReader
  <1>4. CASE SetNonblocking(t)
    BY <1>4 DEF SetNonblocking
  <1>5. CASE ReadChunk(t)
    BY <1>5 DEF ReadChunk
  <1>6. CASE RecordSender(t)
    BY <1>6 DEF RecordSender, ReceiveInv, SenderKnown
  <1>7. CASE RestoreBlocking(t)
    BY <1>7 DEF RestoreBlocking
  <1>8. CASE SetNonblockingFails(t) \/ RestoreBlockingFails(t)
    BY <1>8 DEF SetNonblockingFails, RestoreBlockingFails
  <1>9. CASE AwaitRest(t) \/ \E from \in Peers : ReadEmpty(t, from)
    BY <1>9 DEF AwaitRest, ReadEmpty
  <1>10. CASE RecordEmpty(t)
    BY <1>1, <1>10 DEF RecordEmpty, ReceiveInv, SenderKnown
  <1> QED
    BY <1>2, <1>3, <1>4, <1>5, <1>6, <1>7, <1>8, <1>9, <1>10 DEF Receive, Reading

LEMMA SendIsQuiet ==
  ASSUME IInv, NEW t \in Threads,
         Send(t) \/ \E error \in {"would_block", "io_error"} : WriteFails(t, error)
  PROVE  ReceivingQuiet
  <1> USE DEF IInv, TypeOK, ReceivingQuiet, ReaderPhases, GoTo, Return, Other, Outcome,
              outside, mode, peer, candidate, receiving, sending
  <1>1. CASE LockWriter(t)
    BY <1>1 DEF LockWriter
  <1>2. CASE SkipSend(t)
    BY <1>2 DEF SkipSend
  <1>3. CASE PoisonedPanic(t)
    BY <1>3 DEF PoisonedPanic
  <1>4. CASE NextHeader(t)
    BY <1>4 DEF NextHeader
  <1>5. CASE Encode(t)
    BY <1>5 DEF Encode
  <1>6. CASE EncodeFails(t)
    BY <1>6 DEF EncodeFails
  <1>7. CASE EncodePanics(t)
    BY <1>7 DEF EncodePanics
  <1>8. CASE WritePart(t)
    BY <1>8 DEF WritePart, Writes
  <1>9. ASSUME NEW error \in {"would_block", "io_error"}, WriteFails(t, error)
        PROVE  ReceivingQuiet
    BY <1>9 DEF WriteFails, Writes, SendInv, SendCalls, WriterPhases, Sends
  <1>10. CASE LockDestination(t)
    BY <1>10 DEF LockDestination
  <1> QED
    BY <1>1, <1>2, <1>3, <1>4, <1>5, <1>6, <1>7, <1>8, <1>9, <1>10 DEF Send

-----------------------------------------------------------------------------
(***************************************************************************)
(* The steps of the senders.                                               *)
(***************************************************************************)
LEMMA WriterAlone ==
  ASSUME IInv, NEW t \in Threads, pc[t] \in WriterPhases \/ WriterFree
  PROVE  \A u \in Threads \ {t} : pc[u] \notin WriterPhases
  BY ConnectionAssumption DEF IInv, SendInv, WriterHeld, WriterFree

LEMMA WireTyped ==
  ASSUME IInv
  PROVE  /\ Len(wire) \in Nat /\ DOMAIN wire = 1 .. Len(wire)
         /\ \A i \in DOMAIN wire : wire[i].header \in Nat /\ wire[i].part \in Nat
  <1> DEFINE Parts == [by : Threads, header : Nat, part : Nat, to : Peers \union {NoPeer}]
  <1>1. wire \in Seq(Parts)
    BY DEF IInv, TypeOK
  <1>2. \A e \in Parts : e.header \in Nat /\ e.part \in Nat
    OBVIOUS
  <1> HIDE DEF Parts
  <1>3. Len(wire) \in Nat /\ DOMAIN wire = 1 .. Len(wire)
    BY ONLY <1>1, LenProperties
  <1>4. \A i \in 1 .. Len(wire) : wire[i] \in Parts
    BY ONLY <1>1, ElementOfSeq
  <1> QED
    BY ONLY <1>2, <1>3, <1>4

\* A step that writes nothing and leaves t out of the critical section.
LEMMA Unwritten ==
  ASSUME IInv, NEW t \in Threads, pc[t] \in WriterPhases \/ WriterFree,
         pc' = [pc EXCEPT ![t] = pc'[t]], pc'[t] \in {"idle", "panicked"},
         UNCHANGED <<transport, call, destination, drawn, header, part, wire>>
  PROVE  SendInv'
  <1> USE DEF IInv, SendInv, TypeOK
  <1>1. \A u \in Threads : pc'[u] \notin WriterPhases
    BY WriterAlone DEF WriterPhases
  <1>2. SendCalls'
    BY <1>1 DEF SendCalls
  <1>3. WriterHeld' /\ LatestHeader' /\ LastPart' /\ PeerKnown'
    BY <1>1 DEF WriterHeld, LatestHeader, LastPart, PeerKnown, WriterPhases
  <1> QED
    BY <1>2, <1>3 DEF SequenceFollowsWriteOrder, FramesContiguous

LEMMA WritePartKeeps == ASSUME IInv, NEW t \in Threads, WritePart(t) PROVE SendInv'
  <1> DEFINE n == Len(wire) + 1
             new == [by |-> t, header |-> header[t], part |-> part[t] + 1,
                     to |-> destination]
  <1>1. \A u \in Threads \ {t} : pc[u] \notin WriterPhases /\ pc'[u] \notin WriterPhases
    BY WriterAlone DEF WriterPhases, WritePart, Writes, Return, GoTo, IInv, TypeOK
  <1>2. /\ DOMAIN wire = 1 .. n - 1 /\ DOMAIN wire' = 1 .. n /\ n \in Nat \ {0}
        /\ Len(wire') = n
        /\ \A i \in 1 .. n - 1 : wire'[i] = wire[i]
        /\ wire'[n] = new
    <2> DEFINE Parts == [by : Threads, header : Nat, part : Nat, to : Peers \union {NoPeer}]
    <2>1. wire \in Seq(Parts) /\ new \in Parts
      BY ConnectionAssumption DEF IInv, TypeOK, WriteParts
    <2>2. wire' = Append(wire, new)
      BY DEF WritePart
    <2> HIDE DEF new, Parts
    <2> QED
      BY ONLY <2>1, <2>2, AppendProperties, LenProperties
  <1>3. \/ pc' = [pc EXCEPT ![t] = "idle"]
        \/ pc' = pc /\ writer' = writer /\ part[t] + 1 # WriteParts
    BY DEF WritePart, Return, GoTo
  <1>4. WriterHeld' /\ SendCalls' /\ PeerKnown'
    BY <1>1, <1>3 DEF IInv, SendInv, TypeOK, WritePart, outside, receiving, peer,
           WriterHeld, SendCalls, PeerKnown, HasPeer, Datagrams, WriterPhases
  <1>5. /\ n \in Nat /\ part[t] \in Nat /\ header[t] \in Nat /\ drawn \in Nat
        /\ part' = [part EXCEPT ![t] = part[t] + 1] /\ part \in [Threads -> 0 .. WriteParts]
        /\ UNCHANGED <<transport, header, drawn>>
        /\ \A i \in 1 .. n - 1 : wire[i].header \in Nat /\ wire[i].part \in Nat
    <2>1. \A i \in 1 .. n - 1 : wire[i].header \in Nat /\ wire[i].part \in Nat
      BY ONLY <1>2, WireTyped, IInv
    <2>2. part[t] \in Nat /\ header[t] \in Nat /\ drawn \in Nat
      BY ConnectionAssumption DEF WriteParts, IInv, TypeOK
    <2>3. /\ part' = [part EXCEPT ![t] = part[t] + 1] /\ part \in [Threads -> 0 .. WriteParts]
          /\ UNCHANGED <<transport, header, drawn>>
      BY DEF WritePart, outside, IInv, TypeOK
    <2> QED
      BY ONLY <1>2, <2>1, <2>2, <2>3
  <1>6. /\ \A i \in 1 .. n - 1 : wire[i].header <= drawn
        /\ header[t] # Raw =>
             /\ header[t] = drawn
             /\ \A i \in 1 .. n - 1 : wire[i].header = drawn => wire[i].part < part[t] + 1
    <2>1. LatestHeader /\ pc[t] \in {"write", "send_to"}
      BY DEF WritePart, Writes, IInv, SendInv
    <2>2. DOMAIN wire = 1 .. n - 1
      BY ONLY <1>2
    <2>3. /\ \A i \in DOMAIN wire : wire[i].header <= drawn
          /\ header[t] # Raw =>
               /\ header[t] = drawn
               /\ \A i \in DOMAIN wire : wire[i].header = header[t] => wire[i].part <= part[t]
      BY <2>1, Zenon DEF LatestHeader
    <2>4. \A i \in 1 .. n - 1 : wire[i].part <= part[t] => wire[i].part < part[t] + 1
      BY ONLY <1>5
    <2> QED
      BY ONLY <2>2, <2>3, <2>4, Zenon
  <1>7. /\ new.by = t /\ new.header = header[t] /\ new.part = part[t] + 1
    OBVIOUS
  <1>8. \A u \in Threads : pc'[u] \in WriterPhases =>
          /\ u = t /\ pc'[u] \in {"write", "send_to"} /\ pc[t] \in {"write", "send_to"}
          /\ part[t] + 1 # WriteParts
    BY <1>1, <1>3 DEF WriterPhases, WritePart, Writes, IInv, TypeOK
  <1> HIDE DEF new
  <1>9. LatestHeader'
    <2>1. \A i \in DOMAIN wire' : wire'[i].header <= drawn'
      BY ONLY <1>2, <1>5, <1>6, <1>7 DEF Raw
    <2>2. header[t] # Raw => \A i \in DOMAIN wire' :
            wire'[i].header = header[t] => wire'[i].part <= part[t] + 1
      <3> SUFFICES ASSUME header[t] # Raw, NEW i \in 1 .. n, wire'[i].header = header[t]
                   PROVE  wire'[i].part <= part[t] + 1
        BY <1>2
      <3>1. CASE i = n
        BY ONLY <3>1, <1>2, <1>5, <1>7
      <3>2. CASE i \in 1 .. n - 1
        <4>1. wire'[i] = wire[i] /\ wire[i].header = drawn
          BY <3>2, <1>2, <1>6
        <4>2. wire[i].part < part[t] + 1 /\ wire[i].part \in Nat
          BY <3>2, <4>1, <1>5, <1>6
        <4> QED
          BY ONLY <4>1, <4>2, <1>5
      <3> QED
        BY ONLY <3>1, <3>2, <1>2, i \in 1 .. n
    <2>3. header[t] # Raw => header'[t] = drawn'
      BY ONLY <1>5, <1>6
    <2>4. header' = header /\ part'[t] = part[t] + 1
      BY ONLY <1>5
    <2> QED
      BY ONLY <2>1, <2>2, <2>3, <2>4, <1>8 DEF LatestHeader, WriterPhases
  <1>10. LastPart'
    <2>1. part[t] < WriteParts /\ WriteParts' = WriteParts /\ WriteParts \in Nat
      BY ConnectionAssumption, <1>5 DEF IInv, SendInv, LastPart, WritePart, Writes,
             WriteParts, Datagrams
    <2>2. part'[t] = part[t] + 1 /\ header' = header
      BY ONLY <1>5
    <2>3. Len(wire') > 0 /\ wire'[Len(wire')] = new
      BY ONLY <1>2
    <2> QED
      BY ONLY <2>1, <2>2, <2>3, <1>5, <1>7, <1>8 DEF LastPart, WriterPhases
  <1>11. SequenceFollowsWriteOrder'
    <2>1. DOMAIN wire' = 1 .. n
      BY ONLY <1>2
    <2> SUFFICES ASSUME NEW i \in 1 .. n, NEW j \in 1 .. n, i < j,
                        wire'[i].header # Raw, wire'[j].header # Raw
                 PROVE  \/ wire'[i].header < wire'[j].header
                        \/ wire'[i].header = wire'[j].header /\ wire'[i].part < wire'[j].part
      BY <2>1 DEF SequenceFollowsWriteOrder, Raw
    <2>2. CASE j < n
      <3>1. i \in DOMAIN wire /\ j \in DOMAIN wire /\ wire'[i] = wire[i] /\ wire'[j] = wire[j]
        BY ONLY <1>2, <2>2, i < j, i \in 1 .. n, j \in 1 .. n
      <3> QED
        BY <3>1 DEF IInv, SendInv, SequenceFollowsWriteOrder
    <2>3. CASE j = n
      <3>1. i \in 1 .. n - 1 /\ wire'[i] = wire[i] /\ wire'[j] = new
        BY ONLY <1>2, <2>3, i < j, i \in 1 .. n
      <3> QED
        BY ONLY <3>1, <1>5, <1>6, <1>7, wire'[j].header # Raw
    <2> QED
      BY ONLY <2>2, <2>3, <1>2, j \in 1 .. n
  <1>12. FramesContiguous'
    <2>1. DOMAIN wire' = 1 .. n
      BY ONLY <1>2
    <2> SUFFICES ASSUME NEW i \in 1 .. n, wire'[i].part > 1
                 PROVE  /\ i > 1
                        /\ wire'[i - 1].by = wire'[i].by
                        /\ wire'[i - 1].header = wire'[i].header
                        /\ wire'[i - 1].part = wire'[i].part - 1
      BY <2>1 DEF FramesContiguous
    <2>2. CASE i < n
      <3>1. i \in DOMAIN wire /\ wire'[i] = wire[i] /\ (i > 1 => wire'[i - 1] = wire[i - 1])
        BY ONLY <1>2, <2>2, i \in 1 .. n
      <3> QED
        BY <3>1 DEF IInv, SendInv, FramesContiguous
    <2>3. CASE i = n
      <3>1. part[t] > 0
        BY ONLY <1>2, <1>5, <1>7, <2>3, wire'[i].part > 1
      <3>2. /\ Len(wire) > 0 /\ wire[Len(wire)].by = t
            /\ wire[Len(wire)].header = header[t] /\ wire[Len(wire)].part = part[t]
        BY <3>1 DEF IInv, SendInv, WritePart, Writes, LastPart
      <3>3. i > 1 /\ i - 1 = Len(wire) /\ wire'[i - 1] = wire[Len(wire)] /\ wire'[i] = new
        BY ONLY <3>2, <1>2, <2>3, WireTyped, IInv
      <3> QED
        BY ONLY <3>2, <3>3, <1>5, <1>7
    <2> QED
      BY ONLY <2>2, <2>3, <1>2, i \in 1 .. n
  <1> QED
    BY <1>4, <1>9, <1>10, <1>11, <1>12 DEF SendInv

LEMMA SendKeeps ==
  ASSUME IInv, NEW t \in Threads,
         Send(t) \/ \E error \in {"would_block", "io_error"} : WriteFails(t, error)
  PROVE  SendInv'
  <1> USE DEF IInv, SendInv, TypeOK, GoTo, Return, outside, receiving, mode, peer
  <1>1. CASE LockWriter(t)
    <2> USE <1>1 DEF LockWriter
    <2>1. \A u \in Threads \ {t} : pc[u] \notin WriterPhases
      BY WriterAlone
    <2>2. WriterHeld' /\ SendCalls' /\ PeerKnown'
      BY <2>1 DEF WriterHeld, SendCalls, PeerKnown, HasPeer, Datagrams, WriterPhases
    <2>3. LatestHeader'
      BY <2>1 DEF LatestHeader, WriterPhases
    <2>4. LastPart'
      BY <2>1, ConnectionAssumption DEF LastPart, WriterPhases, WriteParts, Datagrams
    <2> QED
      BY <2>2, <2>3, <2>4 DEF SequenceFollowsWriteOrder, FramesContiguous
  <1>2. CASE SkipSend(t)
    <2>1. SendingQuiet
      BY <1>2 DEF SkipSend, SendingQuiet, sending, WriterPhases
    <2> QED
      BY <2>1, QuietSending
  <1>3. CASE PoisonedPanic(t)
    BY <1>3, Unwritten DEF PoisonedPanic, sending
  <1>4. CASE NextHeader(t)
    <2> USE <1>4 DEF NextHeader
    <2>1. \A u \in Threads \ {t} : pc[u] \notin WriterPhases
      BY WriterAlone DEF WriterPhases
    <2>2. WriterHeld' /\ SendCalls' /\ PeerKnown'
      BY <2>1 DEF WriterHeld, SendCalls, PeerKnown, HasPeer, Datagrams, WriterPhases
    <2>3. LatestHeader'
      <3>1. \A i \in DOMAIN wire : wire[i].header \in Nat /\ wire[i].header <= drawn
        BY WireTyped DEF LatestHeader
      <3>2. drawn' = drawn + 1 /\ drawn \in Nat /\ wire' = wire
        OBVIOUS
      <3>3. \A i \in DOMAIN wire' : wire'[i].header < drawn'
        BY ONLY <3>1, <3>2
      <3>4. \A u \in Threads : pc'[u] \in WriterPhases => u = t /\ header'[u] = drawn'
        BY <2>1
      <3> QED
        BY ONLY <3>1, <3>2, <3>3, <3>4 DEF LatestHeader, WriterPhases
    <2>4. LastPart'
      BY <2>1 DEF LastPart, WriterPhases, WriteParts, Datagrams
    <2> QED
      BY <2>2, <2>3, <2>4 DEF SequenceFollowsWriteOrder, FramesContiguous
  <1>5. CASE Encode(t)
    <2> USE <1>5 DEF Encode, sending
    <2>1. \A u \in Threads \ {t} : pc[u] \notin WriterPhases
      BY WriterAlone DEF WriterPhases
    <2>2. WriterHeld' /\ SendCalls' /\ PeerKnown'
      BY <2>1 DEF WriterHeld, SendCalls, PeerKnown, HasPeer, Datagrams, WriterPhases
    <2>3. LatestHeader'
      BY <2>1 DEF LatestHeader, WriterPhases
    <2>4. LastPart'
      BY <2>1, ConnectionAssumption DEF LastPart, WriterPhases, WriteParts, Datagrams
    <2> QED
      BY <2>2, <2>3, <2>4 DEF SequenceFollowsWriteOrder, FramesContiguous
  <1>6. CASE EncodeFails(t)
    BY <1>6, Unwritten DEF EncodeFails, WriterPhases
  <1>7. CASE EncodePanics(t)
    BY <1>7, Unwritten DEF EncodePanics, WriterPhases
  <1>8. CASE WritePart(t)
    BY <1>8, WritePartKeeps
  <1>9. ASSUME NEW error \in {"would_block", "io_error"}, WriteFails(t, error)
        PROVE  SendInv'
    BY <1>9, Unwritten DEF WriteFails, Writes, WriterPhases
  <1>10. CASE LockDestination(t)
    <2> USE <1>10 DEF LockDestination, sending
    <2>1. \A u \in Threads \ {t} : pc[u] \notin WriterPhases
      BY WriterAlone DEF WriterPhases
    <2>2. WriterHeld' /\ SendCalls' /\ PeerKnown'
      BY <2>1 DEF WriterHeld, SendCalls, PeerKnown, HasPeer, Datagrams, WriterPhases
    <2>3. LatestHeader'
      BY <2>1 DEF LatestHeader, WriterPhases
    <2>4. LastPart'
      BY <2>1, ConnectionAssumption DEF LastPart, WriterPhases, WriteParts, Datagrams
    <2> QED
      BY <2>2, <2>3, <2>4 DEF SequenceFollowsWriteOrder, FramesContiguous
  <1> QED
    BY <1>1, <1>2, <1>3, <1>4, <1>5, <1>6, <1>7, <1>8, <1>9, <1>10 DEF Send

-----------------------------------------------------------------------------
(***************************************************************************)
(* The steps of the receivers.                                             *)
(***************************************************************************)
LEMMA ReaderAlone ==
  ASSUME IInv, NEW t \in Threads, pc[t] \in ReaderPhases \/ ReaderFree
  PROVE  \A u \in Threads \ {t} : pc[u] \notin ReaderPhases
  BY ConnectionAssumption DEF IInv, ReceiveInv, ReaderHeld, ReaderFree

\* A step that leaves t out of the critical section, with a result.
LEMMA LeaveReader ==
  ASSUME IInv, NEW t \in Threads, pc[t] \in ReaderPhases,
         pc' = [pc EXCEPT ![t] = "idle"], UNCHANGED <<transport, read_timeout, call>>,
         \A u \in Threads \ {t} : outcome'[u] = outcome[u],
         switch_failures' \in Nat, switch_failures' >= switch_failures,
         nonblocking' => SwitchesMode /\ switch_failures' > 0,
         call[t] \in {"recv", "recv_raw"} /\ outcome'[t].what = "would_block" =>
           read_timeout \/ switch_failures > 0
  PROVE  ReceiveInv'
  <1> USE DEF IInv, ReceiveInv, TypeOK
  <1>1. \A u \in Threads : pc'[u] \notin ReaderPhases
    BY ReaderAlone DEF ReaderPhases
  <1>2. ReaderHeld' /\ SenderKnown' /\ TryRecvCalls'
    BY <1>1 DEF ReaderHeld, SenderKnown, TryRecvCalls, ReaderPhases
  <1>3. ModeHeld'
    BY DEF ModeHeld, SwitchesMode, Datagrams
  <1>4. RecvWaits'
    <2>1. switch_failures \in Nat /\ (switch_failures > 0 => switch_failures' > 0)
      OBVIOUS
    <2>2. \A u \in Threads :
            call[u] \in {"recv", "recv_raw"} /\ outcome'[u].what = "would_block" =>
              read_timeout \/ switch_failures > 0
      BY Zenon DEF RecvWaits
    <2> QED
      BY ONLY <2>1, <2>2, UNCHANGED <<read_timeout, call>> DEF RecvWaits
  <1> QED
    BY <1>2, <1>3, <1>4

LEMMA ConcludeKeeps ==
  ASSUME IInv, NEW t \in Threads, pc[t] \in {"decode", "record_empty"}, NEW result \in Outcomes,
         result.what = "would_block" => nonblocking \/ read_timeout,
         Conclude(t, result), UNCHANGED address
  PROVE  ReceiveInv'
  <1>1. CASE call[t] = "try_recv"
    <2>1. /\ pc' = [pc EXCEPT ![t] = "restore_blocking"]
          /\ outcome' = [outcome EXCEPT ![t] = result]
          /\ UNCHANGED <<transport, read_timeout, call, reader, mode, address>>
      BY <1>1 DEF Conclude, GoTo, outside
    <2>2. \A u \in Threads \ {t} : pc[u] \notin ReaderPhases
      BY ReaderAlone DEF ReaderPhases
    <2> USE <1>1, <2>1, <2>2 DEF IInv, ReceiveInv, TypeOK, mode
    <2>3. ReaderHeld' /\ SenderKnown' /\ TryRecvCalls'
      BY DEF ReaderHeld, SenderKnown, TryRecvCalls, ReaderPhases
    <2>4. ModeHeld'
      BY DEF ModeHeld, SwitchesMode, Datagrams, ReaderPhases
    <2>5. RecvWaits'
      BY DEF RecvWaits
    <2> QED
      BY <2>3, <2>4, <2>5
  <1>2. CASE call[t] # "try_recv"
    <2>1. nonblocking => SwitchesMode /\ switch_failures > 0
      BY <1>2, ReaderAlone DEF IInv, ReceiveInv, ModeHeld, ReaderPhases
    <2>2. UNCHANGED <<transport, read_timeout, call, mode, address>>
      BY DEF Conclude, outside
    <2>3. CASE Return(t, result)
      <3>1. /\ pc[t] \in ReaderPhases /\ pc' = [pc EXCEPT ![t] = "idle"]
            /\ \A u \in Threads \ {t} : outcome'[u] = outcome[u]
            /\ outcome'[t] = result
        BY <2>3 DEF Return, GoTo, ReaderPhases, IInv, TypeOK
      <3>2. /\ switch_failures' \in Nat /\ switch_failures' >= switch_failures
            /\ nonblocking' => SwitchesMode /\ switch_failures' > 0
        BY <2>1, <2>2 DEF mode, IInv, TypeOK
      <3>3. outcome'[t].what = "would_block" => read_timeout \/ switch_failures > 0
        BY <2>1, <3>1
      <3> QED
        BY ONLY <2>2, <3>1, <3>2, <3>3, IInv, t \in Threads, LeaveReader, Zenon
    <2>4. CASE UNCHANGED <<pc, outcome, reader, handed>>
      <3>1. ReceivingQuiet
        BY <2>2, <2>4 DEF ReceivingQuiet
      <3> QED
        BY <3>1, QuietReceiving DEF IInv
    <2> QED
      BY <1>2, <2>3, <2>4 DEF Conclude
  <1> QED
    BY <1>1, <1>2

LEMMA ReceiveKeeps ==
  ASSUME IInv, NEW t \in Threads,
         Reading(t)
  PROVE  ReceiveInv'
  <1> USE DEF IInv, ReceiveInv, TypeOK
  <1>1. CASE LockReader(t)
    <2> USE <1>1 DEF LockReader, GoTo, outside, mode, peer
    <2>1. \A u \in Threads \ {t} : pc[u] \notin ReaderPhases
      BY ReaderAlone
    <2>2. ReaderHeld' /\ SenderKnown' /\ TryRecvCalls'
      BY <2>1 DEF ReaderHeld, SenderKnown, TryRecvCalls, ReaderPhases
    <2>3. ModeHeld'
      BY <2>1 DEF ModeHeld, ReaderPhases, SwitchesMode, Datagrams
    <2>4. RecvWaits'
      BY DEF RecvWaits
    <2> QED
      BY <2>2, <2>3, <2>4
  <1>2. CASE SetNonblocking(t)
    <2> USE <1>2 DEF SetNonblocking, GoTo, outside, peer
    <2>1. \A u \in Threads \ {t} : pc[u] \notin ReaderPhases
      BY ReaderAlone DEF ReaderPhases
    <2>2. ReaderHeld' /\ SenderKnown' /\ TryRecvCalls'
      BY <2>1 DEF ReaderHeld, SenderKnown, TryRecvCalls, ReaderPhases
    <2>3. ModeHeld'
      BY <2>1 DEF ModeHeld, TryRecvCalls, ReaderPhases, SwitchesMode, Datagrams
    <2>4. RecvWaits'
      BY DEF RecvWaits
    <2> QED
      BY <2>2, <2>3, <2>4
  <1>3. CASE DecodeFrame(t)
    <2>1. Head(buffered) \in Nat
      BY <1>3 DEF DecodeFrame
    <2>2. PICK result \in Outcomes : Conclude(t, result) /\ result.what # "would_block"
      BY <1>3, <2>1 DEF DecodeFrame, Message, Other, Outcome, Outcomes
    <2> QED
      BY <1>3, <2>2, ConcludeKeeps DEF DecodeFrame, peer
  <1>4. CASE ReadChunk(t)
    <2> USE <1>4 DEF ReadChunk, Reads, GoTo, outside, mode
    <2>1. \A u \in Threads \ {t} : pc[u] \notin ReaderPhases
      BY ReaderAlone DEF ReaderPhases
    <2>2. address' # NoPeer
      <3> DEFINE Chunks == [from : Peers, frames : Seq(Nat)]
      <3>1. socket \in Seq(Chunks) /\ socket # <<>> /\ address' = Head(socket).from
        OBVIOUS
      <3>2. \A chunk \in Chunks : chunk.from \in Peers
        OBVIOUS
      <3> HIDE DEF Chunks
      <3>3. Head(socket) \in Chunks
        BY ONLY <3>1, HeadTailProperties
      <3> QED
        BY ONLY <3>1, <3>2, <3>3, ConnectionAssumption
    <2>3. ReaderHeld' /\ SenderKnown' /\ TryRecvCalls'
      BY <2>1, <2>2 DEF ReaderHeld, SenderKnown, TryRecvCalls, ReaderPhases
    <2>4. ModeHeld'
      BY <2>1 DEF ModeHeld, ReaderPhases, SwitchesMode, Datagrams
    <2>5. RecvWaits'
      BY DEF RecvWaits
    <2> QED
      BY <2>3, <2>4, <2>5
  <1>5. CASE RecordSender(t)
    <2> USE <1>5 DEF RecordSender, GoTo, outside, mode
    <2>1. \A u \in Threads \ {t} : pc[u] \notin ReaderPhases
      BY ReaderAlone DEF ReaderPhases
    <2>2. ReaderHeld' /\ SenderKnown' /\ TryRecvCalls'
      BY <2>1 DEF ReaderHeld, SenderKnown, TryRecvCalls, ReaderPhases
    <2>3. ModeHeld'
      BY <2>1 DEF ModeHeld, ReaderPhases, SwitchesMode, Datagrams
    <2>4. RecvWaits'
      BY DEF RecvWaits
    <2> QED
      BY <2>2, <2>3, <2>4
  <1>6. CASE ReadGivesUp(t)
    <2>1. /\ Other("would_block") \in Outcomes /\ Other("eof") \in Outcomes
          /\ Other("eof").what # "would_block"
      BY DEF Other, Outcome, Outcomes
    <2>2. PICK result \in Outcomes :
            /\ Conclude(t, result)
            /\ result.what = "would_block" => nonblocking \/ read_timeout
      BY <1>6, <2>1 DEF ReadGivesUp
    <2>3. pc[t] = "decode" /\ UNCHANGED address
      BY <1>6 DEF ReadGivesUp, Reads, peer
    <2> QED
      BY <2>2, <2>3, ConcludeKeeps
  <1>7. CASE RestoreBlocking(t)
    <2>1. nonblocking' => SwitchesMode /\ switch_failures > 0
      BY <1>7 DEF RestoreBlocking, ModeHeld
    <2>2. /\ pc[t] \in ReaderPhases /\ call[t] = "try_recv"
          /\ pc' = [pc EXCEPT ![t] = "idle"]
          /\ \A u \in Threads \ {t} : outcome'[u] = outcome[u]
          /\ UNCHANGED <<transport, read_timeout, call>>
          /\ switch_failures' \in Nat /\ switch_failures' >= switch_failures
          /\ switch_failures' = switch_failures
      BY <1>7 DEF RestoreBlocking, GoTo, outside, ReaderPhases, TryRecvCalls
    <2>3. nonblocking' => SwitchesMode /\ switch_failures' > 0
      BY <2>1, <2>2
    <2> QED
      BY ONLY <2>2, <2>3, IInv, t \in Threads, LeaveReader, Zenon
  <1>8. CASE SetNonblockingFails(t)
    <2>1. nonblocking => SwitchesMode /\ switch_failures > 0
      BY <1>8, ReaderAlone DEF SetNonblockingFails, ModeHeld, ReaderPhases
    <2>2. /\ pc[t] \in ReaderPhases /\ call[t] = "try_recv"
          /\ pc' = [pc EXCEPT ![t] = "idle"]
          /\ \A u \in Threads \ {t} : outcome'[u] = outcome[u]
          /\ UNCHANGED <<transport, read_timeout, call>>
          /\ switch_failures' \in Nat /\ switch_failures' >= switch_failures
          /\ UNCHANGED <<nonblocking, switch_failures>>
      BY <1>8 DEF SetNonblockingFails, Return, GoTo, outside, mode, ReaderPhases, TryRecvCalls
    <2>3. nonblocking' => SwitchesMode /\ switch_failures' > 0
      BY <2>1, <2>2
    <2> QED
      BY ONLY <2>2, <2>3, IInv, t \in Threads, LeaveReader, Zenon
  <1>9. CASE RestoreBlockingFails(t)
    <2>1. /\ switch_failures' \in Nat /\ switch_failures' >= switch_failures
          /\ nonblocking' => SwitchesMode /\ switch_failures' > 0
      BY <1>9 DEF RestoreBlockingFails
    <2>2. /\ pc[t] \in ReaderPhases /\ call[t] = "try_recv"
          /\ pc' = [pc EXCEPT ![t] = "idle"]
          /\ \A u \in Threads \ {t} : outcome'[u] = outcome[u]
          /\ UNCHANGED <<transport, read_timeout, call>>
      BY <1>9 DEF RestoreBlockingFails, Return, GoTo, outside, ReaderPhases, TryRecvCalls
    <2> QED
      BY ONLY <2>1, <2>2, IInv, t \in Threads, LeaveReader, Zenon
  <1>10. ASSUME NEW error \in {"eof", "io_error"}, ReadFails(t, error) PROVE ReceiveInv'
    <2>1. Other(error) \in Outcomes /\ Other(error).what # "would_block"
      BY <1>10 DEF Other, Outcome, Outcomes
    <2> QED
      BY <1>10, <2>1, ConcludeKeeps DEF ReadFails, Reads, peer
  <1>11. CASE RecordEmpty(t)
    <2>1. Other("eof") \in Outcomes /\ Other("eof").what # "would_block"
      BY DEF Other, Outcome, Outcomes
    <2> QED
      BY <1>11, <2>1, ConcludeKeeps DEF RecordEmpty
  <1>12. CASE AwaitRest(t)
    <2>1. ReceivingQuiet
      BY <1>12 DEF AwaitRest, ReceivingQuiet, outside, peer
    <2> QED
      BY <2>1, QuietReceiving
  <1>13. ASSUME NEW from \in Peers, ReadEmpty(t, from) PROVE ReceiveInv'
    <2> USE <1>13 DEF ReadEmpty, Reads, GoTo, outside, mode
    <2>1. \A u \in Threads \ {t} : pc[u] \notin ReaderPhases
      BY ReaderAlone DEF ReaderPhases
    <2>2. address' # NoPeer
      BY ConnectionAssumption
    <2>3. ReaderHeld' /\ SenderKnown' /\ TryRecvCalls'
      BY <2>1, <2>2 DEF ReaderHeld, SenderKnown, TryRecvCalls, ReaderPhases
    <2>4. ModeHeld'
      BY <2>1 DEF ModeHeld, ReaderPhases, SwitchesMode, Datagrams
    <2>5. RecvWaits'
      BY DEF RecvWaits
    <2> QED
      BY <2>3, <2>4, <2>5
  <1> QED
    BY <1>1, <1>2, <1>3, <1>4, <1>5, <1>6, <1>7, <1>8, <1>9, <1>10, <1>11, <1>12, <1>13
    DEF Receive, Reading

-----------------------------------------------------------------------------
LEMMA StepInv == IInv /\ [Next]_vars => IInv'
  <1> SUFFICES ASSUME IInv, [Next]_vars PROVE IInv'
    OBVIOUS
  <1> DEFINE sends(t) ==
        Send(t) \/ \E error \in {"would_block", "io_error"} : WriteFails(t, error)
  <1>1. CASE World
    BY <1>1, TypeOfWorld, WorldIsQuiet, QuietSending, QuietReceiving DEF IInv
  <1>2. ASSUME NEW t \in Threads, NEW operation \in Operations, Call(t, operation)
        PROVE  IInv'
    BY <1>2, TypeOfCall, CallIsQuiet, QuietSending, QuietReceiving DEF IInv
  <1>3. ASSUME NEW t \in Threads, Reading(t) PROVE IInv'
    <2>1. TypeOK'
      BY <1>3, TypeOfReceive, TypeOfFail DEF Reading, Fail, IInv
    <2>2. SendInv'
      BY <1>3, ReceiveIsQuiet, QuietSending DEF IInv
    <2>3. ReceiveInv'
      BY <1>3, ReceiveKeeps
    <2> QED
      BY <2>1, <2>2, <2>3 DEF IInv
  <1>4. ASSUME NEW t \in Threads, sends(t) PROVE IInv'
    <2>1. TypeOK'
      BY <1>4, TypeOfSend, TypeOfFail DEF Fail, IInv, SendInv
    <2>2. SendInv'
      BY <1>4, SendKeeps
    <2>3. ReceiveInv'
      BY <1>4, SendIsQuiet, QuietReceiving DEF IInv
    <2> QED
      BY <2>1, <2>2, <2>3 DEF IInv
  <1>5. CASE UNCHANGED vars
    <2> USE <1>5 DEF vars, outside, receiving, sending, mode, peer, candidate, IInv
    <2>1. TypeOK'
      BY DEF TypeOK, WriteParts, Datagrams
    <2>2. SendingQuiet /\ ReceivingQuiet
      BY DEF SendingQuiet, ReceivingQuiet
    <2> QED
      BY <2>1, <2>2, QuietSending, QuietReceiving
  <1> QED
    BY <1>1, <1>2, <1>3, <1>4, <1>5 DEF Next, Fail, Reading

LEMMA Invariance == Spec => []IInv
  BY InitInv, StepInv, PTL DEF Spec

\* Every value of the connection's state stays in its type.
THEOREM TypeCorrect == Spec => []TypeOK
  <1>1. IInv => TypeOK
    BY DEF IInv
  <1> QED
    BY <1>1, Invariance, PTL

\* Sequence numbers are on the wire in the order in which next_header drew
\* them, for any number of threads: they are drawn with the writer locked.
THEOREM SequenceCorrect == Spec => []SequenceFollowsWriteOrder
  <1>1. IInv => SequenceFollowsWriteOrder
    BY DEF IInv, SendInv
  <1> QED
    BY <1>1, Invariance, PTL

\* Frames are not interleaved on the wire, however many writes each takes.
THEOREM ContiguousCorrect == Spec => []FramesContiguous
  <1>1. IInv => FramesContiguous
    BY DEF IInv, SendInv
  <1> QED
    BY <1>1, Invariance, PTL

\* lock_writer's check of the destination holds until the datagram is written.
THEOREM DestinationCorrect == Spec => []DestinationKnown
  <1>1. IInv => DestinationKnown
    BY DEF IInv, SendInv, PeerKnown, DestinationKnown, HasPeer, WriterPhases
  <1> QED
    BY <1>1, Invariance, PTL

\* The nonblocking mode of a try_recv never shows in another thread's recv.
THEOREM RecvWaitsCorrect == Spec => []RecvWaits
  <1>1. IInv => RecvWaits
    BY DEF IInv, ReceiveInv
  <1> QED
    BY <1>1, Invariance, PTL

-----------------------------------------------------------------------------
(***************************************************************************)
(* Whom an answer reaches: the invariant.                                  *)
(***************************************************************************)
From(nr, peer_address) == nr \in DOMAIN arrivals /\ arrivals[nr].from = peer_address

\* The frames of a chunk have arrived, and from its sender.
ChunkFrames ==
  \A c \in DOMAIN socket : \A i \in DOMAIN socket[c].frames :
    From(socket[c].frames[i], socket[c].from)

\* So have those that were read, unless another datagram was read since, ...
Reached(nr) == nr \notin overtaken => From(nr, address)

BufferedFrames ==
  transport = "udp_server" => \A i \in DOMAIN buffered : Reached(buffered[i])

\* ... and the one a try_recv holds while it restores the mode.
HeldFrames ==
  transport = "udp_server" =>
    \A t \in Threads :
      pc[t] = "restore_blocking" /\ outcome[t].what = "message" => Reached(outcome[t].nr)

\* The sender is recorded before anything is decoded.
SenderRecorded ==
  transport = "udp_server" /\ (\A t \in Threads : pc[t] \notin {"record_sender", "record_empty"})
    => destination = address

SenderInv == ChunkFrames /\ BufferedFrames /\ HeldFrames /\ SenderRecorded

\* A step that reads and decodes nothing.
LEMMA SenderKept ==
  ASSUME SenderInv, UNCHANGED <<transport, arrivals, socket, buffered, overtaken, peer>>,
         \A u \in Threads :
           /\ pc'[u] \in {"record_sender", "record_empty"}
                <=> pc[u] \in {"record_sender", "record_empty"}
           /\ pc'[u] = "restore_blocking" =>
                pc[u] = "restore_blocking" /\ outcome'[u] = outcome[u]
  PROVE  SenderInv'
  BY DEF SenderInv, ChunkFrames, BufferedFrames, HeldFrames, SenderRecorded, Reached, From, peer

LEMMA SenderOfArrive ==
  ASSUME TypeOK, SenderInv, NEW from \in Peers, NEW k \in 0 .. MaxArrivals,
         NEW parses \in BOOLEAN, Arrive(from, k, parses)
  PROVE  SenderInv'
  <1> DEFINE Arrival == [from : Peers, parses : BOOLEAN]
             Chunk == [from : Peers, frames : Seq(Nat)]
             frame == [from |-> from, parses |-> parses]
             some == [i \in 1 .. k |-> frame]
             numbers == [i \in 1 .. k |-> Len(arrivals) + i]
             chunk == [from |-> from, frames |-> numbers]
  <1>1. k \in Nat /\ Len(arrivals) \in Nat
    BY ConnectionAssumption, LenProperties DEF TypeOK
  <1>2. /\ some \in Seq(Arrival) /\ Len(some) = k /\ chunk \in Chunk
        /\ arrivals' = arrivals \o some /\ socket' = Append(socket, chunk)
        /\ UNCHANGED <<transport, pc, outcome, peer, buffered, overtaken>>
    <2>1. some \in Seq(Arrival)
      BY <1>1
    <2>2. Len(some) = k
      BY <1>1
    <2>3. chunk \in Chunk
      BY <1>1
    <2> QED
      BY <2>1, <2>2, <2>3 DEF Arrive, candidate
  <1>3. /\ DOMAIN arrivals = 1 .. Len(arrivals) /\ DOMAIN arrivals' = 1 .. Len(arrivals) + k
        /\ \A i \in DOMAIN arrivals : arrivals'[i] = arrivals[i]
        /\ \A i \in 1 .. k : arrivals'[Len(arrivals) + i] = frame
    BY <1>1, <1>2 DEF TypeOK
  <1>4. /\ DOMAIN socket' = 1 .. Len(socket) + 1 /\ DOMAIN socket = 1 .. Len(socket)
        /\ Len(socket) \in Nat
        /\ \A c \in DOMAIN socket : socket'[c] = socket[c]
        /\ socket'[Len(socket) + 1] = chunk
    <2>1. socket \in Seq(Chunk)
      BY DEF TypeOK
    <2> HIDE DEF chunk, Chunk
    <2> QED
      BY <1>2, <2>1, AppendProperties, LenProperties
  <1>5. \A nr, p : From(nr, p) => From(nr, p)'
    BY <1>1, <1>3 DEF From
  <1>6. ChunkFrames'
    <2> SUFFICES ASSUME NEW c \in DOMAIN socket', NEW i \in DOMAIN socket'[c].frames
                 PROVE  From(socket[c].frames[i], socket[c].from)'
      BY DEF ChunkFrames
    <2>1. CASE c \in DOMAIN socket
      BY <1>4, <1>5, <2>1 DEF SenderInv, ChunkFrames
    <2>2. CASE c = Len(socket) + 1
      <3>1. socket'[c] = chunk
        BY ONLY <1>4, <2>2
      <3>2. socket'[c].frames = numbers /\ socket'[c].from = from
        BY ONLY <3>1
      <3>3. i \in 1 .. k /\ socket'[c].frames[i] = Len(arrivals) + i
        BY <3>2
      <3>4. Len(arrivals) + i \in 1 .. Len(arrivals) + k
        BY ONLY <1>1, <3>3
      <3>5. Len(arrivals) + i \in DOMAIN arrivals' /\ arrivals'[Len(arrivals) + i].from = from
        BY ONLY <1>3, <3>3, <3>4
      <3> QED
        BY ONLY <3>2, <3>3, <3>5 DEF From
    <2> QED
      BY <1>4, <2>1, <2>2
  <1>7. BufferedFrames' /\ HeldFrames' /\ SenderRecorded'
    BY <1>2, <1>5 DEF SenderInv, BufferedFrames, HeldFrames, SenderRecorded, Reached, peer
  <1> QED
    BY <1>6, <1>7 DEF SenderInv

\* A call comes to a result, a frame of the sender's or none.
LEMMA SenderOfConclude ==
  ASSUME TypeOK, SenderInv, NEW t \in Threads, NEW result \in Outcomes,
         (pc[t] = "decode" /\ destination' = destination) \/ destination' = address,
         UNCHANGED <<address, overtaken>>,
         transport = "udp_server" /\ result.what = "message" => Reached(result.nr),
         Conclude(t, result),
         transport = "udp_server" => \A i \in DOMAIN buffered' : Reached(buffered'[i])
  PROVE  SenderInv'
  <1>1. UNCHANGED <<transport, arrivals, socket, address, overtaken>>
    BY DEF Conclude, outside
  <1>2. /\ \A u \in Threads \ {t} : pc'[u] = pc[u] /\ outcome'[u] = outcome[u]
        /\ pc'[t] \in {pc[t], "idle", "restore_blocking"}
        /\ pc'[t] = "restore_blocking" => outcome'[t] = result \/ pc[t] = "restore_blocking"
        /\ pc'[t] = pc[t] => outcome'[t] = outcome[t] \/ outcome'[t] = result
    BY DEF TypeOK, Conclude, Return, GoTo
  <1>3. ChunkFrames' /\ BufferedFrames'
    BY <1>1 DEF SenderInv, ChunkFrames, BufferedFrames, Reached, From
  <1>4. HeldFrames'
    BY <1>1, <1>2 DEF SenderInv, HeldFrames, Reached, From
  <1>5. SenderRecorded'
    BY <1>1, <1>2 DEF SenderInv, SenderRecorded
  <1> QED
    BY <1>3, <1>4, <1>5 DEF SenderInv

LEMMA SenderOfDecode ==
  ASSUME IInv, SenderInv, NEW t \in Threads, DecodeFrame(t)
  PROVE  SenderInv'
  <1> DEFINE nr == Head(buffered)
             result == IF arrivals[nr].parses \/ call[t] = "recv_raw"
                       THEN Message(nr) ELSE Other("parse_error")
  <1>1. /\ TypeOK /\ pc[t] = "decode" /\ Conclude(t, result)
        /\ buffered \in Seq(Nat) /\ buffered # <<>> /\ buffered' = Tail(buffered)
        /\ UNCHANGED <<destination, address, overtaken>>
    BY DEF IInv, TypeOK, DecodeFrame, peer, candidate
  <1>2. nr = buffered[1] /\ 1 \in DOMAIN buffered
    BY <1>1, FirstAndRest
  <1>3. nr \in Nat
    BY <1>1
  <1>4. result \in Outcomes /\ (result.what = "message" => result.nr = nr)
    BY <1>3 DEF Message, Other, Outcome, Outcomes
  <1>5. transport = "udp_server" => Reached(nr)
    BY <1>2 DEF SenderInv, BufferedFrames
  <1>6. transport = "udp_server" => \A i \in DOMAIN buffered' : Reached(buffered'[i])
    BY <1>1, FirstAndRest DEF SenderInv, BufferedFrames
  <1>7. transport = "udp_server" /\ result.what = "message" => Reached(result.nr)
    BY <1>4, <1>5
  <1> HIDE DEF result
  <1> QED
    BY <1>1, <1>4, <1>6, <1>7, SenderOfConclude

\* A reader that reads holds no message, and no other thread does.
LEMMA NoneHeld ==
  ASSUME IInv, NEW t \in Threads, Reads(t), pc' = [pc EXCEPT ![t] = pc'[t]],
         pc'[t] # "restore_blocking"
  PROVE  HeldFrames'
  <1>1. pc[t] \in ReaderPhases
    BY DEF Reads, ReaderPhases
  <1>2. \A u \in Threads \ {t} : pc[u] \notin ReaderPhases
    BY <1>1, ReaderAlone
  <1> QED
    BY <1>2 DEF IInv, TypeOK, ReaderPhases, HeldFrames

LEMMA SenderOfReceive ==
  ASSUME IInv, SenderInv, NEW t \in Threads, Receive(t)
  PROVE  SenderInv'
  <1> USE DEF GoTo, outside, peer, candidate
  <1>1. TypeOK
    BY DEF IInv
  <1>2. CASE LockReader(t) \/ SetNonblocking(t) \/ RestoreBlocking(t)
    <2>1. UNCHANGED <<transport, arrivals, socket, buffered, overtaken, peer, outcome>>
      BY <1>2 DEF LockReader, SetNonblocking, RestoreBlocking
    <2>2. \A u \in Threads :
            /\ pc'[u] \in {"record_sender", "record_empty"}
                 <=> pc[u] \in {"record_sender", "record_empty"}
            /\ pc'[u] = "restore_blocking" => pc[u] = "restore_blocking"
      BY <1>1, <1>2 DEF TypeOK, LockReader, SetNonblocking, RestoreBlocking
    <2> QED
      BY <2>1, <2>2, SenderKept
  <1>3. CASE DecodeFrame(t)
    BY <1>3, SenderOfDecode
  <1>4. CASE ReadChunk(t)
    <2> DEFINE Chunk == [from : Peers, frames : Seq(Nat)]
               first == Head(socket).frames
    <2>1. /\ socket \in Seq(Chunk) /\ socket # <<>> /\ socket' = Tail(socket)
          /\ buffered \in Seq(Nat) /\ buffered' = buffered \o first
          /\ address' = Head(socket).from
          /\ buffered = <<>> \/ withheld
          /\ UNCHANGED <<transport, arrivals, outcome>>
      BY <1>1, <1>4 DEF TypeOK, ReadChunk, Reads
    <2>2. /\ Head(socket) = socket[1] /\ 1 \in DOMAIN socket
          /\ \A c \in DOMAIN socket' : c + 1 \in DOMAIN socket /\ socket'[c] = socket[c + 1]
      <3> HIDE DEF Chunk
      <3> QED
        BY ONLY <2>1, FirstAndRest, Zenon
    <2>3. ChunkFrames'
      BY ONLY SenderInv, <2>1, <2>2 DEF SenderInv, ChunkFrames, From
    <2>4. first \in Seq(Nat)
      <3>1. Head(socket) \in Chunk
        <4> HIDE DEF Chunk
        <4> QED
          BY ONLY <2>1, HeadTailProperties
      <3> QED
        BY ONLY <3>1
    <2> HIDE DEF first
    <2>5. /\ \A i \in DOMAIN buffered : i \in DOMAIN buffered' /\ buffered'[i] = buffered[i]
          /\ \A i \in DOMAIN first :
               Len(buffered) + i \in DOMAIN buffered' /\ buffered'[Len(buffered) + i] = first[i]
          /\ \A i \in DOMAIN buffered' :
               \/ i \in DOMAIN buffered /\ buffered'[i] = buffered[i]
               \/ \E j \in DOMAIN first : buffered'[i] = first[j]
      <3>1. /\ \A i \in DOMAIN buffered : i \in DOMAIN buffered' /\ buffered'[i] = buffered[i]
            /\ \A i \in DOMAIN first :
                 Len(buffered) + i \in DOMAIN buffered' /\ buffered'[Len(buffered) + i] = first[i]
            /\ \A i \in DOMAIN buffered' :
                 i \in DOMAIN buffered \/ i - Len(buffered) \in DOMAIN first
            /\ Len(buffered) \in Nat /\ DOMAIN buffered' = 1 .. Len(buffered) + Len(first)
        BY ONLY <2>1, <2>4, Joined, Zenon
      <3>2. \A i \in DOMAIN buffered' : Len(buffered) + (i - Len(buffered)) = i
        BY ONLY <3>1
      <3> QED
        BY ONLY <3>1, <3>2, Zenon
    <2>6. \A j \in DOMAIN first :
            first[j] \in DOMAIN arrivals /\ arrivals[first[j]].from = Head(socket).from
      BY ONLY SenderInv, <2>2 DEF SenderInv, ChunkFrames, From, first
    <2>7. ASSUME transport = "udp_server", NEW i \in DOMAIN buffered
          PROVE  buffered[i] \in overtaken'
      <3>1. buffered # <<>>
        BY <2>7
      <3>2. withheld
        BY <2>1, <3>1
      <3> QED
        BY <1>4, <2>7, <3>2 DEF ReadChunk, Overtake, Range
    <2>8. BufferedFrames'
      <3> SUFFICES ASSUME transport = "udp_server", NEW i \in DOMAIN buffered'
                   PROVE  Reached(buffered[i])'
        BY <2>1 DEF BufferedFrames
      <3>1. CASE i \in DOMAIN buffered /\ buffered'[i] = buffered[i]
        BY <2>7, <3>1 DEF Reached
      <3>2. ASSUME NEW j \in DOMAIN first, buffered'[i] = first[j]
            PROVE  Reached(buffered[i])'
        BY <2>1, <2>6, <3>2 DEF Reached, From
      <3> QED
        BY ONLY <2>5, <3>1, <3>2
    <2>9. HeldFrames'
      BY <1>4, NoneHeld DEF IInv, TypeOK, ReadChunk
    <2>10. transport = "udp_server" => pc'[t] = "record_sender"
      BY <1>1, <1>4 DEF TypeOK, ReadChunk
    <2> QED
      BY <2>1, <2>3, <2>8, <2>9, <2>10 DEF SenderInv, SenderRecorded
  <1>5. CASE RecordSender(t)
    BY <1>1, <1>5 DEF TypeOK, RecordSender, SenderInv, ChunkFrames, BufferedFrames, HeldFrames,
                      SenderRecorded, Reached, From
  <1>6. CASE ReadGivesUp(t)
    <2>1. PICK result \in Outcomes : Conclude(t, result) /\ result.what # "message"
      BY <1>6 DEF ReadGivesUp, Other, Outcome, Outcomes
    <2>2. /\ pc[t] = "decode" /\ UNCHANGED <<destination, address, overtaken>>
          /\ transport = "udp_server" => \A i \in DOMAIN buffered' : Reached(buffered'[i])
      BY <1>6 DEF ReadGivesUp, Reads, SenderInv, BufferedFrames
    <2> QED
      BY <1>1, <2>1, <2>2, SenderOfConclude
  <1>7. CASE RecordEmpty(t)
    <2>1. Other("eof") \in Outcomes /\ Other("eof").what # "message"
      BY DEF Other, Outcome, Outcomes
    <2>2. /\ Conclude(t, Other("eof")) /\ destination' = address /\ UNCHANGED <<address, overtaken>>
          /\ transport = "udp_server" => \A i \in DOMAIN buffered' : Reached(buffered'[i])
      BY <1>7 DEF RecordEmpty, SenderInv, BufferedFrames
    <2> QED
      BY <1>1, <2>1, <2>2, SenderOfConclude
  <1> QED
    BY <1>2, <1>3, <1>4, <1>5, <1>6, <1>7 DEF Receive

LEMMA SenderOfFail ==
  ASSUME IInv, SenderInv, NEW t \in Threads, Fail(t)
  PROVE  SenderInv'
  <1> USE DEF GoTo, Return, outside, receiving, peer, candidate
  <1>1. TypeOK
    BY DEF IInv
  <1>2. CASE AwaitRest(t) \/ SetNonblockingFails(t) \/ RestoreBlockingFails(t)
             \/ \E error \in {"would_block", "io_error"} : WriteFails(t, error)
    <2>1. UNCHANGED <<transport, arrivals, socket, buffered, overtaken, peer>>
      BY <1>2 DEF AwaitRest, SetNonblockingFails, RestoreBlockingFails, WriteFails
    <2>2. \A u \in Threads :
            /\ pc'[u] \in {"record_sender", "record_empty"}
                 <=> pc[u] \in {"record_sender", "record_empty"}
            /\ pc'[u] = "restore_blocking" =>
                 pc[u] = "restore_blocking" /\ outcome'[u] = outcome[u]
      <3>1. CASE AwaitRest(t)
        BY <3>1 DEF AwaitRest
      <3>2. CASE SetNonblockingFails(t) \/ RestoreBlockingFails(t)
        BY <1>1, <3>2 DEF TypeOK, SetNonblockingFails, RestoreBlockingFails
      <3>3. ASSUME NEW error \in {"would_block", "io_error"}, WriteFails(t, error)
            PROVE  /\ pc[t] \in {"write", "send_to"} /\ pc' = [pc EXCEPT ![t] = "idle"]
                   /\ \A u \in Threads \ {t} : outcome'[u] = outcome[u]
        BY <1>1, <3>3 DEF TypeOK, WriteFails, Writes
      <3> QED
        BY <1>1, <1>2, <3>1, <3>2, <3>3 DEF TypeOK
    <2> QED
      BY <2>1, <2>2, SenderKept
  <1>3. ASSUME NEW error \in {"eof", "io_error"}, ReadFails(t, error) PROVE SenderInv'
    <2>1. Other(error) \in Outcomes /\ Other(error).what # "message"
      BY DEF Other, Outcome, Outcomes
    <2>2. /\ pc[t] = "decode" /\ Conclude(t, Other(error))
          /\ UNCHANGED <<destination, address, overtaken>>
          /\ transport = "udp_server" => \A i \in DOMAIN buffered' : Reached(buffered'[i])
      BY <1>3 DEF ReadFails, Reads, SenderInv, BufferedFrames
    <2> QED
      BY <1>1, <2>1, <2>2, SenderOfConclude
  <1>4. ASSUME NEW from \in Peers, ReadEmpty(t, from) PROVE SenderInv'
    <2>1. /\ UNCHANGED <<transport, arrivals, socket, buffered>>
          /\ transport = "udp_server" /\ pc'[t] = "record_empty"
          /\ buffered = <<>> \/ withheld
      BY <1>1, <1>4 DEF TypeOK, ReadEmpty, Reads
    <2>2. ChunkFrames'
      BY <2>1 DEF SenderInv, ChunkFrames, From
    <2>3. ASSUME NEW i \in DOMAIN buffered PROVE buffered[i] \in overtaken'
      <3>1. buffered # <<>>
        BY <2>3
      <3>2. withheld
        BY <2>1, <3>1
      <3> QED
        BY <1>4, <2>1, <2>3, <3>2 DEF ReadEmpty, Overtake, Range
    <2>4. BufferedFrames'
      BY <2>1, <2>3 DEF BufferedFrames, Reached
    <2>5. HeldFrames'
      BY <1>1, <1>4, NoneHeld DEF TypeOK, ReadEmpty
    <2> QED
      BY <2>1, <2>2, <2>4, <2>5 DEF SenderInv, SenderRecorded
  <1> QED
    BY <1>2, <1>3, <1>4 DEF Fail

LEMMA SenderStep == IInv /\ SenderInv /\ [Next]_vars => SenderInv'
  <1> SUFFICES ASSUME IInv, SenderInv, [Next]_vars PROVE SenderInv'
    OBVIOUS
  <1> USE DEF outside, receiving, peer, candidate
  <1>1. TypeOK
    BY DEF IInv
  <1>2. CASE /\ UNCHANGED <<transport, arrivals, pc, outcome>>
             /\ UNCHANGED <<socket, buffered, overtaken, peer>>
    BY <1>2, SenderKept
  <1>3. CASE World
    <2>1. ASSUME NEW v \in Versions, SetProtocolVersion(v) PROVE SenderInv'
      BY <1>2, <2>1 DEF SetProtocolVersion
    <2> QED
      BY <1>1, <1>3, <2>1, SenderOfArrive DEF World
  <1>4. ASSUME NEW t \in Threads, NEW operation \in Operations, Call(t, operation)
        PROVE  SenderInv'
    <2>1. UNCHANGED <<transport, arrivals, socket, buffered, overtaken, peer>>
      BY <1>4 DEF Call
    <2>2. \A u \in Threads :
            /\ pc'[u] \in {"record_sender", "record_empty"}
                 <=> pc[u] \in {"record_sender", "record_empty"}
            /\ pc'[u] = "restore_blocking" =>
                 pc[u] = "restore_blocking" /\ outcome'[u] = outcome[u]
      BY <1>1, <1>4 DEF TypeOK, Call, GoTo
    <2> QED
      BY <2>1, <2>2, SenderKept
  <1>5. ASSUME NEW t \in Threads, Send(t) PROVE SenderInv'
    <2>1. UNCHANGED <<transport, arrivals, socket, buffered, overtaken, peer>>
      BY <1>5 DEF Send, LockWriter, SkipSend, PoisonedPanic, NextHeader, Encode, EncodeFails,
                  EncodePanics, LockDestination, WritePart
    <2>2. \/ UNCHANGED <<pc, outcome>>
          \/ /\ \A u \in Threads \ {t} : pc'[u] = pc[u] /\ outcome'[u] = outcome[u]
             /\ pc'[t] \notin {"record_sender", "record_empty", "restore_blocking"}
             /\ pc[t] \in WriterPhases \union {"want_writer"}
      BY <1>1, <1>5
      DEF TypeOK, Send, LockWriter, SkipSend, PoisonedPanic, NextHeader, Encode, EncodeFails,
          EncodePanics, LockDestination, WritePart, Writes, Return, GoTo, WriterPhases
    <2>3. \A u \in Threads :
            /\ pc'[u] \in {"record_sender", "record_empty"}
                 <=> pc[u] \in {"record_sender", "record_empty"}
            /\ pc'[u] = "restore_blocking" =>
                 pc[u] = "restore_blocking" /\ outcome'[u] = outcome[u]
      BY <2>2 DEF WriterPhases
    <2> QED
      BY <2>1, <2>3, SenderKept
  <1>6. CASE UNCHANGED vars
    BY <1>2, <1>6 DEF vars
  <1> QED
    BY <1>3, <1>4, <1>5, <1>6, SenderOfReceive, SenderOfFail DEF Next

LEMMA SenderInvariance == Spec => [](IInv /\ SenderInv)
  <1>1. Init => SenderInv
    BY DEF Init, SenderInv, ChunkFrames, BufferedFrames, HeldFrames, SenderRecorded, Other, Outcome
  <1> QED
    BY <1>1, InitInv, StepInv, SenderStep, PTL DEF Spec

\* What is handed over is the first of the frames read ahead, or what a
\* try_recv held while it restored the mode.
LEMMA HandedOver ==
  ASSUME Next, handed' # handed
  PROVE  \E t \in Threads :
           \/ /\ pc[t] = "decode" /\ buffered # <<>>
              /\ handed' = Append(handed, Head(buffered))
           \/ /\ pc[t] = "restore_blocking" /\ outcome[t].what = "message"
              /\ handed' = Append(handed, outcome[t].nr)
  <1> USE DEF receiving
  <1>1. ~ World
    BY DEF World, Arrive, SetProtocolVersion
  <1>2. ASSUME NEW t \in Threads, NEW operation \in Operations PROVE ~ Call(t, operation)
    BY DEF Call
  <1>3. ASSUME NEW t \in Threads PROVE ~ Send(t)
    BY DEF Send, LockWriter, SkipSend, PoisonedPanic, NextHeader, Encode, EncodeFails,
           EncodePanics, LockDestination, WritePart
  <1>4. ASSUME NEW t \in Threads PROVE ~ Fail(t)
    BY DEF Fail, AwaitRest, ReadEmpty, SetNonblockingFails, RestoreBlockingFails, ReadFails,
           WriteFails, Conclude, Other, Outcome
  <1>5. PICK t \in Threads : Receive(t)
    BY <1>1, <1>2, <1>3, <1>4 DEF Next
  <1>6. CASE DecodeFrame(t)
    BY <1>6 DEF DecodeFrame, Conclude, Message, Other, Outcome
  <1>7. CASE RestoreBlocking(t)
    BY <1>7 DEF RestoreBlocking
  <1>8. ~ (LockReader(t) \/ SetNonblocking(t) \/ ReadChunk(t) \/ RecordSender(t)
           \/ RecordEmpty(t) \/ ReadGivesUp(t))
    BY DEF LockReader, SetNonblocking, ReadChunk, RecordSender, RecordEmpty, ReadGivesUp,
           Conclude, Other, Outcome
  <1> QED
    BY <1>5, <1>6, <1>7, <1>8 DEF Receive

\* When a UDP server hands a message over, the destination is its sender,
\* but for a message that waited behind an incomplete candidate while another
\* datagram was read: a reader records the sender before it decodes what it
\* read, and reads more only when all of it is decoded or waits so.
THEOREM RepliesReachSenderCorrect == Spec => RepliesReachSender
  <1>1. IInv /\ SenderInv /\ [Next]_vars =>
          (transport = "udp_server" /\ handed' # handed /\ Last(handed') \notin overtaken =>
             destination = arrivals[Last(handed')].from)
    <2> SUFFICES ASSUME IInv, SenderInv, Next, transport = "udp_server", handed' # handed,
                        Last(handed') \notin overtaken
                 PROVE  destination = arrivals[Last(handed')].from
      BY DEF vars, receiving
    <2>1. PICK t \in Threads :
            \/ /\ pc[t] = "decode" /\ buffered # <<>>
               /\ handed' = Append(handed, Head(buffered))
            \/ /\ pc[t] = "restore_blocking" /\ outcome[t].what = "message"
               /\ handed' = Append(handed, outcome[t].nr)
      BY HandedOver
    <2>2. PICK nr \in Nat : handed' = Append(handed, nr) /\ Reached(nr)
      <3>1. CASE pc[t] = "decode" /\ buffered # <<>> /\ handed' = Append(handed, Head(buffered))
        <4>1. buffered \in Seq(Nat) /\ buffered # <<>>
          BY <3>1 DEF IInv, TypeOK
        <4>2. Head(buffered) = buffered[1] /\ 1 \in DOMAIN buffered /\ Head(buffered) \in Nat
          BY ONLY <4>1
        <4> QED
          BY <3>1, <4>2 DEF SenderInv, BufferedFrames
      <3>2. CASE pc[t] = "restore_blocking" /\ outcome[t].what = "message"
                 /\ handed' = Append(handed, outcome[t].nr)
        BY <3>2 DEF IInv, TypeOK, Outcomes, SenderInv, HeldFrames
      <3> QED
        BY <2>1, <3>1, <3>2
    <2>3. Last(handed') = nr
      BY <2>2 DEF IInv, TypeOK, Last
    <2>4. destination = address
      <3>1. pc[t] \in ReaderPhases \ {"record_sender", "record_empty"}
        BY <2>1 DEF ReaderPhases
      <3>2. \A u \in Threads : pc[u] \notin {"record_sender", "record_empty"}
        BY <3>1, ReaderAlone DEF ReaderPhases
      <3> QED
        BY <3>2 DEF SenderInv, SenderRecorded
    <2>5. From(nr, address)
      BY <2>2, <2>3 DEF Reached
    <2> QED
      BY <2>3, <2>4, <2>5 DEF From
  <1> QED
    BY <1>1, SenderInvariance, PTL DEF Spec, RepliesReachSender

-----------------------------------------------------------------------------
(***************************************************************************)
(* The refinement of FrameQueue.                                           *)
(***************************************************************************)

\* The frames that wait are all that arrived after those that have left, in
\* order; a try_recv that restores the mode holds the first of them.
QueueInv ==
  /\ WaitInOrder(buffered, socket)
  /\ left \in 0 .. Len(arrivals)
  /\ HeldBack \union WaitingIn(buffered, socket) = left + 1 .. Len(arrivals)
  /\ \A nr \in HeldBack : nr = left + 1 /\ nr \notin WaitingIn(buffered, socket)

Holds(t) == pc[t] = "restore_blocking" /\ outcome[t].what = "message"

LEMMA ArrivalsType == TypeOK => Len(arrivals) \in Nat
  BY LenProperties DEF TypeOK

\* The frames that wait determine how many have left.
LEMMA LeftFromWaiting ==
  ASSUME Len(arrivals') \in Nat, NEW n \in 0 .. Len(arrivals'),
         WaitInOrder(buffered', socket'),
         HeldBack' \union WaitingIn(buffered', socket') = n + 1 .. Len(arrivals'),
         \A nr \in HeldBack' : nr = n + 1 /\ nr \notin WaitingIn(buffered', socket')
  PROVE  QueueInv' /\ left' = n
  <1>1. left' = Len(arrivals') - Cardinality(HeldBack' \union WaitingIn(buffered', socket'))
    BY DEF left
  <1>2. left' = Len(arrivals') - Cardinality(n + 1 .. Len(arrivals'))
    BY <1>1, Zenon
  <1>3. n \in Nat /\ n <= Len(arrivals')
    OBVIOUS
  <1>4. left' = n
    BY ONLY Len(arrivals') \in Nat, <1>2, <1>3, CountWaiting
  <1> QED
    BY <1>4 DEF QueueInv

\* Only the thread that has the reader can hold a frame.
LEMMA HeldByReader ==
  ASSUME IInv, NEW t \in Threads, pc[t] \in ReaderPhases
  PROVE  HeldBack = IF Holds(t) THEN {outcome[t].nr} ELSE {}
  <1>1. \A u \in Threads \ {t} : ~ Holds(u)
    BY ReaderAlone DEF ReaderPhases, Holds
  <1> QED
    BY <1>1 DEF HeldBack, Holds

LEMMA QueueInit == Init => QueueInv /\ Queue!Init
  <1> SUFFICES ASSUME Init PROVE QueueInv /\ Queue!Init
    OBVIOUS
  <1>1. /\ arrivals = <<>> /\ socket = <<>> /\ buffered = <<>> /\ handed = <<>>
        /\ Len(arrivals) = 0 /\ switch_failures = 0
    BY DEF Init
  <1>2. WaitingIn(buffered, socket) = {}
    BY <1>1 DEF WaitingIn, FramesIn
  <1>3. HeldBack = {}
    BY DEF Init, HeldBack
  <1>4. left = 0
    BY <1>1, <1>2, <1>3, FS_EmptySet DEF left
  <1>5. WaitInOrder(buffered, socket)
    BY <1>1 DEF WaitInOrder, Rising, FramesIn
  <1> QED
    BY <1>1, <1>2, <1>3, <1>4, <1>5 DEF QueueInv, Queue!Init

\* A step that moves no frame.
LEMMA QueueKept ==
  ASSUME QueueInv, UNCHANGED <<arrivals, handed, switch_failures>>,
         WaitInOrder(buffered', socket'),
         WaitingIn(buffered', socket') = WaitingIn(buffered, socket),
         \A u \in Threads :
           /\ Holds(u)' <=> Holds(u)
           /\ Holds(u) => outcome'[u] = outcome[u]
  PROVE  QueueInv' /\ [Queue!Next]_Queue!vars
  <1>1. HeldBack' = HeldBack
    <2>1. /\ HeldBack = {outcome[u].nr : u \in {v \in Threads : Holds(v)}}
          /\ HeldBack' = {outcome'[u].nr : u \in {v \in Threads : Holds(v)'}}
      BY DEF HeldBack, Holds
    <2>2. {v \in Threads : Holds(v)'} = {v \in Threads : Holds(v)}
      BY DEF Holds
    <2> QED
      BY <2>1, <2>2
  <1>2. left' = left
    BY <1>1 DEF left
  <1> QED
    BY <1>1, <1>2 DEF QueueInv, Queue!vars

LEMMA QueueOfArrive ==
  ASSUME TypeOK, QueueInv, NEW from \in Peers, NEW k \in 0 .. MaxArrivals,
         NEW parses \in BOOLEAN, Arrive(from, k, parses)
  PROVE  QueueInv' /\ [Queue!Next]_Queue!vars
  <1> DEFINE some == [i \in 1 .. k |-> [from |-> from, parses |-> parses]]
             last == Len(arrivals)
  <1>1. k \in Nat /\ last \in Nat /\ from \in Peers
    BY ConnectionAssumption, ArrivalsType
  <1>2. /\ buffered \in Seq(Nat) /\ socket \in Seq(ChunkOf(Peers))
        /\ UNCHANGED <<buffered, handed, switch_failures, pc, outcome>>
        /\ socket' = Append(socket, [from |-> from, frames |-> [i \in 1 .. k |-> last + i]])
    BY DEF TypeOK, ChunkOf, Arrive, mode
  <1>3. /\ left \in 0 .. last
        /\ HeldBack \union WaitingIn(buffered, socket) = left + 1 .. last
        /\ \A nr \in HeldBack : nr = left + 1 /\ nr \notin WaitingIn(buffered, socket)
        /\ WaitInOrder(buffered, socket)
    BY DEF QueueInv
  <1>4. \A n \in WaitingIn(buffered, socket) : n <= last
    BY <1>1, <1>3
  <1>5. /\ WaitInOrder(buffered, socket')
        /\ WaitingIn(buffered, socket')
             = WaitingIn(buffered, socket) \union (last + 1 .. last + k)
    <2>1. socket \in Seq(ChunkOf(Peers)) /\ buffered \in Seq(Nat) /\ WaitInOrder(buffered, socket)
      BY <1>2, <1>3
    <2> HIDE DEF last
    <2>2. LET after == Append(socket, [from |-> from, frames |-> [i \in 1 .. k |-> last + i]])
          IN  /\ WaitInOrder(buffered, after)
              /\ WaitingIn(buffered, after)
                   = WaitingIn(buffered, socket) \union (last + 1 .. last + k)
      BY <1>1, <1>4, <2>1, WaitingOfArrive
    <2> QED
      BY ONLY <1>2, <2>2
  <1>6. /\ Len(arrivals') = last + k
        /\ \A i \in 1 .. last : arrivals'[i] = arrivals[i]
        /\ k = 0 => arrivals' = arrivals
    BY <1>1 DEF TypeOK, Arrive
  <1>7. HeldBack' = HeldBack
    BY <1>2 DEF HeldBack
  <1>8. QueueInv' /\ left' = left
    <2>1. (left + 1 .. last) \union (last + 1 .. last + k) = left + 1 .. last + k
      BY <1>1, <1>3
    <2>2. left \in 0 .. Len(arrivals') /\ Len(arrivals') \in Nat
      BY <1>1, <1>3, <1>6
    <2>3. \A nr \in HeldBack : nr \notin last + 1 .. last + k
      <3>1. \A nr \in HeldBack : nr \in left + 1 .. last
        BY <1>3
      <3> QED
        BY <1>1, <1>3, <3>1
    <2> HIDE DEF last
    <2>4. HeldBack' \union WaitingIn(buffered', socket') = left + 1 .. Len(arrivals')
      BY <1>2, <1>3, <1>5, <1>6, <1>7, <2>1
    <2>5. \A nr \in HeldBack' : nr = left + 1 /\ nr \notin WaitingIn(buffered', socket')
      BY <1>2, <1>3, <1>5, <1>7, <2>3
    <2> QED
      BY <1>2, <1>5, <2>2, <2>4, <2>5, LeftFromWaiting
  <1>9. CASE k = 0
    BY <1>2, <1>6, <1>8, <1>9 DEF Queue!vars
  <1>10. CASE k > 0
    <2>1. Queue!Arrive
      BY <1>1, <1>2, <1>6, <1>8, <1>10 DEF Queue!Arrive
    <2> QED
      BY <1>8, <2>1 DEF Queue!Next
  <1> QED
    BY <1>1, <1>8, <1>9, <1>10

LEMMA QueueOfDecode ==
  ASSUME IInv, QueueInv, NEW t \in Threads, DecodeFrame(t)
  PROVE  QueueInv' /\ [Queue!Next]_Queue!vars
  <1> DEFINE nr == Head(buffered)
             last == Len(arrivals)
             result == IF arrivals[nr].parses \/ call[t] = "recv_raw"
                       THEN Message(nr) ELSE Other("parse_error")
  <1>1. Conclude(t, result)
    BY Zenon DEF DecodeFrame
  <1>2. /\ TypeOK /\ pc[t] = "decode"
        /\ buffered \in Seq(Nat) /\ buffered # <<>> /\ buffered' = Tail(buffered)
        /\ UNCHANGED <<arrivals, socket, switch_failures>> /\ last \in Nat /\ nr \in Nat
    <2> HIDE DEF result
    <2>1. UNCHANGED <<arrivals, socket, switch_failures>>
      BY <1>1 DEF Conclude, outside, mode
    <2>2. TypeOK /\ pc[t] = "decode" /\ buffered # <<>> /\ buffered' = Tail(buffered)
      BY DEF IInv, DecodeFrame
    <2>3. buffered \in Seq(Nat)
      BY <2>2 DEF TypeOK
    <2>4. nr \in Nat
      BY <2>2, <2>3
    <2> QED
      BY <2>1, <2>2, <2>3, <2>4, ArrivalsType
  <1>3. /\ WaitInOrder(buffered', socket)
        /\ WaitingIn(buffered', socket) = WaitingIn(buffered, socket) \ {nr}
        /\ nr \in WaitingIn(buffered, socket)
        /\ \A n \in WaitingIn(buffered', socket) : nr < n
    BY <1>2, WaitingOfDecode DEF QueueInv
  <1>4. HeldBack = {}
    BY <1>2, HeldByReader DEF ReaderPhases, Holds
  <1>5. left \in 0 .. last /\ WaitingIn(buffered, socket) = left + 1 .. last
    BY <1>4 DEF QueueInv
  <1>6. \A u \in Threads \ {t} : pc'[u] # "restore_blocking"
    <2> HIDE DEF result
    <2>1. \A u \in Threads \ {t} : pc[u] # "restore_blocking"
      BY <1>2, ReaderAlone DEF ReaderPhases
    <2> QED
      BY <1>1, <1>2, <2>1 DEF TypeOK, Conclude, Return, GoTo
  <1>7. \/ /\ result = Message(nr) /\ Holds(t)' /\ outcome'[t].nr = nr /\ handed' = handed
        \/ /\ result = Message(nr) /\ ~ Holds(t)' /\ handed' = Append(handed, nr)
        \/ /\ ~ arrivals[nr].parses /\ ~ Holds(t)' /\ handed' = handed
    <2>1. CASE arrivals[nr].parses \/ call[t] = "recv_raw"
      <3>1. result.what = "message" /\ result.nr = nr /\ result = Message(nr)
        BY <2>1 DEF Message, Outcome
      <3> HIDE DEF result
      <3>2. CASE call[t] = "try_recv"
        BY <1>1, <1>2, <3>1, <3>2 DEF TypeOK, Conclude, GoTo, Holds
      <3>3. CASE call[t] # "try_recv"
        BY <1>1, <1>2, <3>1, <3>3 DEF TypeOK, Conclude, Return, GoTo, Holds
      <3> QED
        BY <3>2, <3>3
    <2>2. CASE ~ (arrivals[nr].parses \/ call[t] = "recv_raw")
      <3>1. result.what = "parse_error"
        BY <2>2 DEF Other, Outcome
      <3>2. ~ arrivals[nr].parses
        BY <2>2
      <3> HIDE DEF result
      <3> QED
        BY <1>1, <1>2, <3>1, <3>2 DEF TypeOK, Conclude, Return, GoTo, Holds
    <2> QED
      BY <2>1, <2>2
  <1> HIDE DEF nr, result
  <1>8. nr = left + 1 /\ left < last /\ WaitingIn(buffered', socket) = left + 2 .. last
    <2>1. left + 1 \in WaitingIn(buffered, socket)
      BY <1>2, <1>3, <1>5
    <2>2. left + 1 = nr \/ nr < left + 1
      BY <1>3, <2>1
    <2>3. nr \in left + 1 .. last
      BY <1>3, <1>5
    <2>4. nr = left + 1 /\ left < last
      BY <1>2, <1>5, <2>2, <2>3
    <2>5. (left + 1 .. last) \ {left + 1} = left + 2 .. last
      BY <1>2, <1>5
    <2> QED
      BY <1>3, <1>5, <2>4, <2>5
  <1>9. CASE Holds(t)' /\ outcome'[t].nr = nr /\ handed' = handed
    <2>1. HeldBack' = {nr}
      BY <1>6, <1>9 DEF HeldBack, Holds
    <2>2. {nr} \union (left + 2 .. last) = left + 1 .. last
      BY <1>2, <1>5, <1>8
    <2>3. nr \notin left + 2 .. last
      BY <1>2, <1>5, <1>8
    <2>4. left \in 0 .. Len(arrivals') /\ Len(arrivals') \in Nat
      BY <1>2, <1>5
    <2>5. HeldBack' \union WaitingIn(buffered', socket') = left + 1 .. Len(arrivals')
      BY <1>2, <1>8, <2>1, <2>2
    <2>6. \A m \in HeldBack' : m = left + 1 /\ m \notin WaitingIn(buffered', socket')
      BY <1>2, <1>8, <2>1, <2>3
    <2>7. WaitInOrder(buffered', socket')
      BY <1>2, <1>3
    <2>8. QueueInv' /\ left' = left
      BY <2>4, <2>5, <2>6, <2>7, LeftFromWaiting
    <2> QED
      BY <1>2, <1>9, <2>8 DEF Queue!vars
  <1>10. ASSUME ~ Holds(t)' PROVE QueueInv' /\ left' = left + 1
    <2>1. HeldBack' = {}
      BY <1>6, <1>10 DEF HeldBack, Holds
    <2>2. left + 1 \in 0 .. Len(arrivals') /\ Len(arrivals') \in Nat
      BY <1>2, <1>5, <1>8
    <2>3. HeldBack' \union WaitingIn(buffered', socket') = (left + 1) + 1 .. Len(arrivals')
      BY <1>2, <1>5, <1>8, <2>1
    <2>4. WaitInOrder(buffered', socket')
      BY <1>2, <1>3
    <2> QED
      BY <2>1, <2>2, <2>3, <2>4, LeftFromWaiting
  <1>11. CASE ~ Holds(t)' /\ handed' = Append(handed, nr)
    BY <1>2, <1>8, <1>10, <1>11 DEF Queue!Next, Queue!Hand
  <1>12. CASE ~ arrivals[nr].parses /\ ~ Holds(t)' /\ handed' = handed
    <2>1. nr \in Unparsable
      <3>1. nr \in 1 .. last
        BY <1>2, <1>5, <1>8
      <3> QED
        BY <1>2, <1>12, <3>1 DEF TypeOK, Unparsable
    <2> QED
      BY <1>2, <1>8, <1>10, <1>12, <2>1 DEF Queue!Next, Queue!Drop
  <1> QED
    BY <1>7, <1>9, <1>11, <1>12

\* A try_recv that restores the mode, or fails to, lets go of what it holds.
LEMMA QueueOfRestore ==
  ASSUME IInv, QueueInv, NEW t \in Threads, pc[t] = "restore_blocking",
         pc' = [pc EXCEPT ![t] = "idle"], UNCHANGED <<arrivals, socket, buffered>>,
         \/ /\ switch_failures' = switch_failures
            /\ handed' = IF outcome[t].what = "message" THEN Append(handed, outcome[t].nr)
                         ELSE handed
         \/ switch_failures' = switch_failures + 1 /\ handed' = handed
  PROVE  QueueInv' /\ [Queue!Next]_Queue!vars
  <1> DEFINE last == Len(arrivals)
  <1>1. HeldBack = IF Holds(t) THEN {outcome[t].nr} ELSE {}
    BY HeldByReader DEF ReaderPhases
  <1>2. HeldBack' = {}
    <2>1. \A u \in Threads : pc'[u] # "restore_blocking"
      BY ReaderAlone DEF IInv, TypeOK, ReaderPhases
    <2> QED
      BY <2>1 DEF HeldBack
  <1>3. /\ left \in 0 .. last /\ last \in Nat
        /\ HeldBack \union WaitingIn(buffered, socket) = left + 1 .. last
        /\ \A nr \in HeldBack : nr = left + 1 /\ nr \notin WaitingIn(buffered, socket)
        /\ WaitInOrder(buffered, socket)
    BY ArrivalsType DEF IInv, QueueInv
  <1>4. CASE Holds(t)
    <2>1. outcome[t].nr = left + 1 /\ left < last
          /\ WaitingIn(buffered, socket) = (left + 1 .. last) \ {left + 1}
      BY <1>1, <1>3, <1>4
    <2>2. (left + 1 .. last) \ {left + 1} = (left + 1) + 1 .. last
      BY <1>3
    <2>3. left + 1 \in 0 .. Len(arrivals') /\ Len(arrivals') \in Nat
      BY <1>3, <2>1
    <2>4. QueueInv' /\ left' = left + 1
      BY <1>2, <1>3, <2>1, <2>2, <2>3, LeftFromWaiting
    <2>5. CASE switch_failures' = switch_failures /\ handed' = Append(handed, outcome[t].nr)
      BY <2>1, <2>4, <2>5 DEF Queue!Next, Queue!Hand
    <2>6. CASE switch_failures' = switch_failures + 1 /\ handed' = handed
      BY <2>1, <2>4, <2>6 DEF Queue!Next, Queue!Fail
    <2> QED
      BY <1>4, <2>5, <2>6 DEF Holds
  <1>5. CASE ~ Holds(t)
    <2>1. left' = left /\ QueueInv'
      BY <1>1, <1>2, <1>3, <1>5 DEF left, QueueInv
    <2>2. CASE switch_failures' = switch_failures /\ handed' = handed
      BY <2>1, <2>2 DEF Queue!vars
    <2>3. CASE switch_failures' = switch_failures + 1 /\ handed' = handed
      BY <2>1, <2>3 DEF Queue!Next, Queue!Fail
    <2> QED
      BY <1>5, <2>2, <2>3 DEF Holds
  <1> QED
    BY <1>4, <1>5

\* A read that brings no frame.
LEMMA QueueOfNoFrame ==
  ASSUME IInv, QueueInv, NEW t \in Threads, pc[t] \in {"decode", "record_empty"}, NEW result,
         result.what # "message", Conclude(t, result), UNCHANGED buffered
  PROVE  QueueInv' /\ [Queue!Next]_Queue!vars
  <1>1. UNCHANGED <<arrivals, handed, switch_failures, socket>>
    BY DEF Conclude, outside, mode
  <1>2. \A u \in Threads :
          /\ Holds(u)' <=> Holds(u)
          /\ Holds(u) => outcome'[u] = outcome[u]
    BY DEF IInv, TypeOK, Conclude, Return, GoTo, Holds
  <1> QED
    BY <1>1, <1>2, QueueKept DEF QueueInv

LEMMA QueueOfReceive ==
  ASSUME IInv, QueueInv, NEW t \in Threads, Receive(t)
  PROVE  QueueInv' /\ [Queue!Next]_Queue!vars
  <1> USE DEF GoTo, outside
  <1>1. TypeOK
    BY DEF IInv
  <1>2. CASE LockReader(t) \/ SetNonblocking(t) \/ RecordSender(t)
    <2>1. UNCHANGED <<arrivals, handed, switch_failures, socket, buffered, outcome>>
      BY <1>2 DEF LockReader, SetNonblocking, RecordSender, mode
    <2>2. \A u \in Threads : Holds(u)' <=> Holds(u)
      BY <1>1, <1>2 DEF TypeOK, LockReader, SetNonblocking, RecordSender, Holds
    <2> QED
      BY <2>1, <2>2, QueueKept DEF QueueInv
  <1>3. CASE DecodeFrame(t)
    BY <1>3, QueueOfDecode
  <1>4. CASE ReadChunk(t)
    <2>1. /\ socket \in Seq(ChunkOf(Peers)) /\ socket # <<>> /\ buffered \in Seq(Nat)
          /\ buffered' = buffered \o Head(socket).frames /\ socket' = Tail(socket)
          /\ UNCHANGED <<arrivals, handed, switch_failures, outcome>>
      BY <1>1, <1>4 DEF TypeOK, ChunkOf, ReadChunk, mode
    <2>2. /\ WaitInOrder(buffered', socket')
          /\ WaitingIn(buffered', socket') = WaitingIn(buffered, socket)
      BY <2>1, WaitingOfRead, Zenon DEF QueueInv
    <2>3. \A u \in Threads : Holds(u)' <=> Holds(u)
      BY <1>1, <1>4 DEF TypeOK, ReadChunk, Reads, Holds
    <2> QED
      BY <2>1, <2>2, <2>3, QueueKept
  <1>5. CASE ReadGivesUp(t)
    <2>1. PICK result : Conclude(t, result) /\ result.what # "message"
      BY <1>5 DEF ReadGivesUp, Other, Outcome
    <2>2. pc[t] = "decode" /\ UNCHANGED buffered
      BY <1>5 DEF ReadGivesUp, Reads
    <2> QED
      BY <2>1, <2>2, QueueOfNoFrame
  <1>6. CASE RestoreBlocking(t)
    BY <1>6, QueueOfRestore DEF RestoreBlocking
  <1>7. CASE RecordEmpty(t)
    <2>1. /\ Conclude(t, Other("eof")) /\ Other("eof").what # "message"
          /\ pc[t] = "record_empty" /\ UNCHANGED buffered
      BY <1>7 DEF RecordEmpty, Other, Outcome
    <2> QED
      BY <2>1, QueueOfNoFrame
  <1> QED
    BY <1>2, <1>3, <1>4, <1>5, <1>6, <1>7 DEF Receive

LEMMA QueueOfFail ==
  ASSUME IInv, QueueInv, NEW t \in Threads, Fail(t)
  PROVE  QueueInv' /\ [Queue!Next]_Queue!vars
  <1> USE DEF GoTo, Return, outside
  <1>1. TypeOK
    BY DEF IInv
  <1>2. CASE \/ SetNonblockingFails(t) \/ AwaitRest(t)
             \/ \E from \in Peers : ReadEmpty(t, from)
             \/ \E error \in {"would_block", "io_error"} : WriteFails(t, error)
    <2>1. UNCHANGED <<arrivals, handed, switch_failures, socket, buffered>>
      BY <1>2 DEF SetNonblockingFails, AwaitRest, ReadEmpty, WriteFails, receiving, mode
    <2>2. \A u \in Threads :
            /\ Holds(u)' <=> Holds(u)
            /\ Holds(u) => outcome'[u] = outcome[u]
      <3>1. CASE AwaitRest(t)
        BY <3>1 DEF AwaitRest, Holds
      <3>2. CASE SetNonblockingFails(t)
        BY <1>1, <3>2 DEF TypeOK, SetNonblockingFails, Holds
      <3>3. ASSUME NEW from \in Peers, ReadEmpty(t, from)
            PROVE  \A u \in Threads : Holds(u)' <=> Holds(u)
        BY <1>1, <3>3 DEF TypeOK, ReadEmpty, Reads, Holds
      <3>4. ASSUME NEW from \in Peers, ReadEmpty(t, from) PROVE outcome' = outcome
        BY <3>4 DEF ReadEmpty
      <3>5. ASSUME NEW error \in {"would_block", "io_error"}, WriteFails(t, error)
            PROVE  \A u \in Threads :
                     /\ Holds(u)' <=> Holds(u)
                     /\ Holds(u) => outcome'[u] = outcome[u]
        BY <1>1, <3>5 DEF TypeOK, WriteFails, Writes, Holds
      <3> QED
        BY <1>2, <3>1, <3>2, <3>3, <3>4, <3>5
    <2> QED
      BY <2>1, <2>2, QueueKept DEF QueueInv
  <1>3. ASSUME NEW error \in {"eof", "io_error"}, ReadFails(t, error)
        PROVE  QueueInv' /\ [Queue!Next]_Queue!vars
    BY <1>3, QueueOfNoFrame DEF ReadFails, Reads, Other, Outcome
  <1>4. CASE RestoreBlockingFails(t)
    BY <1>4, QueueOfRestore DEF RestoreBlockingFails
  <1> QED
    BY <1>2, <1>3, <1>4 DEF Fail

LEMMA QueueStep ==
  IInv /\ QueueInv /\ [Next]_vars => QueueInv' /\ [Queue!Next]_Queue!vars
  <1> SUFFICES ASSUME IInv, QueueInv, [Next]_vars
               PROVE  QueueInv' /\ [Queue!Next]_Queue!vars
    OBVIOUS
  <1> DEFINE Still == UNCHANGED <<arrivals, handed, switch_failures, socket, buffered>>
             HeldKept == \A u \in Threads :
                           /\ Holds(u)' <=> Holds(u)
                           /\ Holds(u) => outcome'[u] = outcome[u]
  <1>1. TypeOK
    BY DEF IInv
  <1>2. CASE Still /\ HeldKept
    BY <1>2, QueueKept DEF QueueInv
  <1>3. CASE UNCHANGED <<arrivals, pc, outcome, mode, socket, buffered, handed>>
    BY <1>2, <1>3 DEF Holds, mode
  <1>4. CASE World
    <2>1. ASSUME NEW v \in Versions, SetProtocolVersion(v)
          PROVE  QueueInv' /\ [Queue!Next]_Queue!vars
      BY <1>3, <2>1 DEF SetProtocolVersion
    <2> QED
      BY <1>1, <1>4, <2>1, QueueOfArrive DEF World
  <1>5. ASSUME NEW t \in Threads, NEW operation \in Operations, Call(t, operation)
        PROVE  Still /\ HeldKept
    BY <1>1, <1>5 DEF TypeOK, Call, GoTo, Holds, receiving, mode
  <1>6. ASSUME NEW t \in Threads, Send(t) PROVE Still /\ HeldKept
    <2>1. Still
      BY <1>6 DEF Send, LockWriter, SkipSend, PoisonedPanic, NextHeader, Encode, EncodeFails,
                  EncodePanics, LockDestination, WritePart, outside, receiving, mode
    <2>2. \/ UNCHANGED <<pc, outcome>>
          \/ /\ \A u \in Threads \ {t} : pc'[u] = pc[u] /\ outcome'[u] = outcome[u]
             /\ pc'[t] # "restore_blocking" /\ pc[t] # "restore_blocking"
      BY <1>1, <1>6
      DEF TypeOK, Send, LockWriter, SkipSend, PoisonedPanic, NextHeader, Encode, EncodeFails,
          EncodePanics, LockDestination, WritePart, Writes, Return, GoTo
    <2> QED
      BY <2>1, <2>2 DEF Holds
  <1>7. CASE UNCHANGED vars
    BY <1>3, <1>7 DEF vars, outside, receiving
  <1> QED
    BY <1>2, <1>4, <1>5, <1>6, <1>7, QueueOfReceive, QueueOfFail DEF Next

\* However many threads receive, and whatever fails, the frames that arrive are
\* handed over in order, each once, but for those that do not parse, and one
\* for each time a try_recv cannot restore the mode.
THEOREM QueueImplemented == Spec => ImplementsQueue
  <1>1. QueueInv /\ IInv /\ [Next]_vars => QueueInv' /\ [Queue!Next]_Queue!vars
    BY QueueStep
  <1> QED
    BY <1>1, QueueInit, Invariance, PTL DEF Spec, ImplementsQueue, Queue!Spec
=============================================================================
