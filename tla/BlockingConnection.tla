------------------------- MODULE BlockingConnection -------------------------
(***************************************************************************)
(* A blocking connection (mavlink-core/src/connection/sync.rs, the sync.rs *)
(* of each transport, connection_shared.rs) used by several threads: one   *)
(* mutex for the reader, one for the writer, a nonblocking mode that       *)
(* belongs to the socket both share, a sequence counter, and the address a *)
(* UDP server replies to.                                                  *)
(*                                                                         *)
(* FrameDecoder models what happens inside the reader; here a frame is     *)
(* whole and accepted, and a chunk is what one read brings.  What else a   *)
(* chunk holds matters in one way only: it may begin a candidate that is   *)
(* not complete, and the frames behind it wait until more has been read.   *)
(***************************************************************************)
EXTENDS Naturals, SequencesExt, WaitingFrames

CONSTANTS
  Threads,
  Operations,    \* The operations the threads call, of Receives and Sends.
  Transports,    \* The transports a connection may have.
  Versions,      \* The protocol versions the callers set.
  Peers,         \* Remote addresses.
  NoPeer,
  NoThread,
  FrameParts,    \* How many writes a frame takes on a stream transport.
  MaxCalls,      \* Bound on the calls made.
  MaxArrivals,   \* Bound on the frames that arrive.
  MaxChunks      \* Bound on the chunks that wait to be read.

VARIABLES
  transport, read_timeout, \* Which transport, and whether its reads time out.
  protocol_version,
  calls,                   \* How many calls were made.
  arrivals,                \* The frames that arrived, [from, parses]; their
                           \* numbers are their places in this sequence.
  pc, call, outcome,       \* Of each thread: where it is, in which operation
                           \* and what it will return or has returned.
  reader,                  \* The thread that holds the reader's mutex.
  nonblocking,             \* O_NONBLOCK of the socket.
  switch_failures,         \* How often switching it off again has failed.
  destination,             \* UdpWrite::destination, shared with the reader.
  address,                 \* Of the chunk read last.
  socket,                  \* The chunks, [from, frames], not read yet.
  buffered,                \* The numbers of the frames read and not decoded.
  withheld,                \* What the decoder has found before those frames is
                           \* a candidate that lacks bytes.
  overtaken,               \* The frames of a UDP server that waited behind such
                           \* a candidate when another datagram was read.
  handed,                  \* The numbers of those returned by calls, in order.
  writer, poisoned,        \* The writer's mutex: its holder, and its state.
  drawn,                   \* How many sequence numbers were drawn.
  header, part,            \* What a thread writes: the how-manieth number is
                           \* in its header, and how many parts are written.
  wire                     \* What was written, part by part.

outside == <<transport, read_timeout, protocol_version, calls, arrivals>>
mode == <<nonblocking, switch_failures>>
peer == <<destination, address>>
candidate == <<withheld, overtaken>>
receiving == <<reader, mode, peer, socket, buffered, candidate, handed>>
sending == <<writer, poisoned, drawn, header, part, wire>>
vars == <<outside, pc, call, outcome, receiving, sending>>

Receives == {"recv", "recv_raw", "try_recv"}

\* send_raw sends a frame as it is.  The last two send a message with an id,
\* or a header with a system id, that MAVLink 1 has no room for.
Sends == {"send", "send_raw", "send_id_over_255", "send_system_over_255"}

StreamTransports == {"tcp", "serial", "file"}
DatagramTransports == {"udp_server", "udp_client"}

\* Numbers are drawn from 1 on (the header has the low byte of one less).
Raw == 0

Outcome(what, nr) == [what |-> what, nr |-> nr]
Message(nr) == Outcome("message", nr)
Other(what) == Outcome(what, 0)

Outcomes ==
  [what : {"none", "message", "would_block", "parse_error", "eof", "io_error",
           "skipped", "sent", "encoder_error"},
   nr : Nat]

ASSUME ConnectionAssumption ==
  /\ Operations \subseteq Receives \union Sends
  /\ Transports \subseteq StreamTransports \union DatagramTransports
  /\ Versions \subseteq {"V1", "V2"}
  /\ NoPeer \notin Peers /\ NoThread \notin Threads
  /\ FrameParts \in Nat \ {0}
  /\ MaxCalls \in Nat /\ MaxArrivals \in Nat /\ MaxChunks \in Nat

-----------------------------------------------------------------------------
Datagrams == transport \in DatagramTransports

\* Mutant of SwitchesMode: UDP is forgotten.
SwitchesTcpOnly == transport = "tcp"

\* set_nonblocking does nothing on the other transports.
SwitchesMode == Datagrams \/ transport = "tcp"

\* retry_receive
Retries(error) == transport \in {"serial", "file"} /\ error # "eof"

\* Mutant of HasPeer: the destination is not checked.
AnyPeer == TRUE

\* lock_writer has someone to send to.
HasPeer == Datagrams => destination # NoPeer

\* Mutants of ReaderFree and WriterFree: no lock, or one for both.
ReaderShared == TRUE
WriterShared == TRUE
OneLock == reader = NoThread /\ writer = NoThread

ReaderFree == reader = NoThread
WriterFree == writer = NoThread

WriteParts == IF Datagrams THEN 1 ELSE FrameParts

Init ==
  /\ transport \in Transports
  /\ read_timeout \in BOOLEAN
  /\ transport = "serial" => read_timeout
  /\ transport = "file" => ~ read_timeout
  /\ protocol_version = "V2"
  /\ calls = 0 /\ arrivals = <<>>
  /\ pc = [t \in Threads |-> "idle"]
  /\ call = [t \in Threads |-> "none"]
  /\ outcome = [t \in Threads |-> Other("none")]
  /\ reader = NoThread
  /\ nonblocking = FALSE /\ switch_failures = 0
  /\ IF transport = "udp_client" THEN destination \in Peers ELSE destination = NoPeer
  /\ address = NoPeer
  /\ socket = <<>> /\ buffered = <<>> /\ handed = <<>>
  /\ withheld = FALSE /\ overtaken = {}
  /\ writer = NoThread /\ poisoned = FALSE
  /\ drawn = 0
  /\ header = [t \in Threads |-> Raw] /\ part = [t \in Threads |-> 0]
  /\ wire = <<>>

GoTo(t, where) == pc' = [pc EXCEPT ![t] = where]

Return(t, result) == GoTo(t, "idle") /\ outcome' = [outcome EXCEPT ![t] = result]

(***************************************************************************)
(* What happens around the connection.                                     *)
(***************************************************************************)

\* A peer's chunk of k frames arrives.  A decoder accepts frames that the
\* dialect then cannot parse.
Arrive(from, k, parses) ==
  /\ Len(arrivals) + k <= MaxArrivals /\ Len(socket) < MaxChunks
  /\ arrivals' = arrivals \o [i \in 1 .. k |-> [from |-> from, parses |-> parses]]
  /\ socket' = Append(socket, [from |-> from,
                              frames |-> [i \in 1 .. k |-> Len(arrivals) + i]])
  /\ UNCHANGED <<transport, read_timeout, protocol_version, calls, pc, call, outcome>>
  /\ UNCHANGED <<reader, mode, peer, buffered, candidate, handed, sending>>

\* A thread calls an operation of the connection.
Call(t, operation) ==
  /\ pc[t] = "idle" /\ calls < MaxCalls
  /\ calls' = calls + 1
  /\ call' = [call EXCEPT ![t] = operation]
  /\ outcome' = [outcome EXCEPT ![t] = Other("none")]
  /\ GoTo(t, IF operation \in Receives THEN "want_reader" ELSE "want_writer")
  /\ UNCHANGED <<transport, read_timeout, protocol_version, arrivals, receiving, sending>>

\* set_protocol_version takes &mut self: no call is in progress.  The
\* candidates of the other version are others.
SetProtocolVersion(v) ==
  /\ \A t \in Threads : pc[t] \in {"idle", "panicked"}
  /\ v # protocol_version /\ protocol_version' = v
  /\ withheld' = FALSE
  /\ UNCHANGED <<transport, read_timeout, calls, arrivals, pc, call, outcome>>
  /\ UNCHANGED <<reader, mode, peer, socket, buffered, overtaken, handed, sending>>

(***************************************************************************)
(* recv, recv_raw and try_recv.                                            *)
(***************************************************************************)
LockReader(t) ==
  /\ pc[t] = "want_reader" /\ ReaderFree
  /\ reader' = t
  /\ GoTo(t, IF call[t] = "try_recv" THEN "set_nonblocking" ELSE "decode")
  /\ UNCHANGED <<outside, call, outcome, sending>>
  /\ UNCHANGED <<mode, peer, socket, buffered, candidate, handed>>

SetNonblocking(t) ==
  /\ pc[t] = "set_nonblocking"
  /\ nonblocking' = (nonblocking \/ SwitchesMode)
  /\ GoTo(t, "decode")
  /\ UNCHANGED <<outside, call, outcome, sending>>
  /\ UNCHANGED <<reader, switch_failures, peer, socket, buffered, candidate, handed>>

SetNonblockingFails(t) ==
  /\ pc[t] = "set_nonblocking" /\ SwitchesMode
  /\ reader' = NoThread
  /\ Return(t, Other("io_error"))
  /\ UNCHANGED <<outside, call, sending>>
  /\ UNCHANGED <<mode, peer, socket, buffered, candidate, handed>>

\* What a call does with the result of the reader's read_message: try_recv
\* has the mode to restore first; recv tries again, or returns.
Conclude(t, result) ==
  /\ \/ /\ call[t] = "try_recv"
        /\ GoTo(t, "restore_blocking")
        /\ outcome' = [outcome EXCEPT ![t] = result]
        /\ UNCHANGED <<reader, handed>>
     \/ /\ call[t] # "try_recv" /\ result.what = "message"
        /\ Return(t, result) /\ reader' = NoThread
        /\ handed' = Append(handed, result.nr)
     \/ /\ call[t] # "try_recv" /\ result.what # "message" /\ ~ Retries(result.what)
        /\ Return(t, result) /\ reader' = NoThread
        /\ UNCHANGED handed
     \/ /\ call[t] # "try_recv" /\ result.what # "message" /\ Retries(result.what)
        /\ UNCHANGED <<pc, outcome, reader, handed>>
  /\ UNCHANGED <<outside, call, sending, mode, socket>>

\* next_frame gives a frame that was read already ...
DecodeFrame(t) ==
  /\ pc[t] = "decode" /\ buffered # <<>> /\ ~ withheld
  /\ buffered' = Tail(buffered)
  /\ UNCHANGED <<peer, candidate>>
  /\ Conclude(t, IF arrivals[Head(buffered)].parses \/ call[t] = "recv_raw"
                 THEN Message(Head(buffered)) ELSE Other("parse_error"))

\* ... or it gives None: what comes first is the beginning of a candidate, a
\* marker in noise or a frame whose end is lost.
AwaitRest(t) ==
  /\ pc[t] = "decode" /\ buffered # <<>> /\ ~ withheld
  /\ withheld' = TRUE
  /\ UNCHANGED <<outside, pc, call, outcome, sending>>
  /\ UNCHANGED <<reader, mode, peer, socket, buffered, overtaken, handed>>

\* next_frame has given None.
Reads(t) == pc[t] = "decode" /\ (buffered = <<>> \/ withheld)

Overtake ==
  overtaken' = IF withheld /\ transport = "udp_server" THEN overtaken \union Range(buffered)
               ELSE overtaken

\* Mutant of ReadChunk: reads ahead of what can be decoded.
ReadChunkEagerly(t) ==
  /\ pc[t] = "decode" /\ socket # <<>>
  /\ buffered' = buffered \o Head(socket).frames
  /\ socket' = Tail(socket)
  /\ withheld' = FALSE /\ Overtake
  /\ address' = Head(socket).from
  /\ GoTo(t, IF transport = "udp_server" THEN "record_sender" ELSE "decode")
  /\ UNCHANGED <<outside, call, outcome, sending, reader, mode, destination, handed>>

\* What it brings may complete the candidate, or not: see AwaitRest.
ReadChunk(t) ==
  /\ Reads(t) /\ socket # <<>>
  /\ buffered' = buffered \o Head(socket).frames
  /\ socket' = Tail(socket)
  /\ withheld' = FALSE /\ Overtake
  /\ address' = Head(socket).from
  /\ GoTo(t, IF transport = "udp_server" THEN "record_sender" ELSE "decode")
  /\ UNCHANGED <<outside, call, outcome, sending, reader, mode, destination, handed>>

\* UdpRead locks the destination, as UdpWrite does while it sends.
DestinationFree == \A t \in Threads : pc[t] # "send_to"

RecordSender(t) ==
  /\ pc[t] = "record_sender" /\ DestinationFree
  /\ destination' = address
  /\ GoTo(t, "decode")
  /\ UNCHANGED <<outside, call, outcome, sending>>
  /\ UNCHANGED <<reader, mode, address, socket, buffered, candidate, handed>>

\* An empty datagram is the end of input to the reader, but it has a sender.
ReadEmpty(t, from) ==
  /\ Reads(t) /\ transport = "udp_server"
  /\ address' = from
  /\ Overtake
  /\ GoTo(t, "record_empty")
  /\ UNCHANGED <<outside, call, outcome, sending>>
  /\ UNCHANGED <<reader, mode, destination, socket, buffered, withheld, handed>>

RecordEmpty(t) ==
  /\ pc[t] = "record_empty" /\ DestinationFree
  /\ destination' = address
  /\ Conclude(t, Other("eof"))
  /\ UNCHANGED <<address, buffered, candidate>>

\* There is nothing to read, and the socket does not wait or has waited; a
\* file is at its end.
ReadGivesUp(t) ==
  /\ Reads(t) /\ socket = <<>>
  /\ \/ (nonblocking \/ read_timeout) /\ Conclude(t, Other("would_block"))
     \/ transport = "file" /\ Conclude(t, Other("eof"))
  /\ UNCHANGED <<peer, buffered, candidate>>

\* The stream has ended, a client's datagram was empty, or the read failed.
ReadFails(t, error) ==
  /\ Reads(t)
  /\ error = "eof" => transport # "udp_server"
  /\ Conclude(t, Other(error))
  /\ UNCHANGED <<peer, buffered, candidate>>

\* Mutant of RestoreBlocking: an error is returned before the mode is restored.
RestoreAfterMessage(t) ==
  /\ pc[t] = "restore_blocking"
  /\ nonblocking' = (nonblocking /\ ~ (SwitchesMode /\ outcome[t].what = "message"))
  /\ reader' = NoThread
  /\ handed' = IF outcome[t].what = "message" THEN Append(handed, outcome[t].nr)
               ELSE handed
  /\ GoTo(t, "idle")
  /\ UNCHANGED <<outside, call, outcome, sending>>
  /\ UNCHANGED <<switch_failures, peer, socket, buffered, candidate>>

RestoreBlocking(t) ==
  /\ pc[t] = "restore_blocking"
  /\ nonblocking' = (nonblocking /\ ~ SwitchesMode)
  /\ reader' = NoThread
  /\ handed' = IF outcome[t].what = "message" THEN Append(handed, outcome[t].nr)
               ELSE handed
  /\ GoTo(t, "idle")
  /\ UNCHANGED <<outside, call, outcome, sending>>
  /\ UNCHANGED <<switch_failures, peer, socket, buffered, candidate>>

\* Its error takes the place of whatever was received.
RestoreBlockingFails(t) ==
  /\ pc[t] = "restore_blocking" /\ SwitchesMode
  /\ switch_failures' = switch_failures + 1
  /\ reader' = NoThread
  /\ Return(t, Other("io_error"))
  /\ UNCHANGED <<outside, call, sending, nonblocking>>
  /\ UNCHANGED <<peer, socket, buffered, candidate, handed>>

(***************************************************************************)
(* send and send_raw.                                                      *)
(***************************************************************************)
\* Mutant of LockWriter: a frame goes on where the thread's last one ended.
LockWriterOnly(t) ==
  /\ pc[t] = "want_writer" /\ transport # "file"
  /\ WriterFree /\ ~ poisoned /\ HasPeer
  /\ writer' = t
  /\ GoTo(t, IF call[t] = "send_raw" THEN "write" ELSE "next_header")
  /\ header' = [header EXCEPT ![t] = Raw]
  /\ UNCHANGED <<outside, call, outcome, receiving, poisoned, drawn, part, wire>>

LockWriter(t) ==
  /\ pc[t] = "want_writer" /\ transport # "file"
  /\ WriterFree /\ ~ poisoned /\ HasPeer
  /\ writer' = t
  /\ GoTo(t, IF call[t] = "send_raw" THEN "write" ELSE "next_header")
  /\ header' = [header EXCEPT ![t] = Raw]
  /\ part' = [part EXCEPT ![t] = 0]
  /\ UNCHANGED <<outside, call, outcome, receiving, poisoned, drawn, wire>>

\* There is no writer, or nobody to send to yet: Ok(0).
SkipSend(t) ==
  /\ pc[t] = "want_writer"
  /\ transport = "file" \/ (WriterFree /\ ~ poisoned /\ ~ HasPeer)
  /\ Return(t, Other("skipped"))
  /\ UNCHANGED <<outside, call, receiving, sending>>

\* lock().unwrap() of a mutex whose holder panicked.
PoisonedPanic(t) ==
  /\ pc[t] = "want_writer" /\ transport # "file"
  /\ WriterFree /\ poisoned
  /\ GoTo(t, "panicked")
  /\ UNCHANGED <<outside, call, outcome, receiving, sending>>

NextHeader(t) ==
  /\ pc[t] = "next_header"
  /\ drawn' = drawn + 1
  /\ header' = [header EXCEPT ![t] = drawn + 1]
  /\ GoTo(t, "encode")
  /\ UNCHANGED <<outside, call, outcome, receiving, writer, poisoned, part, wire>>

Encode(t) ==
  /\ pc[t] = "encode"
  /\ protocol_version = "V2" \/ call[t] = "send"
  /\ GoTo(t, "write")
  /\ UNCHANGED <<outside, call, outcome, receiving, sending>>

EncodeFails(t) ==
  /\ pc[t] = "encode"
  /\ protocol_version = "V1" /\ call[t] = "send_system_over_255"
  /\ writer' = NoThread
  /\ Return(t, Other("encoder_error"))
  /\ UNCHANGED <<outside, call, receiving, poisoned, drawn, header, part, wire>>

\* The message id is made a byte by try_into().unwrap().
EncodePanics(t) ==
  /\ pc[t] = "encode"
  /\ protocol_version = "V1" /\ call[t] = "send_id_over_255"
  /\ writer' = NoThread /\ poisoned' = TRUE
  /\ GoTo(t, "panicked")
  /\ UNCHANGED <<outside, call, outcome, receiving, drawn, header, part, wire>>

\* send_to is called with the destination locked.  It matters where a reader
\* records senders.
LockDestination(t) ==
  /\ pc[t] = "write" /\ transport = "udp_server"
  /\ GoTo(t, "send_to")
  /\ UNCHANGED <<outside, call, outcome, receiving, sending>>

Writes(t) == pc[t] = IF transport = "udp_server" THEN "send_to" ELSE "write"

\* Mutant of WritePart: the lock is held for one write only.
WritePartAlone(t) ==
  /\ Writes(t)
  /\ wire' = Append(wire, [by |-> t, header |-> header[t], part |-> part[t] + 1,
                           to |-> destination])
  /\ part' = [part EXCEPT ![t] = @ + 1]
  /\ writer' = NoThread
  /\ IF part[t] + 1 = WriteParts THEN Return(t, Other("sent"))
     ELSE UNCHANGED <<pc, outcome>>
  /\ UNCHANGED <<outside, call, receiving, poisoned, drawn, header>>

\* One write of write_all: a datagram, or some bytes of a frame.
WritePart(t) ==
  /\ Writes(t)
  /\ wire' = Append(wire, [by |-> t, header |-> header[t], part |-> part[t] + 1,
                           to |-> destination])
  /\ part' = [part EXCEPT ![t] = @ + 1]
  /\ IF part[t] + 1 = WriteParts THEN Return(t, Other("sent")) /\ writer' = NoThread
     ELSE UNCHANGED <<pc, outcome, writer>>
  /\ UNCHANGED <<outside, call, receiving, poisoned, drawn, header>>

\* The socket has no room and does not wait for it, or the write failed.
WriteFails(t, error) ==
  /\ Writes(t)
  /\ error = "would_block" => nonblocking
  /\ writer' = NoThread
  /\ Return(t, Other(error))
  /\ UNCHANGED <<outside, call, receiving, poisoned, drawn, header, part, wire>>

-----------------------------------------------------------------------------
\* What a thread does without the world's help ...
Receive(t) ==
  \/ LockReader(t) \/ SetNonblocking(t) \/ DecodeFrame(t) \/ ReadChunk(t)
  \/ RecordSender(t) \/ RecordEmpty(t) \/ ReadGivesUp(t) \/ RestoreBlocking(t)

Send(t) ==
  \/ LockWriter(t) \/ SkipSend(t) \/ PoisonedPanic(t) \/ NextHeader(t)
  \/ Encode(t) \/ EncodeFails(t) \/ EncodePanics(t) \/ LockDestination(t) \/ WritePart(t)

\* ... what it finds in what it reads, and the failures of the system calls
\* it makes.
Fail(t) ==
  \/ AwaitRest(t) \/ \E from \in Peers : ReadEmpty(t, from)
  \/ SetNonblockingFails(t) \/ RestoreBlockingFails(t)
  \/ \E error \in {"eof", "io_error"} : ReadFails(t, error)
  \/ \E error \in {"would_block", "io_error"} : WriteFails(t, error)

World ==
  \/ \E from \in Peers, k \in 0 .. MaxArrivals, parses \in BOOLEAN : Arrive(from, k, parses)
  \/ \E v \in Versions : SetProtocolVersion(v)

Next ==
  \/ World
  \/ \E t \in Threads :
       \/ \E operation \in Operations : Call(t, operation)
       \/ Receive(t) \/ Send(t) \/ Fail(t)

Spec == Init /\ [][Next]_vars

\* Threads run.  The locks are not fair, and need not be: there are finitely
\* many calls.  Nothing need ever arrive, or fail.
FairSpec == Spec /\ \A t \in Threads : WF_vars(Receive(t)) /\ WF_vars(Send(t))

-----------------------------------------------------------------------------
TypeOK ==
  /\ transport \in Transports /\ read_timeout \in BOOLEAN
  /\ protocol_version \in {"V1", "V2"} /\ calls \in Nat
  /\ arrivals \in Seq([from : Peers, parses : BOOLEAN])
  /\ pc \in [Threads -> {"idle", "panicked", "want_reader", "set_nonblocking", "decode",
                         "record_sender", "record_empty", "restore_blocking",
                         "want_writer", "next_header", "encode", "write", "send_to"}]
  /\ call \in [Threads -> Operations \union {"none"}]
  /\ outcome \in [Threads -> Outcomes]
  /\ reader \in Threads \union {NoThread} /\ writer \in Threads \union {NoThread}
  /\ nonblocking \in BOOLEAN /\ switch_failures \in Nat /\ poisoned \in BOOLEAN
  /\ destination \in Peers \union {NoPeer} /\ address \in Peers \union {NoPeer}
  /\ socket \in Seq([from : Peers, frames : Seq(Nat)])
  /\ buffered \in Seq(Nat) /\ handed \in Seq(Nat)
  /\ withheld \in BOOLEAN /\ overtaken \subseteq Nat
  /\ drawn \in Nat /\ header \in [Threads -> Nat]
  /\ part \in [Threads -> 0 .. WriteParts]
  /\ wire \in Seq([by : Threads, header : Nat, part : Nat,
                   to : Peers \union {NoPeer}])

(***************************************************************************)
(* "Called with the writer locked, so sequence numbers follow write        *)
(* order": what is on the wire has them in the order in which they were    *)
(* drawn, one frame each, however the threads interleave and fail.         *)
(***************************************************************************)
SequenceFollowsWriteOrder ==
  \A i, j \in DOMAIN wire :
    i < j /\ wire[i].header # Raw /\ wire[j].header # Raw =>
      \/ wire[i].header < wire[j].header
      \/ wire[i].header = wire[j].header /\ wire[i].part < wire[j].part

(***************************************************************************)
(* A frame is written in one piece: nothing of another frame comes between *)
(* its parts, and it is not resumed after a failure.                       *)
(***************************************************************************)
FramesContiguous ==
  \A i \in DOMAIN wire : wire[i].part > 1 =>
    /\ i > 1
    /\ wire[i - 1].by = wire[i].by /\ wire[i - 1].header = wire[i].header
    /\ wire[i - 1].part = wire[i].part - 1

(***************************************************************************)
(* "destination checked before write": no thread writes a datagram that    *)
(* has nowhere to go, though the reader changes the destination meanwhile. *)
(***************************************************************************)
DestinationKnown ==
  Datagrams => \A t \in Threads : pc[t] \in {"write", "send_to"} => destination # NoPeer

(***************************************************************************)
(* recv waits: it reports that nothing is there only if the socket has a   *)
(* read timeout, whatever other threads try in between, unless a try_recv  *)
(* could not switch back.                                                  *)
(***************************************************************************)
RecvWaits ==
  \A t \in Threads :
    call[t] \in {"recv", "recv_raw"} /\ outcome[t].what = "would_block" =>
      read_timeout \/ switch_failures > 0

(***************************************************************************)
(* When a UDP server hands over a message, an answer sent before anything  *)
(* else is read goes to its sender, also when one datagram held several    *)
(* messages and whatever was read before.  One kind is left out: a message *)
(* that waited behind an incomplete candidate while another datagram was   *)
(* read is answered to whoever sent that one.                              *)
(***************************************************************************)
RepliesReachSender ==
  [][transport = "udp_server" /\ handed' # handed /\ Last(handed') \notin overtaken =>
       destination = arrivals[Last(handed')].from]_vars

(***************************************************************************)
(* The frames that arrive are handed to callers in order, each once.       *)
(***************************************************************************)
\* Held by a try_recv until the mode is restored.
HeldBack ==
  {outcome[t].nr : t \in {u \in Threads : pc[u] = "restore_blocking"
                                          /\ outcome[u].what = "message"}}

left == Len(arrivals) - Cardinality(HeldBack \union WaitingIn(buffered, socket))

\* What does not parse is dropped.
Unparsable == {i \in DOMAIN arrivals : ~ arrivals[i].parses}

Queue == INSTANCE FrameQueue WITH failures <- switch_failures, unwanted <- Unparsable

ImplementsQueue == Queue!Spec

(***************************************************************************)
(* A send does not wait for a receive: it settles though nothing arrives.  *)
(***************************************************************************)
SendSettles ==
  \A t \in Threads : pc[t] = "want_writer" ~> pc[t] \in {"idle", "panicked"}

(***************************************************************************)
(* Once it has the reader, try_recv returns when there is nothing left to  *)
(* read, be it or not that a message has arrived.                          *)
(***************************************************************************)
TryRecvSettles ==
  <>[](socket = <<>>) => \A t \in Threads : pc[t] = "set_nonblocking" ~> pc[t] = "idle"

(***************************************************************************)
(* "Non-blocking variant of `recv()`, returns immediately with a           *)
(* `MessageReadError` if there is an error or no message is available."    *)
(***************************************************************************)
TryRecvReturns ==
  \A t \in Threads :
    pc[t] = "want_reader" /\ call[t] = "try_recv" ~> pc[t] = "idle"

(***************************************************************************)
(* "Toggles nonblocking reads for `try_recv`": sends go on waiting for     *)
(* room in the socket.                                                     *)
(***************************************************************************)
SendsWait ==
  \A t \in Threads : call[t] \in Sends => outcome[t].what # "would_block"

(***************************************************************************)
(* "When attempting to serialize a message with an ID over 255 with        *)
(* MAVLink 1 a [`MessageWriteError::MAVLink2Only`] is returned."           *)
(***************************************************************************)
SendsReturn == \A t \in Threads : pc[t] # "panicked"
=============================================================================
