-------------------------- MODULE AsyncConnection ---------------------------
(***************************************************************************)
(* An asynchronous connection (mavlink-core/src/connection/async.rs, the   *)
(* async.rs of each transport, connection_shared.rs) used by several       *)
(* tasks.  It differs from BlockingConnection in that an operation can be  *)
(* dropped wherever it awaits: a lock, data, or room to write; in that     *)
(* there is no nonblocking mode, and a panic poisons no lock; in that UDP  *)
(* retries every error; and in that a sender is recorded in the same poll  *)
(* that reads its datagram.                                                *)
(*                                                                         *)
(* FrameDecoder models what happens inside the reader; here a frame is     *)
(* whole and valid, and a chunk is what one read brings.  Its other bytes, *)
(* and those of a frame that the filter passes over, matter in one way:    *)
(* they may begin a candidate that is not complete, and the frames behind  *)
(* it wait until more has been read.                                       *)
(***************************************************************************)
EXTENDS Naturals, SequencesExt, WaitingFrames

CONSTANTS
  Tasks,
  Operations,    \* The operations the tasks call, of Receives and Sends.
  Transports,    \* The transports a connection may have.
  Versions,      \* The protocol versions that are set.
  Peers,         \* Remote addresses.
  Frames,        \* The frames that may arrive, [from, version, parses].
  NoPeer,
  NoTask,
  FrameParts,    \* How many writes a frame takes on a stream transport.
  MaxCalls,      \* Bound on the calls made.
  MaxArrivals,   \* Bound on the frames that arrive.
  MaxChunks      \* Bound on the chunks that wait to be read.

VARIABLES
  transport,
  protocol_version, recv_any_version,
  calls,               \* How many calls were made.
  arrivals,            \* The frames that arrived, [from, version, parses];
                       \* their numbers are their places in this sequence.
  pc, call, outcome,   \* Of each task, as in BlockingConnection.
  reader, writer,      \* The tasks that hold the mutexes.
  destination,         \* UdpWrite::destination, shared with the reader.
  socket,              \* The chunks, [from, frames], not read yet.
  buffered,            \* The numbers of the frames read and not decoded.
  withheld,            \* What the decoder has found before those frames is a
                       \* candidate that lacks bytes.
  overtaken,           \* The frames of a UDP server that waited behind such a
                       \* candidate when another datagram was read.
  handed,              \* The numbers of those returned by calls, in order.
  drawn,               \* How many sequence numbers were drawn.
  header, part,        \* What a task writes, and how many parts are written.
  wire                 \* What was written, part by part.

outside == <<transport, protocol_version, recv_any_version, calls, arrivals>>
candidate == <<withheld, overtaken>>
receiving == <<reader, destination, socket, buffered, candidate, handed>>
sending == <<writer, drawn, header, part, wire>>
vars == <<outside, pc, call, outcome, receiving, sending>>

Receives == {"recv", "recv_raw", "recv_frame", "try_recv"}

\* The last two send what MAVLink 1 has no room for.
Sends == {"send", "send_raw", "send_id_over_255", "send_system_over_255"}

\* Numbers are drawn from 1 on (the header has the low byte of one less).
Raw == 0

\* What a call gives; a frame has the version recv_frame puts on it.
Outcome(what, nr, version) == [what |-> what, nr |-> nr, version |-> version]
Message(nr) == Outcome("message", nr, protocol_version)
Other(what) == Outcome(what, 0, "none")

ASSUME AsyncAssumption ==
  /\ Operations \subseteq Receives \union Sends
  /\ Transports \subseteq {"tcp", "udp_server", "udp_client", "serial", "file"}
  /\ Versions \subseteq {"V1", "V2"}
  /\ Frames \subseteq [from : Peers, version : {"V1", "V2"}, parses : BOOLEAN]
  /\ NoPeer \notin Peers /\ NoTask \notin Tasks
  /\ FrameParts \in Nat \ {0}
  /\ MaxCalls \in Nat /\ MaxArrivals \in Nat /\ MaxChunks \in Nat

-----------------------------------------------------------------------------
Datagrams == transport \in {"udp_server", "udp_client"}

\* Mutant of Retries: UDP as in a blocking connection.
RetriesNotUdp(error) == transport \in {"serial", "file"} /\ error # "eof"

\* retry_receive
Retries(error) == Datagrams \/ (transport \in {"serial", "file"} /\ error # "eof")

\* Mutant of Accepted: the filter is forgotten.
AcceptedAny(nr) == TRUE

\* version_filter
Accepted(nr) == recv_any_version \/ arrivals[nr].version = protocol_version

ReaderFree == reader = NoTask

\* lock_writer gives the writer.
WriterReady ==
  /\ writer = NoTask /\ transport # "file"
  /\ Datagrams => destination # NoPeer

Fits(operation) ==
  protocol_version = "V2" \/ operation \in {"send", "send_raw"}

WriteParts == IF Datagrams THEN 1 ELSE FrameParts

Init ==
  /\ transport \in Transports
  /\ protocol_version = "V2" /\ recv_any_version = FALSE
  /\ calls = 0 /\ arrivals = <<>>
  /\ pc = [t \in Tasks |-> "idle"]
  /\ call = [t \in Tasks |-> "none"]
  /\ outcome = [t \in Tasks |-> Other("none")]
  /\ reader = NoTask /\ writer = NoTask
  /\ IF transport = "udp_client" THEN destination \in Peers ELSE destination = NoPeer
  /\ socket = <<>> /\ buffered = <<>> /\ handed = <<>>
  /\ withheld = FALSE /\ overtaken = {}
  /\ drawn = 0
  /\ header = [t \in Tasks |-> Raw] /\ part = [t \in Tasks |-> 0]
  /\ wire = <<>>

GoTo(t, where) == pc' = [pc EXCEPT ![t] = where]

Return(t, result) == GoTo(t, "idle") /\ outcome' = [outcome EXCEPT ![t] = result]

(***************************************************************************)
(* What happens around the connection.                                     *)
(***************************************************************************)

\* A peer's chunk of k frames arrives.
Arrive(k, frame) ==
  /\ Len(arrivals) + k <= MaxArrivals /\ Len(socket) < MaxChunks
  /\ arrivals' = arrivals \o [i \in 1 .. k |-> frame]
  /\ socket' = Append(socket, [from |-> frame.from,
                              frames |-> [i \in 1 .. k |-> Len(arrivals) + i]])
  /\ UNCHANGED <<transport, protocol_version, recv_any_version, calls, pc, call, outcome>>
  /\ UNCHANGED <<reader, destination, buffered, candidate, handed, sending>>

\* A task calls an operation of the connection.
Call(t, operation) ==
  /\ pc[t] = "idle" /\ calls < MaxCalls
  /\ calls' = calls + 1
  /\ call' = [call EXCEPT ![t] = operation]
  /\ outcome' = [outcome EXCEPT ![t] = Other("none")]
  /\ GoTo(t, IF operation \in Receives THEN "want_reader" ELSE "want_writer")
  /\ UNCHANGED <<transport, protocol_version, recv_any_version, arrivals>>
  /\ UNCHANGED <<receiving, sending>>

\* The setters take &mut self: no call is in progress.  Another filter finds
\* other candidates.
Quiet == \A t \in Tasks : pc[t] \in {"idle", "panicked"}

SetProtocolVersion(v) ==
  /\ Quiet
  /\ v # protocol_version /\ protocol_version' = v
  /\ withheld' = FALSE
  /\ UNCHANGED <<transport, recv_any_version, calls, arrivals, pc, call, outcome>>
  /\ UNCHANGED <<reader, destination, socket, buffered, overtaken, handed, sending>>

SetAllowRecvAnyVersion ==
  /\ Quiet
  /\ recv_any_version' = ~ recv_any_version
  /\ withheld' = FALSE
  /\ UNCHANGED <<transport, protocol_version, calls, arrivals, pc, call, outcome>>
  /\ UNCHANGED <<reader, destination, socket, buffered, overtaken, handed, sending>>

(***************************************************************************)
(* recv, recv_raw, recv_frame and try_recv.                                *)
(***************************************************************************)
LockReader(t) ==
  /\ pc[t] = "want_reader" /\ ReaderFree
  /\ reader' = t
  /\ GoTo(t, "decode")
  /\ UNCHANGED <<outside, call, outcome, sending>>
  /\ UNCHANGED <<destination, socket, buffered, candidate, handed>>

\* A message is returned; an error is, unless it is retried.
GiveMessage(t, nr) ==
  /\ Return(t, Message(nr)) /\ reader' = NoTask
  /\ handed' = Append(handed, nr)

GiveError(t, error) ==
  /\ IF call[t] # "try_recv" /\ Retries(error)
     THEN UNCHANGED <<pc, outcome, reader>>
     ELSE Return(t, Other(error)) /\ reader' = NoTask
  /\ UNCHANGED handed

\* next_frame gives a frame that was read already, passing over those of a
\* version the filter does not accept ...
DecodeFrame(t) ==
  /\ pc[t] = "decode" /\ buffered # <<>> /\ ~ withheld
  /\ buffered' = Tail(buffered)
  /\ LET nr == Head(buffered)
     IN  \/ ~ Accepted(nr) /\ UNCHANGED <<pc, outcome, reader, handed>>
         \/ /\ Accepted(nr)
            /\ arrivals[nr].parses \/ call[t] = "recv_raw"
            /\ GiveMessage(t, nr)
         \/ /\ Accepted(nr)
            /\ ~ (arrivals[nr].parses \/ call[t] = "recv_raw")
            /\ GiveError(t, "parse_error")
  /\ UNCHANGED <<outside, call, sending, destination, socket, candidate>>

\* ... or it gives None: what comes first is the beginning of a candidate, a
\* marker in noise or in a frame passed over, or a frame whose end is lost.
AwaitRest(t) ==
  /\ pc[t] = "decode" /\ buffered # <<>> /\ ~ withheld
  /\ withheld' = TRUE
  /\ UNCHANGED <<outside, pc, call, outcome, sending>>
  /\ UNCHANGED <<reader, destination, socket, buffered, overtaken, handed>>

\* next_frame has given None.
Reads(t) == pc[t] = "decode" /\ (buffered = <<>> \/ withheld)

Overtake ==
  overtaken' = IF withheld /\ transport = "udp_server" THEN overtaken \union Range(buffered)
               ELSE overtaken

\* Mutant of ReadChunk: the first sender stays the destination.
ReadChunkFirst(t) ==
  /\ Reads(t) /\ socket # <<>>
  /\ buffered' = buffered \o Head(socket).frames
  /\ socket' = Tail(socket)
  /\ withheld' = FALSE /\ Overtake
  /\ destination' = IF transport = "udp_server" /\ destination = NoPeer
                    THEN Head(socket).from ELSE destination
  /\ UNCHANGED <<outside, pc, call, outcome, sending, reader, handed>>

\* What it brings may complete the candidate, or not: see AwaitRest.
ReadChunk(t) ==
  /\ Reads(t) /\ socket # <<>>
  /\ buffered' = buffered \o Head(socket).frames
  /\ socket' = Tail(socket)
  /\ withheld' = FALSE /\ Overtake
  /\ destination' = IF transport = "udp_server" THEN Head(socket).from ELSE destination
  /\ UNCHANGED <<outside, pc, call, outcome, sending, reader, handed>>

\* An empty datagram is the end of input to the reader, but it has a sender.
ReadEmpty(t, from) ==
  /\ Reads(t) /\ transport = "udp_server"
  /\ destination' = from
  /\ Overtake
  /\ GiveError(t, "eof")
  /\ UNCHANGED <<outside, call, sending, socket, buffered, withheld>>

\* The stream has ended, a client's datagram was empty, or the read failed.
ReadFails(t, error) ==
  /\ Reads(t)
  /\ error = "eof" => transport # "udp_server"
  /\ GiveError(t, error)
  /\ UNCHANGED <<outside, call, sending, destination, socket, buffered, candidate>>

(***************************************************************************)
(* send and send_raw.                                                      *)
(***************************************************************************)

\* There is no writer, or nobody to send to yet: Ok(0).
SkipSend(t) ==
  /\ pc[t] = "want_writer"
  /\ transport = "file" \/ (writer = NoTask /\ ~ WriterReady)
  /\ Return(t, Other("skipped"))
  /\ UNCHANGED <<outside, call, receiving, sending>>

\* From the lock to the first write nothing awaits: the number is drawn and
\* the frame is encoded.
Draws(t) == IF call[t] = "send_raw" THEN 0 ELSE 1

\* Mutant of StartWrite: what is left of a dropped write is written first.
StartWriteResumes(t) ==
  /\ pc[t] = "want_writer" /\ WriterReady /\ Fits(call[t])
  /\ writer' = t
  /\ drawn' = drawn + Draws(t)
  /\ header' = [header EXCEPT ![t] = Draws(t) * (drawn + 1)]
  /\ GoTo(t, "write")
  /\ UNCHANGED <<outside, call, outcome, receiving, part, wire>>

StartWrite(t) ==
  /\ pc[t] = "want_writer" /\ WriterReady /\ Fits(call[t])
  /\ writer' = t
  /\ drawn' = drawn + Draws(t)
  /\ header' = [header EXCEPT ![t] = Draws(t) * (drawn + 1)]
  /\ part' = [part EXCEPT ![t] = 0]
  /\ GoTo(t, "write")
  /\ UNCHANGED <<outside, call, outcome, receiving, wire>>

EncodeFails(t) ==
  /\ pc[t] = "want_writer" /\ WriterReady
  /\ ~ Fits(call[t]) /\ call[t] = "send_system_over_255"
  /\ drawn' = drawn + 1
  /\ Return(t, Other("encoder_error"))
  /\ UNCHANGED <<outside, call, receiving, writer, header, part, wire>>

\* The task dies; its guard is dropped, and the mutex has no poison.
EncodePanics(t) ==
  /\ pc[t] = "want_writer" /\ WriterReady
  /\ ~ Fits(call[t]) /\ call[t] = "send_id_over_255"
  /\ drawn' = drawn + 1
  /\ GoTo(t, "panicked")
  /\ UNCHANGED <<outside, call, outcome, receiving, writer, header, part, wire>>

\* One poll of write_all: a datagram, or some bytes of a frame.
WritePart(t) ==
  /\ pc[t] = "write"
  /\ wire' = Append(wire, [by |-> t, header |-> header[t], part |-> part[t] + 1,
                           to |-> destination])
  /\ part' = [part EXCEPT ![t] = @ + 1]
  /\ IF part[t] + 1 = WriteParts THEN Return(t, Other("sent")) /\ writer' = NoTask
     ELSE UNCHANGED <<pc, outcome, writer>>
  /\ UNCHANGED <<outside, call, receiving, drawn, header>>

WriteFails(t) ==
  /\ pc[t] = "write"
  /\ writer' = NoTask
  /\ Return(t, Other("io_error"))
  /\ UNCHANGED <<outside, call, receiving, drawn, header, part, wire>>

(***************************************************************************)
(* A future is dropped where it awaits, and its guard with it.             *)
(***************************************************************************)

\* Mutants of Cancel: the guard, or what was read ahead, goes with it.
CancelKeepsLock(t) ==
  /\ pc[t] \notin {"idle", "panicked"}
  /\ Return(t, Other("dropped"))
  /\ UNCHANGED <<outside, call, receiving, sending>>

CancelLosesBuffer(t) ==
  /\ pc[t] \notin {"idle", "panicked"}
  /\ Return(t, Other("dropped"))
  /\ reader' = IF reader = t THEN NoTask ELSE reader
  /\ writer' = IF writer = t THEN NoTask ELSE writer
  /\ buffered' = IF reader = t THEN <<>> ELSE buffered
  /\ UNCHANGED <<outside, call, destination, socket, candidate, handed>>
  /\ UNCHANGED <<drawn, header, part, wire>>

Cancel(t) ==
  /\ pc[t] \notin {"idle", "panicked"}
  /\ Return(t, Other("dropped"))
  /\ reader' = IF reader = t THEN NoTask ELSE reader
  /\ writer' = IF writer = t THEN NoTask ELSE writer
  /\ UNCHANGED <<outside, call, destination, socket, buffered, candidate, handed>>
  /\ UNCHANGED <<drawn, header, part, wire>>

-----------------------------------------------------------------------------
\* What a task does when it is polled ...
Receive(t) == LockReader(t) \/ DecodeFrame(t) \/ ReadChunk(t)

Send(t) ==
  SkipSend(t) \/ StartWrite(t) \/ EncodeFails(t) \/ EncodePanics(t) \/ WritePart(t)

\* ... and what may happen to it.
Fail(t) ==
  \/ AwaitRest(t) \/ \E from \in Peers : ReadEmpty(t, from)
  \/ \E error \in {"eof", "io_error"} : ReadFails(t, error)
  \/ WriteFails(t) \/ Cancel(t)

World ==
  \/ \E k \in 0 .. MaxArrivals, frame \in Frames : Arrive(k, frame)
  \/ \E v \in Versions : SetProtocolVersion(v)
  \/ SetAllowRecvAnyVersion

Next ==
  \/ World
  \/ \E t \in Tasks :
       \/ \E operation \in Operations : Call(t, operation)
       \/ Receive(t) \/ Send(t) \/ Fail(t)

Spec == Init /\ [][Next]_vars

\* Tasks are polled.  A read that has data succeeds in the end: where errors
\* are retried, one that never goes away would keep a recv busy.  A candidate
\* lacks less than a frame and a read brings a byte at least, so reads without
\* end complete all that stand before a frame.
Fairness ==
  \A t \in Tasks : WF_vars(Receive(t)) /\ WF_vars(Send(t)) /\ SF_vars(DecodeFrame(t))

-----------------------------------------------------------------------------
Outcomes ==
  [what : {"none", "message", "parse_error", "eof", "io_error", "skipped", "sent",
           "encoder_error", "dropped"},
   nr : Nat, version : {"none", "V1", "V2"}]

TypeOK ==
  /\ transport \in Transports
  /\ protocol_version \in {"V1", "V2"} /\ recv_any_version \in BOOLEAN
  /\ calls \in Nat
  /\ arrivals \in Seq(Frames)
  /\ pc \in [Tasks -> {"idle", "panicked", "want_reader", "decode", "want_writer", "write"}]
  /\ call \in [Tasks -> Operations \union {"none"}]
  /\ outcome \in [Tasks -> Outcomes]
  /\ reader \in Tasks \union {NoTask} /\ writer \in Tasks \union {NoTask}
  /\ destination \in Peers \union {NoPeer}
  /\ socket \in Seq([from : Peers, frames : Seq(Nat)])
  /\ buffered \in Seq(Nat) /\ handed \in Seq(Nat)
  /\ withheld \in BOOLEAN /\ overtaken \subseteq Nat
  /\ drawn \in Nat /\ header \in [Tasks -> Nat]
  /\ part \in [Tasks -> 0 .. WriteParts]
  /\ wire \in Seq([by : Tasks, header : Nat, part : Nat, to : Peers \union {NoPeer}])

(***************************************************************************)
(* A send that has returned Ok has its whole frame on the wire in one      *)
(* piece, whatever sends were dropped halfway before it and beside it.     *)
(***************************************************************************)
SentWhole ==
  \A t \in Tasks :
    outcome[t].what = "sent" =>
      \E i \in DOMAIN wire :
        /\ i + WriteParts - 1 \in DOMAIN wire
        /\ \A k \in 1 .. WriteParts :
             LET w == wire[i + k - 1]
             IN  w.by = t /\ w.header = header[t] /\ w.part = k

(***************************************************************************)
(* Where errors are retried, a recv gives up only at the end of a stream.  *)
(***************************************************************************)
RecvPersists ==
  \A t \in Tasks :
    /\ transport \notin {"tcp"} /\ call[t] \in Receives \ {"try_recv"}
    /\ outcome[t].what \in {"parse_error", "eof", "io_error"}
    => outcome[t].what = "eof" /\ transport \in {"serial", "file"}

(***************************************************************************)
(* When a UDP server hands over a message, an answer goes to its sender,   *)
(* also if the recv that read its datagram was dropped.  One kind is left  *)
(* out: a message that waited behind an incomplete candidate while another *)
(* datagram was read is answered to whoever sent that one.                 *)
(***************************************************************************)
RepliesReachSender ==
  [][transport = "udp_server" /\ handed' # handed /\ Last(handed') \notin overtaken =>
       destination = arrivals[Last(handed')].from]_vars

(***************************************************************************)
(* recv_frame puts the connection's version on a frame.  It is the frame's *)
(* own as long as one version only is received, also for frames that were  *)
(* read ahead before the version was changed.                              *)
(***************************************************************************)
FrameKeepsVersion ==
  [][\A t \in Tasks :
       /\ call[t] = "recv_frame" /\ ~ recv_any_version
       /\ outcome'[t] # outcome[t] /\ outcome'[t].what = "message"
       => outcome'[t].version = arrivals[outcome'[t].nr].version]_vars

(***************************************************************************)
(* A dropped receive loses nothing: the frames that arrive are handed over *)
(* in order, each once, but for those no call could return.                *)
(***************************************************************************)
left == Len(arrivals) - Cardinality(WaitingIn(buffered, socket))

Unwanted == {i \in DOMAIN arrivals : ~ arrivals[i].parses \/ ~ Accepted(i)}

Queue == INSTANCE FrameQueue WITH failures <- 0, unwanted <- Unwanted

ImplementsQueue == Queue!Spec

(***************************************************************************)
(* A task that receives gets a message that is there, whatever tasks were  *)
(* dropped while they held the reader, and though reads fail in between.   *)
(* It may have to wait for one that an incomplete candidate withholds, but *)
(* not when there is more to read.                                         *)
(***************************************************************************)
Deliverable == \E i \in left + 1 .. Len(arrivals) : i \notin Unwanted

ReceiverServed ==
  []<>(\/ ~ Deliverable
       \/ withheld /\ socket = <<>>
       \/ \A t \in Tasks : pc[t] \notin {"want_reader", "decode"})

(***************************************************************************)
(* A send settles though a receive waits, and though sends before it were  *)
(* dropped, have failed or have panicked.                                  *)
(***************************************************************************)
SendSettles == \A t \in Tasks : pc[t] = "want_writer" ~> pc[t] \in {"idle", "panicked"}
=============================================================================
