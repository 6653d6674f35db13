# A TLA+ model of rust-mavlink

This directory specifies rust-mavlink in TLA+ — the `mavlink-core` crate, the
runtime dialects of `mavlink` and the definition compiler of `mavlink-bindgen` —,
checks it with TLC on small instances and proves the main properties of its core
with TLAPS for all of them. `PROJECT.json` is the index: the components, the runs, the source lines each
definition stands for, the hazards the properties are aimed at, the mutants that
show a property can fail, and the theorems.

Run a check with `tlc -workers 2 -config X.cfg MCModule`, a proof with
`tlapm ModuleProofs.tla`.

## 1. The system

MAVLink is a protocol of small framed messages between vehicles and ground
stations. The crates compile message definitions into dialects, turn bytes into
frames and frames into messages, sign and verify frames, and offer connections over
TCP, UDP, serial ports and files, for threads and for asynchronous tasks.

| Component | State it keeps | Operations | Talks to |
|---|---|---|---|
| frame decoder (`frame_decoder.rs`) | a byte buffer and its window `start..end` | `next_frame`, `spare_capacity_mut`/`commit`, `advance` | called by the readers |
| readers (`reader.rs`, `async_reader.rs`) | a decoder and a source of bytes | `read_message`, `read_raw_message`, with a version filter, a dialect and signing data | decoder, signing, dialect |
| signing (`signing.rs`) | the latest timestamp, and one per stream, behind a mutex | `sign_message`, `verify_signature`, `setup_signing` | the sending and the receiving side of one connection share it |
| connection state (`connection_shared.rs`) | protocol version, version filter, sequence counter, signing data | `next_header`, the setters | shared by all threads of a connection |
| blocking connections (`connection/sync.rs`, `*/sync.rs`) | a reader behind a mutex, a writer behind another, the mode of the socket both share, the reply address of a UDP server | `recv`, `recv_raw`, `try_recv`, `send`, `send_raw` | reader, connection state, socket |
| asynchronous connections (`connection/async.rs`, `*/async.rs`) | the same with asynchronous mutexes, without a mode | the same, each dropped at any await | the same |
| configurations (`*/config.rs`, `connectable.rs`) | an address or a socket, which clones share and one open takes | `connect`, `open`, `open_async`, parsing of addresses | build the connections |
| raw messages and writers (`lib.rs`) | a frame's bytes, in a buffer that may be used again | accessors, serialization, `write_*` | dialects, signing |
| payload cursors (`bytes.rs`, `bytes_mut.rs`, `types.rs`, `utils.rs`) | a position in a payload | typed reads and writes, zero truncation | generated message code |
| runtime dialects (`dialects/dynamic*.rs`) | definitions of messages, shared by the messages made from them | loading, `message_from_fields`, `decode`, `encode`, serde | compiler, readers and writers |
| static dialect adapter (`static_dialect.rs`) and the generated code | none | `parse`, `ser`, ids, names, defaults | readers and writers |
| definition compiler (`mavlink-bindgen`) | the messages and enums of a set of XML files, the paths read | `parse_profile` with its filters and includes, `update_enums`, `extra_crc` | build time, runtime dialects |
| errors, build scripts, examples, tests | none | | |

### What is hard about it

* **Incremental decoding.** Frames arrive in chunks of any size, mixed with noise
  and with markers that mean nothing, in two versions, and the filter may change
  between two calls. A read may fail or be cancelled in the middle of a frame.
  The frames found must not depend on any of this.
* **The buffer's limit.** The pending candidate must always leave room for a read,
  or the reader asserts.
* **Signing.** One timestamp is raised by the clock, by sending and by receiving;
  the clock may go back; messages are lost, repeated and reordered; signing may be
  set up again at either end; and the timestamp has 48 bits on the wire.
* **Threads on a connection.** Sends and receives run concurrently under two
  locks, but they share the socket's nonblocking mode, the reply address and the
  sequence counter. System calls fail between two steps; a panic poisons a lock.
* **Cancellation.** A future may be dropped at each of its awaits: with a lock, with
  bytes read ahead, with half a frame written. Nothing may be lost or stay locked.
* **Opening.** Clones of a configuration share one socket; opens race, fail and are
  dropped between their steps.
* **Buffers that are used again.** A raw message keeps the flags of its last frame,
  and every offset in it depends on them.
* **Definitions in many files.** Files include each other in diamonds and rings;
  enums grow when files join, and fields may become too small for them.
* **Two descriptions of one message.** The generated code and the runtime definition
  must agree on layout, defaults, truncation and enum ranges, and peers with older,
  newer or foreign definitions must still understand or reject each other.

`PROJECT.json` lists each hazard at its line, with the properties that cover it.

## 2. Modules

    FrameLayout                    the wire layout
      FrameScanner                 what frame decoding promises (abstract)
      FrameDecoder                 decoder and reader loop; implements FrameScanner
        MCFrameDecoder             a small layout and inputs for TLC
        FrameDecoderProofs
    OrderedDelivery                what signing promises (abstract)
    SignedLink                     signing between nodes; implements OrderedDelivery
        MCSignedLink, SignedLinkProofs
    FrameQueue                     what receiving promises (abstract)
    WaitingFrames                  the frames that arrived and were not decoded yet
        WaitingFramesProofs        their number, step by step, for both connections
    BlockingConnection             a connection used by threads; implements FrameQueue
        MCBlockingConnection, BlockingConnectionProofs
    AsyncConnection                a connection used by tasks; implements FrameQueue
    ConnectionConfig               opening connections from a configuration
        ConnectionConfigProofs
      AsyncSession                 composes ConnectionConfig and AsyncConnection
        MCAsyncSession
        AsyncConnectionProofs      the connection alone, then within a session
    MavTypes                       types of fields, conversions, payload cursors
      DefinitionCompiler           definition files to profiles
        DynamicDialect             a profile loaded at run time
        StaticDialect              the code generated from a profile
      RawMessage                   frames in buffers, and the write functions
        RawMessageProofs           what is written reads back; recursion on numbers
        DialectSession             composes the four between two peers
          MCDialectSession         the definition files, messages and values
          DialectSessionProofs

The detailed modules meet at an interface each. `FrameDecoder` gives the verdict on a
signed frame nondeterministically; `SignedLink` is what it depends on. The
connections take frames as whole; that they are found whatever the chunks are is
what `FrameDecoder` shows. One thing of the bytes between frames matters to a connection:
they may begin a candidate that is not complete (a marker in noise or in a frame the
filter passes over, a frame whose end is lost), and `next_frame` gives nothing behind it until
more was read (`frame_decoder.rs:194-196`). The connections have this as `AwaitRest`.
They also take a message as what it parses to; `DialectSession` is about that.

### FrameLayout, FrameScanner, FrameDecoder

`FrameLayout` has the offsets and sizes of `consts.rs` as parameters and the
decisions `next_frame` takes on a candidate as operators: which flags, how long a
header, where the checksum is, whether it matches. The checksum function and the
dialect's extra byte are constants, so the proofs hold for any.

`FrameDecoder` has the decoder's fields (`buffer`, `start`, `end`), the call in
progress (`filter`, `policy`, `pc`, `result`), and, for the properties, the stream,
the offset of the buffer in it and the frames taken. One action is one turn of the
loop in `next_frame`:

| Action | Code |
|---|---|
| `Call` | `read_message` and its variants |
| `NoMarker` | `seek_marker` finds none; the window is dropped; read |
| `AwaitBytes` | the candidate is cut short; `compact`; read |
| `RejectCandidate` | unsupported flags, unknown message or wrong checksum: one byte is skipped |
| `ReturnFrame` | a frame is consumed and returned, as a message or as a parse error |
| `RefuseFrame` | a frame is consumed, its signature refused, the loop goes on |
| `ReadChunk`, `ReadFails` | the source's `read` returns, fails or is dropped at its await |

The two readers run the same loop; the asynchronous one adds the cancellation in
`read_more`, which is why `ReadFails` has three outcomes. The read buffer keeps its
stale bytes behind `end`, as the code's does, so that an index error would show.

`FrameScanner` looks at the whole stream at once: a cursor passes over bytes that
begin no valid frame and takes the first that does. The refinement maps
`cursor = base + start` and `received = base + end`.

### OrderedDelivery, SignedLink

Each node has its clock's latest reading or the highest timestamp (`timestamp`)
and the timestamp recorded per stream (`stream_timestamps`), as `SigningState`
does. A node may send on several streams, which all count with its one timestamp.
`Sign` is `sign_message`, `Accept` and `Refuse` are `verify_signature`
giving true and false, each with any clock reading, forward or back; `sent` is the
network, from which any message may be taken any number of times in any order or
never. A signature is the key that made it. `SetupSigning` is `setup_signing`,
which forgets everything; only `SetupSpec` has it. The mutex around the state makes
each operation one step. Numbers are counted in 64 bits in the code and are
unbounded here; on the wire they are taken modulo `TimestampModulus` (2^48).

`OrderedDelivery` lets a receiver accept, per stream, increasing message numbers
of nodes that share its key.

### FrameQueue, BlockingConnection

Threads call `recv`, `recv_raw`, `try_recv`, `send` and `send_raw`. A thread's `pc`
is between any two steps another thread could see: taking a lock, switching the
mode, a read, a decoded frame, a drawn sequence number, a write.

| Action | Code |
|---|---|
| `LockReader`, `LockWriter`, `SkipSend`, `PoisonedPanic` | `reader()`, `lock_writer()` of each transport |
| `SetNonblocking`, `RestoreBlocking` and their failures | `set_nonblocking` in `try_recv`; the result is replaced by the second one's error |
| `DecodeFrame`, `AwaitRest` | `next_frame` gives a frame that was read already, or `None` because a candidate before it lacks bytes |
| `ReadChunk`, `RecordSender`, `ReadGivesUp`, `ReadFails` | `next_frame` gave `None`: one read; `UdpRead::read` records the sender after `recv_from`, for which it locks the destination |
| `ReadEmpty`, `RecordEmpty` | the same for an empty datagram, which ends the input for the reader and has a sender |
| `NextHeader` | `ConnectionState::next_header` |
| `Encode`, `EncodeFails`, `EncodePanics` | serialization, before anything is written |
| `LockDestination` | `UdpWrite::write` of a server holds the destination's mutex while it sends |
| `WritePart`, `WriteFails` | one write: a datagram, or a part of a frame on a stream |
| `SetProtocolVersion` | takes `&mut self`, so no call is in progress |

`buffered` has the frames read and not decoded, and `withheld` says that an incomplete
candidate is before them; it may be there before any frame, and a read may complete it or not.
`overtaken` has the frames of a UDP server that were withheld when another datagram
was read: its sender has become the destination before they are handed over.

Transports differ in data: whether the mode switches (TCP, UDP), whether errors are
retried (serial, file), whether there is a writer (not for files), whether the
destination is replaced by the reader (UDP servers).

`FrameQueue` is the promise: frames leave in the order of arrival; each is handed
over, dropped because it does not parse, or lost in a failure, one per failure.
The refinement counts what left as everything that arrived less what waits: the
frames in unread chunks, those buffered, and the one held by a `try_recv` that
still has to restore the mode. `WaitingFrames` names these sets.

### AsyncConnection, ConnectionConfig, AsyncSession

`AsyncConnection` differs from `BlockingConnection` where the code does. An operation
can be dropped at each await (`Cancel`), and its guard goes with it; there is no
nonblocking mode; a panic poisons nothing; UDP retries every error; a sender is
recorded in the poll that reads its datagram, and the `poll_read` and `poll_write` of UDP do not
wait for the destination. What happens between two awaits is one
action, since no other task of the connection sees its middle: taking the writer's
lock, drawing the number and encoding are `StartWrite`.

| Action | Code |
|---|---|
| `LockReader`, `DecodeFrame`, `AwaitRest`, `ReadChunk`, `ReadEmpty`, `ReadFails` | the loops of `recv`, `recv_raw`, `try_recv`; `recv_frame` puts the connection's version on what `recv` gives |
| `SkipSend`, `StartWrite`, `EncodeFails`, `EncodePanics`, `WritePart`, `WriteFails` | `send`, `send_raw` and one poll of `write_all` each |
| `Cancel` | the future is dropped while it waits for a lock, for data, or to write |
| `SetProtocolVersion`, `SetAllowRecvAnyVersion` | the setters, which take `&mut self` |

`ConnectionConfig` makes an open a path of steps, one for each system call or await,
as the `open` and `open_async` of each transport order them; `TakeSocket` is
`take_socket`, `take_stream` and `take_listener`. Any step but that one may fail, and
where an asynchronous open awaits it may be dropped. `AsyncSession` opens connections
from clones of one configuration and then uses the first that is asynchronous.

`FrameQueue` is implemented here with no failure at all: a dropped, failed or retried
receive loses nothing. Only frames that do not parse, or that the version filter
refuses, are not handed over.

### MavTypes, DefinitionCompiler, DynamicDialect, StaticDialect, RawMessage, DialectSession

`MavTypes` has the types of fields, their sizes, the integer conversions and the
cursors `Bytes` and `BytesMut`, in numbers of width `Radix ^ w`.

`DefinitionCompiler` reads the events of a file one per step, on a stack of calls of
`parse_profile` with the paths they share:

| Action | Code |
|---|---|
| `Enter` | the path is recorded and the file opened; a file that is missing fails every call |
| `RefuseFile` | the filter meets an element it does not know |
| `StartElement`, `TextOfElement`, `ReferenceInText`, `EndElement` | the arms of the event loop; a reference such as `&amp;` is text wherever it stands |
| `EndInclude` | an `<include>` of a path not yet read: a call of its own |
| `EndOfFile` | `update_enums`, and what was defined joins the calling file |

`DynamicDialect` is `from_profile`, messages from fields and from payloads, `decode`
and `encode` with the identity of the dialect a message was made by, and the names
serde writes. `StaticDialect` is what the generated code does with the same profile, and
which profiles the generator refuses (`Generates`).
`RawMessage` is the two raw message types byte for byte: accessors that compute their
offsets from the flags, and `serialize_message`, which only ever sets flags.

`DialectSession` lets two peers load files, build a message, write it with a dialect
into a buffer of their own or by a write function, read it on the other side and send
it back. It has one action per call (`StartLoading` to `FinishLoading`,
`BuildFromFields`, `BuildFromPayload`, `Serialize`, `Receive`). The properties compare
the outcome with references that say it in another way: `CompiledAsOne` with all
reached files read as one, `StaticMatchesDynamic` with the other kind of dialect,
`DeliveredFields` with the message as it was built. `ReadBack` reads the last frame
three times, from the buffer it was written into, from the receiver's copy of the
bytes on the wire, and as a `MavFrame`, and compares with what was to be written.

## 3. Runs

| Run | Question | States |
|---|---|---|
| `frame_decoder` | Do all chunkings of seven streams give the scanner's frames, with the smallest buffer and refused signatures? | 1.5 million |
| `frame_decoder_live` | Does every call settle, and is what was read ahead delivered? | 27 thousand |
| `signed_link` | Ordered, at-most-once delivery between the holders of a key, with a third node that has another; do timestamps of a node increase over all its streams, with clocks that jump and peers that are ahead? | 0.16 million |
| `signed_setup` | Is a message accepted twice when signing is set up again? | 0.35 million |
| `connection_sends` | Whole frames, in the order of their numbers, with a destination, though a message cannot be encoded or makes the encoder panic; do sends, and a `try_recv` that got the reader, end when nothing arrives any more? | 0.91 million |
| `connection_receives` | The queue, replies to the sender, no leak of the nonblocking mode, with withheld frames and empty datagrams | 2.4 million |
| `async_session` | With operations dropped at every await, failing reads and writes and withheld frames: is a shared socket used once, are frames neither lost nor torn, do replies reach the sender and frames keep their version, and do receivers, senders and opens go on? | 0.28 million |
| `dialect_session` | Do definition files compile as one, frames read back from buffers that are used again, fields arrive between peers with different files, and compiled and loaded dialects agree? | 23 thousand |

and four runs that end in a counterexample, each for a sentence of the
documentation the code does not keep (see *findings* in `PROJECT.json`):

* `signed_wrap`: the message after one with the greatest timestamp has timestamp 0,
  although timestamps "must be at least 1 more than the previous". In the trace a node
  accepts the greatest timestamp from a peer, signs its next message with it and the
  one after that with 0; no clock is near its end.
* `try_recv_blocked`: `try_recv` "returns immediately", but waits for the mutex a
  blocked `recv` holds.
* `send_would_block`: the mode is documented as being for the reads of `try_recv`, but a
  concurrent `send` on the same socket fails with `WouldBlock`.
* `send_panics`: a message with an id above 255 over MAVLink 1 is documented to give
  `MAVLink2Only`; through a connection it panics, and poisons the writer for good.

### Bounds

* *Layout* (`MCFrameDecoder`): bytes are 0..4, the headers have 2 and 3 bytes, the
  checksum and the signature one each. All the branches of `next_frame` remain:
  both versions, both flags, an unsupported flag, an unknown message, and lengths
  that exceed the stream. The inputs put every kind of candidate next to every
  other, nested ones included. The largest frame has 11 bytes, so that a buffer of
  that size (`RequestedCapacity = 1`) is compacted and refilled many times in one
  stream.
  The signing policy is "none" or "strict" for each call; a permissive one
  (`allow_unsigned`) accepts or refuses any frame, as one of these two would, so
  that it adds no step.
* *Signing*: one stream has two sends, the fewest that can repeat or swap; in `signed_link` it is
  the station's, while the vehicle has two streams of one send each, so that each of its
  messages follows one of its other stream; in the runs of a pair all streams have two. Clock
  readings 0..2 (0..3 in `signed_setup`, 0..1 in `signed_wrap`) with a `Minute` of 1 let a
  first message be too old or not; the modulus is just large enough not to wrap, except in
  `signed_wrap`, where two nodes and three sends pass a modulus of 3.
* *Connections*: two threads (the locks make a third wait like the second), two
  peers where replies are at stake, three calls so that a thread follows its own failed call
  while the other is in one, frames of two parts, chunks of none to two frames. A candidate may
  withhold frames before any read. `MaxCalls`, `MaxArrivals` and
  `MaxChunks` bound the counters; the specification has no other bound.

* *Asynchronous sessions*: two tasks, two calls and two arrivals, so that a task
  follows its own dropped or failed call and a frame read ahead by one is there for
  the other; frames of two writes, so that a drop tears one. The configurations are
  a UDP server, a UDP client made from a socket, a TCP listener, a serial port and a
  file; connections are used over `udpin` and `serial` (`UsedProtocols`), which differ
  in the destination, in what is retried and in the writes a frame takes. A frame
  is of one version from one peer, or of the other from the other, which does not parse.
  Tasks call `recv_frame`, and `send` with a message that fits one version only, so that it is sent,
  fails or panics; `try_recv`, which differs in returning the errors `recv_frame` retries,
  is left to the proofs.
* *Dialects*: a byte has four values (`Radix`), so that a value of w bytes overflows
  at 4^w and 64 bits fit TLC's integers; ids are bounded in the same way, a payload
  has at most 18 bytes, signatures two bytes of timestamp and of value. Floats count
  by the whole bytes of their mantissa. Checksums and signatures are a hash over all
  the bytes the code hashes, in its order; no property assumes it free of
  collisions. The eighteen pairs of files are: newer and older in both orders, a diamond and, in a
  build without extensions, a ring; other layouts under known ids; one where only the later
  of two files calls an enum a bitmask; and thirteen that one check each refuses. There is an array
  of length zero, and a field wider than the primitive of its enum. Elements are nested six deep at most (`MaxNesting`;
  `NestingAssumption` checks that no file goes deeper). `MaxFrames` is 2: one frame leaves its flags in the
  buffer, or its message at the other peer, for the second.

### Fairness

`FrameDecoder`: the decoder loop runs (`WF(Decode)`), and in the receive loop the
caller calls again (`WF(Caller)`). Nothing is assumed of the source.
`BlockingConnection`: threads run (`WF` of a thread's own steps). Neither the locks
nor the arrival of data are assumed fair, and no failure need happen. `SendSettles`
needs no fair lock because the calls are finite; `TryRecvSettles` assumes that
arrivals stop, because a stream of garbage keeps the decoder's loop busy.
`AsyncConnection`: tasks are polled (`WF` of a task's receive and of its send), and a
read that has data succeeds in the end; a drop, a failure or an arrival need not
happen. `SF(DecodeFrame)` says that candidates do not withhold a frame for ever while more is
read: each lacks less than a frame, every read brings at least a byte, and what the decoder
gives up it does not look at again. A receiver may wait for a frame that is withheld when
there is nothing to read, so that `ReceiverServed` makes an exception of that. `AsyncSession` adds that an open goes on (`WF` of `Advance`), but not that a
peer connects: `OpenSettles` makes an exception of `accept`. `DialectSession` has no
liveness; the compiler's termination is `ParsedOnce` on finite files.

A run without deadlock checking is one in which the system may stop: all calls
made, or everybody waiting for data.

## 4. Proofs

Every theorem is for all values of the constants that satisfy the named
assumptions of its module (`LayoutAssumption` and `DecoderAssumption`, `SigningAssumption`,
`ConnectionAssumption`, `AsyncAssumption` and the `SessionAssumption` of sessions; for the
dialects `RadixAssumption`, `PayloadAssumption`, `SignatureAssumption`, `NestingAssumption`,
`ContentAssumption`, `NameAssumption`, `CompositionAssumption` and their `SessionAssumption`),
or that the theorem states. What is assumed of definition files is what the XML reader and
Rust's types give: events and attributes are sequences, a name has bytes, the name of a type
has a base and a length, and a value of a field is one of the variants of `DynamicValue`.

* **FrameDecoderProofs.** `DecoderInv` is the conjunction of the type invariant and
  the four invariants checked; it is inductive as it stands, since
  `WindowMatchesInput` is what makes the others provable: a decision on the buffer
  is a decision on the stream. From it follow `TypeCorrect`, `WindowCorrect`,
  `ReadMoreCorrect` (the assertion in `read_more` never fails, whatever capacity was
  asked for), `WaitsCorrect`, `TakenCorrect`, and `ScannerImplemented`, the
  refinement, by one lemma per action.
* **SignedLinkProofs.** `TypeCorrect` and `AcceptedOnceCorrect` hold always, with
  `SetupSigning` and timestamps that wrap: what a receiver accepted of a stream since
  its own set-up is no newer than what it remembers, and a number stands for one message
  (`OnceInv`). The others are under `NoWrap`, that no timestamp has outgrown the wire's
  bits, and for a signing state that is not set up again: `SignedIncreasingCorrect`,
  `NextIsFreshCorrect`, `DeliveryImplemented`. Without `NoWrap` they are false
  (`signed_wrap`). `LinkInv` keeps what a node signed, on any of its streams, below its own
  timestamp, so that a new message is newer than all (`SignNewer`).
* **BlockingConnectionProofs.** The inductive invariant has a half for each side.
  Senders: who writes holds the lock, the frame being written carries the latest
  number and its parts end the wire, and there is a destination. Receivers: who
  reads holds the lock, and the socket is nonblocking only while a `try_recv` has
  the reader, or after it failed to switch back. `SendingQuiet` and
  `ReceivingQuiet` say what one side's steps leave alone of the other's half, so
  that each half is checked against its own steps only. `SenderInv` is added for
  replies: the frames of a chunk, those read ahead and the one a `try_recv` holds are
  from the peer that was read last, or overtaken; and once it is recorded that peer is the
  destination. Results: `TypeCorrect`, `SequenceCorrect`, `ContiguousCorrect`,
  `DestinationCorrect`, `RecvWaitsCorrect`, `RepliesReachSenderCorrect`.
* **AsyncConnectionProofs.** `IInv` has the types, who holds which lock, that the parts
  of the frame being written end the wire (`FrameBegun`, which is what a drop between
  two writes cannot spoil for the next sender: its frame begins anew), and for the
  frames what `SenderInv` has, without a step between reading and recording. The
  invariant is proved part by part, each from the parts it needs. Results: `TypeCorrect`,
  `SentWholeCorrect`, `RecvPersistsCorrect`, `RepliesReachSenderCorrect`,
  `FrameKeepsVersionCorrect`.
* **ConnectionConfigProofs**, for any number of openers, and any configurations with a
  known protocol, a socket only where there may be one. The steps of every
  open have nothing to look up and nothing to take once the socket is taken
  (`TakesLast`, by the cases of `Steps`); hence whoever has emptied the slot cannot be
  refused, and is there to justify each refusal. Result: `SocketCorrect`.
* **A session** (the last sections of `AsyncConnectionProofs`). A step of a session is a
  step of each part, or leaves it alone (`SessionStepsParts`), so that `SessionSpec`
  implies the specification of `AsyncConnection` (`SessionUsesConnection`), whose theorems
  then hold in it (`SessionKeepsConnection`), and the invariants of both parts hold
  together: `SessionTypesCorrect`, `SessionSocketCorrect`. That a
  configuration is of a known protocol is here `SessionAssumption`.
* **The queue of frames** (`WaitingFramesProofs`, and `QueueImplemented` in both
  connections' proofs). What left the queue is counted by the cardinality of the frames
  that wait. To count them the proofs need that every frame waits in one place only and
  that the places are in order: `WaitInOrder`, with which "the next frame decoded is
  the least that waits" and "what waits is exactly what comes after what left" are
  facts about sets of numbers (`CountWaiting`, `WaitingOfArrive`, `WaitingOfRead`,
  `WaitingOfDecode`). `QueueInv` adds to it what a `try_recv` holds back and that what was
  handed over ends before it. Then each action is a step of `FrameQueue` or a stutter;
  a blocking connection makes its `Fail` step only where switching back fails.
* **RawMessageProofs.** `DigestAll`, `FromBytes` and `Power` are recursive functions, and
  the library's induction theorem cannot be used here. `Induction` says it of a
  set of numbers instead (a set with 0 that is closed under successor has all; by the least
  number that is missing, `Least`), and `Recursion` says that a function of the form the
  three have satisfies its own equation. From them: checksums have 16 bits, and a number
  written little-endian reads back (`ToFromBytes`, whose step is one division). The rest
  follows a buffer through `serialize_message` part by part; what a part leaves in its
  place is an operator of its own (`HoldsHeader`, `HoldsPayload` and so on), and each
  later part is shown to write elsewhere. The results are `SerializeWrites` (any buffer,
  with any flags and bytes left in it), `SignWrites`, `ReceivedIs` (the receiver's copy)
  and `ShortReads` (the `MavFrame`).
* **DialectSessionProofs.** Everything a load and a session do, for any files, values and
  number of loads, in three invariants. None of them assumes anything of the others' data.
  * `LoadInv` says that the paths begun are the recorded ones, each begun once, and that
    they are forgotten only between two loads; a path already recorded is not entered again
    by the guard of `EndInclude`. It gives `ParsedOnceCorrect`.
  * `CompilerInv` has the types of all the compiler works on (`IsParse`, `IsProfile`, `IsMessage`,
    `IsField`, `IsEnum`, `IsEntry`): that the type of a field is one that has a size and a place
    in the wire order, that an id fits its integer, that values of entries fit theirs. There
    is a lemma for each element that starts, attribute, text and element that ends. Nothing
    else keeps a bad file out, so that the bounds on ids, sizes and values must come from
    what the parser refuses. From a profile of these types `from_profile` makes definitions
    within the bounds of a frame or fails (`LoadIs`), as it refuses a payload that is too long
    and an id that is too large; a value becomes the bytes of its type or an
    error (`ValueBytes`, by the arms of `write_value`), so that a message from fields
    has bytes of the declared length. That is `DialectsInv`, and from it `DialectsTyped`, the
    first conjunct of `TypeOK`.
  * `FramesInv` has the frame last written, as a statement about the buffer, the bytes under
    way, and that messages stay bytes wherever they are read, kept and written again. With
    `DialectsInv` it gives `TypeCorrect` and `ReadBackCorrect`.

  The loops of the code over fields, entries and files are folds here, and the library's
  theorems about folds take an operator. The proofs go another way: for each fold
  `Chain` names the sequence of its intermediate values, `ChainExists` has it
  end in the fold's result, and `Induction` on its length shows what each step keeps.
  `Selected` (filters), `Sum` and the bitwise operators, a recursion on pairs, have
  such facts of their own.

Model-checked only: everything under fairness, since the prover has no rules for it or for
ENABLED; and four invariants of `DialectSession` that compare an outcome with a reference.
They hold for the files of the run. The first says itself where it stops, and the others fail
with some other files (TLC finds `StaticMatchesDynamic` and `NamesReadBack` violated with such
files), so that a theorem would first have to say for which:

* `CompiledAsOne` says of the undersized mark what holds where all files that define an enum agree
  that it is a bitmask, or agree that it is not (`MarksAgree`). Where only the later of two
  files marks it, `try_combine` drops the mark (`parser.rs:638-652`), and no field of the
  enum is found too small for its entries; the run has such a pair of files.
* `StaticMatchesDynamic` fails for a field updated before a later one makes its enum a
  bitmask by `display="bitmask"` (`parser.rs:74-82`): it stays a plain enum for the generated
  code while `dynamic.rs` sees a bitmask. It speaks of profiles the generator takes, and says
  which bits the compiled dialect keeps (`KeptBytes`).
* `NamesReadBack` fails for an enum with two entries of one name but different values,
  which nothing in the compiler refuses.
* `DeliveredFields` fails when two definitions of one id have the same extra CRC, as
  they may for some names; the checksum is an arbitrary function here.

Under hypotheses that exclude these cases they are equalities of two folds over
fields, files and entries; those inductions are not done.

## 5. What the model also shows, and no run refutes

These follow from the definitions here as from the code. But for the first, no sentence of the
repository says otherwise; a reader of the code may want to know them.

* *Unknown bits.* "Keep unknown bits for forward compatibility" says `parser.rs:1392`, and the
  next line casts what was read to the primitive of the enum. That is the type of the last field
  `update_enums` looks at that every entry fits (`parser.rs:104`), so that a wider field loses its
  upper bytes: in the run a `uint16_t` of an enum with the primitive `uint8_t` arrives as 3, 3
  and is written back as 3, 0 by a compiled dialect, while a loaded one keeps both.
  `StaticMatchesDynamic` states this loss as what the code does.

* *Frames.* A buffer used again for MAVLink 2 keeps its SIGNED flag and old signature
  when an unsigned message is written, since serialization only sets flags (`lib.rs:1067-1093`),
  and a serialization that fails leaves the flags changed. The writers for dialects panic at a
  MAVLink 1 id above 255; those for compiled messages check it, but panic at a system id
  above 255 (`lib.rs:626`), for which the others have an error.
* *Receiving.* At the end of a stream a false marker hides complete frames behind it
  (`reader.rs:324`). While a connection waits it does the same: the frames behind an incomplete
  candidate are handed over when more has arrived, and a UDP server then sends its replies to
  whoever sent that (`frame_decoder.rs:194-196`, `udp/sync.rs:20-23`, `udp/async.rs:31-36`).
  `RepliesReachSender` and `ReceiverServed` make an exception of these frames. An empty
  datagram makes its sender the destination as well. A serial port that is gone keeps `recv` busy.
* *Signing.* A peer whose clock is ahead makes its receivers refuse others' new
  streams (`signing.rs:97`).
* *Compiler.* Entries that an including file adds may not fit the primitive an enum
  got from its own file (`parser.rs:104`); `display="bitmask"` on a field marks the
  enum only for the fields after it (`parser.rs:74-82`); a lifecycle element after the
  last entry of an enum falls to what is read next (`parser.rs:1920-1924`); when two
  files define one enum, the bitmask mark and the lifecycle of the second are dropped
  and equal entries panic (`parser.rs:638-652`); one file under two spellings of its
  path is two files.

## 6. Not modelled, and the plan

Not modelled, because it has no state and no decisions a property could be about:
tokens, names and documentation of the generated code and the writing of its files
(`lib.rs` and `binder.rs` of the compiler), XML tokenization, parsing and formatting of
addresses, digits and UTF-8, errors and their texts, build scripts, examples and tests.
`DerefMut` and the serde forms of `CharArray` are left out: no code of the
repository writes through them. The embedded readers and writers run the same loops
with other error values.

What is left: the four invariants of section 4 under the hypotheses named there, first
`StaticMatchesDynamic` field by field with the facts about offsets and sizes that
`DialectSessionProofs` has, and the part of `NamesReadBack` that speaks of one enum, from
facts about `BitAnd`.
