----------------------------- MODULE SignedLink -----------------------------
(***************************************************************************)
(* MAVLink 2 message signing (mavlink-core/src/signing.rs) between the     *)
(* connections of several nodes.  Each has one SigningData, whose state    *)
(* its sender and its receiver share under a mutex held for the whole of   *)
(* sign_message and of verify_signature: each is one step.                 *)
(*                                                                         *)
(* The network loses, repeats, delays and reorders.  A clock reading is    *)
(* any number: the code reads SystemTime, which is not monotonic.          *)
(***************************************************************************)
EXTENDS Naturals, Sequences

CONSTANTS
  Nodes,
  Streams,            \* A stream key: one (link id, system id, component id).
  Owner,              \* The node that sends with this key: no two share one.
  Secret,             \* The secret key of each node.
  TimestampModulus,   \* 2^48: a signature carries 48 bits of the timestamp.
  Minute,             \* How old the first message of a stream may be.
  MaxTime,            \* Bound on clock readings.
  MaxSends            \* Bound on the messages sent on each stream.

VARIABLES
  timestamp,          \* SigningState::timestamp of each node.
  stream_timestamps,  \* SigningState::stream_timestamps of each node.
  sent,               \* The signed messages put on the network so far.
  sends,              \* How many were sent on each stream.
  accepted            \* accepted[r][s]: the numbers of those that r accepted
                      \* of s since r's signing was set up, in order.

vars == <<timestamp, stream_timestamps, sent, sends, accepted>>

ASSUME SigningAssumption ==
  /\ Owner \in [Streams -> Nodes]
  /\ TimestampModulus \in Nat \ {0} /\ Minute \in Nat
  /\ MaxTime \in Nat /\ MaxSends \in [Streams -> Nat]

Times == 0 .. MaxTime

\* Mutant of Latest: the clock replaces the timestamp, as if it never went back.
LatestIsClock(s, t) == t

Latest(s, t) == IF s < t THEN t ELSE s

\* A signed message: the nr-th sent on its stream.  The sender's secret
\* stands for the signature, which no other secret reproduces.
Messages ==
  [stream : Streams, nr : Nat, timestamp : 0 .. TimestampModulus - 1,
   secret : {Secret[n] : n \in Nodes}]

NoStreams == [s \in {} |-> 0]

Init ==
  /\ timestamp = [n \in Nodes |-> 0]
  /\ stream_timestamps = [n \in Nodes |-> NoStreams]
  /\ sent = {}
  /\ sends = [s \in Streams |-> 0]
  /\ accepted = [r \in Nodes |-> [s \in Streams |-> <<>>]]

\* to_le_bytes()[0..6]
Truncated(t) == t % TimestampModulus

\* Mutant of Ticked: the timestamp used is not used up.
NotTicked(t) == t

Ticked(t) == t + 1

\* sign_message, on the way to the network.  A message whose write fails is
\* one that is never received.
Sign(s, now) ==
  LET n == Owner[s]
      t == Latest(timestamp[n], now)
  IN  /\ sends[s] < MaxSends[s]
      /\ timestamp' = [timestamp EXCEPT ![n] = Ticked(t)]
      /\ sends' = [sends EXCEPT ![s] = @ + 1]
      /\ sent' = sent \union
           {[stream |-> s, nr |-> sends[s] + 1, timestamp |-> Truncated(t),
             secret |-> Secret[n]]}
      /\ UNCHANGED <<stream_timestamps, accepted>>

Known(r, m) == m.stream \in DOMAIN stream_timestamps[r]

\* Not newer than the last accepted of its stream.
Stale(r, m) == Known(r, m) /\ m.timestamp <= stream_timestamps[r][m.stream]

\* The first of its stream, and more than a minute behind.
TooOld(r, m, now) ==
  ~ Known(r, m) /\ m.timestamp + Minute < Latest(timestamp[r], now)

\* Mutant of Genuine: the signature is not compared.
GenuineAnyKey(r, m) == TRUE

Genuine(r, m) == m.secret = Secret[r]

Verified(r, m, now) == ~ Stale(r, m) /\ ~ TooOld(r, m, now) /\ Genuine(r, m)

\* Mutants of Recorded: the next timestamp is recorded; nothing is.
RecordedNext(streams, m) ==
  [s \in DOMAIN streams \union {m.stream} |->
     IF s = m.stream THEN m.timestamp + 1 ELSE streams[s]]
RecordedNothing(streams, m) == streams

\* stream_timestamps.insert
Recorded(streams, m) ==
  [s \in DOMAIN streams \union {m.stream} |->
     IF s = m.stream THEN m.timestamp ELSE streams[s]]

\* verify_signature gives true.
Accept(r, m, now) ==
  /\ Verified(r, m, now)
  /\ stream_timestamps' = [stream_timestamps EXCEPT ![r] = Recorded(@, m)]
  /\ timestamp' = [timestamp EXCEPT ![r] = Latest(Latest(@, now), m.timestamp)]
  /\ accepted' = [accepted EXCEPT ![r][m.stream] = Append(@, m.nr)]
  /\ UNCHANGED <<sent, sends>>

\* verify_signature gives false; the clock reading was taken over already.
Refuse(r, m, now) ==
  /\ ~ Verified(r, m, now)
  /\ timestamp' = [timestamp EXCEPT ![r] = Latest(@, now)]
  /\ UNCHANGED <<stream_timestamps, sent, sends, accepted>>

\* setup_signing: a new SigningData, with nothing remembered.
SetupSigning(n) ==
  /\ timestamp' = [timestamp EXCEPT ![n] = 0]
  /\ stream_timestamps' = [stream_timestamps EXCEPT ![n] = NoStreams]
  /\ accepted' = [accepted EXCEPT ![n] = [s \in Streams |-> <<>>]]
  /\ UNCHANGED <<sent, sends>>

Next ==
  \/ \E s \in Streams, now \in Times : Sign(s, now)
  \/ \E r \in Nodes, m \in sent, now \in Times : Accept(r, m, now)
  \/ \E r \in Nodes, m \in sent, now \in Times : Refuse(r, m, now)

Spec == Init /\ [][Next]_vars

\* The same with signing set up again, at either end and at any time.
SetupNext == Next \/ \E n \in Nodes : SetupSigning(n)

SetupSpec == Init /\ [][SetupNext]_vars

-----------------------------------------------------------------------------
TypeOK ==
  /\ timestamp \in [Nodes -> Nat]
  /\ DOMAIN stream_timestamps = Nodes
  /\ \A n \in Nodes :
       /\ DOMAIN stream_timestamps[n] \subseteq Streams
       /\ \A s \in DOMAIN stream_timestamps[n] :
            stream_timestamps[n][s] \in 0 .. TimestampModulus - 1
  /\ sent \subseteq Messages
  /\ sends \in [Streams -> Nat]
  /\ accepted \in [Nodes -> [Streams -> Seq(Nat)]]

(***************************************************************************)
(* The 48 bits of no timestamp have run out.                               *)
(***************************************************************************)
NoWrap == \A n \in Nodes : timestamp[n] <= TimestampModulus

(***************************************************************************)
(* "all timestamps generated must be at least 1 more than the previous     *)
(* timestamp": on the wire, a message has a larger timestamp than every    *)
(* message its node signed before, on this or another of its streams,      *)
(* whatever the clock does and whatever is received in between.            *)
(***************************************************************************)
NewerThanBefore ==
  \A m \in sent' \ sent, before \in sent :
    Owner[m.stream] = Owner[before.stream] => before.timestamp < m.timestamp

SignedIncreasing == [][NewerThanBefore]_vars

(***************************************************************************)
(* A stream a receiver knows is never stuck: whatever its sender signs     *)
(* next is newer than all the receiver has recorded of it.                 *)
(***************************************************************************)
NextIsFresh ==
  \A r \in Nodes : \A s \in DOMAIN stream_timestamps[r] :
    stream_timestamps[r][s] < timestamp[Owner[s]]

(***************************************************************************)
(* Signing gives each receiver ordered delivery, at most once, over a      *)
(* network that gives neither.                                             *)
(***************************************************************************)
Delivery == INSTANCE OrderedDelivery

ImplementsDelivery == Delivery!Spec

(***************************************************************************)
(* Between two set-ups of its own signing a receiver accepts no message    *)
(* twice, even if its sender was set up again and its clock went back.     *)
(***************************************************************************)
AcceptedOnce ==
  \A r \in Nodes, s \in Streams : \A i, j \in DOMAIN accepted[r][s] :
    i # j => accepted[r][s][i] # accepted[r][s][j]
=============================================================================
