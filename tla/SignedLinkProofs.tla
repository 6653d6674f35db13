-------------------------- MODULE SignedLinkProofs --------------------------
(***************************************************************************)
(* Proofs about SignedLink, for any nodes, streams, keys, clocks and       *)
(* interleavings.  Types, and that a message is accepted once, hold        *)
(* always; the rest as long as no timestamp has outgrown its 48 bits and   *)
(* signing is not set up again.                                            *)
(***************************************************************************)
EXTENDS SignedLink, SequenceTheorems, TLAPS

-----------------------------------------------------------------------------
(* Type correctness, whether or not timestamps wrap.                       *)

LEMMA LatestType ==
  ASSUME NEW s \in Nat, NEW t \in Nat
  PROVE  /\ Latest(s, t) \in Nat /\ s <= Latest(s, t) /\ t <= Latest(s, t)
         /\ Latest(s, t) = s \/ Latest(s, t) = t
BY DEF Latest

LEMMA TypeInit == Init => TypeOK
BY DEF Init, TypeOK, NoStreams

LEMMA SignType ==
  ASSUME TypeOK, NEW s \in Streams, NEW now \in Times, Sign(s, now)
  PROVE  TypeOK'
<1> DEFINE n == Owner[s]
           t == Latest(timestamp[n], now)
           m == [stream |-> s, nr |-> sends[s] + 1, timestamp |-> Truncated(t),
                 secret |-> Secret[n]]
<1>1. n \in Nodes /\ timestamp[n] \in Nat /\ now \in Nat /\ sends[s] \in Nat
  BY SigningAssumption DEF TypeOK, Times
<1>2. t \in Nat
  BY <1>1, LatestType
<1>3. Truncated(t) \in 0 .. TimestampModulus - 1
  BY <1>2, SigningAssumption DEF Truncated
<1>4. m \in Messages
  BY <1>1, <1>3 DEF Messages
<1>5. /\ timestamp' = [timestamp EXCEPT ![n] = t + 1]
      /\ sends' = [sends EXCEPT ![s] = sends[s] + 1]
      /\ sent' = sent \union {m}
      /\ UNCHANGED <<stream_timestamps, accepted>>
  BY DEF Sign, Ticked
<1>6. timestamp' \in [Nodes -> Nat] /\ sends' \in [Streams -> Nat]
  BY <1>1, <1>2, <1>5 DEF TypeOK
<1>7. sent' \subseteq Messages
  BY <1>4, <1>5 DEF TypeOK
<1>8. QED
  BY <1>5, <1>6, <1>7 DEF TypeOK

LEMMA AcceptType ==
  ASSUME TypeOK, NEW r \in Nodes, NEW m \in sent, NEW now \in Times, Accept(r, m, now)
  PROVE  TypeOK'
<1>1. /\ m.stream \in Streams /\ m.nr \in Nat
      /\ m.timestamp \in 0 .. TimestampModulus - 1 /\ m.timestamp \in Nat
  BY SigningAssumption DEF TypeOK, Messages
<1>2. timestamp' \in [Nodes -> Nat]
  <2>1. Latest(Latest(timestamp[r], now), m.timestamp) \in Nat
    <3>1. timestamp[r] \in Nat /\ now \in Nat
      BY DEF TypeOK, Times
    <3>2. Latest(timestamp[r], now) \in Nat
      BY <3>1, LatestType
    <3>3. QED
      BY <1>1, <3>2, LatestType
  <2>2. QED
    BY <2>1 DEF Accept, TypeOK
<1>3. accepted' \in [Nodes -> [Streams -> Seq(Nat)]]
  <2>1. Append(accepted[r][m.stream], m.nr) \in Seq(Nat)
    BY <1>1 DEF TypeOK
  <2>2. QED
    BY <1>1, <2>1 DEF Accept, TypeOK
<1>4. /\ DOMAIN stream_timestamps' = Nodes
      /\ \A n \in Nodes : n # r => stream_timestamps'[n] = stream_timestamps[n]
      /\ stream_timestamps'[r] = Recorded(stream_timestamps[r], m)
  BY DEF Accept, TypeOK
<1>5. /\ DOMAIN stream_timestamps'[r] \subseteq Streams
      /\ \A s \in DOMAIN stream_timestamps'[r] :
           stream_timestamps'[r][s] \in 0 .. TimestampModulus - 1
  BY <1>1, <1>4 DEF Recorded, TypeOK
<1>6. QED
  BY <1>2, <1>3, <1>4, <1>5 DEF Accept, TypeOK

LEMMA RefuseType ==
  ASSUME TypeOK, NEW r \in Nodes, NEW m \in sent, NEW now \in Times, Refuse(r, m, now)
  PROVE  TypeOK'
<1>1. Latest(timestamp[r], now) \in Nat
  BY LatestType DEF TypeOK, Times
<1>2. QED
  BY <1>1 DEF Refuse, TypeOK

LEMMA TypeStep == TypeOK /\ [Next]_vars => TypeOK'
<1>1. TypeOK /\ UNCHANGED vars => TypeOK'
  BY DEF vars, TypeOK
<1>2. QED
  BY <1>1, SignType, AcceptType, RefuseType DEF Next

LEMMA SetupType ==
  ASSUME TypeOK, NEW n \in Nodes, SetupSigning(n)
  PROVE  TypeOK'
<1>1. timestamp' \in [Nodes -> Nat]
  BY DEF SetupSigning, TypeOK
<1>2. accepted' \in [Nodes -> [Streams -> Seq(Nat)]]
  BY DEF SetupSigning, TypeOK
<1>3. QED
  BY <1>1, <1>2 DEF SetupSigning, TypeOK, NoStreams

\* Every reachable state has the types TypeOK gives, with set-ups or without.
THEOREM TypeCorrect == SetupSpec => []TypeOK
<1>1. TypeOK /\ [SetupNext]_vars => TypeOK'
  BY TypeStep, SetupType DEF SetupNext
<1>2. QED
  BY <1>1, TypeInit, PTL DEF SetupSpec

-----------------------------------------------------------------------------
(* The inductive invariant.                                                *)

\* A node's timestamp is beyond all it has signed, and a message's number
\* gives its timestamp.
SentBehind ==
  /\ \A m \in sent :
       /\ m.secret = Secret[Owner[m.stream]]
       /\ m.nr \in 1 .. sends[m.stream]
       /\ m.timestamp < timestamp[Owner[m.stream]]
  /\ \A m1, m2 \in sent :
       m1.stream = m2.stream /\ m1.nr = m2.nr => m1.timestamp = m2.timestamp

\* The messages of one stream carry their order.
StreamIncreasing ==
  \A m1, m2 \in sent :
    m1.stream = m2.stream /\ m1.nr < m2.nr => m1.timestamp < m2.timestamp

\* What a receiver has recorded of a stream is the timestamp of a message
\* that was sent on it, and it has accepted none with a higher number.
RecordedWasSent ==
  \A r \in Nodes, s \in Streams :
    /\ s \notin DOMAIN stream_timestamps[r] => accepted[r][s] = <<>>
    /\ s \in DOMAIN stream_timestamps[r] =>
         \E m \in sent :
           /\ m.stream = s /\ m.timestamp = stream_timestamps[r][s]
           /\ \A i \in 1 .. Len(accepted[r][s]) : accepted[r][s][i] <= m.nr

LinkInv == TypeOK /\ SentBehind /\ StreamIncreasing /\ RecordedWasSent

LEMMA InvInit == Init => LinkInv
<1> SUFFICES ASSUME Init PROVE LinkInv
  OBVIOUS
<1>1. TypeOK
  BY TypeInit
<1>2. SentBehind /\ StreamIncreasing
  BY DEF Init, SentBehind, StreamIncreasing
<1>3. RecordedWasSent
  BY DEF Init, RecordedWasSent, NoStreams
<1>4. QED
  BY <1>1, <1>2, <1>3 DEF LinkInv

\* The fields of a sent message.
LEMMA MessageType ==
  ASSUME TypeOK, NEW m \in sent
  PROVE  /\ m.stream \in Streams /\ m.nr \in Nat /\ m.timestamp \in Nat
         /\ Owner[m.stream] \in Nodes /\ timestamp[Owner[m.stream]] \in Nat
<1>1. m \in Messages
  BY DEF TypeOK
<1>2. m.stream \in Streams /\ m.nr \in Nat /\ m.timestamp \in Nat
  BY <1>1, SigningAssumption DEF Messages
<1>3. QED
  BY <1>2, SigningAssumption DEF TypeOK

\* No step of a receiver turns a node's timestamp back.
LEMMA ReceiverTimestamp ==
  ASSUME TypeOK, NEW r \in Nodes, NEW m \in sent, NEW now \in Times,
         Accept(r, m, now) \/ Refuse(r, m, now), NEW n \in Nodes
  PROVE  timestamp[n] <= timestamp'[n]
<1>1. timestamp[r] \in Nat /\ timestamp[n] \in Nat /\ now \in Nat /\ m.timestamp \in Nat
  BY MessageType DEF TypeOK, Times
<1>2. /\ Latest(timestamp[r], now) \in Nat
      /\ timestamp[r] <= Latest(timestamp[r], now)
  BY <1>1, LatestType
<1>3. /\ Latest(Latest(timestamp[r], now), m.timestamp) \in Nat
      /\ Latest(timestamp[r], now) <= Latest(Latest(timestamp[r], now), m.timestamp)
  BY <1>1, <1>2, LatestType
<1>4. timestamp[r] <= Latest(Latest(timestamp[r], now), m.timestamp)
  BY <1>1, <1>2, <1>3
<1>5. CASE Accept(r, m, now)
  BY <1>1, <1>4, <1>5 DEF Accept, TypeOK
<1>6. CASE Refuse(r, m, now)
  BY <1>1, <1>2, <1>6 DEF Refuse, TypeOK
<1>7. QED
  BY <1>5, <1>6

LEMMA SignInv ==
  ASSUME LinkInv, TypeOK', NoWrap', NEW s \in Streams, NEW now \in Times, Sign(s, now)
  PROVE  SentBehind' /\ StreamIncreasing' /\ RecordedWasSent'
<1> DEFINE n == Owner[s]
           t == Latest(timestamp[n], now)
           new == [stream |-> s, nr |-> sends[s] + 1, timestamp |-> Truncated(t),
                   secret |-> Secret[n]]
<1>1. /\ n \in Nodes /\ timestamp[n] \in Nat /\ now \in Nat /\ sends[s] \in Nat
      /\ TypeOK /\ SentBehind /\ StreamIncreasing /\ RecordedWasSent
  BY SigningAssumption DEF LinkInv, TypeOK, Times
<1>2. t \in Nat /\ timestamp[n] <= t
  BY <1>1, LatestType
<1>3. /\ timestamp' = [timestamp EXCEPT ![n] = t + 1]
      /\ sends' = [sends EXCEPT ![s] = sends[s] + 1]
      /\ sent' = sent \union {new}
      /\ UNCHANGED <<stream_timestamps, accepted>>
  BY DEF Sign, Ticked
<1>4. /\ timestamp'[n] = t + 1
      /\ \A k \in Nodes : timestamp'[k] \in Nat /\ timestamp[k] <= timestamp'[k]
      /\ sends'[s] = sends[s] + 1
      /\ \A k \in Streams : sends'[k] \in Nat /\ sends[k] \in Nat /\ sends[k] <= sends'[k]
  BY <1>1, <1>2, <1>3 DEF TypeOK
<1>5. new.timestamp = t
  <2>1. t + 1 <= TimestampModulus
    BY <1>1, <1>4 DEF NoWrap
  <2>2. QED
    BY <1>2, <2>1, SigningAssumption DEF Truncated
<1>6. ASSUME NEW m \in sent
      PROVE  /\ m.stream \in Streams /\ Owner[m.stream] \in Nodes
             /\ m.nr \in Nat /\ m.timestamp \in Nat
             /\ m.secret = Secret[Owner[m.stream]]
             /\ m.nr \in 1 .. sends[m.stream]
             /\ m.timestamp < timestamp[Owner[m.stream]]
             /\ timestamp[Owner[m.stream]] \in Nat
  BY <1>1, MessageType DEF SentBehind
<1>7. ASSUME NEW m \in sent, m.stream = s
      PROVE  m.nr < new.nr /\ m.timestamp < new.timestamp
  BY <1>1, <1>2, <1>5, <1>6, <1>7
<1>8. SentBehind'
  <2>1. ASSUME NEW m \in sent'
        PROVE  /\ m.secret = Secret[Owner[m.stream]]
               /\ m.nr \in 1 .. sends'[m.stream]
               /\ m.timestamp < timestamp'[Owner[m.stream]]
    <3>1. CASE m \in sent
      BY <1>4, <1>6, <3>1
    <3>2. CASE m = new
      BY <1>1, <1>2, <1>4, <1>5, <3>2
    <3>3. QED
      BY <1>3, <3>1, <3>2
  <2>2. ASSUME NEW m1 \in sent', NEW m2 \in sent', m1.stream = m2.stream, m1.nr = m2.nr
        PROVE  m1.timestamp = m2.timestamp
    <3>1. CASE m1 \in sent /\ m2 \in sent
      BY <1>1, <2>2, <3>1 DEF SentBehind
    <3>2. CASE m1 = new /\ m2 = new
      BY <3>2
    <3>3. CASE (m1 = new /\ m2 \in sent) \/ (m1 \in sent /\ m2 = new)
      BY <1>1, <1>6, <1>7, <2>2, <3>3
    <3>4. QED
      BY <1>3, <3>1, <3>2, <3>3
  <2>3. QED
    BY <2>1, <2>2 DEF SentBehind
<1>9. StreamIncreasing'
  <2>1. ASSUME NEW m1 \in sent', NEW m2 \in sent', m1.stream = m2.stream, m1.nr < m2.nr
        PROVE  m1.timestamp < m2.timestamp
    <3>1. CASE m1 \in sent /\ m2 \in sent
      BY <1>1, <2>1, <3>1 DEF StreamIncreasing
    <3>2. CASE m1 \in sent /\ m2 = new
      BY <1>7, <2>1, <3>2
    <3>3. CASE m1 = new
      BY <1>1, <1>3, <1>6, <1>7, <2>1, <3>3
    <3>4. QED
      BY <1>3, <3>1, <3>2, <3>3
  <2>2. QED
    BY <2>1 DEF StreamIncreasing
<1>10. RecordedWasSent'
  BY <1>1, <1>3 DEF RecordedWasSent
<1>11. QED
  BY <1>8, <1>9, <1>10

\* A message that is not stale was sent after all that were accepted.
LEMMA AcceptedIsNewer ==
  ASSUME LinkInv, NEW r \in Nodes, NEW m \in sent, ~ Stale(r, m)
  PROVE  \A i \in 1 .. Len(accepted[r][m.stream]) : accepted[r][m.stream][i] < m.nr
<1>1. /\ TypeOK /\ SentBehind /\ StreamIncreasing /\ RecordedWasSent
      /\ m.stream \in Streams /\ m.nr \in Nat /\ m.timestamp \in Nat
  BY MessageType DEF LinkInv
<1>2. accepted[r][m.stream] \in Seq(Nat)
  BY <1>1 DEF TypeOK
<1>3. CASE m.stream \notin DOMAIN stream_timestamps[r]
  BY <1>1, <1>3 DEF RecordedWasSent
<1>4. CASE m.stream \in DOMAIN stream_timestamps[r]
  <2>1. PICK old \in sent :
          /\ old.stream = m.stream /\ old.timestamp = stream_timestamps[r][m.stream]
          /\ \A i \in 1 .. Len(accepted[r][m.stream]) : accepted[r][m.stream][i] <= old.nr
    BY <1>1, <1>4 DEF RecordedWasSent
  <2>2. old.timestamp < m.timestamp /\ old.nr \in Nat /\ old.timestamp \in Nat
    BY <1>1, <1>4, <2>1, MessageType DEF Stale, Known
  <2>3. ~ (m.nr = old.nr) /\ ~ (m.nr < old.nr)
    BY <1>1, <2>1, <2>2 DEF SentBehind, StreamIncreasing
  <2>4. \A i \in 1 .. Len(accepted[r][m.stream]) : accepted[r][m.stream][i] \in Nat
    BY <1>2, ElementOfSeq
  <2>5. QED
    BY <1>1, <2>1, <2>2, <2>3, <2>4
<1>5. QED
  BY <1>3, <1>4

\* What the senders' part of the invariant says survives a receiver's step.
LEMMA ReceiverSentInv ==
  ASSUME LinkInv, NEW r \in Nodes, NEW m \in sent, NEW now \in Times,
         Accept(r, m, now) \/ Refuse(r, m, now)
  PROVE  SentBehind' /\ StreamIncreasing'
<1>1. TypeOK /\ SentBehind /\ StreamIncreasing
  BY DEF LinkInv
<1>2. UNCHANGED <<sent, sends>>
  BY DEF Accept, Refuse
<1>3. ASSUME NEW k \in sent PROVE k.timestamp < timestamp'[Owner[k.stream]]
  <2>1. Owner[k.stream] \in Nodes /\ k.timestamp \in Nat /\ timestamp[Owner[k.stream]] \in Nat
    BY <1>1, MessageType
  <2>2. timestamp[Owner[k.stream]] <= timestamp'[Owner[k.stream]]
    BY <1>1, <2>1, ReceiverTimestamp
  <2>3. k.timestamp < timestamp[Owner[k.stream]]
    BY <1>1 DEF SentBehind
  <2>4. timestamp' \in [Nodes -> Nat]
    BY <1>1, AcceptType, RefuseType DEF TypeOK
  <2>5. QED
    BY <2>1, <2>2, <2>3, <2>4
<1>4. QED
  BY <1>1, <1>2, <1>3 DEF SentBehind, StreamIncreasing

LEMMA AcceptInv ==
  ASSUME LinkInv, NEW r \in Nodes, NEW m \in sent, NEW now \in Times, Accept(r, m, now)
  PROVE  RecordedWasSent'
<1>1. /\ TypeOK /\ RecordedWasSent /\ m.stream \in Streams /\ m.nr \in Nat
      /\ ~ Stale(r, m) /\ sent' = sent
      /\ stream_timestamps' = [stream_timestamps EXCEPT ![r] = Recorded(stream_timestamps[r], m)]
      /\ accepted' = [accepted EXCEPT ![r][m.stream] = Append(accepted[r][m.stream], m.nr)]
  BY MessageType DEF LinkInv, Accept, Verified
<1>2. ASSUME NEW k \in Nodes, NEW s \in Streams, k # r \/ s # m.stream
      PROVE  /\ accepted'[k][s] = accepted[k][s]
             /\ s \in DOMAIN stream_timestamps'[k] <=> s \in DOMAIN stream_timestamps[k]
             /\ s \in DOMAIN stream_timestamps[k] =>
                  stream_timestamps'[k][s] = stream_timestamps[k][s]
  <2>1. CASE k # r
    BY <1>1, <2>1 DEF TypeOK
  <2>2. CASE k = r
    BY <1>1, <1>2, <2>2 DEF TypeOK, Recorded
  <2>3. QED
    BY <2>1, <2>2
<1>3. /\ accepted'[r][m.stream] = Append(accepted[r][m.stream], m.nr)
      /\ m.stream \in DOMAIN stream_timestamps'[r]
      /\ stream_timestamps'[r][m.stream] = m.timestamp
  BY <1>1 DEF TypeOK, Recorded
<1>4. ASSUME NEW i \in 1 .. Len(accepted'[r][m.stream])
      PROVE  accepted'[r][m.stream][i] <= m.nr
  <2>1. accepted[r][m.stream] \in Seq(Nat)
    BY <1>1 DEF TypeOK
  <2>2. \A j \in 1 .. Len(accepted[r][m.stream]) :
          accepted[r][m.stream][j] \in Nat /\ accepted[r][m.stream][j] < m.nr
    BY <1>1, <2>1, AcceptedIsNewer, ElementOfSeq
  <2>3. i \in 1 .. Len(accepted[r][m.stream]) \/ i = Len(accepted[r][m.stream]) + 1
    BY <1>3, <2>1
  <2>4. CASE i \in 1 .. Len(accepted[r][m.stream])
    BY <1>1, <1>3, <2>1, <2>2, <2>4
  <2>5. CASE i = Len(accepted[r][m.stream]) + 1
    BY <1>1, <1>3, <2>1, <2>5
  <2>6. QED
    BY <2>3, <2>4, <2>5
<1>5. ASSUME NEW k \in Nodes, NEW s \in Streams
      PROVE  /\ s \notin DOMAIN stream_timestamps'[k] => accepted'[k][s] = <<>>
             /\ s \in DOMAIN stream_timestamps'[k] =>
                  \E old \in sent' :
                    /\ old.stream = s /\ old.timestamp = stream_timestamps'[k][s]
                    /\ \A i \in 1 .. Len(accepted'[k][s]) : accepted'[k][s][i] <= old.nr
  <2>1. CASE k = r /\ s = m.stream
    BY <1>1, <1>3, <1>4, <2>1
  <2>2. CASE k # r \/ s # m.stream
    BY <1>1, <1>2, <2>2 DEF RecordedWasSent
  <2>3. QED
    BY <2>1, <2>2
<1>6. QED
  BY <1>5 DEF RecordedWasSent

LEMMA LinkStep == LinkInv /\ NoWrap' /\ [Next]_vars => LinkInv'
<1> SUFFICES ASSUME LinkInv, NoWrap', [Next]_vars PROVE LinkInv'
  OBVIOUS
<1>1. TypeOK'
  BY TypeStep DEF LinkInv
<1>2. ASSUME NEW s \in Streams, NEW now \in Times, Sign(s, now) PROVE LinkInv'
  BY <1>1, <1>2, SignInv DEF LinkInv
<1>3. ASSUME NEW r \in Nodes, NEW m \in sent, NEW now \in Times, Accept(r, m, now)
      PROVE  LinkInv'
  BY <1>1, <1>3, AcceptInv, ReceiverSentInv DEF LinkInv
<1>4. ASSUME NEW r \in Nodes, NEW m \in sent, NEW now \in Times, Refuse(r, m, now)
      PROVE  LinkInv'
  <2>1. RecordedWasSent'
    BY <1>4 DEF LinkInv, RecordedWasSent, Refuse
  <2>2. QED
    BY <1>1, <1>4, <2>1, ReceiverSentInv DEF LinkInv
<1>5. CASE UNCHANGED vars
  BY <1>1, <1>5
  DEF LinkInv, SentBehind, StreamIncreasing, RecordedWasSent, vars
<1>6. QED
  BY <1>2, <1>3, <1>4, <1>5 DEF Next

THEOREM LinkInvariant == Spec /\ []NoWrap => []LinkInv
  BY InvInit, LinkStep, PTL DEF Spec

-----------------------------------------------------------------------------
(* What it gives.                                                          *)

LEMMA SignNewer ==
  ASSUME LinkInv, NoWrap', NEW s \in Streams, NEW now \in Times, Sign(s, now)
  PROVE  NewerThanBefore
<1> DEFINE n == Owner[s]
           t == Latest(timestamp[n], now)
<1>1. n \in Nodes /\ timestamp[n] \in Nat /\ now \in Nat /\ TypeOK /\ SentBehind
  BY SigningAssumption DEF LinkInv, TypeOK, Times
<1>2. t \in Nat /\ timestamp[n] <= t
  BY <1>1, LatestType
<1>3. timestamp'[n] = t + 1
  BY <1>1 DEF Sign, Ticked, TypeOK
<1>4. Truncated(t) = t
  BY <1>1, <1>2, <1>3, SigningAssumption DEF NoWrap, Truncated
<1>5. \A m \in sent' \ sent : m.stream = s /\ m.timestamp = t
  BY <1>4 DEF Sign
<1>6. \A before \in sent :
        /\ before.timestamp \in Nat
        /\ Owner[before.stream] = n => before.timestamp < timestamp[n]
  BY <1>1, MessageType DEF SentBehind
<1>7. QED
  BY <1>1, <1>2, <1>5, <1>6 DEF NewerThanBefore

\* As long as 48 bits suffice, each message a node signs has a larger timestamp
\* than all it signed before, on any of its streams.
THEOREM SignedIncreasingCorrect == Spec /\ []NoWrap => SignedIncreasing
<1>1. LinkInv /\ NoWrap' /\ [Next]_vars => [NewerThanBefore]_vars
  <2>1. ASSUME UNCHANGED sent PROVE NewerThanBefore
    BY <2>1 DEF NewerThanBefore
  <2>2. QED
    BY <2>1, SignNewer DEF Next, Accept, Refuse
<1>2. QED
  BY <1>1, LinkInvariant, PTL DEF Spec, SignedIncreasing

LEMMA InvFresh == LinkInv => NextIsFresh
<1> SUFFICES ASSUME LinkInv, NEW r \in Nodes, NEW s \in DOMAIN stream_timestamps[r]
             PROVE  stream_timestamps[r][s] < timestamp[Owner[s]]
  BY DEF NextIsFresh
<1>1. s \in Streams
  BY DEF LinkInv, TypeOK
<1>2. PICK m \in sent : m.stream = s /\ m.timestamp = stream_timestamps[r][s]
  BY <1>1 DEF LinkInv, RecordedWasSent
<1>3. QED
  BY <1>2 DEF LinkInv, SentBehind

\* As long as 48 bits suffice, no sender of a known stream is refused for
\* ever: its next message is newer than what the receiver recorded.
THEOREM NextIsFreshCorrect == Spec /\ []NoWrap => []NextIsFresh
  BY LinkInvariant, InvFresh, PTL

LEMMA DeliveryInit == Init => Delivery!Init
  BY DEF Init, Delivery!Init

LEMMA DeliveryStep == LinkInv /\ [Next]_vars => [Delivery!Next]_Delivery!vars
<1> SUFFICES ASSUME LinkInv, [Next]_vars PROVE [Delivery!Next]_Delivery!vars
  OBVIOUS
<1>1. ASSUME NEW s \in Streams, NEW now \in Times, Sign(s, now) PROVE Delivery!Next
  BY <1>1 DEF Sign, Delivery!Next, Delivery!Send
<1>2. ASSUME NEW r \in Nodes, NEW m \in sent, NEW now \in Times, Accept(r, m, now)
      PROVE  Delivery!Next
  <2>1. /\ m.stream \in Streams /\ m.secret = Secret[r] /\ ~ Stale(r, m)
        /\ m.secret = Secret[Owner[m.stream]] /\ m.nr \in 1 .. sends[m.stream]
    BY <1>2, MessageType DEF LinkInv, SentBehind, Accept, Verified, Genuine
  <2>2. Delivery!Accept(r, m.stream, m.nr)
    BY <1>2, <2>1, AcceptedIsNewer DEF Accept, Delivery!Accept
  <2>3. QED
    BY <2>1, <2>2 DEF Delivery!Next
<1>3. ASSUME NEW r \in Nodes, NEW m \in sent, NEW now \in Times, Refuse(r, m, now)
      PROVE  UNCHANGED Delivery!vars
  BY <1>3 DEF Refuse, Delivery!vars
<1>4. CASE UNCHANGED vars
  BY <1>4 DEF vars, Delivery!vars
<1>5. QED
  BY <1>1, <1>2, <1>3, <1>4 DEF Next

\* As long as 48 bits suffice, signing is ordered delivery, at most once.
THEOREM DeliveryImplemented == Spec /\ []NoWrap => ImplementsDelivery
  BY DeliveryInit, DeliveryStep, LinkInvariant, PTL
  DEF Spec, ImplementsDelivery, Delivery!Spec

-----------------------------------------------------------------------------
(***************************************************************************)
(* At most once, with signing set up again, and with timestamps that wrap. *)
(***************************************************************************)

\* What a receiver has accepted is no newer than what it remembers.
AcceptedRemembered ==
  \A r \in Nodes, s \in Streams : \A i \in DOMAIN accepted[r][s] :
    /\ s \in DOMAIN stream_timestamps[r]
    /\ \E m \in sent : /\ m.stream = s /\ m.nr = accepted[r][s][i]
                       /\ m.timestamp <= stream_timestamps[r][s]

\* A number stands for one message of its stream.
NumbersUsedOnce ==
  /\ \A m \in sent : m.nr <= sends[m.stream]
  /\ \A m1, m2 \in sent :
       m1.stream = m2.stream /\ m1.nr = m2.nr => m1.timestamp = m2.timestamp

OnceInv == TypeOK /\ NumbersUsedOnce /\ AcceptedRemembered /\ AcceptedOnce

LEMMA OnceInit == Init => OnceInv
BY TypeInit DEF Init, OnceInv, NumbersUsedOnce, AcceptedRemembered, AcceptedOnce

LEMMA OnceSign ==
  ASSUME OnceInv, NEW s \in Streams, NEW now \in Times, Sign(s, now)
  PROVE  OnceInv'
<1> DEFINE n == Owner[s]
           t == Truncated(Latest(timestamp[n], now))
           m == [stream |-> s, nr |-> sends[s] + 1, timestamp |-> t, secret |-> Secret[n]]
<1>1. TypeOK' /\ TypeOK
  BY SignType DEF OnceInv
<1>2. sends' = [sends EXCEPT ![s] = sends[s] + 1] /\ sent' = sent \union {m}
      /\ UNCHANGED <<stream_timestamps, accepted>>
  BY DEF Sign
<1>3. m.stream = s /\ m.nr = sends[s] + 1
  OBVIOUS
<1>4. \A x \in sent : x.stream \in Streams /\ x.nr \in Nat /\ x.nr <= sends[x.stream]
  BY <1>1 DEF OnceInv, NumbersUsedOnce, TypeOK, Messages
<1>5. \A x \in Streams : sends[x] \in Nat
  BY <1>1 DEF TypeOK
<1> HIDE DEF m
<1>6. NumbersUsedOnce'
  <2>1. \A x \in sent' : x.nr <= sends'[x.stream]
    BY <1>1, <1>2, <1>3, <1>4, <1>5 DEF TypeOK
  <2>2. \A x \in sent : ~ (x.stream = m.stream /\ x.nr = m.nr)
    BY <1>3, <1>4, <1>5
  <2>3. \A m1, m2 \in sent' :
          m1.stream = m2.stream /\ m1.nr = m2.nr => m1.timestamp = m2.timestamp
    BY <1>2, <2>2 DEF OnceInv, NumbersUsedOnce
  <2>4. QED
    BY <2>1, <2>3 DEF NumbersUsedOnce
<1>7. AcceptedRemembered' /\ AcceptedOnce'
  BY <1>2 DEF OnceInv, AcceptedRemembered, AcceptedOnce
<1>8. QED
  BY <1>1, <1>6, <1>7 DEF OnceInv

LEMMA OnceAccept ==
  ASSUME OnceInv, NEW r \in Nodes, NEW m \in sent, NEW now \in Times, Accept(r, m, now)
  PROVE  OnceInv'
<1> DEFINE before == accepted[r][m.stream]
<1>1. TypeOK' /\ TypeOK
  BY AcceptType DEF OnceInv
<1>2. /\ m.stream \in Streams /\ m.nr \in Nat /\ m.timestamp \in Nat
      /\ before \in Seq(Nat)
  BY <1>1, SigningAssumption DEF TypeOK, Messages
<1>3. /\ UNCHANGED <<sent, sends>>
      /\ \A n \in Nodes, s \in Streams :
           n # r \/ s # m.stream => accepted'[n][s] = accepted[n][s]
      /\ accepted'[r][m.stream] = Append(before, m.nr)
      /\ \A n \in Nodes : n # r => stream_timestamps'[n] = stream_timestamps[n]
      /\ stream_timestamps'[r] = Recorded(stream_timestamps[r], m)
  BY <1>1, <1>2 DEF Accept, TypeOK
<1>4. m.stream \in DOMAIN stream_timestamps[r] =>
        /\ stream_timestamps[r][m.stream] \in Nat
        /\ stream_timestamps[r][m.stream] < m.timestamp
  BY <1>1, <1>2, SigningAssumption DEF Accept, Verified, Stale, Known, TypeOK
<1>5. /\ DOMAIN stream_timestamps'[r] = DOMAIN stream_timestamps[r] \union {m.stream}
      /\ stream_timestamps'[r][m.stream] = m.timestamp
      /\ \A s \in DOMAIN stream_timestamps[r] :
           s # m.stream => stream_timestamps'[r][s] = stream_timestamps[r][s]
  BY <1>3 DEF Recorded
<1>6. \A i \in DOMAIN before :
        /\ m.stream \in DOMAIN stream_timestamps[r]
        /\ \E x \in sent : /\ x.stream = m.stream /\ x.nr = before[i]
                           /\ x.timestamp <= stream_timestamps[r][m.stream]
  BY <1>2 DEF OnceInv, AcceptedRemembered
<1>7. \A x \in sent : x.timestamp \in Nat
  BY <1>1, SigningAssumption DEF TypeOK, Messages
<1>8. /\ DOMAIN accepted'[r][m.stream] = 1 .. Len(before) + 1
      /\ DOMAIN before = 1 .. Len(before) /\ Len(before) \in Nat
      /\ \A i \in DOMAIN before : accepted'[r][m.stream][i] = before[i]
      /\ accepted'[r][m.stream][Len(before) + 1] = m.nr
  BY <1>2, <1>3, AppendProperties, LenProperties
<1>9. \A i \in DOMAIN before : before[i] # m.nr
  <2> SUFFICES ASSUME NEW i \in DOMAIN before, before[i] = m.nr PROVE FALSE
    OBVIOUS
  <2>1. PICK x \in sent : /\ x.stream = m.stream /\ x.nr = m.nr
                          /\ x.timestamp <= stream_timestamps[r][m.stream]
    BY <1>6
  <2>2. x.timestamp = m.timestamp
    BY <2>1 DEF OnceInv, NumbersUsedOnce
  <2>3. QED
    BY <1>2, <1>4, <1>6, <2>1, <2>2
<1>10. AcceptedOnce'
  <2> SUFFICES ASSUME NEW n \in Nodes, NEW s \in Streams,
                      NEW i \in DOMAIN accepted'[n][s], NEW j \in DOMAIN accepted'[n][s], i # j
               PROVE  accepted'[n][s][i] # accepted'[n][s][j]
    BY DEF AcceptedOnce
  <2>1. CASE n # r \/ s # m.stream
    BY <1>3, <2>1 DEF OnceInv, AcceptedOnce
  <2>2. CASE n = r /\ s = m.stream
    <3>1. \A a, b \in DOMAIN before : a # b => before[a] # before[b]
      BY <1>2 DEF OnceInv, AcceptedOnce
    <3> HIDE DEF before
    <3>2. QED
      BY <1>8, <1>9, <2>2, <3>1
  <2>3. QED
    BY <2>1, <2>2
<1>11. AcceptedRemembered'
  <2> SUFFICES ASSUME NEW n \in Nodes, NEW s \in Streams, NEW i \in DOMAIN accepted'[n][s]
               PROVE  /\ s \in DOMAIN stream_timestamps'[n]
                      /\ \E x \in sent : /\ x.stream = s /\ x.nr = accepted'[n][s][i]
                                         /\ x.timestamp <= stream_timestamps'[n][s]
    BY <1>3 DEF AcceptedRemembered
  <2>1. CASE n # r \/ s # m.stream
    BY <1>3, <1>5, <2>1 DEF OnceInv, AcceptedRemembered
  <2>2. CASE n = r /\ s = m.stream /\ i \in DOMAIN before
    <3>1. PICK x \in sent : /\ x.stream = s /\ x.nr = before[i]
                            /\ x.timestamp <= stream_timestamps[r][s]
      BY <1>6, <2>2
    <3>2. x.timestamp <= m.timestamp
      BY <1>2, <1>4, <1>6, <1>7, <2>2, <3>1
    <3>3. QED
      BY <1>5, <1>8, <2>2, <3>1, <3>2
  <2>3. CASE n = r /\ s = m.stream /\ i = Len(before) + 1
    BY <1>2, <1>5, <1>8, <2>3
  <2>4. QED
    BY <1>8, <2>1, <2>2, <2>3
<1>12. NumbersUsedOnce'
  BY <1>3 DEF OnceInv, NumbersUsedOnce
<1>13. QED
  BY <1>1, <1>10, <1>11, <1>12 DEF OnceInv

LEMMA OnceStep == OnceInv /\ [SetupNext]_vars => OnceInv'
<1> SUFFICES ASSUME OnceInv, [SetupNext]_vars PROVE OnceInv'
  OBVIOUS
<1>1. TypeOK'
  BY TypeStep, SetupType DEF OnceInv, SetupNext
<1>2. ASSUME UNCHANGED <<stream_timestamps, sent, sends, accepted>> PROVE OnceInv'
  BY <1>1, <1>2 DEF OnceInv, NumbersUsedOnce, AcceptedRemembered, AcceptedOnce
<1>3. ASSUME NEW n \in Nodes, SetupSigning(n) PROVE OnceInv'
  <2>1. /\ UNCHANGED <<sent, sends>>
        /\ \A s \in Streams : accepted'[n][s] = <<>>
        /\ \A r \in Nodes : r # n => /\ accepted'[r] = accepted[r]
                                     /\ stream_timestamps'[r] = stream_timestamps[r]
    BY <1>3 DEF SetupSigning, OnceInv, TypeOK
  <2>2. NumbersUsedOnce'
    BY <2>1 DEF OnceInv, NumbersUsedOnce
  <2>3. AcceptedRemembered' /\ AcceptedOnce'
    BY <2>1 DEF OnceInv, AcceptedRemembered, AcceptedOnce
  <2>4. QED
    BY <1>1, <2>2, <2>3 DEF OnceInv
<1>4. ASSUME NEW r \in Nodes, NEW m \in sent, NEW now \in Times, Refuse(r, m, now)
      PROVE  OnceInv'
  BY <1>2, <1>4 DEF Refuse
<1>5. QED
  BY <1>2, <1>3, <1>4, OnceSign, OnceAccept DEF SetupNext, Next, vars

\* Between two set-ups of its own signing a receiver accepts no message twice:
\* it remembers the timestamp of the last it accepted of each stream, and
\* takes newer ones only.  Neither a sender that is set up again, nor a clock
\* that goes back, nor a timestamp that runs out of its 48 bits changes that.
THEOREM AcceptedOnceCorrect == SetupSpec => []AcceptedOnce
<1>1. OnceInv => AcceptedOnce
  BY DEF OnceInv
<1>2. QED
  BY <1>1, OnceInit, OnceStep, PTL DEF SetupSpec
=============================================================================
