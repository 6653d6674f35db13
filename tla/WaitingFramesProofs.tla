------------------------ MODULE WaitingFramesProofs -------------------------
(***************************************************************************)
(* What happens to the frames that wait in a connection when a chunk       *)
(* arrives, a chunk is read and a frame is decoded: the lemmas that the    *)
(* proofs about both kinds of connection share.                            *)
(***************************************************************************)
EXTENDS WaitingFrames, Integers, SequenceTheorems, FiniteSetTheorems, TLAPS

ChunkOf(Senders) == [from : Senders, frames : Seq(Nat)]

\* The first of a sequence, and where the others go.
LEMMA FirstAndRest ==
  ASSUME NEW S, NEW seq \in Seq(S), seq # <<>>
  PROVE  /\ Head(seq) = seq[1] /\ 1 \in DOMAIN seq
         /\ \A i \in DOMAIN Tail(seq) : i + 1 \in DOMAIN seq /\ Tail(seq)[i] = seq[i + 1]
         /\ \A i \in DOMAIN seq : i = 1 \/ (i - 1 \in DOMAIN Tail(seq) /\ seq[i] = Tail(seq)[i - 1])
  OBVIOUS

\* As many frames wait as there are numbers from the first to the last.
LEMMA CountWaiting ==
  ASSUME NEW n \in Nat, NEW last \in Nat, n <= last
  PROVE  last - Cardinality(n + 1 .. last) = n
  <1>1. n + 1 \in Int /\ last \in Int
    OBVIOUS
  <1>2. Cardinality(n + 1 .. last) = IF n + 1 > last THEN 0 ELSE last - (n + 1) + 1
    BY ONLY <1>1, FS_Interval
  <1> QED
    BY <1>2

\* A chunk of k frames with the next numbers joins those that wait.
LEMMA WaitingOfArrive ==
  ASSUME NEW Senders, NEW buffered \in Seq(Nat), NEW socket \in Seq(ChunkOf(Senders)),
         NEW last \in Nat, NEW k \in Nat, NEW from \in Senders,
         WaitInOrder(buffered, socket),
         \A n \in WaitingIn(buffered, socket) : n <= last
  PROVE  LET after == Append(socket, [from |-> from, frames |-> [i \in 1 .. k |-> last + i]])
         IN  /\ WaitInOrder(buffered, after)
             /\ WaitingIn(buffered, after) = WaitingIn(buffered, socket) \union (last + 1 .. last + k)
  <1> DEFINE numbers == [i \in 1 .. k |-> last + i]
             chunk == [from |-> from, frames |-> numbers]
             after == Append(socket, chunk)
             new == Len(socket) + 1
  <1>1. chunk \in ChunkOf(Senders)
    BY DEF ChunkOf
  <1>2. /\ DOMAIN after = 1 .. new /\ DOMAIN socket = 1 .. Len(socket) /\ Len(socket) \in Nat
        /\ \A c \in DOMAIN socket : after[c] = socket[c]
        /\ after[new] = chunk
    <2> HIDE DEF chunk
    <2> QED
      BY <1>1, AppendProperties, LenProperties
  <1>3. after[new].frames = numbers /\ DOMAIN numbers = 1 .. k
    BY <1>2
  <1>4. \A c \in DOMAIN after : c \in DOMAIN socket \/ c = new
    BY <1>2
  <1>5. \A c \in DOMAIN socket : c \in DOMAIN after /\ c # new /\ new \in DOMAIN after /\ c \in Nat
    BY <1>2
  <1> HIDE DEF chunk, after, new
  <1>6. FramesIn(after) = FramesIn(socket) \union (last + 1 .. last + k)
    <2>1. {numbers[i] : i \in DOMAIN numbers} = last + 1 .. last + k
      <3>1. ASSUME NEW m \in last + 1 .. last + k PROVE m \in {numbers[i] : i \in DOMAIN numbers}
        <4>1. m - last \in 1 .. k /\ numbers[m - last] = m
          OBVIOUS
        <4> QED
          BY <4>1
      <3>2. \A i \in DOMAIN numbers : numbers[i] \in last + 1 .. last + k
        OBVIOUS
      <3> QED
        BY <3>1, <3>2
    <2> HIDE DEF numbers
    <2>2. ASSUME NEW n PROVE n \in FramesIn(after) <=> n \in FramesIn(socket) \union (last + 1 .. last + k)
      <3>1. n \in FramesIn(after) <=>
              \E c \in DOMAIN after : n \in {after[c].frames[i] : i \in DOMAIN after[c].frames}
        BY DEF FramesIn
      <3>2. n \in FramesIn(socket) <=>
              \E c \in DOMAIN socket : n \in {socket[c].frames[i] : i \in DOMAIN socket[c].frames}
        BY DEF FramesIn
      <3>3. {after[new].frames[i] : i \in DOMAIN after[new].frames} = last + 1 .. last + k
        BY <1>3, <2>1
      <3>4. \A c \in DOMAIN socket : {after[c].frames[i] : i \in DOMAIN after[c].frames}
                                      = {socket[c].frames[i] : i \in DOMAIN socket[c].frames}
        BY <1>2
      <3>5. new \in DOMAIN after
        BY <1>2 DEF new
      <3> QED
        BY ONLY <1>4, <1>5, <3>1, <3>2, <3>3, <3>4, <3>5
    <2> QED
      BY <2>2
  <1>7. WaitingIn(buffered, after) = WaitingIn(buffered, socket) \union (last + 1 .. last + k)
    BY <1>6 DEF WaitingIn
  <1>8. WaitInOrder(buffered, after)
    <2>1. Rising(buffered)
      BY DEF WaitInOrder
    <2>2. \A c \in DOMAIN after : Rising(after[c].frames)
      <3>1. Rising(numbers)
        BY DEF Rising
      <3> QED
        BY <1>2, <1>3, <1>4, <3>1 DEF WaitInOrder
    <2>3. ASSUME NEW c \in DOMAIN after, NEW d \in DOMAIN after, c < d,
                 NEW i \in DOMAIN after[c].frames, NEW j \in DOMAIN after[d].frames
          PROVE  after[c].frames[i] < after[d].frames[j]
      <3>1. CASE d \in DOMAIN socket
        <4>1. c \in DOMAIN socket
          BY <1>2, <1>4, <2>3, <3>1 DEF new
        <4> QED
          BY <1>2, <2>3, <3>1, <4>1 DEF WaitInOrder
      <3>2. CASE d = new
        <4>1. c \in DOMAIN socket
          BY <1>2, <1>4, <2>3, <3>2 DEF new
        <4>2. after[c].frames[i] \in WaitingIn(buffered, socket)
          BY <1>2, <4>1 DEF WaitingIn, FramesIn
        <4>3. after[c].frames[i] \in Nat
          <5>1. socket[c] \in ChunkOf(Senders)
            BY <4>1
          <5> QED
            BY <1>2, <2>3, <4>1, <5>1 DEF ChunkOf
        <4>4. after[c].frames[i] <= last
          BY <4>2
        <4>5. after[d].frames[j] = last + j /\ j \in 1 .. k
          BY <1>3, <3>2
        <4> QED
          BY <4>3, <4>4, <4>5
      <3> QED
        BY <1>4, <3>1, <3>2
    <2>4. ASSUME NEW i \in DOMAIN buffered, NEW n \in FramesIn(after)
          PROVE  buffered[i] < n
      <3>1. CASE n \in FramesIn(socket)
        BY <3>1 DEF WaitInOrder
      <3>2. CASE n \in last + 1 .. last + k
        <4>1. buffered[i] \in WaitingIn(buffered, socket) /\ buffered[i] \in Nat
          BY DEF WaitingIn
        <4>2. buffered[i] <= last
          BY <4>1
        <4> QED
          BY <3>2, <4>1, <4>2
      <3> QED
        BY <1>6, <3>1, <3>2
    <2> QED
      BY <2>1, <2>2, <2>3, <2>4 DEF WaitInOrder
  <1> QED
    BY <1>7, <1>8 DEF after, chunk

\* What a concatenation has where.
LEMMA Joined ==
  ASSUME NEW first \in Seq(Nat), NEW second \in Seq(Nat)
  PROVE  LET both == first \o second
         IN  /\ both \in Seq(Nat) /\ Len(first) \in Nat
             /\ DOMAIN both = 1 .. Len(first) + Len(second)
             /\ \A i \in DOMAIN first : i \in DOMAIN both /\ both[i] = first[i] /\ i <= Len(first)
             /\ \A i \in DOMAIN second :
                  Len(first) + i \in DOMAIN both /\ both[Len(first) + i] = second[i]
             /\ \A i \in DOMAIN both :
                  \/ i \in DOMAIN first /\ i <= Len(first)
                  \/ i - Len(first) \in DOMAIN second /\ i > Len(first)
  OBVIOUS

\* Reading the first chunk changes nothing of what waits.
LEMMA WaitingOfRead ==
  ASSUME NEW Senders, NEW buffered \in Seq(Nat), NEW socket \in Seq(ChunkOf(Senders)),
         socket # <<>>, WaitInOrder(buffered, socket)
  PROVE  LET joined == buffered \o Head(socket).frames
         IN  /\ joined \in Seq(Nat)
             /\ WaitInOrder(joined, Tail(socket))
             /\ WaitingIn(joined, Tail(socket)) = WaitingIn(buffered, socket)
  <1> DEFINE rest == Tail(socket)
             first == socket[1].frames
             joined == buffered \o first
  <1>1. /\ Head(socket) = socket[1] /\ 1 \in DOMAIN socket
        /\ \A c \in DOMAIN rest : c + 1 \in DOMAIN socket /\ rest[c] = socket[c + 1]
        /\ \A c \in DOMAIN socket : c = 1 \/ (c - 1 \in DOMAIN rest /\ socket[c] = rest[c - 1])
    BY ONLY socket \in Seq(ChunkOf(Senders)), socket # <<>>, FirstAndRest, Zenon
  <1>2. \A c \in DOMAIN rest : c \in Nat \ {0}
    OBVIOUS
  <1>3. first \in Seq(Nat)
    <2>1. socket[1] \in ChunkOf(Senders)
      BY ONLY <1>1, socket \in Seq(ChunkOf(Senders)), ElementOfSeq, LenProperties
    <2> QED
      BY ONLY <2>1 DEF ChunkOf
  <1> HIDE DEF rest, first
  <1>4. /\ joined \in Seq(Nat) /\ Len(buffered) \in Nat
        /\ DOMAIN joined = 1 .. Len(buffered) + Len(first)
        /\ \A i \in DOMAIN buffered : i \in DOMAIN joined /\ joined[i] = buffered[i] /\ i <= Len(buffered)
        /\ \A i \in DOMAIN first :
             Len(buffered) + i \in DOMAIN joined /\ joined[Len(buffered) + i] = first[i]
        /\ \A i \in DOMAIN joined :
             \/ i \in DOMAIN buffered /\ i <= Len(buffered)
             \/ i - Len(buffered) \in DOMAIN first /\ i > Len(buffered)
    BY ONLY buffered \in Seq(Nat), <1>3, Joined
  <1>5. \A i \in DOMAIN joined : i \in Nat /\ Len(first) \in Nat
    BY ONLY <1>3, <1>4, LenProperties
  <1>6. \A i \in DOMAIN joined :
          i > Len(buffered) => joined[i] = first[i - Len(buffered)] /\ i - Len(buffered) \in DOMAIN first
    BY <1>4, <1>5
  <1> HIDE DEF joined
  <1>7. FramesIn(socket) = {first[i] : i \in DOMAIN first} \union FramesIn(rest)
    BY <1>1 DEF FramesIn, first
  <1>8. {joined[i] : i \in DOMAIN joined}
          = {buffered[i] : i \in DOMAIN buffered} \union {first[i] : i \in DOMAIN first}
    <2>1. \A i \in DOMAIN joined :
            \/ \E j \in DOMAIN buffered : joined[i] = buffered[j]
            \/ \E j \in DOMAIN first : joined[i] = first[j]
      BY <1>4, <1>6
    <2>2. \A j \in DOMAIN buffered : \E i \in DOMAIN joined : joined[i] = buffered[j]
      BY <1>4
    <2>3. \A j \in DOMAIN first : \E i \in DOMAIN joined : joined[i] = first[j]
      BY <1>4
    <2> QED
      BY ONLY <2>1, <2>2, <2>3
  <1>9. WaitingIn(joined, rest) = WaitingIn(buffered, socket)
    BY <1>7, <1>8 DEF WaitingIn
  <1>10. /\ Rising(first) /\ Rising(buffered)
         /\ \A i \in DOMAIN buffered, n \in FramesIn(socket) : buffered[i] < n
         /\ \A c \in DOMAIN rest : Rising(rest[c].frames)
    BY <1>1 DEF WaitInOrder, first
  <1>11. Rising(joined)
    <2> SUFFICES ASSUME NEW i \in DOMAIN joined, NEW j \in DOMAIN joined, i < j
                 PROVE  joined[i] < joined[j]
      BY DEF Rising
    <2>1. CASE i \in DOMAIN buffered /\ j \in DOMAIN buffered
      BY <1>4, <1>10, <2>1 DEF Rising
    <2>2. CASE i \in DOMAIN buffered /\ j > Len(buffered)
      <3>1. joined[j] \in FramesIn(socket)
        BY <1>6, <1>7, <2>2
      <3> QED
        BY <1>4, <1>10, <2>2, <3>1
    <2>3. CASE i > Len(buffered) /\ j > Len(buffered)
      <3>1. i - Len(buffered) < j - Len(buffered)
        BY <1>4, <1>5
      <3> QED
        BY <1>6, <1>10, <2>3, <3>1 DEF Rising
    <2>4. ~ (i > Len(buffered) /\ j <= Len(buffered))
      BY <1>4, <1>5
    <2> QED
      BY <1>4, <2>1, <2>2, <2>3, <2>4
  <1>12. \A c, d \in DOMAIN rest : c < d => c + 1 < d + 1
    BY <1>2
  <1>13. \A c, d \in DOMAIN rest :
          c < d => \A i \in DOMAIN rest[c].frames, j \in DOMAIN rest[d].frames :
                     rest[c].frames[i] < rest[d].frames[j]
    BY <1>1, <1>12 DEF WaitInOrder
  <1>14. ASSUME NEW i \in DOMAIN first, NEW n \in FramesIn(rest)
         PROVE  first[i] < n
    <2>1. PICK c \in DOMAIN rest : \E j \in DOMAIN rest[c].frames : n = rest[c].frames[j]
      BY DEF FramesIn
    <2>2. 1 < c + 1 /\ c + 1 \in DOMAIN socket /\ rest[c] = socket[c + 1]
      BY <1>1, <1>2
    <2> QED
      BY <1>1, <2>1, <2>2 DEF WaitInOrder, first
  <1>15. \A i \in DOMAIN joined, n \in FramesIn(rest) : joined[i] < n
    BY <1>4, <1>6, <1>7, <1>10, <1>14
  <1>16. WaitInOrder(joined, rest)
    BY <1>10, <1>11, <1>13, <1>15 DEF WaitInOrder
  <1> QED
    BY ONLY <1>1, <1>4, <1>9, <1>16 DEF rest, first, joined

\* The frame decoded is the first that waits, and the only one that leaves.
LEMMA WaitingOfDecode ==
  ASSUME NEW buffered \in Seq(Nat), NEW socket, buffered # <<>>, WaitInOrder(buffered, socket)
  PROVE  /\ WaitInOrder(Tail(buffered), socket)
         /\ WaitingIn(Tail(buffered), socket) = WaitingIn(buffered, socket) \ {Head(buffered)}
         /\ Head(buffered) \in WaitingIn(buffered, socket)
         /\ \A n \in WaitingIn(Tail(buffered), socket) : Head(buffered) < n
  <1> DEFINE rest == Tail(buffered)
             first == Head(buffered)
  <1>1. /\ first = buffered[1] /\ 1 \in DOMAIN buffered
        /\ \A i \in DOMAIN rest : i + 1 \in DOMAIN buffered /\ rest[i] = buffered[i + 1]
        /\ \A i \in DOMAIN buffered : i = 1 \/ (i - 1 \in DOMAIN rest /\ buffered[i] = rest[i - 1])
    BY ONLY buffered \in Seq(Nat), buffered # <<>>, FirstAndRest, Zenon
  <1>2. \A i \in DOMAIN rest : i \in Nat \ {0}
    OBVIOUS
  <1>3. first \in Nat
    OBVIOUS
  <1> HIDE DEF rest, first
  <1>4. \A i \in DOMAIN rest : first < rest[i]
    <2>1. \A i \in DOMAIN rest : 1 < i + 1
      BY <1>2
    <2> QED
      BY <1>1, <2>1 DEF WaitInOrder, Rising
  <1>5. \A n \in FramesIn(socket) : first < n
    BY <1>1 DEF WaitInOrder
  <1>6. {buffered[i] : i \in DOMAIN buffered} = {first} \union {rest[i] : i \in DOMAIN rest}
    BY <1>1
  <1>7. \A n \in WaitingIn(rest, socket) : first < n
    BY <1>4, <1>5 DEF WaitingIn
  <1>8. first \notin WaitingIn(rest, socket)
    BY <1>3, <1>7
  <1>9. WaitingIn(rest, socket) = WaitingIn(buffered, socket) \ {first}
    BY <1>6, <1>8 DEF WaitingIn
  <1>10. WaitInOrder(rest, socket)
    <2>1. \A i, j \in DOMAIN rest : i < j => i + 1 < j + 1
      BY <1>2
    <2>2. Rising(rest)
      BY <1>1, <2>1 DEF WaitInOrder, Rising
    <2>3. \A i \in DOMAIN rest, n \in FramesIn(socket) : rest[i] < n
      BY <1>1 DEF WaitInOrder
    <2> QED
      BY <2>2, <2>3 DEF WaitInOrder
  <1>11. first \in WaitingIn(buffered, socket)
    BY <1>1 DEF WaitingIn
  <1> QED
    BY <1>7, <1>9, <1>10, <1>11 DEF rest, first
=============================================================================
