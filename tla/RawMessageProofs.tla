------------------------- MODULE RawMessageProofs --------------------------
(***************************************************************************)
(* What serialize_message, signing and MavFrame leave in every cell of a   *)
(* buffer, whatever it held, and that the accessors read it back: used by  *)
(* the theorems about the peers that write and read frames.                *)
(***************************************************************************)
EXTENDS RawMessage, SequenceTheorems, FiniteSetTheorems, TLAPS

-----------------------------------------------------------------------------
(***************************************************************************)
(* Induction and recursive functions.  Induction is over a set of numbers, *)
(* so that it needs no operator as a parameter; a function that follows a  *)
(* step exists, so one chosen to obey its definition does.                 *)
(***************************************************************************)
\* A set of numbers has a least one.
LEMMA Least ==
  ASSUME NEW T \in SUBSET Nat, T # {}
  PROVE  \E n \in T : \A m \in T : n <= m
  <1> DEFINE below == {0 .. k : k \in T}
  <1>1. below \subseteq FiniteSubsetsOf(Nat) /\ below # {}
    <2>1. \A k \in Nat : 0 .. k \in SUBSET Nat /\ IsFiniteSet(0 .. k)
      BY FS_Interval
    <2> QED
      BY <2>1 DEF FiniteSubsetsOf
  <1>2. PICK B \in below : \A C \in below : <<C, B>> \notin StrictSubsetOrdering(Nat)
    <2> HIDE DEF below
    <2> QED
      BY <1>1, FS_StrictSubsetOrderingWellFounded, WFMin
  <1>3. PICK n \in T : B = 0 .. n
    BY <1>2
  <1>4. ASSUME NEW m \in T, m < n
        PROVE  FALSE
    <2>1. 0 .. m \in below /\ 0 .. m \subseteq 0 .. n /\ 0 .. m # 0 .. n
      BY <1>4
    <2>2. <<0 .. m, 0 .. n>> \in StrictSubsetOrdering(Nat)
      BY <2>1, <1>1, <1>3 DEF StrictSubsetOrdering, FiniteSubsetsOf
    <2> QED
      BY <1>2, <1>3, <2>1, <2>2
  <1> QED
    BY <1>4

\* Induction over a set: it has all numbers if it has 0 and every successor.
LEMMA Induction ==
  ASSUME NEW T, 0 \in T, \A n \in Nat : n \in T => n + 1 \in T
  PROVE  Nat \subseteq T
  <1> DEFINE rest == {n \in Nat : n \notin T}
  <1>1. ASSUME rest # {}
        PROVE  FALSE
    <2>1. PICK n \in rest : \A m \in rest : n <= m
      BY <1>1, Least
    <2>2. n \in Nat /\ n # 0 /\ n - 1 \in Nat /\ n - 1 \in T
      BY <2>1
    <2> QED
      BY <2>1, <2>2
  <1> QED
    BY <1>1

Follows(f, base, step, final) ==
  f[0] = base /\ \A n \in 1 .. final : f[n] = step[n][f[n - 1]]

\* A function that follows the steps exists.
LEMMA Recursion ==
  ASSUME NEW S, NEW base \in S, NEW step \in [Nat -> [S -> S]], NEW final \in Nat
  PROVE  \E f \in [0 .. final -> S] : Follows(f, base, step, final)
  <1> DEFINE Rec(f, n) == /\ f \in [0 .. n -> S]
                          /\ f[0] = base
                          /\ \A k \in 1 .. n : f[k] = step[k][f[k - 1]]
             T == {n \in Nat : \E f : Rec(f, n)}
  <1>1. 0 \in T
    <2>1. Rec([k \in 0 .. 0 |-> base], 0)
      OBVIOUS
    <2> QED
      BY <2>1
  <1>2. ASSUME NEW n \in Nat, n \in T
        PROVE  n + 1 \in T
    <2>1. PICK f : Rec(f, n)
      BY <1>2
    <2>2. step[n + 1][f[n]] \in S
      BY <2>1
    <2> DEFINE g == [k \in 0 .. n + 1 |-> IF k = n + 1 THEN step[n + 1][f[n]] ELSE f[k]]
    <2>3. g \in [0 .. n + 1 -> S]
      BY <2>1, <2>2
    <2>4. g[0] = base
      BY <2>1
    <2>5. \A k \in 1 .. n + 1 : g[k] = step[k][g[k - 1]]
      <3> TAKE k \in 1 .. n + 1
      <3>1. k - 1 \in 0 .. n /\ g[k - 1] = f[k - 1]
        OBVIOUS
      <3>2. CASE k = n + 1
        BY <3>1, <3>2
      <3>3. CASE k # n + 1
        BY <3>1, <3>3, <2>1
      <3> QED
        BY <3>2, <3>3
    <2> HIDE DEF g
    <2> QED
      BY <2>3, <2>4, <2>5
  <1>3. final \in T
    <2> HIDE DEF T
    <2> QED
      BY <1>1, <1>2, Induction
  <1>4. PICK f : Rec(f, final)
    BY <1>3
  <1>5. f \in [0 .. final -> S] /\ Follows(f, base, step, final)
    BY <1>4 DEF Follows
  <1> QED
    BY <1>5

\* Power is what its definition says.
LEMMA PowerDef ==
  /\ Power \in [0 .. 8 -> Nat] /\ Power[0] = 1
  /\ \A n \in 1 .. 8 : Power[n] = Radix * Power[n - 1]
  <1> DEFINE step == [n \in Nat |-> [v \in Nat |-> Radix * v]]
             Is(f) == f = [width \in 0 .. 8 |-> IF width = 0 THEN 1 ELSE Radix * f[width - 1]]
  <1>1. step \in [Nat -> [Nat -> Nat]]
    BY RadixAssumption
  <1>2. PICK f \in [0 .. 8 -> Nat] : Follows(f, 1, step, 8)
    <2>1. 1 \in Nat /\ 8 \in Nat
      OBVIOUS
    <2> HIDE DEF step
    <2> QED
      BY <1>1, <2>1, Recursion, Zenon
  <1>3. Is(f)
    BY <1>2 DEF Follows
  <1>4. Is(Power)
    <2>1. Power = CHOOSE g : Is(g)
      BY DEF Power
    <2> HIDE DEF Is
    <2> QED
      BY <1>3, <2>1
  <1>5. Power[0] = 1 /\ \A n \in 1 .. 8 : Power[n] = Radix * Power[n - 1]
    BY <1>4
  <1> DEFINE T == {n \in Nat : n <= 8 => Power[n] \in Nat}
  <1>6. 0 \in T
    BY <1>5
  <1>7. ASSUME NEW n \in Nat, n \in T PROVE n + 1 \in T
    BY <1>5, <1>7, RadixAssumption
  <1>8. Nat \subseteq T
    <2> HIDE DEF T
    <2> QED
      BY <1>6, <1>7, Induction
  <1>9. Power = [n \in 0 .. 8 |-> Power[n]]
    BY <1>4
  <1>10. \A n \in 0 .. 8 : Power[n] \in Nat
    BY <1>8
  <1> HIDE DEF T, Is
  <1>11. Power \in [0 .. 8 -> Nat]
    BY <1>9, <1>10
  <1> QED
    BY <1>5, <1>11

LEMMA DivMod ==
  ASSUME NEW v \in Nat, NEW d \in Nat \ {0}
  PROVE  /\ v \div d \in Nat /\ v % d \in 0 .. d - 1
         /\ v = d * (v \div d) + (v % d)
  OBVIOUS

\* Checksums, and what is left of a number by their modulus.
Checksums == 0 .. 65520

LEMMA ChecksumOf ==
  ASSUME NEW v \in Nat
  PROVE  v % 65521 \in Checksums
  BY DEF Checksums

LEMMA DigestOne ==
  ASSUME NEW crc \in Nat, NEW byte \in Nat
  PROVE  Digest(crc, byte) \in Checksums
  <1> DEFINE v == crc * 33 + byte + 1
  <1>1. v \in Nat
    OBVIOUS
  <1> HIDE DEF v
  <1>2. v % 65521 \in Checksums
    BY <1>1, ChecksumOf
  <1> QED
    BY <1>2 DEF Digest, v

\* The checksum is a number, of 16 bits unless nothing is digested.
LEMMA DigestType ==
  ASSUME NEW start \in Nat, NEW data \in Seq(Nat)
  PROVE  /\ DigestAll(start, data) \in Nat
         /\ data # <<>> => DigestAll(start, data) \in Checksums
  <1> DEFINE step == [n \in Nat |-> [v \in Nat |->
                       IF n \in DOMAIN data THEN Digest(v, data[n]) ELSE 0]]
             Is(f) == f = [n \in 0 .. Len(data) |->
                             IF n = 0 THEN start ELSE Digest(f[n - 1], data[n])]
  <1>0. Len(data) \in Nat /\ \A n \in 1 .. Len(data) : n \in DOMAIN data
    OBVIOUS
  <1>1. step \in [Nat -> [Nat -> Nat]]
    BY DEF Digest
  <1>2. PICK f \in [0 .. Len(data) -> Nat] : Follows(f, start, step, Len(data))
    <2> HIDE DEF step
    <2> QED
      BY <1>0, <1>1, Recursion, Zenon
  <1>3. Is(f)
    <2>1. ASSUME NEW n \in 1 .. Len(data)
          PROVE  n - 1 \in 0 .. Len(data) /\ f[n] = Digest(f[n - 1], data[n])
      <3>1. n \in Nat /\ n \in DOMAIN data /\ n - 1 \in 0 .. Len(data)
        BY <1>0
      <3>2. f[n - 1] \in Nat /\ f[n] = step[n][f[n - 1]]
        BY <1>2, <3>1 DEF Follows
      <3>3. step[n][f[n - 1]] = Digest(f[n - 1], data[n])
        BY <3>1, <3>2
      <3> QED
        BY <3>1, <3>2, <3>3
    <2>2. f[0] = start
      BY <1>2 DEF Follows
    <2> HIDE DEF step
    <2> QED
      BY <1>0, <1>2, <2>1, <2>2
  <1> DEFINE crc == CHOOSE g : Is(g)
  <1>4. Is(crc)
    <2> HIDE DEF Is
    <2> QED
      BY <1>3
  <1>5. DigestAll(start, data) = crc[Len(data)]
    BY DEF DigestAll
  <1> HIDE DEF crc
  <1> DEFINE T == {n \in Nat : n <= Len(data) => crc[n] \in Nat}
  <1>6. 0 \in T
    BY <1>0, <1>4
  <1>7. ASSUME NEW n \in Nat, n \in T
        PROVE  n + 1 \in T
    <2>1. CASE n + 1 <= Len(data)
      <3>1. crc[n] \in Nat /\ data[n + 1] \in Nat
        BY <1>0, <1>7, <2>1
      <3>2. crc[n + 1] = Digest(crc[n], data[n + 1])
        BY <1>0, <1>4, <2>1
      <3> QED
        BY <3>1, <3>2 DEF Digest
    <2> QED
      BY <1>0, <2>1
  <1>8. Nat \subseteq T
    <2> HIDE DEF T
    <2> QED
      BY <1>6, <1>7, Induction
  <1>9. ASSUME data # <<>>
        PROVE  crc[Len(data)] \in Checksums
    <2>1. Len(data) - 1 \in Nat /\ Len(data) - 1 <= Len(data) /\ Len(data) \in 1 .. Len(data)
      BY <1>9
    <2>2. crc[Len(data) - 1] \in Nat /\ data[Len(data)] \in Nat
      BY <1>8, <2>1
    <2>3. crc[Len(data)] = Digest(crc[Len(data) - 1], data[Len(data)])
      BY <1>4, <2>1
    <2> QED
      BY <2>2, <2>3, DigestOne
  <1>10. crc[Len(data)] \in Nat
    BY <1>0, <1>8
  <1> QED
    BY <1>5, <1>9, <1>10

\* Quotient and remainder are unique.
LEMMA DivModUnique ==
  ASSUME NEW d \in Nat \ {0}, NEW q \in Nat, NEW r \in 0 .. d - 1
  PROVE  (d * q + r) \div d = q /\ (d * q + r) % d = r
  OBVIOUS

LEMMA DivDiv ==
  ASSUME NEW v \in Nat, NEW d \in Nat \ {0}, NEW e \in Nat \ {0}
  PROVE  /\ v \div (e * d) = (v \div d) \div e
         /\ v % (e * d) = (v % d) + d * ((v \div d) % e)
  <1> DEFINE q == v \div d
  <1>1. q \in Nat /\ v % d \in 0 .. d - 1 /\ v = d * q + (v % d)
    BY DivMod
  <1>2. q \div e \in Nat /\ q % e \in 0 .. e - 1 /\ q = e * (q \div e) + (q % e)
    BY <1>1, DivMod
  <1> DEFINE a == q \div e
             b == q % e
             r == v % d
             low == d * b + r
  <1>3. a \in Nat /\ b \in 0 .. e - 1 /\ r \in 0 .. d - 1 /\ q = e * a + b /\ v = d * q + r
    BY <1>1, <1>2
  <1> HIDE DEF a, b, r, q
  <1>4. v = (e * d) * a + low
    BY <1>3
  <1>5. low \in 0 .. e * d - 1
    <2>1. d * b <= d * (e - 1)
      BY <1>3
    <2>2. d * (e - 1) = e * d - d
      OBVIOUS
    <2> QED
      BY <1>3, <2>1, <2>2
  <1>6. e * d \in Nat \ {0}
    OBVIOUS
  <1>7. v \div (e * d) = a /\ v % (e * d) = low
    <2> HIDE DEF low
    <2> QED
      BY <1>3, <1>4, <1>5, <1>6, DivModUnique
  <1> QED
    BY <1>3, <1>7 DEF a, b, r, q

-----------------------------------------------------------------------------
(***************************************************************************)
(* Little-endian bytes, and the number they stand for.                     *)
(***************************************************************************)
LEMMA PowerType == \A n \in 0 .. 8 : Power[n] \in Nat \ {0}
  <1> DEFINE T == {n \in Nat : n <= 8 => Power[n] \in Nat \ {0}}
  <1>1. 0 \in T
    BY PowerDef
  <1>2. ASSUME NEW n \in Nat, n \in T
        PROVE  n + 1 \in T
    <2>1. CASE n + 1 <= 8
      <3>1. Power[n + 1] = Radix * Power[n]
        BY <2>1, PowerDef
      <3> QED
        BY <1>2, <2>1, <3>1, RadixAssumption
    <2> QED
      BY <2>1
  <1>3. Nat \subseteq T
    <2> HIDE DEF T
    <2> QED
      BY <1>1, <1>2, Induction
  <1> QED
    BY <1>3

\* A function from 1 .. n is a sequence of length n.
LEMMA IsSequence ==
  ASSUME NEW n \in Nat, NEW S, NEW f \in [1 .. n -> S]
  PROVE  f \in Seq(S) /\ Len(f) = n /\ DOMAIN f = 1 .. n /\ \A i \in 1 .. n : f[i] \in S
  OBVIOUS

\* What is written are bytes, as many as asked for.
LEMMA ToBytesType ==
  ASSUME NEW v \in Nat, NEW width \in 0 .. 8
  PROVE  /\ ToBytes(v, width) \in [1 .. width -> 0 .. MaxId]
         /\ ToBytes(v, width) \in Seq(0 .. MaxId)
         /\ Len(ToBytes(v, width)) = width
  <1>1. ASSUME NEW i \in 1 .. width
        PROVE  (v \div Power[i - 1]) % Radix \in 0 .. MaxId
    <2>1. Power[i - 1] \in Nat \ {0}
      BY PowerType
    <2>2. v \div Power[i - 1] \in Nat
      BY <2>1, DivMod
    <2>3. Radix \in Nat \ {0}
      BY RadixAssumption
    <2>4. (v \div Power[i - 1]) % Radix \in 0 .. Radix - 1
      BY <2>2, <2>3, DivMod
    <2> QED
      BY <2>4 DEF MaxId
  <1>2. ToBytes(v, width) \in [1 .. width -> 0 .. MaxId]
    BY <1>1 DEF ToBytes
  <1>3. width \in Nat
    OBVIOUS
  <1> QED
    BY <1>2, <1>3, IsSequence, Zenon

\* The sum that FromBytes builds up.
SumOf(bytes, value) ==
  /\ value[0] = 0
  /\ \A n \in 1 .. Len(bytes) : value[n] = value[n - 1] + bytes[n] * Power[n - 1]

LEMMA FromBytesSum ==
  ASSUME NEW bytes \in Seq(Nat), Len(bytes) <= 8
  PROVE  \E value : SumOf(bytes, value) /\ FromBytes(bytes) = value[Len(bytes)]
  <1> DEFINE step == [n \in Nat |-> [v \in Nat |-> IF n \in DOMAIN bytes
                                                   THEN v + bytes[n] * Power[n - 1] ELSE 0]]
             Is(f) == f = [n \in 0 .. Len(bytes) |->
                             IF n = 0 THEN 0 ELSE f[n - 1] + bytes[n] * Power[n - 1]]
  <1>0. Len(bytes) \in Nat /\ DOMAIN bytes = 1 .. Len(bytes) /\ Len(bytes) <= 8
    OBVIOUS
  <1>1. step \in [Nat -> [Nat -> Nat]]
    <2>1. ASSUME NEW n \in 1 .. Len(bytes)
          PROVE  bytes[n] \in Nat /\ Power[n - 1] \in Nat
      <3>1. bytes[n] \in Nat /\ n - 1 \in 0 .. 8
        BY <1>0
      <3> QED
        BY <3>1, PowerType
    <2>2. \A n \in DOMAIN bytes : bytes[n] * Power[n - 1] \in Nat
      BY <1>0, <2>1
    <2> QED
      BY <2>2
  <1>2. PICK f \in [0 .. Len(bytes) -> Nat] : Follows(f, 0, step, Len(bytes))
    <2>1. 0 \in Nat
      OBVIOUS
    <2> HIDE DEF step
    <2> QED
      BY <1>0, <1>1, <2>1, Recursion, Zenon
  <1>3. Is(f)
    <2>1. ASSUME NEW n \in 1 .. Len(bytes)
          PROVE  n - 1 \in 0 .. Len(bytes) /\ f[n] = f[n - 1] + bytes[n] * Power[n - 1]
      <3>1. n \in Nat /\ n \in DOMAIN bytes /\ n - 1 \in 0 .. Len(bytes)
        BY <1>0
      <3>2. f[n - 1] \in Nat /\ f[n] = step[n][f[n - 1]]
        BY <1>2, <3>1 DEF Follows
      <3>3. step[n][f[n - 1]] = f[n - 1] + bytes[n] * Power[n - 1]
        BY <3>1, <3>2
      <3> QED
        BY <3>1, <3>2, <3>3
    <2>2. f[0] = 0
      BY <1>2 DEF Follows
    <2> HIDE DEF step
    <2> QED
      BY <1>0, <1>2, <2>1, <2>2
  <1> DEFINE value == CHOOSE g : Is(g)
  <1>4. Is(value)
    <2> HIDE DEF Is
    <2> QED
      BY <1>3
  <1>5. FromBytes(bytes) = value[Len(bytes)]
    BY DEF FromBytes
  <1>6. SumOf(bytes, value)
    <2> HIDE DEF value
    <2> QED
      BY <1>0, <1>4 DEF SumOf
  <1> QED
    BY <1>5, <1>6

\* What was written in enough bytes is read back.
LEMMA ToFromBytes ==
  ASSUME NEW width \in 0 .. 8, NEW v \in 0 .. Power[width] - 1
  PROVE  FromBytes(ToBytes(v, width)) = v
  <1> DEFINE bytes == ToBytes(v, width)
  <1>1. v \in Nat /\ Power[width] \in Nat \ {0}
    BY PowerType
  <1>2. bytes \in Seq(Nat) /\ Len(bytes) = width
    <2>1. bytes \in [1 .. width -> 0 .. MaxId]
      BY <1>1, ToBytesType
    <2>2. 0 .. MaxId \subseteq Nat /\ width \in Nat
      BY RadixAssumption DEF MaxId
    <2> HIDE DEF bytes
    <2>3. bytes \in [1 .. width -> Nat]
      BY <2>1, <2>2
    <2> QED
      BY <2>2, <2>3, IsSequence
  <1>3. \A n \in 1 .. width : bytes[n] = (v \div Power[n - 1]) % Radix
    BY DEF ToBytes
  <1> HIDE DEF bytes
  <1>4. PICK value : SumOf(bytes, value) /\ FromBytes(bytes) = value[Len(bytes)]
    BY <1>2, FromBytesSum
  <1> DEFINE T == {n \in Nat : n <= width => value[n] = v % Power[n]}
  <1>5. 0 \in T
    <2>1. value[0] = 0 /\ Power[0] = 1
      BY <1>4, PowerDef DEF SumOf
    <2>2. v % 1 = 0
      BY <1>1
    <2> QED
      BY <2>1, <2>2
  <1>6. ASSUME NEW n \in Nat, n \in T
        PROVE  n + 1 \in T
    <2>1. CASE n + 1 <= width
      <3>1. Power[n] \in Nat \ {0} /\ Power[n + 1] = Radix * Power[n] /\ Radix \in Nat \ {0}
        BY <2>1, PowerDef, PowerType, RadixAssumption
      <3>2. v % (Radix * Power[n]) = (v % Power[n]) + Power[n] * ((v \div Power[n]) % Radix)
        BY <1>1, <3>1, DivDiv
      <3>3. value[n + 1] = value[n] + bytes[n + 1] * Power[n]
        BY <1>2, <1>4, <2>1 DEF SumOf
      <3>4. value[n] = v % Power[n] /\ bytes[n + 1] = (v \div Power[n]) % Radix
        BY <1>3, <1>6, <2>1
      <3>5. (v \div Power[n]) % Radix \in Int
        <4>1. v \div Power[n] \in Nat
          BY <1>1, <3>1, DivMod
        <4> QED
          BY <3>1, <4>1
      <3>6. Power[n] * ((v \div Power[n]) % Radix) = ((v \div Power[n]) % Radix) * Power[n]
        BY <3>1, <3>5
      <3>7. value[n + 1] = v % Power[n + 1]
        BY <3>1, <3>2, <3>3, <3>4, <3>6
      <3> QED
        BY <3>7
    <2> QED
      BY <2>1
  <1>7. Nat \subseteq T
    <2> HIDE DEF T
    <2> QED
      BY <1>5, <1>6, Induction
  <1>8. v % Power[width] = v
    BY <1>1
  <1>9. FromBytes(bytes) = v
    BY <1>2, <1>4, <1>7, <1>8
  <1> QED
    BY <1>9 DEF bytes

-----------------------------------------------------------------------------
(***************************************************************************)
(* Where things are in a frame.  Holds says which cell of a buffer has     *)
(* what of a frame: what a buffer holds its accessors read, and a buffer   *)
(* with the same cells up to the end of the checksum holds the same.       *)
(***************************************************************************)
LEMMA TakeIs ==
  ASSUME NEW S, NEW bytes \in Seq(S), NEW count \in Nat, count <= Len(bytes)
  PROVE  /\ Take(bytes, count) \in Seq(S) /\ Len(Take(bytes, count)) = count
         /\ \A i \in 1 .. count : Take(bytes, count)[i] = bytes[i]
  BY DEF Take

LEMMA DropIs ==
  ASSUME NEW S, NEW bytes \in Seq(S), NEW offset \in Nat, offset <= Len(bytes)
  PROVE  /\ Drop(bytes, offset) \in Seq(S) /\ Len(Drop(bytes, offset)) = Len(bytes) - offset
         /\ \A i \in 1 .. Len(bytes) - offset : Drop(bytes, offset)[i] = bytes[offset + i]
  <1>1. Len(bytes) \in Nat
    OBVIOUS
  <1>2. \A i \in offset + 1 .. Len(bytes) : bytes[i] \in S
    BY <1>1
  <1> QED
    BY <1>1, <1>2, SubSeqProperties DEF Drop

\* A slice has the cells from its offset on.
LEMMA CellsIs ==
  ASSUME NEW S, NEW bytes \in Seq(S), NEW offset \in Nat, NEW count \in Nat,
         offset + count <= Len(bytes)
  PROVE  Cells(bytes, offset, count) = [i \in 1 .. count |-> bytes[offset + i]]
  <1> DEFINE rest == Drop(bytes, offset)
  <1>1. /\ rest \in Seq(S) /\ Len(rest) = Len(bytes) - offset
        /\ \A i \in 1 .. Len(rest) : rest[i] = bytes[offset + i]
    <2>1. Len(bytes) \in Nat /\ offset <= Len(bytes)
      OBVIOUS
    <2> QED
      BY <2>1, DropIs
  <1>2. count <= Len(rest) /\ Len(rest) \in Nat
    BY <1>1
  <1> HIDE DEF rest
  <1>3. /\ Take(rest, count) \in Seq(S) /\ Len(Take(rest, count)) = count
        /\ \A i \in 1 .. count : Take(rest, count)[i] = rest[i]
    BY <1>1, <1>2, TakeIs
  <1>4. Take(rest, count) = [i \in 1 .. count |-> bytes[offset + i]]
    <2> DEFINE taken == Take(rest, count)
    <2>1. taken \in Seq(S) /\ Len(taken) = count /\ \A i \in 1 .. count : taken[i] = rest[i]
      BY <1>3
    <2>2. \A i \in 1 .. count : rest[i] = bytes[offset + i]
      BY <1>1, <1>2
    <2> HIDE DEF taken
    <2>3. taken = [i \in 1 .. count |-> taken[i]]
      BY <2>1
    <2>4. taken = [i \in 1 .. count |-> bytes[offset + i]]
      BY <2>1, <2>2, <2>3
    <2> QED
      BY <2>4 DEF taken
  <1> QED
    BY <1>4 DEF rest, Cells, available_bytes

\* What Overwrite changes and what it leaves, of n cells.
Overwritten(n, bytes, offset, new, result) ==
  /\ \A i \in 1 .. Len(new) : result[offset + i] = new[i]
  /\ \A i \in 1 .. offset : result[i] = bytes[i]
  /\ \A i \in offset + Len(new) + 1 .. n : result[i] = bytes[i]

LEMMA OverwriteIs ==
  ASSUME NEW n \in Nat, NEW S, NEW bytes \in [1 .. n -> S], NEW offset \in Nat,
         NEW new \in Seq(S), offset + Len(new) <= n
  PROVE  /\ Overwrite(bytes, offset, new) \in [1 .. n -> S]
         /\ Overwritten(n, bytes, offset, new, Overwrite(bytes, offset, new))
  <1>1. DOMAIN bytes = 1 .. n /\ DOMAIN new = 1 .. Len(new) /\ Len(new) \in Nat
    OBVIOUS
  <1> DEFINE cell(i) == IF i - offset \in 1 .. Len(new) THEN new[i - offset] ELSE bytes[i]
  <1>2. Overwrite(bytes, offset, new) = [i \in 1 .. n |-> cell(i)]
    BY <1>1 DEF Overwrite
  <1>3. \A i \in 1 .. n : cell(i) \in S
    OBVIOUS
  <1>4. Overwrite(bytes, offset, new) \in [1 .. n -> S]
    <2> HIDE DEF cell
    <2> QED
      BY <1>2, <1>3
  <1>5. \A i \in 1 .. Len(new) : offset + i \in 1 .. n /\ cell(offset + i) = new[i]
    BY <1>1
  <1>6. \A i \in 1 .. n : i <= offset \/ offset + Len(new) < i => cell(i) = bytes[i]
    BY <1>1
  <1> HIDE DEF cell
  <1> QED
    BY <1>1, <1>2, <1>4, <1>5, <1>6 DEF Overwritten

\* Slices of equal cells are equal.
LEMMA SameCells ==
  ASSUME NEW S, NEW r \in Seq(S), NEW s \in Seq(S), NEW offset \in Nat, NEW count \in Nat,
         offset + count <= Len(r), offset + count <= Len(s),
         \A i \in offset + 1 .. offset + count : r[i] = s[i]
  PROVE  Cells(r, offset, count) = Cells(s, offset, count)
  <1>1. /\ Cells(r, offset, count) = [i \in 1 .. count |-> r[offset + i]]
        /\ Cells(s, offset, count) = [i \in 1 .. count |-> s[offset + i]]
    BY CellsIs
  <1>2. \A i \in 1 .. count : r[offset + i] = s[offset + i]
    OBVIOUS
  <1> QED
    BY <1>1, <1>2

Byte == 0 .. 255

\* Message ids of MAVLink 2 have three bytes.
LargestId == Power[3] - 1

SysWidth(r) == IF has_32bit_sysid(r, "V2") THEN 4 ELSE 1

\* The sizes of the buffers.
LEMMA SizesAre ==
  /\ FRAME_SIZE["V1"] = MAX_PAYLOAD_LEN + 8
  /\ FRAME_SIZE["V2"] = MAX_PAYLOAD_LEN + 15 + SIGNATURE_SIZE
  /\ MAX_PAYLOAD_LEN \in 1 .. 255
  /\ SIGNATURE_SIZE = 1 + SIGNATURE_TIMESTAMP_SIZE + SIGNATURE_VALUE_SIZE
  /\ SIGNATURE_TIMESTAMP_SIZE \in 1 .. 8 /\ SIGNATURE_VALUE_SIZE \in 1 .. 8
  /\ SIGNATURE_SIZE \in Nat /\ MaxId \in 3 .. 255 /\ MaxId = Radix - 1
  <1>1. MAX_PAYLOAD_LEN \in 1 .. 255
    BY PayloadAssumption
  <1>2. /\ SIGNATURE_SIZE = 1 + SIGNATURE_TIMESTAMP_SIZE + SIGNATURE_VALUE_SIZE
        /\ SIGNATURE_TIMESTAMP_SIZE \in 1 .. 8 /\ SIGNATURE_VALUE_SIZE \in 1 .. 8
        /\ SIGNATURE_SIZE \in Nat
    BY SignatureAssumption DEF SIGNATURE_SIZE
  <1>3. MaxId \in 3 .. 255 /\ MaxId = Radix - 1
    BY RadixAssumption DEF MaxId
  <1>4. FRAME_SIZE["V1"] = MAX_PAYLOAD_LEN + 8
    BY <1>1 DEF FRAME_SIZE, STX_SIZE, MIN_HEADER_SIZE, CHECKSUM_SIZE
  <1>5. FRAME_SIZE["V2"] = MAX_PAYLOAD_LEN + 15 + SIGNATURE_SIZE
    BY <1>1, <1>2 DEF FRAME_SIZE, STX_SIZE, MIN_HEADER_SIZE, CHECKSUM_SIZE,
                      SYSID32_EXTRA_HEADER_SIZE
  <1> QED
    BY <1>1, <1>2, <1>3, <1>4, <1>5

\* The places that the flags decide.
LEMMA Offsets ==
  ASSUME NEW r, r[3] \in Nat
  PROVE  /\ payload_offset(r, "V1") = 6 /\ header_size(r, "V1") = 5
         /\ payload_offset(r, "V2") = 9 + SysWidth(r) /\ header_size(r, "V2") = 8 + SysWidth(r)
         /\ SysWidth(r) \in {1, 4}
         /\ SysWidth(r) = 4 <=> (r[3] \div 2) % 2 = 1
         /\ ~is_signed(r, "V1")
         /\ is_signed(r, "V2") <=> r[3] % 2 = 1
  <1>1. /\ incompatibility_flags(r, "V1") = 0
        /\ incompatibility_flags(r, "V2") = r[3]
    BY DEF incompatibility_flags, Cell
  <1>2. ~has_32bit_sysid(r, "V1") /\ ~is_signed(r, "V1")
    BY <1>1 DEF has_32bit_sysid, is_signed, HasFlag, IFLAG_SYSID32, IFLAG_SIGNED
  <1>3. has_32bit_sysid(r, "V2") <=> (r[3] \div 2) % 2 = 1
    BY <1>1 DEF has_32bit_sysid, HasFlag, IFLAG_SYSID32
  <1>4. is_signed(r, "V2") <=> r[3] % 2 = 1
    <2>1. r[3] \div 1 = r[3]
      OBVIOUS
    <2> QED
      BY <1>1, <2>1 DEF is_signed, HasFlag, IFLAG_SIGNED
  <1>5. header_size(r, "V1") = 5
    BY <1>2 DEF header_size, MIN_HEADER_SIZE
  <1>6. SysWidth(r) \in {1, 4} /\ (SysWidth(r) = 4 <=> has_32bit_sysid(r, "V2"))
    BY DEF SysWidth
  <1>7. header_size(r, "V2") = 8 + SysWidth(r)
    BY DEF SysWidth, header_size, MIN_HEADER_SIZE, SYSID32_EXTRA_HEADER_SIZE
  <1> QED
    BY <1>2, <1>3, <1>4, <1>5, <1>6, <1>7 DEF payload_offset, STX_SIZE

\* Where the payload begins and ends, and what is in the cells of a frame.
PayloadAt(r, v) == IF v = "V1" THEN 6 ELSE 9 + SysWidth(r)
EndAt(r, v) == PayloadAt(r, v) + r[2]

HoldsHeader(r, v, hdr, id) ==
  /\ v = "V1" => r[3] = hdr.sequence /\ r[4] = hdr.system_id /\ r[5] = hdr.component_id /\ r[6] = id
  /\ v = "V2" => /\ r[5] = hdr.sequence /\ r[6 + SysWidth(r)] = hdr.component_id
                 /\ hdr.system_id \in 0 .. Power[SysWidth(r)] - 1
                 /\ \A i \in 1 .. SysWidth(r) :
                      r[5 + i] = ToBytes(hdr.system_id, SysWidth(r))[i]
                 /\ id \in 0 .. LargestId
                 /\ \A i \in 1 .. 3 : r[6 + SysWidth(r) + i] = ToBytes(id, 3)[i]

HoldsPayload(r, v, bytes) ==
  /\ bytes \in Seq(Byte) /\ Len(bytes) <= MAX_PAYLOAD_LEN
  /\ r[2] = Len(bytes)
  /\ \A i \in 1 .. Len(bytes) : r[PayloadAt(r, v) + i] = bytes[i]

HoldsChecksum(r, v, crc_extra) ==
  r[EndAt(r, v) + 1] + 256 * r[EndAt(r, v) + 2]
    = calculate_crc(Cells(r, 1, EndAt(r, v) - 1), crc_extra)

Holds(r, v, hdr, id, bytes, crc_extra) ==
  HoldsHeader(r, v, hdr, id) /\ HoldsPayload(r, v, bytes) /\ HoldsChecksum(r, v, crc_extra)

LEMMA ByteIs == \A b \in Byte : b \in Nat /\ b <= 255
  BY DEF Byte

\* A buffer has room for every frame of its version.
LEMMA BufferIs ==
  ASSUME NEW v \in Versions, NEW r \in Buffer(v)
  PROVE  /\ FRAME_SIZE[v] \in Nat /\ r \in [1 .. FRAME_SIZE[v] -> Byte]
         /\ r \in Seq(Byte) /\ Len(r) = FRAME_SIZE[v]
         /\ \A i \in 1 .. FRAME_SIZE[v] : r[i] \in Byte /\ r[i] \in Nat
         /\ r[3] \in Nat
         /\ SysWidth(r) \in {1, 4} /\ PayloadAt(r, v) \in {6, 10, 13}
         /\ payload_offset(r, v) = PayloadAt(r, v)
         /\ header_size(r, v) = PayloadAt(r, v) - 1
         /\ PayloadAt(r, v) + MAX_PAYLOAD_LEN + 2 <= FRAME_SIZE[v]
         /\ v = "V2" => PayloadAt(r, v) + MAX_PAYLOAD_LEN + 2 + SIGNATURE_SIZE <= FRAME_SIZE[v]
         /\ FRAME_SIZE[v] >= 9
  <1>1. v = "V1" \/ v = "V2"
    BY DEF Versions
  <1>2. FRAME_SIZE[v] \in Nat /\ FRAME_SIZE[v] >= 9
    BY <1>1, SizesAre
  <1>3. r \in [1 .. FRAME_SIZE[v] -> Byte]
    BY DEF Buffer, Byte
  <1>4. /\ r \in Seq(Byte) /\ Len(r) = FRAME_SIZE[v]
        /\ \A i \in 1 .. FRAME_SIZE[v] : r[i] \in Byte
    BY <1>2, <1>3, IsSequence
  <1>4a. \A i \in 1 .. FRAME_SIZE[v] : r[i] \in Nat
    BY <1>4, ByteIs
  <1>5. r[3] \in Nat
    <2>1. 3 \in 1 .. FRAME_SIZE[v]
      BY <1>2
    <2> QED
      BY <1>4a, <2>1
  <1>6. /\ SysWidth(r) \in {1, 4} /\ PayloadAt(r, v) \in {6, 10, 13}
        /\ payload_offset(r, v) = PayloadAt(r, v)
        /\ header_size(r, v) = PayloadAt(r, v) - 1
    BY <1>1, <1>5, Offsets DEF PayloadAt
  <1>7. /\ PayloadAt(r, v) + MAX_PAYLOAD_LEN + 2 <= FRAME_SIZE[v]
        /\ v = "V2" => PayloadAt(r, v) + MAX_PAYLOAD_LEN + 2 + SIGNATURE_SIZE <= FRAME_SIZE[v]
    BY <1>1, <1>6, SizesAre DEF PayloadAt
  <1> QED
    BY <1>2, <1>3, <1>4, <1>4a, <1>5, <1>6, <1>7

\* A payload, the checksum and a signature lie within the buffer.
LEMMA EndIs ==
  ASSUME NEW v \in Versions, NEW r \in Buffer(v), NEW bytes, HoldsPayload(r, v, bytes)
  PROVE  /\ EndAt(r, v) \in Nat /\ EndAt(r, v) >= 6 /\ EndAt(r, v) + 2 <= FRAME_SIZE[v]
         /\ EndAt(r, v) = PayloadAt(r, v) + Len(bytes)
         /\ checksum_offset(r, v) = EndAt(r, v)
         /\ v = "V2" => EndAt(r, v) + 2 + SIGNATURE_SIZE <= FRAME_SIZE[v]
  <1>1. Len(bytes) \in Nat /\ Len(bytes) <= MAX_PAYLOAD_LEN /\ r[2] = Len(bytes)
    BY DEF HoldsPayload
  <1>2. EndAt(r, v) = PayloadAt(r, v) + Len(bytes) /\ PayloadAt(r, v) \in {6, 10, 13}
    BY <1>1, BufferIs DEF EndAt
  <1>3. checksum_offset(r, v) = EndAt(r, v)
    BY <1>1, <1>2, BufferIs DEF checksum_offset, payload_length, Cell, EndAt
  <1>4. MAX_PAYLOAD_LEN \in Nat /\ SIGNATURE_SIZE \in Nat
    BY SizesAre
  <1>5. /\ FRAME_SIZE[v] \in Nat
        /\ PayloadAt(r, v) + MAX_PAYLOAD_LEN + 2 <= FRAME_SIZE[v]
        /\ v = "V2" => PayloadAt(r, v) + MAX_PAYLOAD_LEN + 2 + SIGNATURE_SIZE <= FRAME_SIZE[v]
    BY BufferIs, Zenon
  <1> QED
    BY <1>1, <1>2, <1>3, <1>4, <1>5

LEMMA HeaderReads ==
  ASSUME NEW v \in Versions, NEW r \in Buffer(v), NEW hdr, NEW id, HoldsHeader(r, v, hdr, id)
  PROVE  /\ message_id(r, v) = id
         /\ system_id(r, v) = hdr.system_id
         /\ component_id(r, v) = hdr.component_id
         /\ sequence(r, v) = hdr.sequence
  <1>1. CASE v = "V1"
    BY <1>1 DEF HoldsHeader, message_id, system_id, component_id, sequence, Cell
  <1>2. CASE v = "V2"
    <2> DEFINE w == SysWidth(r)
    <2>1. w \in {1, 4} /\ FRAME_SIZE[v] >= 15 /\ Len(r) = FRAME_SIZE[v] /\ r \in Seq(Byte)
          /\ FRAME_SIZE[v] \in Nat
      <3>1. FRAME_SIZE["V2"] >= 15
        BY SizesAre
      <3> QED
        BY <1>2, <3>1, BufferIs
    <2>2. /\ r[5] = hdr.sequence /\ r[6 + w] = hdr.component_id
          /\ hdr.system_id \in 0 .. Power[w] - 1
          /\ \A i \in 1 .. w : r[5 + i] = ToBytes(hdr.system_id, w)[i]
          /\ id \in 0 .. Power[3] - 1
          /\ \A i \in 1 .. 3 : r[6 + w + i] = ToBytes(id, 3)[i]
      BY <1>2 DEF HoldsHeader, LargestId
    <2>3. sequence(r, v) = hdr.sequence
      BY <1>2, <2>2 DEF sequence, Cell
    <2>4. component_id(r, v) = hdr.component_id
      <3>1. component_id(r, v) = r[6 + w]
        BY <1>2 DEF component_id, Cell, SysWidth
      <3> QED
        BY <2>2, <3>1
    <2>5. system_id(r, v) = hdr.system_id
      <3>1. system_id(r, v) = FromBytes(Cells(r, 5, w))
        BY <1>2 DEF system_id, SysWidth
      <3>2. Cells(r, 5, w) = [i \in 1 .. w |-> r[5 + i]]
        <4>1. 5 \in Nat /\ w \in Nat /\ 5 + w <= Len(r)
          BY <2>1
        <4> HIDE DEF w
        <4> QED
          BY <2>1, <4>1, CellsIs
      <3>3. Cells(r, 5, w) = ToBytes(hdr.system_id, w)
        <4>1. ToBytes(hdr.system_id, w) = [i \in 1 .. w |-> ToBytes(hdr.system_id, w)[i]]
          BY DEF ToBytes
        <4> HIDE DEF w
        <4> QED
          BY <2>2, <3>2, <4>1
      <3>4. w \in 0 .. 8
        BY <2>1
      <3> QED
        BY <2>2, <3>1, <3>3, <3>4, ToFromBytes
    <2>6. message_id(r, v) = id
      <3>1. message_id(r, v) = FromBytes(Cells(r, 6 + w, 3))
        BY <1>2 DEF message_id, SysWidth
      <3>2. Cells(r, 6 + w, 3) = [i \in 1 .. 3 |-> r[6 + w + i]]
        <4>1. 3 \in Nat /\ 6 + w \in Nat /\ 6 + w + 3 <= Len(r)
          BY <2>1
        <4> HIDE DEF w
        <4> QED
          BY <2>1, <4>1, CellsIs
      <3>3. Cells(r, 6 + w, 3) = ToBytes(id, 3)
        <4>1. ToBytes(id, 3) = [i \in 1 .. 3 |-> ToBytes(id, 3)[i]]
          BY DEF ToBytes
        <4> HIDE DEF w
        <4> QED
          BY <2>2, <3>2, <4>1
      <3>4. 3 \in 0 .. 8
        OBVIOUS
      <3> QED
        BY <2>2, <3>1, <3>3, <3>4, ToFromBytes
    <2> QED
      BY <2>3, <2>4, <2>5, <2>6
  <1> QED
    BY <1>1, <1>2 DEF Versions

LEMMA PayloadReads ==
  ASSUME NEW v \in Versions, NEW r \in Buffer(v), NEW bytes, HoldsPayload(r, v, bytes)
  PROVE  payload(r, v) = bytes
  <1> DEFINE at == PayloadAt(r, v)
  <1>1. payload(r, v) = Cells(r, at, Len(bytes))
    BY BufferIs DEF payload, payload_length, Cell, HoldsPayload
  <1>2. /\ at \in Nat /\ Len(bytes) \in Nat /\ at + Len(bytes) <= Len(r) /\ r \in Seq(Byte)
        /\ bytes \in Seq(Byte)
    BY BufferIs, EndIs DEF HoldsPayload
  <1> HIDE DEF at
  <1>3. Cells(r, at, Len(bytes)) = [i \in 1 .. Len(bytes) |-> r[at + i]]
    <2> DEFINE n == Len(bytes)
    <2>1. at \in Nat /\ n \in Nat /\ at + n <= Len(r) /\ r \in Seq(Byte)
      BY <1>2
    <2> HIDE DEF n
    <2>2. Cells(r, at, n) = [i \in 1 .. n |-> r[at + i]]
      BY <2>1, CellsIs
    <2> QED
      BY <2>2 DEF n
  <1>4. \A i \in 1 .. Len(bytes) : r[at + i] = bytes[i]
    BY DEF HoldsPayload, at
  <1>5. bytes = [i \in 1 .. Len(bytes) |-> bytes[i]]
    BY <1>2
  <1> QED
    BY <1>1, <1>3, <1>4, <1>5

\* What a buffer holds, its accessors read.
LEMMA HoldsReads ==
  ASSUME NEW v \in Versions, NEW r \in Buffer(v), NEW hdr, NEW id, NEW bytes, NEW crc_extra,
         Holds(r, v, hdr, id, bytes, crc_extra)
  PROVE  Reads(r, v, hdr, id, bytes, crc_extra)
  <1>1. HoldsHeader(r, v, hdr, id) /\ HoldsPayload(r, v, bytes) /\ HoldsChecksum(r, v, crc_extra)
    BY DEF Holds
  <1>2. EndAt(r, v) \in Nat /\ checksum_offset(r, v) = EndAt(r, v)
    BY <1>1, EndIs
  <1>3. checksum(r, v) = r[EndAt(r, v) + 1] + 256 * r[EndAt(r, v) + 2]
    BY <1>2 DEF checksum, Cell
  <1>4. has_valid_crc(r, v, crc_extra)
    BY <1>1, <1>2, <1>3 DEF has_valid_crc, HoldsChecksum, STX_SIZE
  <1> QED
    BY <1>1, <1>4, HeaderReads, PayloadReads DEF Reads

\* What a frame holds lies before the end of its checksum.
LEMMA HoldsMoves ==
  ASSUME NEW v \in Versions, NEW r \in Buffer(v), NEW s \in Buffer(v),
         NEW hdr, NEW id, NEW bytes, NEW crc_extra, Holds(r, v, hdr, id, bytes, crc_extra),
         \A i \in 1 .. EndAt(r, v) + 2 : s[i] = r[i]
  PROVE  /\ Holds(s, v, hdr, id, bytes, crc_extra)
         /\ s[3] = r[3] /\ EndAt(s, v) = EndAt(r, v) /\ PayloadAt(s, v) = PayloadAt(r, v)
  <1> DEFINE end == EndAt(r, v)
             at == PayloadAt(r, v)
  <1>1. HoldsHeader(r, v, hdr, id) /\ HoldsPayload(r, v, bytes) /\ HoldsChecksum(r, v, crc_extra)
    BY DEF Holds
  <1>2. /\ end \in Nat /\ end >= 6 /\ end + 2 <= FRAME_SIZE[v] /\ end = at + Len(bytes)
        /\ at \in {6, 10, 13} /\ Len(bytes) \in Nat /\ FRAME_SIZE[v] \in Nat
    BY <1>1, EndIs, BufferIs DEF HoldsPayload
  <1>2a. \A i \in 1 .. end + 2 : s[i] = r[i]
    OBVIOUS
  <1>3. s[2] = r[2] /\ s[3] = r[3]
    BY <1>2
  <1>4. SysWidth(s) = SysWidth(r)
    <2>1. r[3] \in Byte /\ 3 \in 1 .. FRAME_SIZE[v]
      BY <1>2, BufferIs
    <2>2. r[3] \in Nat /\ s[3] \in Nat
      BY <1>3, <2>1 DEF Byte
    <2> QED
      BY <1>3, <2>2, Offsets
  <1>5. PayloadAt(s, v) = at /\ EndAt(s, v) = end
    BY <1>3, <1>4 DEF PayloadAt, EndAt
  <1>6. HoldsHeader(s, v, hdr, id)
    <2>1. CASE v = "V1"
      BY <1>1, <1>2, <2>1 DEF HoldsHeader
    <2>2. CASE v = "V2"
      <3>1. SysWidth(r) \in {1, 4} /\ at = 9 + SysWidth(r)
        BY <2>2, BufferIs DEF PayloadAt
      <3>2. \A i \in 1 .. 9 + SysWidth(r) : s[i] = r[i]
        BY <1>2, <3>1
      <3> HIDE DEF end, at
      <3>3. /\ s[5] = r[5] /\ s[6 + SysWidth(r)] = r[6 + SysWidth(r)]
            /\ \A i \in 1 .. SysWidth(r) : s[5 + i] = r[5 + i]
            /\ \A i \in 1 .. 3 : s[6 + SysWidth(r) + i] = r[6 + SysWidth(r) + i]
        BY <3>1, <3>2
      <3> QED
        BY <1>1, <1>4, <2>2, <3>3 DEF HoldsHeader
    <2> QED
      BY <2>1, <2>2 DEF Versions
  <1>7. HoldsPayload(s, v, bytes)
    <2>1. \A i \in 1 .. Len(bytes) : at + i \in 1 .. end + 2
      BY <1>2
    <2>2. \A i \in 1 .. Len(bytes) : s[at + i] = r[at + i]
      BY <2>1
    <2> QED
      BY <1>1, <1>3, <1>5, <2>2 DEF HoldsPayload
  <1>8. HoldsChecksum(s, v, crc_extra)
    <2>1. s[end + 1] = r[end + 1] /\ s[end + 2] = r[end + 2]
      BY <1>2
    <2>2. Cells(s, 1, end - 1) = Cells(r, 1, end - 1)
      <3>1. /\ s \in Seq(Byte) /\ r \in Seq(Byte) /\ 1 \in Nat /\ end - 1 \in Nat
            /\ 1 + (end - 1) <= Len(s) /\ 1 + (end - 1) <= Len(r)
            /\ \A i \in 1 + 1 .. 1 + (end - 1) : s[i] = r[i]
        <4>1. /\ s \in Seq(Byte) /\ r \in Seq(Byte)
              /\ Len(s) = FRAME_SIZE[v] /\ Len(r) = FRAME_SIZE[v]
          BY BufferIs, Zenon
        <4> HIDE DEF end, at
        <4> QED
          <5>1. end - 1 \in Nat /\ 1 \in Nat /\ 1 + (end - 1) = end /\ end <= FRAME_SIZE[v]
            BY <1>2
          <5>2. \A i \in 1 + 1 .. 1 + (end - 1) : s[i] = r[i]
            BY <1>2, <1>2a
          <5> QED
            BY <4>1, <5>1, <5>2
      <3> HIDE DEF end
      <3> QED
        BY <3>1, SameCells
    <2> QED
      BY <1>1, <1>5, <2>1, <2>2 DEF HoldsChecksum
  <1> QED
    BY <1>3, <1>5, <1>6, <1>7, <1>8 DEF Holds

-----------------------------------------------------------------------------
(***************************************************************************)
(* Writing.  The flags are set before the payload, which lies where they   *)
(* say, and stay as they are; the header does not reach the payload; the   *)
(* checksum comes last, behind all it covers.                              *)
(***************************************************************************)
LEMMA PowerOfOne == Power[1] - 1 = MaxId /\ Power[1] \in Nat \ {0} /\ Power[4] \in Nat \ {0}
  <1>1. Power[1] = Radix * Power[0]
    <2>1. 1 \in 1 .. 8
      OBVIOUS
    <2>2. Power[1] = Radix * Power[1 - 1]
      BY <2>1, PowerDef
    <2> QED
      BY <2>2
  <1> QED
    BY <1>1, PowerDef, PowerType, RadixAssumption DEF MaxId

\* The system id fits in the width the flags say.
LEMMA SetFlagsWrites ==
  ASSUME NEW r \in Buffer("V2"), NEW hdr \in Header, NEW signing \in BOOLEAN
  PROVE  LET s == SetFlags(r, hdr, signing)
         IN  /\ s \in Buffer("V2")
             /\ hdr.system_id \in 0 .. Power[SysWidth(s)] - 1
             /\ signing => is_signed(s, "V2")
  <1> DEFINE s == SetFlags(r, hdr, signing)
             n == FRAME_SIZE["V2"]
  <1>1. /\ r \in [1 .. n -> Byte] /\ n \in Nat /\ n >= 9 /\ \A i \in 1 .. n : r[i] \in Byte
        /\ "V2" \in Versions
    <2>1. "V2" \in Versions
      BY DEF Versions
    <2> QED
      BY <2>1, BufferIs
  <1>2. hdr.system_id \in 0 .. Power[4] - 1
    BY DEF Header
  <1>3. ASSUME NEW flags \in 0 .. 3
        PROVE  Overwrite(r, 2, <<flags>>) \in Buffer("V2") /\ Overwrite(r, 2, <<flags>>)[3] = flags
    <2> DEFINE new == <<flags>>
    <2>1. new \in Seq(Byte) /\ Len(new) = 1 /\ new[1] = flags /\ 2 \in Nat
      BY DEF Byte
    <2>2. 2 + Len(new) <= n /\ 1 \in 1 .. Len(new)
      BY <1>1, <2>1
    <2> HIDE DEF new, n
    <2>3. /\ Overwrite(r, 2, new) \in [1 .. n -> Byte]
          /\ Overwritten(n, r, 2, new, Overwrite(r, 2, new))
      BY <1>1, <2>1, <2>2, OverwriteIs, Zenon
    <2>4. Overwrite(r, 2, new)[2 + 1] = new[1]
      BY <2>2, <2>3 DEF Overwritten
    <2>5. Overwrite(r, 2, new)[3] = flags
      <3>1. 2 + 1 = 3
        OBVIOUS
      <3> QED
        BY <2>1, <2>4, <3>1, Zenon
    <2>6. Overwrite(r, 2, new) \in Buffer("V2")
      BY <2>3 DEF Buffer, Byte, n
    <2> QED
      BY <2>5, <2>6 DEF new
  <1>4. CASE signing
    <2> DEFINE flags == (IF hdr.system_id > MaxId THEN 2 ELSE 0) + 1
    <2>1. flags \in 0 .. 3 /\ flags % 2 = 1 /\ (hdr.system_id > MaxId => (flags \div 2) % 2 = 1)
      OBVIOUS
    <2>2. s = Overwrite(r, 2, <<flags>>)
      BY <1>4 DEF SetFlags, IFLAG_SYSID32, IFLAG_SIGNED
    <2> HIDE DEF flags
    <2>3. s \in Buffer("V2") /\ s[3] = flags
      BY <1>3, <2>1, <2>2
    <2> HIDE DEF s
    <2>4. s[3] \in Nat
      BY <2>1, <2>3
    <2>5. is_signed(s, "V2") /\ (hdr.system_id > MaxId => SysWidth(s) = 4) /\ SysWidth(s) \in {1, 4}
      BY <2>1, <2>3, <2>4, Offsets
    <2>6. hdr.system_id \in 0 .. Power[SysWidth(s)] - 1
      BY <1>2, <2>5, PowerOfOne, SizesAre
    <2> QED
      BY <2>3, <2>5, <2>6 DEF s
  <1>5. CASE ~signing /\ hdr.system_id > MaxId
    <2>1. s = Overwrite(r, 2, <<2>>)
      BY <1>5 DEF SetFlags, IFLAG_SYSID32, IFLAG_SIGNED
    <2>2. s \in Buffer("V2") /\ s[3] = 2
      BY <1>3, <2>1
    <2> HIDE DEF s
    <2>3. SysWidth(s) = 4
      BY <2>2, Offsets
    <2> QED
      BY <1>2, <1>5, <2>2, <2>3 DEF s
  <1>6. CASE ~signing /\ ~(hdr.system_id > MaxId)
    <2>1. s = r
      BY <1>6 DEF SetFlags
    <2>2. s[3] \in Nat
      <3>1. 3 \in 1 .. n
        BY <1>1
      <3>2. r[3] \in Byte
        BY <1>1, <3>1
      <3> HIDE DEF s
      <3> QED
        BY <2>1, <3>2 DEF Byte
    <2>3. SysWidth(r) \in {1, 4}
      BY <2>1, <2>2, Offsets
    <2>4. hdr.system_id \in 0 .. Power[SysWidth(r)] - 1
      BY <1>2, <1>6, <2>3, PowerOfOne, SizesAre
    <2> QED
      BY <1>6, <2>1, <2>4
  <1> QED
    BY <1>4, <1>5, <1>6

\* One sequence after another.
Joined(a, b, both) ==
  /\ Len(both) = Len(a) + Len(b)
  /\ \A i \in 1 .. Len(a) : both[i] = a[i]
  /\ \A i \in 1 .. Len(b) : both[Len(a) + i] = b[i]

LEMMA JoinedIs ==
  ASSUME NEW S, NEW a \in Seq(S), NEW b \in Seq(S)
  PROVE  a \o b \in Seq(S) /\ Joined(a, b, a \o b)
  BY DEF Joined

HeadParts(all, w, l, f, q, sys, c, id) ==
  /\ Len(all) = 9 + w
  /\ all[2] = l /\ all[3] = f /\ all[5] = q
  /\ \A i \in 1 .. w : all[5 + i] = sys[i]
  /\ all[6 + w] = c
  /\ \A i \in 1 .. 3 : all[6 + w + i] = id[i]

\* The cells of a MAVLink 2 header.
LEMMA LongHeader ==
  ASSUME NEW S, NEW m \in S, NEW l \in S, NEW f \in S, NEW z \in S, NEW q \in S, NEW c \in S,
         NEW w \in Nat, NEW sys \in Seq(S), NEW id \in Seq(S), Len(sys) = w, Len(id) = 3
  PROVE  /\ <<m>> \o (<<l, f, z, q>> \o sys \o <<c>> \o id) \in Seq(S)
         /\ HeadParts(<<m>> \o (<<l, f, z, q>> \o sys \o <<c>> \o id), w, l, f, q, sys, c, id)
  <1> DEFINE first == <<l, f, z, q>>
             one == first \o sys
             two == one \o <<c>>
             three == two \o id
             all == <<m>> \o three
  <1>1. first \in Seq(S) /\ Len(first) = 4 /\ first[1] = l /\ first[2] = f /\ first[4] = q
    OBVIOUS
  <1> HIDE DEF first
  <1>2. /\ one \in Seq(S) /\ Len(one) = 4 + w
        /\ one[1] = l /\ one[2] = f /\ one[4] = q
        /\ \A i \in 1 .. w : one[4 + i] = sys[i]
    <2>1. first \o sys \in Seq(S) /\ Joined(first, sys, first \o sys)
      BY <1>1, JoinedIs, Zenon
    <2>2. 1 \in 1 .. 4 /\ 2 \in 1 .. 4 /\ 4 \in 1 .. 4
      OBVIOUS
    <2> HIDE DEF one
    <2>3. one = first \o sys
      BY DEF one
    <2> QED
      BY <1>1, <2>1, <2>2, <2>3 DEF Joined
  <1> HIDE DEF one
  <1>3. /\ two \in Seq(S) /\ Len(two) = 5 + w
        /\ \A i \in 1 .. 4 + w : two[i] = one[i]
        /\ two[5 + w] = c
    BY <1>2
  <1> HIDE DEF two
  <1>4. /\ three \in Seq(S) /\ Len(three) = 8 + w
        /\ \A i \in 1 .. 5 + w : three[i] = two[i]
        /\ \A i \in 1 .. 3 : three[5 + w + i] = id[i]
    <2>1. two \o id \in Seq(S) /\ Joined(two, id, two \o id)
      BY <1>3, JoinedIs, Zenon
    <2> HIDE DEF three
    <2>2. three = two \o id
      BY DEF three
    <2> QED
      BY <1>3, <2>1, <2>2 DEF Joined
  <1> HIDE DEF three
  <1>5. /\ all \in Seq(S) /\ Len(all) = 9 + w
        /\ \A i \in 1 .. 8 + w : all[1 + i] = three[i]
    BY <1>4
  <1> HIDE DEF all
  <1>6. all[2] = l /\ all[3] = f /\ all[5] = q
    <2>1. /\ 1 \in 1 .. 4 + w /\ 2 \in 1 .. 4 + w /\ 4 \in 1 .. 4 + w
          /\ 1 \in 1 .. 5 + w /\ 2 \in 1 .. 5 + w /\ 4 \in 1 .. 5 + w
          /\ 1 \in 1 .. 8 + w /\ 2 \in 1 .. 8 + w /\ 4 \in 1 .. 8 + w
      OBVIOUS
    <2>2. all[1 + 1] = l /\ all[1 + 2] = f /\ all[1 + 4] = q
      BY <1>2, <1>3, <1>4, <1>5, <2>1
    <2> QED
      BY <2>2
  <1>7. ASSUME NEW i \in 1 .. w
        PROVE  all[5 + i] = sys[i]
    <2>1. /\ 4 + i \in 1 .. 4 + w /\ 4 + i \in 1 .. 5 + w /\ 4 + i \in 1 .. 8 + w
          /\ 1 + (4 + i) = 5 + i
      OBVIOUS
    <2>2. all[5 + i] = three[4 + i] /\ three[4 + i] = two[4 + i] /\ two[4 + i] = one[4 + i]
      BY <1>3, <1>4, <1>5, <2>1
    <2> QED
      BY <1>2, <2>2
  <1>8. all[6 + w] = c
    <2>1. 5 + w \in 1 .. 5 + w /\ 5 + w \in 1 .. 8 + w /\ 1 + (5 + w) = 6 + w
      OBVIOUS
    <2> QED
      BY <1>3, <1>4, <1>5, <2>1
  <1>9. ASSUME NEW i \in 1 .. 3
        PROVE  all[6 + w + i] = id[i]
    <2>1. 5 + w + i \in 1 .. 8 + w /\ 1 + (5 + w + i) = 6 + w + i
      OBVIOUS
    <2> QED
      BY <1>4, <1>5, <2>1
  <1> QED
    BY <1>5, <1>6, <1>7, <1>8, <1>9 DEF HeadParts, all, three, two, one, first

\* A frame of this version has room for the header and the id.
Fits(v, r, hdr, id) ==
  /\ v = "V1" => hdr.system_id \in 0 .. MaxId /\ id \in 0 .. MaxId
  /\ v = "V2" => hdr.system_id \in 0 .. Power[SysWidth(r)] - 1 /\ id \in 0 .. LargestId

HeadBytes(r, v, hdr, id, length) == <<STX[v]>> \o HeaderBytes(r, v, hdr, id, length)

HeadIs(head, v, r, hdr, id, length) ==
  /\ Len(head) = PayloadAt(r, v) /\ head[2] = length
  /\ v = "V1" => /\ head[3] = hdr.sequence /\ head[4] = hdr.system_id
                 /\ head[5] = hdr.component_id /\ head[6] = id
  /\ v = "V2" => /\ head[3] = r[3] /\ head[5] = hdr.sequence
                 /\ \A i \in 1 .. SysWidth(r) :
                      head[5 + i] = ToBytes(hdr.system_id, SysWidth(r))[i]
                 /\ head[6 + SysWidth(r)] = hdr.component_id
                 /\ \A i \in 1 .. 3 : head[6 + SysWidth(r) + i] = ToBytes(id, 3)[i]

\* The bytes of a header.
LEMMA HeaderIs ==
  ASSUME NEW v \in Versions, NEW r \in Buffer(v), NEW hdr \in Header, NEW id,
         Fits(v, r, hdr, id), NEW length \in 0 .. MAX_PAYLOAD_LEN
  PROVE  /\ HeadBytes(r, v, hdr, id, length) \in Seq(Byte)
         /\ HeadIs(HeadBytes(r, v, hdr, id, length), v, r, hdr, id, length)
  <1>1. /\ hdr.sequence \in Byte /\ hdr.component_id \in Byte /\ length \in Byte
        /\ 0 .. MaxId \subseteq Byte
    BY SizesAre DEF Header, Byte
  <1>2. CASE v = "V1"
    <2>1. hdr.system_id \in Byte /\ id \in Byte /\ 254 \in Byte
      BY <1>1, <1>2 DEF Fits, Byte
    <2> DEFINE rest == <<length, hdr.sequence, hdr.system_id, hdr.component_id, id>>
               head == <<254>> \o rest
    <2>2. HeadBytes(r, v, hdr, id, length) = head
      BY <1>2 DEF HeadBytes, HeaderBytes, STX
    <2>3. /\ rest \in Seq(Byte) /\ Len(rest) = 5 /\ rest[1] = length /\ rest[2] = hdr.sequence
          /\ rest[3] = hdr.system_id /\ rest[4] = hdr.component_id /\ rest[5] = id
      BY <1>1, <2>1
    <2> HIDE DEF rest
    <2>4. head \in Seq(Byte) /\ Len(head) = 6 /\ \A i \in 1 .. 5 : head[1 + i] = rest[i]
      <3> DEFINE mark == <<254>>
      <3>1. mark \in Seq(Byte) /\ Len(mark) = 1
        BY <2>1
      <3> HIDE DEF mark
      <3>2. mark \o rest \in Seq(Byte) /\ Joined(mark, rest, mark \o rest)
        BY <2>3, <3>1, JoinedIs, Zenon
      <3>3. head = mark \o rest
        BY DEF mark
      <3> HIDE DEF head
      <3> QED
        <4>1. Len(head) = 1 + 5 /\ \A i \in 1 .. 5 : head[1 + i] = rest[i]
          BY <2>3, <3>1, <3>2, <3>3 DEF Joined
        <4> QED
          BY <3>2, <3>3, <4>1
    <2> HIDE DEF head
    <2>5. /\ head[1 + 1] = rest[1] /\ head[1 + 2] = rest[2] /\ head[1 + 3] = rest[3]
          /\ head[1 + 4] = rest[4] /\ head[1 + 5] = rest[5]
      BY <2>4
    <2>6. /\ head[2] = length /\ head[3] = hdr.sequence /\ head[4] = hdr.system_id
          /\ head[5] = hdr.component_id /\ head[6] = id
      BY <2>3, <2>5
    <2>7. PayloadAt(r, v) = 6
      BY <1>2 DEF PayloadAt
    <2> QED
      BY <1>2, <2>2, <2>4, <2>6, <2>7 DEF HeadIs
  <1>3. CASE v = "V2"
    <2> DEFINE w == SysWidth(r)
               sys == ToBytes(hdr.system_id, w)
               ids == ToBytes(id, 3)
    <2>1. w \in {1, 4} /\ w \in 0 .. 8 /\ w \in Nat
      BY BufferIs
    <2>2. r[3] \in Byte /\ 253 \in Byte /\ 0 \in Byte
      <3>1. 3 \in 1 .. FRAME_SIZE[v]
        BY BufferIs
      <3> QED
        BY <3>1, BufferIs DEF Byte
    <2>3. sys \in Seq(Byte) /\ Len(sys) = w
      <3>1. hdr.system_id \in Nat
        BY <1>3, <2>1, PowerOfOne DEF Fits
      <3>2. sys \in [1 .. w -> 0 .. MaxId] /\ Len(sys) = w
        BY <2>1, <3>1, ToBytesType
      <3> HIDE DEF sys, w
      <3>3. sys \in [1 .. w -> Byte]
        BY <1>1, <3>2
      <3> QED
        BY <2>1, <3>2, <3>3, IsSequence
    <2>4. ids \in Seq(Byte) /\ Len(ids) = 3
      <3>1. id \in Nat /\ 3 \in 0 .. 8 /\ 3 \in Nat
        BY <1>3 DEF Fits, LargestId
      <3>2. ids \in [1 .. 3 -> 0 .. MaxId] /\ Len(ids) = 3
        BY <3>1, ToBytesType
      <3> HIDE DEF ids
      <3>3. ids \in [1 .. 3 -> Byte]
        BY <1>1, <3>2
      <3> QED
        BY <3>1, <3>2, <3>3, IsSequence
    <2> DEFINE all == <<253>> \o (<<length, r[3], 0, hdr.sequence>> \o sys
                                  \o <<hdr.component_id>> \o ids)
    <2>5. HeadBytes(r, v, hdr, id, length) = all
      <3>1. incompatibility_flags(r, v) = r[3]
        BY <1>3 DEF incompatibility_flags, Cell
      <3>2. (IF has_32bit_sysid(r, v) THEN 4 ELSE 1) = w
        BY <1>3 DEF SysWidth
      <3>3. HeaderBytes(r, v, hdr, id, length)
              = <<length, r[3], 0, hdr.sequence>> \o sys \o <<hdr.component_id>> \o ids
        BY <1>3, <3>1, <3>2 DEF HeaderBytes
      <3> QED
        BY <1>3, <3>3 DEF HeadBytes, STX
    <2>6. all \in Seq(Byte) /\ HeadParts(all, w, length, r[3], hdr.sequence, sys,
                                        hdr.component_id, ids)
      <3>1. /\ hdr.sequence \in Byte /\ hdr.component_id \in Byte /\ length \in Byte
            /\ r[3] \in Byte /\ 253 \in Byte /\ 0 \in Byte
        BY <1>1, <2>2
      <3> HIDE DEF sys, ids, w
      <3> QED
        BY <2>1, <2>3, <2>4, <3>1, LongHeader
    <2>7. PayloadAt(r, v) = 9 + w
      BY <1>3 DEF PayloadAt
    <2> HIDE DEF all
    <2> QED
      BY <1>3, <2>5, <2>6, <2>7 DEF HeadIs, HeadParts
  <1> QED
    BY <1>2, <1>3 DEF Versions

\* What a header is written over.
LEMMA HeaderWrites ==
  ASSUME NEW v \in Versions, NEW r \in Buffer(v), NEW hdr \in Header, NEW id,
         Fits(v, r, hdr, id), NEW length \in 0 .. MAX_PAYLOAD_LEN
  PROVE  LET s == Overwrite(r, 0, HeadBytes(r, v, hdr, id, length))
         IN  /\ s \in Buffer(v) /\ HoldsHeader(s, v, hdr, id) /\ s[2] = length
             /\ PayloadAt(s, v) = PayloadAt(r, v) /\ (v = "V2" => s[3] = r[3])
             /\ \A i \in PayloadAt(r, v) + 1 .. FRAME_SIZE[v] : s[i] = r[i]
  <1> DEFINE head == HeadBytes(r, v, hdr, id, length)
             s == Overwrite(r, 0, head)
             n == FRAME_SIZE[v]
             at == PayloadAt(r, v)
  <1>1. head \in Seq(Byte) /\ HeadIs(head, v, r, hdr, id, length)
    BY HeaderIs, Zenon
  <1>2. /\ n \in Nat /\ at \in {6, 10, 13} /\ at + MAX_PAYLOAD_LEN + 2 <= n
        /\ r \in [1 .. n -> Byte] /\ SysWidth(r) \in {1, 4}
    BY BufferIs, Zenon
  <1>3. MAX_PAYLOAD_LEN \in Nat /\ at <= n /\ 0 + at <= n /\ 0 \in Nat
    BY <1>2, SizesAre
  <1>3a. Len(head) = at
    BY <1>1 DEF HeadIs
  <1> HIDE DEF head, n, at
  <1>4. s \in [1 .. n -> Byte] /\ Overwritten(n, r, 0, head, s)
    BY <1>1, <1>2, <1>3, <1>3a, OverwriteIs
  <1> HIDE DEF s
  <1>5. /\ \A i \in 1 .. at : s[i] = head[i]
        /\ \A i \in at + 1 .. n : s[i] = r[i]
    BY <1>2, <1>3a, <1>4 DEF Overwritten
  <1>6. s \in Buffer(v)
    BY <1>4 DEF Buffer, Byte, n
  <1>7. s[2] = head[2] /\ s[3] = head[3] /\ s[4] = head[4] /\ s[5] = head[5] /\ s[6] = head[6]
    BY <1>2, <1>5
  <1>8. CASE v = "V1"
    <2>1. HoldsHeader(s, v, hdr, id)
      BY <1>1, <1>7, <1>8 DEF HoldsHeader, HeadIs
    <2>2. PayloadAt(s, v) = at
      BY <1>8 DEF PayloadAt, at
    <2> QED
      BY <1>1, <1>5, <1>6, <1>7, <1>8, <2>1, <2>2 DEF n, at, s, head, HeadIs
  <1>9. CASE v = "V2"
    <2> DEFINE w == SysWidth(r)
    <2>1. at = 9 + w /\ w \in {1, 4}
      BY <1>2, <1>9 DEF at, PayloadAt
    <2>2. s[3] = r[3] /\ r[3] \in Nat
      <3>1. 3 \in 1 .. n
        BY <1>2, <1>3
      <3>2. r[3] \in Byte
        BY <1>2, <3>1
      <3>3. s[3] = r[3]
        BY <1>1, <1>7, <1>9 DEF HeadIs
      <3> QED
        BY <3>2, <3>3 DEF Byte
    <2>3. SysWidth(s) = w
      BY <2>2, Offsets
    <2>4. PayloadAt(s, v) = at
      BY <2>1, <2>3, <1>9 DEF PayloadAt
    <2> HIDE DEF w
    <2>5. /\ \A i \in 1 .. w : s[5 + i] = head[5 + i]
          /\ s[6 + w] = head[6 + w]
          /\ \A i \in 1 .. 3 : s[6 + w + i] = head[6 + w + i]
      BY <1>5, <2>1
    <2>6. HoldsHeader(s, v, hdr, id)
      BY <1>1, <1>7, <1>9, <2>3, <2>5 DEF HoldsHeader, Fits, w, HeadIs
    <2> QED
      BY <1>1, <1>5, <1>6, <1>7, <1>9, <2>2, <2>4, <2>6 DEF n, at, s, head, HeadIs
  <1> QED
    BY <1>8, <1>9 DEF Versions

LEMMA MaxPayload == MAX_PAYLOAD_LEN \in Nat
  BY PayloadAssumption

\* The checksum of a frame has 16 bits.
LEMMA CrcIs ==
  ASSUME NEW v \in Versions, NEW r \in Buffer(v), NEW end \in Nat, end >= 2, end <= FRAME_SIZE[v],
         NEW crc_extra \in Byte
  PROVE  calculate_crc(Cells(r, 1, end - 1), crc_extra) \in Checksums
  <1> DEFINE cells == Cells(r, 1, end - 1)
             data == Append(cells, crc_extra)
             start == 65535
  <1>1. cells \in Seq(Nat)
    <2> DEFINE n == end - 1
    <2>1. n \in Nat /\ r \in Seq(Byte) /\ 1 + n <= Len(r) /\ 1 \in Nat
      BY BufferIs
    <2>2. \A i \in 1 .. n : r[1 + i] \in Nat
      <3>1. \A i \in 1 .. n : 1 + i \in 1 .. FRAME_SIZE[v]
        BY BufferIs
      <3> QED
        BY <3>1, BufferIs
    <2> HIDE DEF n
    <2>3. Cells(r, 1, n) = [i \in 1 .. n |-> r[1 + i]]
      BY <2>1, CellsIs
    <2>4. Cells(r, 1, n) \in [1 .. n -> Nat]
      BY <2>2, <2>3
    <2>5. Cells(r, 1, n) \in Seq(Nat)
      BY <2>1, <2>4, IsSequence
    <2> QED
      BY <2>5 DEF n
  <1>2. start \in Nat /\ crc_extra \in Nat
    BY DEF Byte
  <1> HIDE DEF cells
  <1>3. data \in Seq(Nat) /\ data # <<>>
    BY <1>1, <1>2
  <1> HIDE DEF data, start
  <1>4. DigestAll(start, data) \in Checksums
    BY <1>2, <1>3, DigestType
  <1> QED
    BY <1>4 DEF calculate_crc, data, cells, start

\* Its two bytes give it back.
LEMMA ChecksumBytes ==
  ASSUME NEW crc \in Checksums
  PROVE  /\ crc % 256 \in Byte /\ crc \div 256 \in Byte
         /\ (crc % 256) + 256 * (crc \div 256) = crc
  BY DEF Checksums, Byte

\* The payload is written where the flags say it begins.
Filled(v, r, bytes, s) ==
  /\ PayloadAt(s, v) = PayloadAt(r, v) /\ s[3] = r[3]
  /\ \A i \in 1 .. Len(bytes) : s[PayloadAt(r, v) + i] = bytes[i]

\* Writing the payload leaves the flags.
LEMMA PayloadWrites ==
  ASSUME NEW v \in Versions, NEW r \in Buffer(v), NEW bytes \in Seq(Byte),
         Len(bytes) <= MAX_PAYLOAD_LEN
  PROVE  /\ Overwrite(r, payload_offset(r, v), bytes) \in Buffer(v)
         /\ Filled(v, r, bytes, Overwrite(r, payload_offset(r, v), bytes))
  <1> DEFINE at == PayloadAt(r, v)
             n == FRAME_SIZE[v]
             s == Overwrite(r, at, bytes)
  <1>1. /\ n \in Nat /\ at \in {6, 10, 13} /\ at + MAX_PAYLOAD_LEN + 2 <= n
        /\ r \in [1 .. n -> Byte] /\ payload_offset(r, v) = at
    BY BufferIs, Zenon
  <1>2. at \in Nat /\ at + Len(bytes) <= n
    BY <1>1, SizesAre
  <1> HIDE DEF at, n
  <1>3. s \in [1 .. n -> Byte] /\ Overwritten(n, r, at, bytes, s)
    BY <1>1, <1>2, OverwriteIs
  <1> HIDE DEF s
  <1>4. s[3] = r[3] /\ \A i \in 1 .. Len(bytes) : s[at + i] = bytes[i]
    BY <1>1, <1>3 DEF Overwritten
  <1>5. r[3] \in Nat
    BY BufferIs
  <1>6. SysWidth(s) = SysWidth(r)
    BY <1>4, <1>5, Offsets
  <1>7. PayloadAt(s, v) = PayloadAt(r, v)
    BY <1>6 DEF PayloadAt
  <1>8. s \in Buffer(v)
    BY <1>3 DEF Buffer, Byte, n
  <1>9. Filled(v, r, bytes, s)
    BY <1>4, <1>7 DEF Filled, at
  <1> QED
    BY <1>1, <1>8, <1>9 DEF s

\* The header and the checksum complete the frame.
LEMMA RestWrites ==
  ASSUME NEW v \in Versions, NEW r \in Buffer(v), NEW hdr \in Header, NEW id,
         Fits(v, r, hdr, id), NEW bytes \in Seq(Byte), Len(bytes) <= MAX_PAYLOAD_LEN,
         \A i \in 1 .. Len(bytes) : r[PayloadAt(r, v) + i] = bytes[i],
         NEW crc_extra \in Byte, NEW s,
         s = serialize_stx_and_header_and_crc(r, v, hdr, id, Len(bytes), crc_extra)
  PROVE  /\ s \in Buffer(v) /\ Holds(s, v, hdr, id, bytes, crc_extra)
         /\ v = "V2" => s[3] = r[3]
  <1> DEFINE length == Len(bytes)
             headed == Overwrite(r, 0, HeadBytes(r, v, hdr, id, length))
             at == PayloadAt(r, v)
             n == FRAME_SIZE[v]
  <1>1. length \in 0 .. MAX_PAYLOAD_LEN /\ length \in Nat /\ MAX_PAYLOAD_LEN \in Nat
    <2>1. MAX_PAYLOAD_LEN \in Nat
      BY MaxPayload
    <2>2. Len(bytes) \in Nat
      OBVIOUS
    <2> QED
      BY <2>1, <2>2
  <1>2. /\ headed \in Buffer(v) /\ HoldsHeader(headed, v, hdr, id) /\ headed[2] = length
        /\ PayloadAt(headed, v) = at /\ (v = "V2" => headed[3] = r[3])
        /\ \A i \in at + 1 .. n : headed[i] = r[i]
    <2> HIDE DEF length
    <2> QED
      BY <1>1, HeaderWrites
  <1>3. n \in Nat /\ at \in {6, 10, 13} /\ at + MAX_PAYLOAD_LEN + 2 <= n
    BY BufferIs, Zenon
  <1> DEFINE end == at + length
             crc == calculate_crc(Cells(headed, 1, end - 1), crc_extra)
             tail == <<crc % 256, crc \div 256>>
  <1>4. end \in Nat /\ end >= 2 /\ end + 2 <= n /\ end <= n
    BY <1>1, <1>3
  <1>5. s = Overwrite(headed, end, tail)
    <2>1. STX_SIZE + header_size(headed, v) + length = end
      <3>1. header_size(headed, v) = at - 1
        BY <1>2, BufferIs
      <3> QED
        BY <1>1, <1>3, <3>1 DEF STX_SIZE
    <2>2. end - STX_SIZE = end - 1 /\ STX_SIZE = 1
      BY DEF STX_SIZE
    <2> QED
      BY <2>1, <2>2 DEF serialize_stx_and_header_and_crc, HeadBytes
  <1> HIDE DEF headed, length, at
  <1>6. crc \in Checksums
    <2> HIDE DEF end, n
    <2> QED
      BY <1>2, <1>4, CrcIs DEF n
  <1>7. HoldsPayload(headed, v, bytes)
    <2>1. \A i \in 1 .. length : at + i \in at + 1 .. n
      BY <1>1, <1>3
    <2>2. \A i \in 1 .. length : headed[at + i] = bytes[i]
      BY <1>2, <2>1 DEF at, length
    <2> QED
      BY <1>2, <2>2 DEF HoldsPayload, length
  <1> HIDE DEF crc
  <1>8. /\ tail \in Seq(Byte) /\ Len(tail) = 2 /\ tail[1] = crc % 256 /\ tail[2] = crc \div 256
    BY <1>6, ChecksumBytes
  <1> HIDE DEF tail
  <1>9. s \in [1 .. n -> Byte] /\ Overwritten(n, headed, end, tail, s)
    <2>1. headed \in [1 .. n -> Byte]
      BY <1>2 DEF Buffer, Byte
    <2>2. end + Len(tail) <= n /\ n \in Nat /\ end \in Nat
      BY <1>3, <1>4, <1>8
    <2> HIDE DEF n, end
    <2>3. /\ Overwrite(headed, end, tail) \in [1 .. n -> Byte]
          /\ Overwritten(n, headed, end, tail, Overwrite(headed, end, tail))
      BY <1>8, <2>1, <2>2, OverwriteIs, Zenon
    <2> QED
      BY <1>5, <2>3
  <1>10. s \in Buffer(v)
    BY <1>9 DEF Buffer, Byte
  <1> HIDE DEF n, end
  <1>11. /\ \A i \in 1 .. end : s[i] = headed[i]
         /\ s[end + 1] = crc % 256 /\ s[end + 2] = crc \div 256
    BY <1>8, <1>9 DEF Overwritten
  <1>12. s[2] = headed[2] /\ s[3] = headed[3]
    <2>1. 2 \in 1 .. end /\ 3 \in 1 .. end
      BY <1>1, <1>3 DEF end
    <2> QED
      BY <1>11, <2>1
  <1>13. PayloadAt(s, v) = at /\ EndAt(s, v) = end
    <2>1. s[3] \in Nat
      BY <1>10, BufferIs
    <2>2. SysWidth(s) = SysWidth(headed)
      <3>1. headed[3] \in Nat
        BY <1>12, <2>1
      <3> QED
        BY <1>12, <2>1, <3>1, Offsets
    <2>3. PayloadAt(s, v) = PayloadAt(headed, v)
      BY <2>2 DEF PayloadAt
    <2> QED
      BY <1>2, <1>12, <2>3 DEF EndAt, end
  <1>14. HoldsHeader(s, v, hdr, id)
    <2>1. CASE v = "V1"
      <3>1. s[4] = headed[4] /\ s[5] = headed[5] /\ s[6] = headed[6]
        <4>1. 4 \in 1 .. end /\ 5 \in 1 .. end /\ 6 \in 1 .. end
          BY <1>1, <1>3 DEF end
        <4> QED
          BY <1>11, <4>1
      <3> QED
        BY <1>2, <1>12, <2>1, <3>1 DEF HoldsHeader
    <2>2. CASE v = "V2"
      <3> DEFINE w == SysWidth(headed)
      <3>1. w \in {1, 4} /\ at = 9 + w /\ SysWidth(s) = w
        <4>1. headed[3] \in Nat /\ s[3] \in Nat /\ w \in {1, 4}
          BY <1>2, <1>10, BufferIs
        <4>2. SysWidth(s) = w
          BY <1>12, <4>1, Offsets
        <4>3. at = 9 + w
          BY <1>2, <2>2 DEF PayloadAt
        <4> QED
          BY <4>1, <4>2, <4>3
      <3>2. 9 + w <= end /\ end \in Nat
        BY <1>1, <1>4, <3>1 DEF end
      <3> HIDE DEF w
      <3>3. /\ s[5] = headed[5] /\ s[6 + w] = headed[6 + w]
            /\ \A i \in 1 .. w : s[5 + i] = headed[5 + i]
            /\ \A i \in 1 .. 3 : s[6 + w + i] = headed[6 + w + i]
        <4>1. 5 \in 1 .. end /\ 6 + w \in 1 .. end
          BY <3>1, <3>2
        <4>2. \A i \in 1 .. w : 5 + i \in 1 .. end
          BY <3>1, <3>2
        <4>3. \A i \in 1 .. 3 : 6 + w + i \in 1 .. end
          BY <3>1, <3>2
        <4> QED
          BY <1>11, <4>1, <4>2, <4>3
      <3> QED
        BY <1>2, <2>2, <3>1, <3>3 DEF HoldsHeader, w
    <2> QED
      BY <2>1, <2>2 DEF Versions
  <1>15. HoldsPayload(s, v, bytes)
    <2>1. \A i \in 1 .. length : at + i \in 1 .. end
      BY <1>1, <1>3 DEF end
    <2>2. \A i \in 1 .. length : s[at + i] = headed[at + i]
      BY <1>11, <2>1
    <2> QED
      BY <1>2, <1>7, <1>12, <1>13, <2>2 DEF HoldsPayload, length
  <1>16. HoldsChecksum(s, v, crc_extra)
    <2>1. Cells(s, 1, end - 1) = Cells(headed, 1, end - 1)
      <3>1. /\ s \in Seq(Byte) /\ headed \in Seq(Byte)
            /\ Len(s) = n /\ Len(headed) = n
        BY <1>2, <1>10, BufferIs DEF n
      <3> DEFINE k == end - 1
      <3>2. k \in Nat /\ 1 \in Nat /\ 1 + k = end
        BY <1>4
      <3>3. 1 + k <= Len(s) /\ 1 + k <= Len(headed)
        BY <1>4, <3>1, <3>2
      <3>4. \A i \in 1 + 1 .. 1 + k : s[i] = headed[i]
        BY <1>4, <1>11, <3>2
      <3> HIDE DEF k
      <3>5. Cells(s, 1, k) = Cells(headed, 1, k)
        BY <3>1, <3>2, <3>3, <3>4, SameCells
      <3> QED
        BY <3>5 DEF k
    <2>2. s[end + 1] + 256 * s[end + 2] = crc
      BY <1>6, <1>11, ChecksumBytes
    <2> QED
      BY <1>13, <2>1, <2>2 DEF HoldsChecksum, crc
  <1>17. v = "V2" => s[3] = r[3]
    BY <1>2, <1>12
  <1> QED
    BY <1>10, <1>14, <1>15, <1>16, <1>17 DEF Holds

\* What a dialect hands over, and what becomes of it.
EncodedRight(encoded) ==
  encoded.error = "" => /\ encoded.id \in 0 .. LargestId /\ encoded.extra_crc \in Byte
                        /\ encoded.payload \in Seq(0 .. MaxId)
                        /\ Len(encoded.payload) <= MAX_PAYLOAD_LEN

Written(done, v, hdr, encoded, signing) ==
  /\ done.raw \in Buffer(v)
  /\ done.error = "" =>
       /\ encoded.error = ""
       /\ Holds(done.raw, v, hdr, encoded.id, encoded.payload, encoded.extra_crc)
       /\ signing => is_signed(done.raw, v)
       /\ v = "V1" => hdr.system_id <= MaxId /\ encoded.id <= MaxId

LEMMA IdsAreBytes == \A s \in Seq(0 .. MaxId) : s \in Seq(Byte)
  <1>1. 0 .. MaxId \subseteq Byte
    BY SizesAre DEF Byte
  <1> DEFINE Ids == 0 .. MaxId
  <1> HIDE DEF Ids
  <1>2. \A s \in Seq(Ids) : s \in Seq(Byte)
    <2> TAKE s \in Seq(Ids)
    <2>1. s \in [1 .. Len(s) -> Ids] /\ Len(s) \in Nat
      OBVIOUS
    <2>2. s \in [1 .. Len(s) -> Byte]
      BY <1>1, <2>1 DEF Ids
    <2> QED
      BY <2>1, <2>2, IsSequence
  <1> QED
    BY <1>2 DEF Ids

\* Whatever the buffer held, a frame written without an error is what it holds.
LEMMA SerializeWrites ==
  ASSUME NEW v \in Versions, NEW r \in Buffer(v), NEW hdr \in Header, NEW encoded,
         EncodedRight(encoded), NEW signing \in BOOLEAN, signing => v = "V2"
  PROVE  Written(serialize_message(r, v, hdr, encoded, signing), v, hdr, encoded, signing)
  <1> DEFINE flagged == IF v = "V1" THEN r ELSE SetFlags(r, hdr, signing)
             filled == Overwrite(flagged, payload_offset(flagged, v), encoded.payload)
             done == serialize_message(r, v, hdr, encoded, signing)
             final == serialize_stx_and_header_and_crc(
                        filled, v, hdr, encoded.id, Len(encoded.payload), encoded.extra_crc)
  <1>1. v \in {"V1", "V2"} /\ hdr.system_id \in Nat
    <2>1. hdr.system_id \in 0 .. Power[4] - 1
      BY DEF Header
    <2> QED
      BY <2>1, PowerOfOne DEF Versions
  <1>2. /\ flagged \in Buffer(v)
        /\ v = "V2" => /\ hdr.system_id \in 0 .. Power[SysWidth(flagged)] - 1
                       /\ signing => is_signed(flagged, "V2")
    <2>1. CASE v = "V1"
      BY <2>1
    <2>2. CASE v = "V2"
      <3>1. flagged = SetFlags(r, hdr, signing)
        BY <2>2
      <3> HIDE DEF flagged
      <3> QED
        BY <2>2, <3>1, SetFlagsWrites
    <2> QED
      BY <1>1, <2>1, <2>2
  <1>3. CASE v = "V1" /\ hdr.system_id > MaxId
    <2>1. done = [error |-> "InvalidMAVLink1SystemId", raw |-> r]
      BY <1>3 DEF serialize_message
    <2> HIDE DEF done
    <2>2. Written(done, v, hdr, encoded, signing)
      BY <2>1 DEF Written
    <2> QED
      BY <2>2 DEF done
  <1>4. CASE ~(v = "V1" /\ hdr.system_id > MaxId) /\ encoded.error # ""
    <2>1. done = [error |-> encoded.error, raw |-> flagged]
      BY <1>4 DEF serialize_message
    <2> HIDE DEF done, flagged
    <2>2. Written(done, v, hdr, encoded, signing)
      BY <1>2, <1>4, <2>1 DEF Written
    <2> QED
      BY <2>2 DEF done
  <1>5. CASE ~(v = "V1" /\ hdr.system_id > MaxId) /\ encoded.error = ""
    <2>1. /\ encoded.id \in 0 .. LargestId /\ encoded.extra_crc \in Byte
          /\ encoded.payload \in Seq(Byte) /\ Len(encoded.payload) <= MAX_PAYLOAD_LEN
      BY <1>5, IdsAreBytes DEF EncodedRight
    <2>2. done = IF v = "V1" /\ encoded.id > MaxId THEN [error |-> "panic", raw |-> filled]
                 ELSE [error |-> "", raw |-> final]
      BY <1>5 DEF serialize_message
    <2> HIDE DEF done, final, flagged
    <2>3. filled \in Buffer(v) /\ Filled(v, flagged, encoded.payload, filled)
      BY <1>2, <2>1, PayloadWrites
    <2> HIDE DEF filled
    <2>4. CASE v = "V1" /\ encoded.id > MaxId
      <3>1. done = [error |-> "panic", raw |-> filled]
        BY <2>2, <2>4
      <3>2. Written(done, v, hdr, encoded, signing)
        BY <2>3, <3>1 DEF Written
      <3> QED
        BY <3>2 DEF done
    <2>5. CASE ~(v = "V1" /\ encoded.id > MaxId)
      <3>1. done = [error |-> "", raw |-> final]
        BY <2>2, <2>5
      <3>2. PayloadAt(filled, v) = PayloadAt(flagged, v) /\ filled[3] = flagged[3]
        BY <2>3 DEF Filled
      <3>3. flagged[3] \in Nat
        BY <1>2, BufferIs
      <3>4. SysWidth(filled) = SysWidth(flagged)
        BY <3>2, <3>3, Offsets
      <3>5. v = "V1" => hdr.system_id \in 0 .. MaxId /\ encoded.id \in 0 .. MaxId
        <4>1. MaxId \in Nat
          BY SizesAre
        <4>2. encoded.id \in Nat
          BY <2>1 DEF LargestId
        <4>3. ASSUME v = "V1"
              PROVE  hdr.system_id <= MaxId /\ encoded.id <= MaxId
          <5>1. ~(hdr.system_id > MaxId) /\ ~(encoded.id > MaxId)
            BY <1>5, <2>5, <4>3
          <5> QED
            BY <1>1, <4>1, <4>2, <5>1
        <4> QED
          BY <1>1, <4>1, <4>2, <4>3
      <3>6. Fits(v, filled, hdr, encoded.id)
        BY <1>2, <2>1, <3>4, <3>5 DEF Fits
      <3>7. \A i \in 1 .. Len(encoded.payload) :
              filled[PayloadAt(filled, v) + i] = encoded.payload[i]
        BY <2>3, <3>2 DEF Filled
      <3>8. /\ final \in Buffer(v)
            /\ Holds(final, v, hdr, encoded.id, encoded.payload, encoded.extra_crc)
            /\ v = "V2" => final[3] = filled[3]
        BY <2>1, <2>3, <3>6, <3>7, RestWrites DEF final
      <3>9. signing => is_signed(final, v)
        <4>1. final[3] \in Nat
          BY <3>8, BufferIs
        <4> QED
          BY <1>2, <3>2, <3>3, <3>8, <4>1, Offsets
      <3>10. Written(done, v, hdr, encoded, signing)
        <4>1. done.raw = final /\ done.error = ""
          BY <3>1
        <4>2. v = "V1" => hdr.system_id <= MaxId /\ encoded.id <= MaxId
          BY <3>5, SizesAre
        <4> QED
          BY <1>5, <3>8, <3>9, <4>1, <4>2, Zenon DEF Written
      <3> QED
        BY <3>10 DEF done
    <2> QED
      BY <2>4, <2>5
  <1> QED
    BY <1>3, <1>4, <1>5

-----------------------------------------------------------------------------
(***************************************************************************)
(* Signing.  A signature covers what lies before it, and writing it        *)
(* changes none of that.                                                   *)
(***************************************************************************)
\* r and s have the same cells up to n.
Same(r, s, n) == \A i \in 1 .. n : s[i] = r[i]

\* Slices of equal cells are equal, in two buffers.
LEMMA SameSlices ==
  ASSUME NEW v \in Versions, NEW r \in Buffer(v), NEW s \in Buffer(v), NEW n \in Nat,
         n <= FRAME_SIZE[v], Same(r, s, n),
         NEW offset \in Nat, NEW count \in Nat, offset + count <= n
  PROVE  Cells(s, offset, count) = Cells(r, offset, count)
  <1>1. /\ r \in Seq(Byte) /\ s \in Seq(Byte) /\ Len(r) = FRAME_SIZE[v] /\ Len(s) = FRAME_SIZE[v]
        /\ FRAME_SIZE[v] \in Nat
    BY BufferIs
  <1>2. \A i \in offset + 1 .. offset + count : s[i] = r[i]
    BY DEF Same
  <1>3. offset + count <= Len(r) /\ offset + count <= Len(s)
    BY <1>1
  <1> QED
    BY <1>1, <1>2, <1>3, SameCells

\* The part of a frame that is signed, and where its signature is.
SignedAt(r) == EndAt(r, "V2") + 2
ValueAt(r) == SignedAt(r) + 1 + SIGNATURE_TIMESTAMP_SIZE

\* A frame has room for its signature.
LEMMA SignaturePlace ==
  ASSUME NEW r \in Buffer("V2"), NEW bytes, HoldsPayload(r, "V2", bytes)
  PROVE  /\ SignedAt(r) \in Nat /\ ValueAt(r) \in Nat /\ SignedAt(r) >= 8
         /\ ValueAt(r) = SignedAt(r) + 1 + SIGNATURE_TIMESTAMP_SIZE
         /\ ValueAt(r) + SIGNATURE_VALUE_SIZE <= FRAME_SIZE["V2"]
         /\ SignedAt(r) + SIGNATURE_SIZE = ValueAt(r) + SIGNATURE_VALUE_SIZE
         /\ FRAME_SIZE["V2"] \in Nat
         /\ link_id_offset(r) = SignedAt(r)
         /\ checksum_offset(r, "V2") = SignedAt(r) - 2
         /\ payload_offset(r, "V2") = PayloadAt(r, "V2")
         /\ PayloadAt(r, "V2") \in {10, 13} /\ header_size(r, "V2") = PayloadAt(r, "V2") - 1
         /\ PayloadAt(r, "V2") + Len(bytes) = SignedAt(r) - 2 /\ r[2] = Len(bytes)
         /\ Len(bytes) \in Nat
  <1>1. "V2" \in Versions
    BY DEF Versions
  <1> DEFINE end == EndAt(r, "V2")
  <1>2. /\ end \in Nat /\ end >= 6 /\ end + 2 + SIGNATURE_SIZE <= FRAME_SIZE["V2"]
        /\ checksum_offset(r, "V2") = end /\ end = PayloadAt(r, "V2") + Len(bytes)
    BY <1>1, EndIs
  <1>3. /\ SIGNATURE_SIZE = 1 + SIGNATURE_TIMESTAMP_SIZE + SIGNATURE_VALUE_SIZE
        /\ SIGNATURE_TIMESTAMP_SIZE \in Nat /\ SIGNATURE_VALUE_SIZE \in Nat
        /\ FRAME_SIZE["V2"] \in Nat
    BY <1>1, SignatureAssumption, BufferIs DEF SIGNATURE_SIZE
  <1>4. /\ payload_offset(r, "V2") = PayloadAt(r, "V2")
        /\ header_size(r, "V2") = PayloadAt(r, "V2") - 1 /\ SysWidth(r) \in {1, 4}
    BY <1>1, BufferIs
  <1>5. PayloadAt(r, "V2") \in {10, 13}
    BY <1>4 DEF PayloadAt
  <1>6. r[2] = Len(bytes) /\ Len(bytes) \in Nat
    BY DEF HoldsPayload
  <1>7. link_id_offset(r) = end + 2
    BY <1>2 DEF link_id_offset, CHECKSUM_SIZE
  <1> HIDE DEF end
  <1>8. SignedAt(r) = end + 2 /\ ValueAt(r) = end + 3 + SIGNATURE_TIMESTAMP_SIZE
    BY <1>2, <1>3 DEF SignedAt, ValueAt, end
  <1>9. /\ SignedAt(r) \in Nat /\ ValueAt(r) \in Nat /\ SignedAt(r) >= 8
        /\ ValueAt(r) = SignedAt(r) + 1 + SIGNATURE_TIMESTAMP_SIZE
        /\ SignedAt(r) - 2 = end
    BY <1>2, <1>3, <1>8
  <1>10. /\ ValueAt(r) + SIGNATURE_VALUE_SIZE <= FRAME_SIZE["V2"]
         /\ SignedAt(r) + SIGNATURE_SIZE = ValueAt(r) + SIGNATURE_VALUE_SIZE
    BY <1>2, <1>3, <1>8
  <1> QED
    BY <1>2, <1>3, <1>4, <1>5, <1>6, <1>7, <1>8, <1>9, <1>10, Zenon

\* A signature depends on what comes before it only.
LEMMA SignatureMoves ==
  ASSUME NEW r \in Buffer("V2"), NEW s \in Buffer("V2"), NEW bytes, HoldsPayload(r, "V2", bytes),
         HoldsPayload(s, "V2", bytes), PayloadAt(s, "V2") = PayloadAt(r, "V2"),
         Same(r, s, ValueAt(r)), NEW key
  PROVE  SignedAt(s) = SignedAt(r) /\ calculate_signature(s, key) = calculate_signature(r, key)
  <1> DEFINE at == PayloadAt(r, "V2")
             signed == SignedAt(r)
             n == ValueAt(r)
  <1>0. "V2" \in Versions
    BY DEF Versions
  <1>1. /\ signed \in Nat /\ n \in Nat /\ signed >= 8
        /\ n = signed + 1 + SIGNATURE_TIMESTAMP_SIZE
        /\ n <= FRAME_SIZE["V2"] /\ link_id_offset(r) = signed
        /\ checksum_offset(r, "V2") = signed - 2 /\ payload_offset(r, "V2") = at
        /\ at \in {10, 13} /\ header_size(r, "V2") = at - 1
        /\ at + Len(bytes) = signed - 2 /\ r[2] = Len(bytes)
        /\ Len(bytes) \in Nat /\ SIGNATURE_TIMESTAMP_SIZE \in Nat
    <2>1. SIGNATURE_TIMESTAMP_SIZE \in Nat /\ SIGNATURE_VALUE_SIZE \in Nat
      BY SignatureAssumption
    <2>2. ValueAt(r) + SIGNATURE_VALUE_SIZE <= FRAME_SIZE["V2"] /\ FRAME_SIZE["V2"] \in Nat
          /\ ValueAt(r) \in Nat
      BY SignaturePlace, Zenon
    <2>3. ValueAt(r) <= FRAME_SIZE["V2"]
      BY <2>1, <2>2
    <2> QED
      BY <2>1, <2>2, <2>3, SignaturePlace, Zenon
  <1>2. /\ link_id_offset(s) = SignedAt(s) /\ checksum_offset(s, "V2") = SignedAt(s) - 2
        /\ payload_offset(s, "V2") = at /\ header_size(s, "V2") = at - 1
        /\ at + Len(bytes) = SignedAt(s) - 2 /\ s[2] = Len(bytes) /\ SignedAt(s) \in Nat
    BY SignaturePlace
  <1>3. SignedAt(s) = signed
    BY <1>1, <1>2
  <1> HIDE DEF at, signed, n
  <1>4. \A offset, count \in Nat :
          offset + count <= n => Cells(s, offset, count) = Cells(r, offset, count)
    BY <1>0, <1>1, SameSlices DEF n
  <1>5. header(s, "V2") = header(r, "V2")
    <2>1. 1 \in Nat /\ at - 1 \in Nat /\ 1 + (at - 1) <= n
      BY <1>1
    <2> QED
      BY <1>1, <1>2, <1>4, <2>1 DEF header, STX_SIZE
  <1>6. payload(s, "V2") = payload(r, "V2")
    <2>1. at \in Nat /\ at + Len(bytes) <= n
      BY <1>1
    <2> QED
      BY <1>1, <1>2, <1>4, <2>1 DEF payload, payload_length, Cell
  <1>7. Cells(s, checksum_offset(s, "V2"), CHECKSUM_SIZE)
          = Cells(r, checksum_offset(r, "V2"), CHECKSUM_SIZE)
    <2>1. signed - 2 \in Nat /\ 2 \in Nat /\ (signed - 2) + 2 <= n
      BY <1>1
    <2> QED
      BY <1>1, <1>2, <1>3, <1>4, <2>1 DEF CHECKSUM_SIZE
  <1>8. signature_link_id(s) = signature_link_id(r)
    <2>1. signed + 1 \in 1 .. n
      BY <1>1
    <2>2. s[signed + 1] = r[signed + 1]
      BY <2>1 DEF Same, n
    <2> QED
      BY <1>1, <1>2, <1>3, <2>2 DEF signature_link_id, Cell
  <1>9. signature_timestamp_bytes(s) = signature_timestamp_bytes(r)
    <2>1. signed + 1 \in Nat /\ (signed + 1) + SIGNATURE_TIMESTAMP_SIZE <= n
      BY <1>1
    <2> QED
      BY <1>1, <1>2, <1>3, <1>4, <2>1 DEF signature_timestamp_bytes
  <1> QED
    BY <1>3, <1>5, <1>6, <1>7, <1>8, <1>9 DEF calculate_signature, signed

\* A signature is so many bytes.
LEMMA SignatureIs ==
  ASSUME NEW r \in Buffer("V2"), NEW bytes, HoldsPayload(r, "V2", bytes), NEW key \in Nat
  PROVE  /\ calculate_signature(r, key) \in [1 .. SIGNATURE_VALUE_SIZE -> 0 .. MaxId]
         /\ calculate_signature(r, key) \in Seq(Byte)
         /\ Len(calculate_signature(r, key)) = SIGNATURE_VALUE_SIZE
  <1> DEFINE a == header(r, "V2")
             b == payload(r, "V2")
             c == Cells(r, checksum_offset(r, "V2"), CHECKSUM_SIZE)
             d == signature_link_id(r)
             e == signature_timestamp_bytes(r)
             data == <<STX.V2>> \o a \o b \o c \o <<d>> \o e
  <1>0. "V2" \in Versions
    BY DEF Versions
  <1>1. \A offset, count \in Nat :
          offset + count <= FRAME_SIZE["V2"] => Cells(r, offset, count) \in Seq(Nat)
    <2> SUFFICES ASSUME NEW offset \in Nat, NEW count \in Nat, offset + count <= FRAME_SIZE["V2"]
                 PROVE  Cells(r, offset, count) \in Seq(Nat)
      OBVIOUS
    <2>1. r \in Seq(Byte) /\ Len(r) = FRAME_SIZE["V2"] /\ FRAME_SIZE["V2"] \in Nat
      BY <1>0, BufferIs
    <2>2. Cells(r, offset, count) = [i \in 1 .. count |-> r[offset + i]]
      BY <2>1, CellsIs
    <2>3. \A i \in 1 .. count : offset + i \in 1 .. FRAME_SIZE["V2"]
      BY <2>1
    <2>4. \A i \in 1 .. count : r[offset + i] \in Nat
      BY <1>0, <2>3, BufferIs
    <2>5. Cells(r, offset, count) \in [1 .. count -> Nat]
      BY <2>2, <2>4
    <2> QED
      BY <2>5, IsSequence
  <1>2. /\ SignedAt(r) \in Nat /\ SignedAt(r) >= 8
        /\ SignedAt(r) + 1 + SIGNATURE_TIMESTAMP_SIZE <= FRAME_SIZE["V2"]
        /\ FRAME_SIZE["V2"] \in Nat
        /\ link_id_offset(r) = SignedAt(r) /\ checksum_offset(r, "V2") = SignedAt(r) - 2
        /\ payload_offset(r, "V2") = PayloadAt(r, "V2")
        /\ PayloadAt(r, "V2") \in {10, 13} /\ header_size(r, "V2") = PayloadAt(r, "V2") - 1
        /\ PayloadAt(r, "V2") + Len(bytes) = SignedAt(r) - 2 /\ r[2] = Len(bytes)
        /\ Len(bytes) \in Nat /\ SIGNATURE_TIMESTAMP_SIZE \in Nat /\ SIGNATURE_VALUE_SIZE \in Nat
    BY SignaturePlace, SignatureAssumption
  <1>3. a \in Seq(Nat)
    <2>1. header(r, "V2") = Cells(r, 1, PayloadAt(r, "V2") - 1)
      BY <1>2 DEF header, STX_SIZE
    <2>2. /\ 1 \in Nat /\ PayloadAt(r, "V2") - 1 \in Nat
          /\ 1 + (PayloadAt(r, "V2") - 1) <= FRAME_SIZE["V2"]
      BY <1>2
    <2> QED
      BY <1>1, <2>1, <2>2
  <1>4. b \in Seq(Nat)
    <2>1. payload(r, "V2") = Cells(r, PayloadAt(r, "V2"), Len(bytes))
      BY <1>2 DEF payload, payload_length, Cell
    <2>2. PayloadAt(r, "V2") \in Nat /\ PayloadAt(r, "V2") + Len(bytes) <= FRAME_SIZE["V2"]
      BY <1>2
    <2> QED
      BY <1>1, <1>2, <2>1, <2>2
  <1>5. c \in Seq(Nat)
    BY <1>1, <1>2 DEF CHECKSUM_SIZE
  <1>6. d \in Nat
    <2>1. SignedAt(r) + 1 \in 1 .. FRAME_SIZE["V2"]
      BY <1>2
    <2>2. d = r[SignedAt(r) + 1]
      BY <1>2 DEF signature_link_id, Cell
    <2> QED
      BY <1>0, <2>1, <2>2, BufferIs
  <1>7. e \in Seq(Nat)
    BY <1>1, <1>2 DEF signature_timestamp_bytes
  <1> HIDE DEF a, b, c, d, e
  <1>8. <<STX.V2>> \in Seq(Nat) /\ <<d>> \in Seq(Nat)
    BY <1>6 DEF STX
  <1>9. data \in Seq(Nat)
    BY <1>3, <1>4, <1>5, <1>7, <1>8, JoinedIs
  <1> HIDE DEF data
  <1>10. DigestAll(key, data) \in Nat
    BY <1>9, DigestType
  <1>11. SIGNATURE_VALUE_SIZE \in 0 .. 8
    BY SignatureAssumption
  <1>12. calculate_signature(r, key) = ToBytes(DigestAll(key, data), SIGNATURE_VALUE_SIZE)
    BY DEF calculate_signature, data, a, b, c, d, e
  <1> QED
    BY <1>10, <1>11, <1>12, ToBytesType, IdsAreBytes

\* A signed frame and its signature.
SignedBy(r, key) == is_signed(r, "V2") /\ signature_value(r) = calculate_signature(r, key)

\* Signing keeps what the frame holds, and the signature verifies.
LEMMA SignWrites ==
  ASSUME NEW r \in Buffer("V2"), NEW hdr, NEW id, NEW bytes, NEW crc_extra,
         Holds(r, "V2", hdr, id, bytes, crc_extra), is_signed(r, "V2"),
         NEW key \in Nat, NEW link \in Byte, NEW timestamp \in Nat
  PROVE  /\ sign_message(r, key, link, timestamp) \in Buffer("V2")
         /\ Holds(sign_message(r, key, link, timestamp), "V2", hdr, id, bytes, crc_extra)
         /\ SignedBy(sign_message(r, key, link, timestamp), key)
  <1> DEFINE signed == SignedAt(r)
             at == ValueAt(r)
             n == FRAME_SIZE["V2"]
             stamp == <<link>> \o ToBytes(timestamp, SIGNATURE_TIMESTAMP_SIZE)
             stamped == Overwrite(r, signed, stamp)
             value == calculate_signature(stamped, key)
             s == Overwrite(stamped, at, value)
  <1>0. "V2" \in Versions
    BY DEF Versions
  <1>1. HoldsPayload(r, "V2", bytes)
    BY DEF Holds
  <1>2. /\ signed \in Nat /\ at \in Nat /\ signed >= 8
        /\ at = signed + 1 + SIGNATURE_TIMESTAMP_SIZE
        /\ at + SIGNATURE_VALUE_SIZE <= n /\ n \in Nat /\ link_id_offset(r) = signed
    BY <1>1, SignaturePlace
  <1>3. /\ SIGNATURE_TIMESTAMP_SIZE \in 0 .. 8 /\ SIGNATURE_TIMESTAMP_SIZE \in Nat
        /\ SIGNATURE_VALUE_SIZE \in Nat
    BY SignatureAssumption
  <1>4. sign_message(r, key, link, timestamp) = s
    BY <1>2 DEF sign_message
  <1>5. stamp \in Seq(Byte) /\ Len(stamp) = 1 + SIGNATURE_TIMESTAMP_SIZE
    <2> DEFINE time == ToBytes(timestamp, SIGNATURE_TIMESTAMP_SIZE)
               one == <<link>>
    <2>1. time \in Seq(Byte) /\ Len(time) = SIGNATURE_TIMESTAMP_SIZE
      BY <1>3, ToBytesType, IdsAreBytes
    <2>2. one \in Seq(Byte) /\ Len(one) = 1
      OBVIOUS
    <2> HIDE DEF time, one
    <2>3. one \o time \in Seq(Byte) /\ Joined(one, time, one \o time)
      BY <2>1, <2>2, JoinedIs, Zenon
    <2> QED
      BY <2>1, <2>2, <2>3 DEF Joined, one, time
  <1>6. EndAt(r, "V2") + 2 = signed /\ r \in [1 .. n -> Byte]
    BY <1>0, BufferIs DEF SignedAt
  <1> HIDE DEF s, value, stamp, signed, at, n
  <1>7. stamped \in [1 .. n -> Byte] /\ Overwritten(n, r, signed, stamp, stamped)
    <2>1. signed + Len(stamp) <= n
      BY <1>2, <1>3, <1>5
    <2> QED
      BY <1>2, <1>5, <1>6, <2>1, OverwriteIs
  <1> HIDE DEF stamped
  <1>8. stamped \in Buffer("V2")
    BY <1>7 DEF Buffer, Byte, n
  <1>9. Same(r, stamped, signed)
    BY <1>7 DEF Overwritten, Same
  <1>10. /\ Holds(stamped, "V2", hdr, id, bytes, crc_extra)
         /\ stamped[3] = r[3] /\ EndAt(stamped, "V2") = EndAt(r, "V2")
         /\ PayloadAt(stamped, "V2") = PayloadAt(r, "V2")
    BY <1>0, <1>6, <1>8, <1>9, HoldsMoves DEF Same
  <1>11. HoldsPayload(stamped, "V2", bytes)
    BY <1>10 DEF Holds
  <1>12. /\ value \in Seq(Byte) /\ Len(value) = SIGNATURE_VALUE_SIZE
         /\ value = [i \in 1 .. SIGNATURE_VALUE_SIZE |-> value[i]]
    <2>1. value \in [1 .. SIGNATURE_VALUE_SIZE -> 0 .. MaxId]
      BY <1>8, <1>11, SignatureIs DEF value
    <2>2. value = [i \in 1 .. SIGNATURE_VALUE_SIZE |-> value[i]]
      BY <2>1
    <2> QED
      BY <1>8, <1>11, <2>2, SignatureIs DEF value
  <1>13. s \in [1 .. n -> Byte] /\ Overwritten(n, stamped, at, value, s)
    <2>1. at + Len(value) <= n
      BY <1>2, <1>12
    <2> QED
      BY <1>2, <1>7, <1>12, <2>1, OverwriteIs DEF s
  <1>14. s \in Buffer("V2")
    BY <1>13 DEF Buffer, Byte, n
  <1>15. Same(stamped, s, at)
    BY <1>13 DEF Overwritten, Same
  <1>16. Same(stamped, s, signed)
    BY <1>2, <1>3, <1>15 DEF Same
  <1>17. /\ Holds(s, "V2", hdr, id, bytes, crc_extra)
         /\ s[3] = stamped[3] /\ EndAt(s, "V2") = EndAt(stamped, "V2")
         /\ PayloadAt(s, "V2") = PayloadAt(stamped, "V2")
    BY <1>0, <1>6, <1>8, <1>10, <1>14, <1>16, HoldsMoves DEF Same
  <1>18. HoldsPayload(s, "V2", bytes)
    BY <1>17 DEF Holds
  <1>19. ValueAt(stamped) = at /\ SignedAt(s) = signed
    BY <1>10, <1>17 DEF ValueAt, SignedAt, at, signed
  <1>20. calculate_signature(s, key) = value
    <2>1. Same(stamped, s, ValueAt(stamped))
      BY <1>15, <1>19
    <2> QED
      BY <1>8, <1>11, <1>14, <1>17, <1>18, <2>1, SignatureMoves DEF value
  <1>21. signature_value(s) = value
    <2>1. link_id_offset(s) + 1 + SIGNATURE_TIMESTAMP_SIZE = at
      <3>1. link_id_offset(s) = SignedAt(s)
        BY <1>14, <1>18, SignaturePlace
      <3> QED
        BY <1>2, <1>19, <3>1
    <2>2. s \in Seq(Byte) /\ Len(s) = n
      BY <1>0, <1>14, BufferIs DEF n
    <2>3. Cells(s, at, SIGNATURE_VALUE_SIZE) = [i \in 1 .. SIGNATURE_VALUE_SIZE |-> s[at + i]]
      <3> DEFINE count == SIGNATURE_VALUE_SIZE
      <3>1. at \in Nat /\ count \in Nat /\ at + count <= Len(s)
        BY <1>2, <1>3, <2>2
      <3> HIDE DEF count
      <3>2. Cells(s, at, count) = [i \in 1 .. count |-> s[at + i]]
        BY <2>2, <3>1, CellsIs
      <3> QED
        BY <3>2 DEF count
    <2>4. \A i \in 1 .. SIGNATURE_VALUE_SIZE : s[at + i] = value[i]
      BY <1>12, <1>13 DEF Overwritten
    <2>5. signature_value(s) = Cells(s, at, SIGNATURE_VALUE_SIZE)
      BY <2>1 DEF signature_value
    <2> QED
      BY <1>12, <2>3, <2>4, <2>5
  <1>22. is_signed(s, "V2")
    <2>1. r[3] \in Nat /\ s[3] = r[3]
      BY <1>0, <1>10, <1>17, BufferIs
    <2> QED
      BY <2>1, Offsets
  <1> QED
    BY <1>4, <1>14, <1>17, <1>20, <1>21, <1>22 DEF SignedBy

-----------------------------------------------------------------------------
(***************************************************************************)
(* Receiving: a copy of the slice that is sent, in a buffer of its own.    *)
(***************************************************************************)
\* A new buffer is one.
LEMMA NewRawIs == \A v \in Versions : NewRaw(v) \in Buffer(v)
  <1> SUFFICES ASSUME NEW v \in Versions PROVE NewRaw(v) \in Buffer(v)
    OBVIOUS
  <1> DEFINE n == FRAME_SIZE[v]
  <1>1. NewRaw(v) = [i \in 1 .. n |-> 0]
    BY DEF NewRaw, Zeroes
  <1> HIDE DEF n
  <1>2. NewRaw(v) \in [1 .. n -> 0 .. 255]
    BY <1>1
  <1> QED
    BY <1>2 DEF Buffer, n

\* What the receiver of a frame copies into a buffer of its own.
Copied(r, v, n, s) == s \in Buffer(v) /\ Same(r, s, n)

\* A copy has the cells of the slice.
LEMMA CopyIs ==
  ASSUME NEW v \in Versions, NEW r \in Buffer(v), NEW n \in Nat, n <= FRAME_SIZE[v]
  PROVE  Copied(r, v, n, FromFrame(Take(r, n), v))
  <1> DEFINE bytes == Take(r, n)
             full == FRAME_SIZE[v]
             new == NewRaw(v)
             s == Overwrite(new, 0, bytes)
  <1>1. r \in Seq(Byte) /\ Len(r) = full /\ full \in Nat
    BY BufferIs, Zenon
  <1>2. bytes \in Seq(Byte) /\ Len(bytes) = n /\ \A i \in 1 .. n : bytes[i] = r[i]
    BY <1>1, TakeIs
  <1>3. new \in [1 .. full -> Byte]
    BY NewRawIs DEF Buffer, Byte
  <1> HIDE DEF bytes, new
  <1>4. 0 + Len(bytes) <= full /\ 0 \in Nat
    BY <1>1, <1>2
  <1> HIDE DEF full
  <1>5. s \in [1 .. full -> Byte] /\ Overwritten(full, new, 0, bytes, s)
    BY <1>1, <1>2, <1>3, <1>4, OverwriteIs
  <1>6. s \in Buffer(v)
    BY <1>5 DEF Buffer, Byte, full
  <1>7. ASSUME NEW i \in 1 .. n PROVE s[i] = r[i]
    <2>1. s[0 + i] = bytes[i]
      BY <1>2, <1>5 DEF Overwritten
    <2>2. 0 + i = i
      OBVIOUS
    <2> QED
      BY <1>2, <2>1, <2>2
  <1> HIDE DEF s
  <1>8. Copied(r, v, n, s)
    BY <1>6, <1>7 DEF Copied, Same
  <1> QED
    BY <1>8 DEF FromFrame, s, bytes, new

\* The slice that is sent has all that the frame holds, and its signature.
LEMMA SliceIs ==
  ASSUME NEW v \in Versions, NEW r \in Buffer(v), NEW bytes, HoldsPayload(r, v, bytes)
  PROVE  \E n \in Nat : /\ n <= FRAME_SIZE[v] /\ raw_bytes(r, v) = Take(r, n)
                        /\ EndAt(r, v) + 2 <= n
                        /\ v = "V2" /\ is_signed(r, v) => ValueAt(r) + SIGNATURE_VALUE_SIZE <= n
  <1> DEFINE n == EndAt(r, v) + 2 + (IF is_signed(r, v) THEN SIGNATURE_SIZE ELSE 0)
  <1>1. /\ EndAt(r, v) \in Nat /\ EndAt(r, v) + 2 <= FRAME_SIZE[v]
        /\ checksum_offset(r, v) = EndAt(r, v)
        /\ v = "V2" => EndAt(r, v) + 2 + SIGNATURE_SIZE <= FRAME_SIZE[v]
    BY EndIs
  <1>2. r[3] \in Nat /\ FRAME_SIZE[v] \in Nat
    BY BufferIs
  <1>3. is_signed(r, v) => v = "V2"
    BY <1>2, Offsets DEF Versions
  <1>4. SIGNATURE_SIZE \in Nat
    BY SizesAre
  <1>5. raw_bytes(r, v) = Take(r, n)
    BY <1>1 DEF raw_bytes, CHECKSUM_SIZE
  <1>6. n \in Nat /\ n <= FRAME_SIZE[v] /\ EndAt(r, v) + 2 <= n
    BY <1>1, <1>2, <1>3, <1>4
  <1>7. ASSUME v = "V2", is_signed(r, v)
        PROVE  ValueAt(r) + SIGNATURE_VALUE_SIZE <= n
    <2>1. /\ SignedAt(r) + SIGNATURE_SIZE = ValueAt(r) + SIGNATURE_VALUE_SIZE
          /\ ValueAt(r) + SIGNATURE_VALUE_SIZE \in Nat
      <3>1. SIGNATURE_VALUE_SIZE \in Nat
        BY SignatureAssumption
      <3>2. /\ SignedAt(r) + SIGNATURE_SIZE = ValueAt(r) + SIGNATURE_VALUE_SIZE
            /\ ValueAt(r) \in Nat
        BY <1>7, SignaturePlace
      <3> QED
        BY <3>1, <3>2
    <2>2. n = SignedAt(r) + SIGNATURE_SIZE
      BY <1>7 DEF SignedAt
    <2> HIDE DEF n
    <2> QED
      BY <2>1, <2>2
  <1> HIDE DEF n
  <1> QED
    BY <1>5, <1>6, <1>7

\* The receiver's copy holds the frame, and is signed when the frame is.
LEMMA ReceivedIs ==
  ASSUME NEW v \in Versions, NEW r \in Buffer(v), NEW hdr, NEW id, NEW bytes, NEW crc_extra,
         Holds(r, v, hdr, id, bytes, crc_extra), NEW s, s = FromFrame(raw_bytes(r, v), v)
  PROVE  /\ s \in Buffer(v)
         /\ Holds(s, v, hdr, id, bytes, crc_extra)
         /\ \A key : v = "V2" /\ SignedBy(r, key) => SignedBy(s, key)
  <1>1. HoldsPayload(r, v, bytes)
    BY DEF Holds
  <1>2. PICK n \in Nat : /\ n <= FRAME_SIZE[v] /\ raw_bytes(r, v) = Take(r, n)
                         /\ EndAt(r, v) + 2 <= n
                         /\ v = "V2" /\ is_signed(r, v) => ValueAt(r) + SIGNATURE_VALUE_SIZE <= n
    BY <1>1, SliceIs
  <1>3. s \in Buffer(v) /\ Same(r, s, n)
    BY <1>2, CopyIs DEF Copied
  <1>4. EndAt(r, v) \in Nat
    BY <1>1, EndIs
  <1>5. \A i \in 1 .. EndAt(r, v) + 2 : s[i] = r[i]
    BY <1>2, <1>3, <1>4 DEF Same
  <1>6. /\ Holds(s, v, hdr, id, bytes, crc_extra)
        /\ s[3] = r[3] /\ EndAt(s, v) = EndAt(r, v) /\ PayloadAt(s, v) = PayloadAt(r, v)
    BY <1>3, <1>5, HoldsMoves
  <1>7. ASSUME v = "V2", NEW key, SignedBy(r, key)
        PROVE  SignedBy(s, key)
    <2> DEFINE at == ValueAt(r)
               count == SIGNATURE_VALUE_SIZE
    <2>1. HoldsPayload(s, "V2", bytes) /\ HoldsPayload(r, "V2", bytes)
      BY <1>1, <1>6, <1>7 DEF Holds
    <2>2. r \in Buffer("V2") /\ s \in Buffer("V2") /\ is_signed(r, "V2") /\ "V2" \in Versions
      BY <1>3, <1>7 DEF SignedBy, Versions
    <2>3. is_signed(s, "V2")
      <3>1. r[3] \in Nat /\ s[3] \in Nat
        BY <2>2, BufferIs
      <3> QED
        BY <1>6, <2>2, <3>1, Offsets
    <2>4. /\ at \in Nat /\ count \in Nat /\ at + count <= n /\ link_id_offset(r) = SignedAt(r)
          /\ at = SignedAt(r) + 1 + SIGNATURE_TIMESTAMP_SIZE
      <3>1. count \in Nat
        BY SignatureAssumption
      <3>2. /\ at \in Nat /\ link_id_offset(r) = SignedAt(r)
            /\ at = SignedAt(r) + 1 + SIGNATURE_TIMESTAMP_SIZE
        BY <2>1, <2>2, SignaturePlace, Zenon
      <3>3. at + count <= n
        BY <1>2, <1>7, <2>2
      <3> QED
        BY <3>1, <3>2, <3>3
    <2>5. Same(r, s, at)
      BY <1>3, <2>4 DEF Same
    <2>6. SignedAt(s) = SignedAt(r) /\ calculate_signature(s, key) = calculate_signature(r, key)
      BY <1>6, <1>7, <2>1, <2>2, <2>5, SignatureMoves
    <2>7. link_id_offset(s) = SignedAt(s)
      BY <2>1, <2>2, SignaturePlace
    <2>8. signature_value(s) = Cells(s, at, count) /\ signature_value(r) = Cells(r, at, count)
      BY <2>4, <2>6, <2>7 DEF signature_value
    <2> HIDE DEF at, count
    <2>9. Cells(s, at, count) = Cells(r, at, count)
      BY <1>2, <1>3, <1>7, <2>2, <2>4, SameSlices
    <2> QED
      BY <1>7, <2>3, <2>6, <2>8, <2>9 DEF SignedBy
  <1> QED
    BY <1>3, <1>6, <1>7

-----------------------------------------------------------------------------
(***************************************************************************)
(* MavFrame: cursors, and the parts of a short frame one after another.    *)
(***************************************************************************)
\* What a cursor at a place gives, with bytes enough left.
At(data, pos, got) == [data |-> data, pos |-> pos, last |-> got, error |-> FALSE]

\* Reading from a cursor with enough left.
LEMMA Gets ==
  ASSUME NEW S, NEW data \in Seq(S), NEW pos \in Nat, NEW count \in Nat, NEW got,
         pos + count <= Len(data)
  PROVE  get_bytes(At(data, pos, got), count) = At(data, pos + count, Cells(data, pos, count))
  <1> DEFINE cursor == At(data, pos, got)
  <1>1. /\ cursor.data = data /\ cursor.pos = pos /\ cursor.error = FALSE
    BY DEF At
  <1>2. ~(remaining(cursor) < count)
    BY <1>1 DEF remaining
  <1>3. get_bytes(cursor, count)
          = [cursor EXCEPT !.pos = cursor.pos + count,
                           !.last = available_bytes(cursor.data, cursor.pos, count)]
    BY <1>1, <1>2 DEF get_bytes
  <1> QED
    BY <1>1, <1>3 DEF At, Cells

\* In t, which begins with a and b, b is found where a ends.
Begins(t, a) == Len(a) <= Len(t) /\ \A i \in 1 .. Len(a) : t[i] = a[i]

\* In a sequence that begins with a and b, b is found where a ends.
LEMMA SecondPart ==
  ASSUME NEW S, NEW a \in Seq(S), NEW b \in Seq(S), NEW t \in Seq(S), Begins(t, a \o b)
  PROVE  Cells(t, Len(a), Len(b)) = b
  <1> DEFINE ab == a \o b
             n == Len(a)
             m == Len(b)
  <1>1. ab \in Seq(S) /\ Joined(a, b, ab)
    BY JoinedIs
  <1> HIDE DEF ab
  <1>2. /\ n \in Nat /\ m \in Nat /\ Len(ab) = n + m
        /\ \A i \in 1 .. m : ab[n + i] = b[i]
    BY <1>1 DEF Joined
  <1>3. n + m <= Len(t) /\ \A i \in 1 .. n + m : t[i] = ab[i]
    BY <1>2 DEF Begins, ab
  <1>4. \A i \in 1 .. m : t[n + i] = b[i]
    BY <1>2, <1>3
  <1>5. b = [i \in 1 .. m |-> b[i]]
    OBVIOUS
  <1> HIDE DEF n, m
  <1>6. Cells(t, n, m) = [i \in 1 .. m |-> t[n + i]]
    BY <1>2, <1>3, CellsIs
  <1>7. Cells(t, n, m) = b
    BY <1>4, <1>5, <1>6
  <1> QED
    BY <1>7 DEF n, m

\* What begins with two parts begins with the first.
LEMMA BeginsIs ==
  ASSUME NEW S, NEW a \in Seq(S), NEW b \in Seq(S), NEW t \in Seq(S), Begins(t, a \o b)
  PROVE  Begins(t, a) /\ Len(a \o b) = Len(a) + Len(b)
  <1> DEFINE ab == a \o b
  <1>1. ab \in Seq(S) /\ Joined(a, b, ab) /\ Len(a) \in Nat /\ Len(b) \in Nat
    BY JoinedIs
  <1>2. Begins(t, ab)
    OBVIOUS
  <1> HIDE DEF ab
  <1>3. Len(a) <= Len(ab) /\ 1 .. Len(a) \subseteq 1 .. Len(ab) /\ Len(ab) = Len(a) + Len(b)
    BY <1>1 DEF Joined
  <1> QED
    BY <1>1, <1>2, <1>3 DEF Begins, Joined, ab

\* What is left after the first part is the second.
LEMMA RestIs ==
  ASSUME NEW S, NEW a \in Seq(S), NEW b \in Seq(S)
  PROVE  Drop(a \o b, Len(a)) = b
  <1> DEFINE ab == a \o b
             n == Len(a)
             rest == Drop(ab, n)
  <1>1. ab \in Seq(S) /\ Joined(a, b, ab) /\ n \in Nat /\ Len(b) \in Nat
    BY JoinedIs
  <1> HIDE DEF ab
  <1>2. Len(ab) = n + Len(b) /\ \A i \in 1 .. Len(b) : ab[n + i] = b[i]
    BY <1>1 DEF Joined
  <1> HIDE DEF n
  <1>3. /\ rest \in Seq(S) /\ Len(rest) = Len(b)
        /\ \A i \in 1 .. Len(rest) : rest[i] = ab[n + i]
    <2>1. n <= Len(ab) /\ Len(ab) - n = Len(b)
      BY <1>1, <1>2
    <2> QED
      BY <1>1, <2>1, DropIs
  <1> HIDE DEF rest
  <1>4. rest = b
    BY <1>2, <1>3
  <1> QED
    BY <1>4 DEF rest, n, ab

\* The parts of a short frame, and what reading them one after the other gives.
ReadParts(input, one, sys, comp, id, bytes) ==
  LET c1 == get_bytes(Bytes(input), Len(one))
      c2 == get_bytes(c1, Len(sys))
      c3 == get_bytes(c2, Len(comp))
      c4 == get_bytes(c3, Len(id))
  IN  /\ ~c4.error
      /\ c1.last = one /\ c2.last = sys /\ c3.last = comp /\ c4.last = id
      /\ Drop(input, c4.pos) = bytes

\* Parts written one after another are read one after another.
LEMMA PartsRead ==
  ASSUME NEW S, NEW one \in Seq(S), NEW sys \in Seq(S), NEW comp \in Seq(S), NEW id \in Seq(S),
         NEW bytes \in Seq(S)
  PROVE  ReadParts(one \o sys \o comp \o id \o bytes, one, sys, comp, id, bytes)
  <1> DEFINE two == one \o sys
             three == two \o comp
             four == three \o id
             input == four \o bytes
             a == Len(one)
             b == Len(sys)
             c == Len(comp)
             d == Len(id)
  <1>1. two \in Seq(S)
    OBVIOUS
  <1>2. three \in Seq(S)
    BY <1>1
  <1>3. four \in Seq(S)
    BY <1>2
  <1>4. input \in Seq(S)
    BY <1>3
  <1>5. a \in Nat /\ b \in Nat /\ c \in Nat /\ d \in Nat
    OBVIOUS
  <1>6. Begins(input, input) /\ Begins(input, four)
    <2> HIDE DEF four
    <2>1. Begins(input, four \o bytes)
      BY <1>3, <1>4 DEF Begins
    <2> QED
      BY <1>3, <1>4, <2>1, BeginsIs
  <1> HIDE DEF input
  <1>7. Begins(input, three) /\ Len(four) = Len(three) + d /\ Cells(input, Len(three), d) = id
    <2> HIDE DEF three
    <2> QED
      BY <1>2, <1>4, <1>6, BeginsIs, SecondPart
  <1>8. Begins(input, two) /\ Len(three) = Len(two) + c /\ Cells(input, Len(two), c) = comp
    <2> HIDE DEF two
    <2> QED
      BY <1>1, <1>4, <1>7, BeginsIs, SecondPart
  <1>9. Begins(input, one) /\ Len(two) = a + b /\ Cells(input, a, b) = sys
    BY <1>4, <1>8, BeginsIs, SecondPart
  <1>10. Cells(input, 0, a) = one
    <2>1. Begins(input, <<>> \o one)
      <3>1. <<>> \o one = one
        OBVIOUS
      <3> QED
        BY <1>9, <3>1
    <2>2. <<>> \in Seq(S) /\ Len(<<>>) = 0
      OBVIOUS
    <2>3. Cells(input, Len(<<>>), Len(one)) = one
      BY <1>4, <2>1, <2>2, SecondPart
    <2> QED
      BY <2>2, <2>3
  <1>11. Drop(input, Len(four)) = bytes
    <2> HIDE DEF four
    <2> QED
      BY <1>3, RestIs DEF input
  <1>12. Len(four) <= Len(input) /\ Len(input) \in Nat
    BY <1>4, <1>6 DEF Begins
  <1> HIDE DEF two, three, four
  <1> DEFINE c0 == Bytes(input)
             c1 == get_bytes(c0, a)
             c2 == get_bytes(c1, b)
             c3 == get_bytes(c2, c)
             c4 == get_bytes(c3, d)
  <1> HIDE DEF a, b, c, d
  <1>13. c0 = At(input, 0, <<>>)
    BY DEF Bytes, At
  <1>14. Len(two) = a + b /\ Len(three) = a + b + c /\ Len(four) = a + b + c + d
    BY <1>5, <1>7, <1>8, <1>9
  <1>15. /\ 0 + a <= Len(input) /\ a + b <= Len(input) /\ (a + b) + c <= Len(input)
         /\ (a + b + c) + d <= Len(input)
         /\ 0 \in Nat /\ 0 + a = a /\ a + b \in Nat /\ a + b + c \in Nat
    BY <1>5, <1>12, <1>14
  <1>16. c1 = At(input, a, one)
    BY <1>4, <1>5, <1>10, <1>13, <1>15, Gets
  <1> HIDE DEF c1
  <1>17. c2 = At(input, a + b, sys)
    BY <1>4, <1>5, <1>9, <1>15, <1>16, Gets
  <1> HIDE DEF c2
  <1>18. c3 = At(input, a + b + c, comp)
    BY <1>4, <1>5, <1>8, <1>14, <1>15, <1>17, Gets
  <1> HIDE DEF c3
  <1>19. c4 = At(input, a + b + c + d, id)
    BY <1>4, <1>5, <1>7, <1>14, <1>15, <1>18, Gets
  <1> HIDE DEF c4
  <1>20. /\ ~c4.error /\ c1.last = one /\ c2.last = sys /\ c3.last = comp /\ c4.last = id
         /\ c4.pos = Len(four)
    BY <1>14, <1>16, <1>17, <1>18, <1>19 DEF At
  <1>21. ReadParts(input, one, sys, comp, id, bytes)
    BY <1>11, <1>20 DEF ReadParts, c0, c1, c2, c3, c4, a, b, c, d
  <1> QED
    BY <1>21 DEF input, four, three, two

ShortFlags(hdr) == IF hdr.system_id > MaxId THEN IFLAG_SYSID32 ELSE 0

\* A MavFrame reads what it writes, when it is told the flags.
LEMMA ShortReads ==
  ASSUME NEW v \in Versions, NEW hdr \in Header, NEW id \in 0 .. LargestId,
         NEW bytes \in Seq(0 .. MaxId), v = "V1" => hdr.system_id <= MaxId /\ id <= MaxId
  PROVE  deser_with_flags(v, ShortFlags(hdr), MavFrameSer(v, hdr, id, bytes))
           = [error |-> "", header |-> hdr, id |-> id, payload |-> bytes]
  <1> DEFINE w == IF hdr.system_id > MaxId THEN 4 ELSE 1
             k == IF v = "V1" THEN 1 ELSE 3
             one == <<hdr.sequence>>
             sys == ToBytes(hdr.system_id, w)
             comp == <<hdr.component_id>>
             ident == ToBytes(id, k)
             input == one \o sys \o comp \o ident \o bytes
             c1 == get_bytes(Bytes(input), 1)
             c2 == get_bytes(c1, w)
             c3 == get_bytes(c2, 1)
             c4 == get_bytes(c3, k)
  <1>1. /\ hdr.sequence \in 0 .. MaxId /\ hdr.component_id \in 0 .. MaxId
        /\ hdr.system_id \in 0 .. Power[4] - 1
        /\ hdr = [sequence |-> hdr.sequence, system_id |-> hdr.system_id,
                  component_id |-> hdr.component_id]
    BY DEF Header
  <1>2. /\ MaxId \in Nat /\ hdr.system_id \in Nat /\ w \in 0 .. 8 /\ k \in 0 .. 8 /\ id \in Nat
        /\ Power[3] \in Nat
    <2>1. 3 \in 0 .. 8
      OBVIOUS
    <2>2. Power[3] \in Nat
      BY <2>1, PowerType
    <2> QED
      BY <1>1, <2>2, SizesAre, PowerOfOne DEF LargestId
  <1>3. hdr.system_id \in 0 .. Power[w] - 1
    BY <1>1, <1>2, PowerOfOne
  <1>4. id \in 0 .. Power[k] - 1
    BY <1>2, PowerOfOne DEF LargestId, Versions
  <1>5. (IF HasFlag(ShortFlags(hdr), IFLAG_SYSID32) THEN 4 ELSE 1) = w
    <2>1. (2 \div 2) % 2 = 1 /\ (0 \div 2) % 2 = 0
      OBVIOUS
    <2> QED
      BY <2>1 DEF HasFlag, ShortFlags, IFLAG_SYSID32
  <1>6. MavFrameSer(v, hdr, id, bytes) = input
    BY <1>1, <1>2 DEF MavFrameSer
  <1>7. /\ one \in Seq(0 .. MaxId) /\ Len(one) = 1 /\ one[1] = hdr.sequence
        /\ comp \in Seq(0 .. MaxId) /\ Len(comp) = 1 /\ comp[1] = hdr.component_id
    BY <1>1
  <1> HIDE DEF w, k
  <1>8. /\ sys \in Seq(0 .. MaxId) /\ Len(sys) = w /\ FromBytes(sys) = hdr.system_id
    BY <1>2, <1>3, ToBytesType, ToFromBytes
  <1>9. /\ ident \in Seq(0 .. MaxId) /\ Len(ident) = k /\ FromBytes(ident) = id
    BY <1>2, <1>4, ToBytesType, ToFromBytes
  <1> HIDE DEF one, comp, sys, ident
  <1>10. ReadParts(input, one, sys, comp, ident, bytes)
    BY <1>7, <1>8, <1>9, PartsRead
  <1> HIDE DEF input
  <1>11. /\ ~c4.error /\ c1.last = one /\ c2.last = sys /\ c3.last = comp /\ c4.last = ident
         /\ Drop(input, c4.pos) = bytes
    BY <1>7, <1>8, <1>9, <1>10 DEF ReadParts
  <1>12. deser_with_flags(v, ShortFlags(hdr), input)
           = IF c4.error THEN [error |-> "NotEnoughBuffer"]
             ELSE [error   |-> "",
                   header  |-> [sequence |-> c1.last[1], system_id |-> FromBytes(c2.last),
                                component_id |-> c3.last[1]],
                   id      |-> FromBytes(c4.last),
                   payload |-> Drop(input, c4.pos)]
    BY <1>5 DEF deser_with_flags, k
  <1> HIDE DEF c1, c2, c3, c4
  <1>13. deser_with_flags(v, ShortFlags(hdr), input)
           = [error |-> "", header |-> hdr, id |-> id, payload |-> bytes]
    BY <1>1, <1>7, <1>8, <1>9, <1>11, <1>12
  <1> QED
    BY <1>6, <1>13
=============================================================================
