----------------------- MODULE ConnectionConfigProofs -----------------------
(***************************************************************************)
(* Proofs about ConnectionConfig, for any number of openers.               *)
(***************************************************************************)
EXTENDS ConnectionConfig, SequenceTheorems, FiniteSetTheorems, TLAPS

StepNames == {"take", "resolve", "bind", "connect", "accept", "configure", "open"}

-----------------------------------------------------------------------------
(***************************************************************************)
(* The inductive invariant.                                                *)
(***************************************************************************)

\* After the socket is taken it is not taken again.
TakesOnce(steps) ==
  \A i, j \in DOMAIN steps : i < j /\ steps[i] = "take" => steps[j] # "take"

StepsLeft ==
  /\ todo \in [Openers -> Seq(StepNames)]
  /\ \A o \in Openers : TakesOnce(todo[o])
  /\ \A o \in Openers : result[o] = "running" => todo[o] # <<>>

\* Who has the shared socket took it from the slot, and alone.
OneHolder ==
  \A o \in Openers :
    holds[o] = "given" =>
      slot = "empty" /\ \A p \in Openers : holds[p] = "given" => p = o

ToldTheTruth ==
  \A o \in Openers : result[o] = "used_up" =>
    \E p \in Openers \ {o} : result[p] # "none" /\ ~ Contains(todo[p], "take")

\* An empty slot was emptied by an open that got further.
SlotTaken ==
  slot = "empty" =>
    \E o \in Openers : result[o] \notin {"none", "used_up"} /\ ~ Contains(todo[o], "take")

IInv ==
  /\ TypeOK /\ style \in [Openers -> {"blocking", "async"}]
  /\ StepsLeft /\ OneHolder /\ ToldTheTruth /\ SlotTaken

-----------------------------------------------------------------------------
(***************************************************************************)
(* The steps of an open.                                                   *)
(***************************************************************************)
Plain == StepNames \ {"take"}

LEMMA PlainSteps ==
  ASSUME NEW first \in Seq(StepNames), TakesOnce(first), NEW rest \in Seq(Plain)
  PROVE  /\ first \o rest \in Seq(StepNames) /\ TakesOnce(first \o rest)
         /\ first # <<>> => first \o rest # <<>>
  <1>1. rest \in Seq(StepNames) /\ \A i \in 1 .. Len(rest) : rest[i] # "take"
    BY DEF Plain
  <1>2. first \o rest \in Seq(StepNames)
    BY <1>1
  <1>3. /\ DOMAIN (first \o rest) = 1 .. Len(first) + Len(rest)
        /\ \A i \in 1 .. Len(first) : (first \o rest)[i] = first[i]
        /\ \A i \in 1 .. Len(first) + Len(rest) :
             i > Len(first) => (first \o rest)[i] = rest[i - Len(first)]
    BY <1>1
  <1>4. Len(first) \in Nat /\ Len(rest) \in Nat /\ DOMAIN first = 1 .. Len(first)
    BY <1>1, LenProperties
  <1>5. \A i \in 1 .. Len(first) + Len(rest) :
          i > Len(first) => (first \o rest)[i] # "take"
    BY <1>1, <1>3, <1>4
  <1>6. first # <<>> => first \o rest # <<>>
    BY <1>1, <1>2
  <1> QED
    BY <1>2, <1>3, <1>4, <1>5, <1>6 DEF TakesOnce

LEMMA WhenPlain ==
  ASSUME NEW condition \in BOOLEAN, NEW step \in Plain
  PROVE  When(condition, step) \in Seq(Plain)
  BY DEF When

LEMMA OneOrTwoSteps ==
  ASSUME NEW last \in StepNames, NEW before \in {<<>>, <<"resolve">>}
  PROVE  /\ before \o <<last>> \in Seq(StepNames) /\ TakesOnce(before \o <<last>>)
         /\ before \o <<last>> # <<>>
  <1>1. before \in Seq(StepNames) /\ <<last>> \in Seq(StepNames) /\ Len(<<last>>) = 1
    <2>1. "resolve" \in StepNames
      BY DEF StepNames
    <2>2. CASE before = <<>>
      BY <2>2
    <2>3. CASE before = <<"resolve">>
      BY <2>1, <2>3
    <2> QED
      BY <2>2, <2>3
  <1>2. /\ before \o <<last>> \in Seq(StepNames)
        /\ Len(before \o <<last>>) = Len(before) + 1
        /\ \A i \in 1 .. Len(before) : (before \o <<last>>)[i] = before[i]
    BY <1>1
  <1>3. Len(before) \in {0, 1} /\ \A i \in 1 .. Len(before) : before[i] = "resolve"
    OBVIOUS
  <1>4. TakesOnce(before \o <<last>>)
    <2> SUFFICES ASSUME NEW i \in DOMAIN (before \o <<last>>), NEW j \in DOMAIN (before \o <<last>>),
                        i < j
                 PROVE  (before \o <<last>>)[i] # "take"
      BY DEF TakesOnce
    <2>1. i \in 1 .. Len(before)
      BY <1>2, <1>3
    <2> QED
      BY <1>2, <1>3, <2>1
  <1> QED
    BY <1>2, <1>3, <1>4

LEMMA OpeningSteps ==
  ASSUME config \in Configuration, NEW o \in Openers, style \in [Openers -> {"blocking", "async"}]
  PROVE  Steps(o) \in Seq(StepNames) /\ TakesOnce(Steps(o)) /\ Steps(o) # <<>>
  <1> DEFINE configured == When(Blocking(o), "configure")
  <1>1. /\ {"accept", "configure", "open"} \subseteq Plain
        /\ Blocking(o) \in BOOLEAN /\ config.backed \in BOOLEAN
        /\ (config.protocol = "tcpin") \in BOOLEAN
    BY DEF Plain, StepNames, Blocking, Configuration
  <1>2. CASE config.protocol \in TcpModes
    <2> DEFINE taken == <<"take">> \o When(~ Blocking(o), "configure")
               own == <<"resolve", IF config.protocol = "tcpin" THEN "bind" ELSE "connect">>
               first == IF config.backed THEN taken ELSE own
               second == When(config.protocol = "tcpin", "accept")
    <2>1. <<"take">> \in Seq(StepNames) /\ TakesOnce(<<"take">>)
      BY DEF StepNames, TakesOnce
    <2>2. taken \in Seq(StepNames) /\ TakesOnce(taken)
      BY <1>1, <2>1, WhenPlain, PlainSteps
    <2>3. own \in Seq(StepNames) /\ TakesOnce(own)
      BY DEF StepNames, TakesOnce
    <2>4. first \in Seq(StepNames) /\ TakesOnce(first)
      BY <2>2, <2>3
    <2>5. second \in Seq(Plain) /\ configured \in Seq(Plain)
      BY <1>1, WhenPlain
    <2>6. taken # <<>> /\ own # <<>>
      BY <1>1, WhenPlain
    <2>7. Steps(o) = first \o second \o configured
      <3>1. Steps(o) = TcpSteps(o)
        BY <1>2 DEF Steps, TcpModes, UdpModes
      <3> QED
        BY ONLY <3>1, Zenon DEF TcpSteps
    <2> HIDE DEF first, second, configured
    <2>8. first # <<>>
      BY <2>6 DEF first
    <2>9. first \o second \in Seq(StepNames) /\ TakesOnce(first \o second) /\ first \o second # <<>>
      BY ONLY <2>4, <2>5, <2>8, PlainSteps
    <2> QED
      BY ONLY <2>5, <2>7, <2>9, PlainSteps
  <1>3. CASE config.protocol \in UdpModes
    <2> DEFINE last == IF config.backed THEN "take" ELSE "bind"
               first == When(config.protocol # "udpin", "resolve") \o <<last>>
               rest == When(Blocking(o) \/ config.backed \/ config.protocol = "udpbcast",
                            "configure")
    <2>1. last \in StepNames
      BY DEF StepNames
    <2>2. first \in Seq(StepNames) /\ TakesOnce(first) /\ first # <<>>
      <3>1. CASE config.protocol = "udpin"
        <4>1. When(config.protocol # "udpin", "resolve") = <<>>
          BY <3>1 DEF When
        <4> QED
          BY ONLY <2>1, <4>1, OneOrTwoSteps
      <3>2. CASE config.protocol # "udpin"
        <4>1. When(config.protocol # "udpin", "resolve") = <<"resolve">>
          BY <3>2 DEF When
        <4> QED
          BY ONLY <2>1, <4>1, OneOrTwoSteps
      <3> QED
        BY <3>1, <3>2
    <2>3. rest \in Seq(Plain)
      BY <1>1, WhenPlain
    <2>4. Steps(o) = first \o rest
      BY <1>3 DEF Steps, UdpSteps, UdpModes, TcpModes
    <2> HIDE DEF first, rest
    <2> QED
      BY <2>2, <2>3, <2>4, PlainSteps
  <1>4. CASE config.protocol = "serial"
    BY <1>4 DEF Steps, SerialSteps, TcpModes, UdpModes, StepNames, TakesOnce
  <1>5. CASE config.protocol = "file"
    BY <1>5 DEF Steps, FileSteps, TcpModes, UdpModes, StepNames, TakesOnce
  <1> QED
    BY <1>2, <1>3, <1>4, <1>5 DEF Configuration, Protocols

-----------------------------------------------------------------------------
(***************************************************************************)
(* The invariant is one.                                                   *)
(***************************************************************************)
LEMMA InitInv ==
  ASSUME Configurations \subseteq Configuration, Init
  PROVE  IInv
  BY DEF Init, IInv, TypeOK, StepsLeft, TakesOnce, OneHolder, ToldTheTruth, SlotTaken

LEMMA InvOfConnect ==
  ASSUME IInv, NEW o \in Openers, Connect(o)
  PROVE  IInv'
  <1> USE DEF IInv, TypeOK
  <1>1. /\ result[o] = "none" /\ result' = [result EXCEPT ![o] = "running"]
        /\ todo' = [todo EXCEPT ![o] = Steps(o)] /\ UNCHANGED <<config, style, slot, holds>>
        /\ todo \in [Openers -> Seq(StepNames)]
    BY DEF Connect, StepsLeft
  <1>2. Steps(o) \in Seq(StepNames) /\ TakesOnce(Steps(o)) /\ Steps(o) # <<>>
    BY OpeningSteps
  <1>3. StepsLeft'
    BY <1>1, <1>2 DEF StepsLeft, TakesOnce
  <1>4. OneHolder'
    BY <1>1 DEF OneHolder
  <1>5. ToldTheTruth'
    BY <1>1 DEF ToldTheTruth
  <1>6. SlotTaken'
    BY <1>1 DEF SlotTaken
  <1>7. TypeOK' /\ style' \in [Openers -> {"blocking", "async"}]
    BY <1>1
  <1> QED
    BY <1>3, <1>4, <1>5, <1>6, <1>7

\* The steps that are left after the first one.
LEMMA RestOfSteps ==
  ASSUME NEW steps \in Seq(StepNames), steps # <<>>, TakesOnce(steps)
  PROVE  /\ Tail(steps) \in Seq(StepNames) /\ TakesOnce(Tail(steps))
         /\ Len(steps) # 1 => Tail(steps) # <<>>
         /\ \A step : Contains(Tail(steps), step) => Contains(steps, step)
         /\ Contains(steps, Head(steps))
         /\ Head(steps) = "take" => ~ Contains(Tail(steps), "take")
  <1>1. /\ Tail(steps) \in Seq(StepNames) /\ Len(Tail(steps)) = Len(steps) - 1
        /\ \A i \in 1 .. Len(Tail(steps)) : Tail(steps)[i] = steps[i + 1]
    BY HeadTailProperties
  <1>2. Head(steps) = steps[1] /\ Len(steps) \in Nat /\ Len(steps) >= 1
        /\ DOMAIN steps = 1 .. Len(steps)
    OBVIOUS
  <1>3. DOMAIN Tail(steps) = 1 .. Len(steps) - 1
    BY <1>1
  <1>4. TakesOnce(Tail(steps))
    BY <1>1, <1>2, <1>3 DEF TakesOnce
  <1>5. \A step : Contains(Tail(steps), step) => Contains(steps, step)
    BY <1>1, <1>2 DEF Contains
  <1>6. Contains(steps, Head(steps))
    BY <1>2 DEF Contains
  <1>7. Head(steps) = "take" => ~ Contains(Tail(steps), "take")
    BY <1>1, <1>2 DEF Contains, TakesOnce
  <1>8. Len(steps) # 1 => Tail(steps) # <<>>
    BY <1>1, <1>2
  <1> QED
    BY <1>1, <1>4, <1>5, <1>6, <1>7, <1>8

\* A step that does not touch the slot.
LEMMA InvOfDone ==
  ASSUME IInv, NEW o \in Openers, result[o] = "running",
         NEW socket \in {holds[o], "own"}, Done(o, socket), UNCHANGED slot
  PROVE  IInv'
  <1> USE DEF IInv, TypeOK
  <1>1. /\ todo' = [todo EXCEPT ![o] = Tail(todo[o])] /\ holds' = [holds EXCEPT ![o] = socket]
        /\ result' = [result EXCEPT ![o] = IF Len(todo[o]) = 1 THEN "opened" ELSE "running"]
        /\ UNCHANGED <<config, style, slot>>
        /\ todo \in [Openers -> Seq(StepNames)]
    BY DEF Done, StepsLeft
  <1>2. todo[o] \in Seq(StepNames) /\ todo[o] # <<>> /\ TakesOnce(todo[o])
    BY <1>1 DEF StepsLeft
  <1>3. /\ Tail(todo[o]) \in Seq(StepNames) /\ TakesOnce(Tail(todo[o]))
        /\ Len(todo[o]) # 1 => Tail(todo[o]) # <<>>
        /\ \A step : Contains(Tail(todo[o]), step) => Contains(todo[o], step)
    BY <1>2, RestOfSteps
  <1>4. TypeOK' /\ style' \in [Openers -> {"blocking", "async"}]
    BY <1>1
  <1>5. StepsLeft'
    BY <1>1, <1>3 DEF StepsLeft
  <1>6. OneHolder'
    BY <1>1 DEF OneHolder
  <1>7. ToldTheTruth'
    BY <1>1, <1>3 DEF ToldTheTruth
  <1>8. SlotTaken'
    BY <1>1, <1>3 DEF SlotTaken
  <1> QED
    BY <1>4, <1>5, <1>6, <1>7, <1>8

LEMMA InvOfStop ==
  ASSUME IInv, NEW o \in Openers, result[o] = "running",
         NEW how \in {"failed", "dropped"}, Stop(o, how)
  PROVE  IInv'
  <1> USE DEF IInv, TypeOK, Stop
  <1>1. TypeOK' /\ style' \in [Openers -> {"blocking", "async"}]
    OBVIOUS
  <1>2. StepsLeft' /\ OneHolder'
    BY DEF StepsLeft, OneHolder
  <1>3. ToldTheTruth'
    BY DEF ToldTheTruth
  <1>4. SlotTaken'
    BY DEF SlotTaken
  <1> QED
    BY <1>1, <1>2, <1>3, <1>4

LEMMA InvOfTake ==
  ASSUME IInv, NEW o \in Openers, TakeSocket(o)
  PROVE  IInv'
  <1> USE DEF IInv, TypeOK
  <1>1. /\ result[o] = "running" /\ Head(todo[o]) = "take"
        /\ todo \in [Openers -> Seq(StepNames)]
        /\ todo[o] \in Seq(StepNames) /\ todo[o] # <<>> /\ TakesOnce(todo[o])
    BY DEF TakeSocket, At, StepsLeft
  <1>2. /\ Tail(todo[o]) \in Seq(StepNames) /\ TakesOnce(Tail(todo[o]))
        /\ Len(todo[o]) # 1 => Tail(todo[o]) # <<>>
        /\ Contains(todo[o], "take")
        /\ ~ Contains(Tail(todo[o]), "take")
    BY <1>1, RestOfSteps
  <1>3. CASE slot = "full" /\ slot' = "empty" /\ Done(o, "given")
    <2>1. /\ todo' = [todo EXCEPT ![o] = Tail(todo[o])] /\ holds' = [holds EXCEPT ![o] = "given"]
          /\ result' = [result EXCEPT ![o] = IF Len(todo[o]) = 1 THEN "opened" ELSE "running"]
          /\ UNCHANGED <<config, style>>
      BY <1>1, <1>3 DEF Done
    <2>2. TypeOK' /\ style' \in [Openers -> {"blocking", "async"}]
      BY <1>3, <2>1
    <2>3. StepsLeft'
      BY <1>1, <1>2, <2>1 DEF StepsLeft
    <2>4. OneHolder'
      BY <1>3, <2>1 DEF OneHolder
    <2>5. ToldTheTruth'
      BY <1>1, <1>2, <2>1 DEF ToldTheTruth
    <2>6. SlotTaken'
      BY <1>1, <1>2, <2>1 DEF SlotTaken
    <2> QED
      BY <2>2, <2>3, <2>4, <2>5, <2>6
  <1>4. CASE slot = "empty" /\ Stop(o, "used_up")
    <2>1. /\ holds' = [holds EXCEPT ![o] = "nothing"] /\ result' = [result EXCEPT ![o] = "used_up"]
          /\ UNCHANGED <<config, style, slot, todo>>
      BY <1>4 DEF Stop
    <2>2. PICK p \in Openers :
            /\ result[p] \notin {"none", "used_up"}
            /\ ~ Contains(todo[p], "take")
      BY <1>4 DEF SlotTaken
    <2>3. p # o
      BY <1>2, <2>2
    <2>4. TypeOK' /\ style' \in [Openers -> {"blocking", "async"}]
      BY <2>1
    <2>5. StepsLeft' /\ OneHolder'
      BY <2>1 DEF StepsLeft, OneHolder
    <2>6. ToldTheTruth'
      BY <2>1, <2>2, <2>3 DEF ToldTheTruth
    <2>7. SlotTaken'
      BY <2>1, <2>2, <2>3 DEF SlotTaken
    <2> QED
      BY <2>4, <2>5, <2>6, <2>7
  <1> QED
    BY <1>3, <1>4 DEF TakeSocket

LEMMA StepInv == IInv /\ [Next]_vars => IInv'
  <1> SUFFICES ASSUME IInv, [Next]_vars PROVE IInv'
    OBVIOUS
  <1>1. CASE UNCHANGED vars
    BY <1>1 DEF vars, IInv, TypeOK, StepsLeft, OneHolder, ToldTheTruth, SlotTaken
  <1>2. ASSUME NEW o \in Openers, Resolve(o) \/ OwnSocket(o) \/ Configure(o) \/ Accept(o)
        PROVE  IInv'
    <2>1. /\ result[o] = "running" /\ UNCHANGED slot
          /\ \E socket \in {holds[o], "own"} : Done(o, socket)
      BY <1>2 DEF Resolve, OwnSocket, Configure, Accept, At
    <2> QED
      BY <2>1, InvOfDone
  <1>3. ASSUME NEW o \in Openers, StepFails(o) \/ DropOpen(o) PROVE IInv'
    BY <1>3, InvOfStop DEF StepFails, DropOpen
  <1> QED
    BY <1>1, <1>2, <1>3, InvOfConnect, InvOfTake DEF Next, Advance

-----------------------------------------------------------------------------
(***************************************************************************)
(* The theorems.                                                           *)
(***************************************************************************)
LEMMA Invariance ==
  ASSUME Configurations \subseteq Configuration
  PROVE  Spec => []IInv
  <1>1. Init => IInv
    BY InitInv
  <1> QED
    BY <1>1, StepInv, PTL DEF Spec

\* One holder at most is what the count says.
LEMMA OneSocket == IInv => SocketInOnePlace
  <1> SUFFICES ASSUME IInv PROVE SocketInOnePlace
    OBVIOUS
  <1> DEFINE given == {o \in Openers : holds[o] = "given"}
  <1>1. CASE given = {}
    BY <1>1, FS_EmptySet DEF IInv, ToldTheTruth, SocketInOnePlace
  <1>2. ASSUME NEW o \in Openers, holds[o] = "given" PROVE SocketInOnePlace
    <2>1. slot = "empty" /\ given = {o}
      BY <1>2 DEF IInv, OneHolder
    <2>2. Cardinality(given) = 1
      BY <2>1, FS_Singleton
    <2> QED
      BY <2>1, <2>2 DEF IInv, ToldTheTruth, SocketInOnePlace
  <1> QED
    BY <1>1, <1>2

\* A configuration made from a socket is used once: among any number of its
\* clones one open has the socket at most, and those that are told that it is
\* used up are told so because another open has taken it.
THEOREM SocketCorrect ==
  ASSUME Configurations \subseteq Configuration
  PROVE  Spec => []SocketInOnePlace
  BY OneSocket, Invariance, PTL
=============================================================================
