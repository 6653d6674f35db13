----------------------- MODULE DialectSessionProofs ------------------------
(***************************************************************************)
(* Proofs about DialectSession: that no file counts twice, from a small    *)
(* invariant of the compiler's calls; that whatever the definition files   *)
(* hold, a dialect that loads has definitions within the bounds of a frame *)
(* and makes messages of bytes, from the types of all the compiler works   *)
(* on; and that the frame a peer has just written reads back as what was   *)
(* written, from what its buffers hold.                                    *)
(***************************************************************************)
EXTENDS DialectSession, RawMessageProofs

-----------------------------------------------------------------------------
(***************************************************************************)
(* Loading.  The calls of parse_profile under way are a sequence, and a    *)
(* path counts as begun, once, exactly when it is among the parsed files.  *)
(* The files are forgotten only between two loads.                         *)
(***************************************************************************)
CallsInv == parses \in Seq(ToSet(parses))

FilesInv ==
  /\ DOMAIN begun = parsed_files
  /\ \A path \in parsed_files : begun[path] = 1
  /\ Idle => parsed_files = {}

LoadInv == CallsInv /\ FilesInv

LEMMA OwnElements ==
  ASSUME NEW S, NEW s \in Seq(S)
  PROVE  s \in Seq(ToSet(s))
  BY DEF ToSet

LEMMA FrontOfCalls ==
  ASSUME NEW S, NEW s \in Seq(S), s # <<>>
  PROVE  Front(s) \in Seq(S)
  BY DEF Front

\* A call added at the end, of any kind, leaves a sequence that is not empty.
LEMMA AppendedCalls ==
  ASSUME NEW S, NEW s \in Seq(S), NEW call
  PROVE  Append(s, call) \in Seq(ToSet(Append(s, call))) /\ Append(s, call) # <<>>
  <1>1. s \in Seq(S \union {call}) /\ call \in S \union {call}
    OBVIOUS
  <1> DEFINE longer == Append(s, call)
  <1>2. longer \in Seq(S \union {call}) /\ Len(longer) > 0
    BY <1>1
  <1> HIDE DEF longer
  <1>3. longer \in Seq(ToSet(longer)) /\ longer # <<>>
    BY <1>2, OwnElements
  <1> QED
    BY <1>3 DEF longer

LEMMA NoCalls == parses' = <<>> => CallsInv'
  BY EmptySeq DEF CallsInv

LEMMA FailedEnds == \A status, why : status # "running" => Failed(status, why) # Running
  BY DEF Failed, Running

LEMMA EnterLoads ==
  ASSUME NEW S, NEW calls \in Seq(S), NEW path, NEW extensions,
         DOMAIN begun = parsed_files, \A p \in parsed_files : begun[p] = 1,
         path \notin parsed_files,
         Enter(calls, path, extensions)
  PROVE  LoadInv'
  <1>1. begun' = [p \in parsed_files \union {path} |-> IF p = path THEN 1 ELSE begun[p]]
    BY DEF Enter, WithEntry, TimesBegun
  <1>2. parsed_files' = parsed_files \union {path}
    BY DEF Enter
  <1>3. CallsInv' /\ ~Idle'
    <2>1. CASE path \in DOMAIN Content
      <3>1. parses' = Append(calls, NewParse(path, extensions))
        BY <2>1 DEF Enter
      <3> QED
        BY <3>1, AppendedCalls DEF CallsInv, Idle
    <2>2. CASE path \notin DOMAIN Content
      BY <2>2, NoCalls, FailedEnds DEF Enter, Idle
    <2> QED
      BY <2>1, <2>2
  <1> QED
    BY <1>1, <1>2, <1>3 DEF LoadInv, FilesInv

LEMMA ContinueLoads ==
  ASSUME LoadInv, parses # <<>>, NEW p, Continue(p)
  PROVE  LoadInv'
  <1>1. CallsInv' /\ ~Idle'
    <2>1. CASE p.panic # None
      BY <2>1, NoCalls, FailedEnds DEF Continue, Idle
    <2>2. CASE p.panic = None
      <3>1. parses' = Append(Front(parses), p)
        BY <2>2 DEF Continue
      <3> QED
        BY <3>1, AppendedCalls, FrontOfCalls DEF CallsInv, Idle, LoadInv
    <2> QED
      BY <2>1, <2>2
  <1> QED
    BY <1>1 DEF Continue, LoadInv, FilesInv

LEMMA CompilerLoads == LoadInv /\ CompilerStep => LoadInv'
  <1> SUFFICES ASSUME LoadInv, CompilerStep PROVE LoadInv'
    OBVIOUS
  <1>1. CASE RefuseFile
    BY <1>1, ContinueLoads DEF RefuseFile
  <1>2. CASE StartElement
    BY <1>2, ContinueLoads DEF StartElement, Reading
  <1>3. CASE TextOfElement
    BY <1>3, ContinueLoads DEF TextOfElement, Reading
  <1>4. CASE EndElement
    BY <1>4, ContinueLoads DEF EndElement, Reading
  <1>5. CASE EndInclude
    <2>1. Front(parses) \in Seq(ToSet(parses))
      BY <1>5, FrontOfCalls DEF EndInclude, Reading, LoadInv, CallsInv
    <2>2. Append(Front(parses), Popped) \in Seq(ToSet(Append(Front(parses), Popped)))
      BY <2>1, AppendedCalls
    <2>3. IncludePath(Innermost) \notin parsed_files
      BY <1>5 DEF EndInclude, MustInclude
    <2> QED
      BY <1>5, <2>2, <2>3, EnterLoads DEF EndInclude, LoadInv, FilesInv
  <1>6. CASE EndOfFile
    <2> DEFINE done == update_enums(Innermost)
               caller == CloseElement(Included(parses[Len(parses) - 1], done.profile))
    <2>0. parses # <<>> /\ parses \in Seq(ToSet(parses))
      BY <1>6 DEF EndOfFile, LoadInv, CallsInv
    <2>1. CASE done.panic # None
      BY <1>6, <2>0, <2>1, ContinueLoads DEF EndOfFile
    <2>2. CASE done.panic = None /\ Len(parses) = 1
      <3>1. /\ parses' = <<>>
            /\ outcome' = [status |-> "ok", why |-> "", profile |-> done.profile]
            /\ UNCHANGED <<parsed_files, begun>>
        BY <1>6, <2>2 DEF EndOfFile
      <3>2. outcome' # Running
        BY <3>1, Zenon DEF Running
      <3> QED
        BY <3>1, <3>2, NoCalls DEF LoadInv, FilesInv, Idle
    <2>3. CASE done.panic = None /\ Len(parses) # 1 /\ caller.panic # None
      BY <1>6, <2>0, <2>3, ContinueLoads DEF EndOfFile
    <2>4. CASE done.panic = None /\ Len(parses) # 1 /\ caller.panic = None
      <3> HIDE DEF done, caller
      <3>1. /\ parses' = Append(SubSeq(parses, 1, Len(parses) - 2), caller)
            /\ UNCHANGED <<outcome, parsed_files, begun>>
        BY <1>6, <2>4 DEF EndOfFile, done, caller
      <3>2. SubSeq(parses, 1, Len(parses) - 2) \in Seq(ToSet(parses))
        BY <2>0
      <3>3. CallsInv' /\ ~Idle'
        BY <3>1, <3>2, AppendedCalls DEF CallsInv, Idle
      <3> QED
        BY <3>1, <3>3 DEF LoadInv, FilesInv
    <2> QED
      BY <2>1, <2>2, <2>3, <2>4
  <1>7. CASE ReferenceInText
    BY <1>7, ContinueLoads DEF ReferenceInText, Reading
  <1> QED
    BY <1>1, <1>2, <1>3, <1>4, <1>5, <1>6, <1>7 DEF CompilerStep

LEMMA LoadInit == InitSession => LoadInv
  BY DEF InitSession, LoadInv, CallsInv, FilesInv, Idle, NoEntries, ToSet

LEMMA LoadStep == LoadInv /\ [Next]_<<session, vars>> => LoadInv'
  <1> SUFFICES ASSUME LoadInv, [Next]_<<session, vars>> PROVE LoadInv'
    OBVIOUS
  <1>1. CASE UNCHANGED vars
    BY <1>1 DEF LoadInv, CallsInv, FilesInv, Idle, vars
  <1>2. CASE StartLoading
    <2>1. parsed_files = {} /\ <<>> \in Seq({})
      BY <1>2 DEF StartLoading, LoadInv, FilesInv
    <2> QED
      BY <1>2, <2>1, EnterLoads DEF StartLoading, LoadInv, FilesInv
  <1>3. CASE CompileStep
    BY <1>3, CompilerLoads DEF CompileStep
  <1>4. CASE FinishLoading
    BY <1>4 DEF FinishLoading, LoadInv, CallsInv, FilesInv, Idle, NoEntries
  <1> QED
    BY <1>1, <1>2, <1>3, <1>4
    DEF Next, BuildFromFields, BuildFromPayload, Hold, Serialize, Receive, vars

\* Every file counts once, for any files, however they include each other, and
\* for any number of loads.
THEOREM ParsedOnceCorrect == Spec => []ParsedOnce
  <1>1. LoadInv => ParsedOnce
    BY DEF LoadInv, FilesInv, ParsedOnce
  <1> QED
    BY <1>1, LoadInit, LoadStep, PTL DEF Spec

-----------------------------------------------------------------------------
(***************************************************************************)
(* Folds. The folds of the community modules go over the sets of the first *)
(* places of a sequence and take their greatest off: such a function       *)
(* exists, and a set that its steps do not leave has its result.           *)
(***************************************************************************)
Top(s) == CHOOSE x \in s : \A y \in s : x >= y

\* The greatest of the first numbers, and of a subset that has the greatest.
LEMMA TopIs ==
  ASSUME NEW n \in Nat, NEW s \in SUBSET (1 .. n + 1)
  PROVE  /\ n + 1 \in s => Top(s) = n + 1 /\ s # {} /\ s \ {n + 1} \in SUBSET (1 .. n)
         /\ n + 1 \notin s => s \in SUBSET (1 .. n) /\ \A x : s \ {x} \in SUBSET (1 .. n)
  <1>1. ASSUME n + 1 \in s PROVE Top(s) = n + 1
    <2>1. \A y \in s : n + 1 >= y
      OBVIOUS
    <2>2. \A x \in s : (\A y \in s : x >= y) => x = n + 1
      BY <1>1
    <2> QED
      BY <1>1, <2>1, <2>2 DEF Top
  <1>2. \A x : n + 1 \notin s /\ x \in s => x \in 1 .. n
    OBVIOUS
  <1> QED
    BY <1>1, <1>2

\* The greatest of a set of the first numbers is one of them.
LEMMA TopIn ==
  ASSUME NEW n \in Nat, NEW s \in SUBSET (1 .. n), s # {}
  PROVE  Top(s) \in 1 .. n /\ s \ {Top(s)} \in SUBSET (1 .. n)
  <1> DEFINE T == {k \in Nat : \A r \in SUBSET (1 .. k) : r # {} => Top(r) \in 1 .. k}
  <1>1. 0 \in T
    <2>1. \A r \in SUBSET (1 .. 0) : r = {}
      OBVIOUS
    <2> QED
      BY <2>1
  <1>2. ASSUME NEW k \in Nat, k \in T PROVE k + 1 \in T
    <2> SUFFICES ASSUME NEW r \in SUBSET (1 .. k + 1), r # {} PROVE Top(r) \in 1 .. k + 1
      OBVIOUS
    <2>1. CASE k + 1 \in r
      BY <2>1, TopIs
    <2>2. CASE k + 1 \notin r
      <3>1. r \in SUBSET (1 .. k)
        BY <2>2, TopIs
      <3>2. Top(r) \in 1 .. k
        BY <1>2, <3>1
      <3> QED
        BY <3>2
    <2> QED
      BY <2>1, <2>2
  <1>3. n \in T
    <2> HIDE DEF T
    <2> QED
      BY <1>1, <1>2, Induction
  <1> QED
    BY <1>3

\* The greatest of the first k numbers is k.
LEMMA TopOfFirst ==
  ASSUME NEW k \in Nat, k > 0
  PROVE  Top(1 .. k) = k /\ (1 .. k) \ {k} = 1 .. k - 1 /\ 1 .. k # {}
  <1>1. k - 1 \in Nat /\ (k - 1) + 1 = k
    OBVIOUS
  <1>2. 1 .. k \in SUBSET (1 .. (k - 1) + 1) /\ k \in 1 .. k
    OBVIOUS
  <1>3. Top(1 .. k) = k
    BY <1>1, <1>2, TopIs
  <1> QED
    BY <1>3

\* What the fold does to a set of places.
FoldsAs(g, base, step, n) ==
  \A s \in SUBSET (1 .. n) :
    g[s] = IF s = {} THEN base ELSE step[Top(s)][g[s \ {Top(s)}]]

\* Steps that are functions on a set are folded by some function.
LEMMA FoldExists ==
  ASSUME NEW V, NEW base \in V, NEW n \in Nat, NEW step \in [1 .. n -> [V -> V]]
  PROVE  \E g \in [SUBSET (1 .. n) -> V] : FoldsAs(g, base, step, n)
  <1> DEFINE Folded(k) == \E g \in [SUBSET (1 .. k) -> V] : FoldsAs(g, base, step, k)
             T == {k \in Nat : k <= n => Folded(k)}
  <1>1. Folded(0)
    <2> DEFINE g == [s \in SUBSET (1 .. 0) |-> base]
    <2>1. g \in [SUBSET (1 .. 0) -> V] /\ FoldsAs(g, base, step, 0)
      BY DEF FoldsAs
    <2> QED
      BY <2>1
  <1>2. ASSUME NEW k \in Nat, k + 1 <= n, Folded(k)
        PROVE  Folded(k + 1)
    <2>1. PICK g \in [SUBSET (1 .. k) -> V] : FoldsAs(g, base, step, k)
      BY <1>2
    <2> DEFINE all == SUBSET (1 .. k + 1)
               h == [s \in all |-> IF k + 1 \in s THEN step[k + 1][g[s \ {k + 1}]] ELSE g[s]]
    <2>2. ASSUME NEW s \in all, k + 1 \in s
          PROVE  h[s] \in V /\ h[s] = IF s = {} THEN base ELSE step[Top(s)][h[s \ {Top(s)}]]
      <3>1. Top(s) = k + 1 /\ s # {} /\ s \ {k + 1} \in SUBSET (1 .. k)
        BY <2>2, TopIs
      <3>2. s \ {k + 1} \in all /\ k + 1 \notin s \ {k + 1} /\ k + 1 \in 1 .. n
        BY <1>2, <3>1
      <3>3. h[s \ {k + 1}] = g[s \ {k + 1}] /\ g[s \ {k + 1}] \in V
        BY <2>1, <3>1, <3>2
      <3>4. h[s] = step[k + 1][g[s \ {k + 1}]]
        BY <2>2
      <3>5. step[k + 1][g[s \ {k + 1}]] \in V
        BY <3>2, <3>3
      <3> HIDE DEF h, all
      <3> QED
        BY <3>1, <3>3, <3>4, <3>5
    <2>3. ASSUME NEW s \in all, k + 1 \notin s
          PROVE  h[s] \in V /\ h[s] = IF s = {} THEN base ELSE step[Top(s)][h[s \ {Top(s)}]]
      <3>1. s \in SUBSET (1 .. k) /\ s \ {Top(s)} \in SUBSET (1 .. k)
        BY <2>3, TopIs
      <3>2. s \ {Top(s)} \in all /\ k + 1 \notin s \ {Top(s)}
        BY <3>1
      <3>3. h[s] = g[s] /\ h[s \ {Top(s)}] = g[s \ {Top(s)}] /\ g[s] \in V
        BY <2>1, <2>3, <3>1, <3>2
      <3>4. g[s] = IF s = {} THEN base ELSE step[Top(s)][g[s \ {Top(s)}]]
        BY <2>1, <3>1 DEF FoldsAs
      <3> HIDE DEF h, all
      <3> QED
        BY <3>3, <3>4
    <2>4. h \in [all -> V]
      <3>1. h = [s \in all |-> h[s]]
        OBVIOUS
      <3> HIDE DEF h, all
      <3> QED
        BY <2>2, <2>3, <3>1
    <2>5. FoldsAs(h, base, step, k + 1)
      <3> HIDE DEF h
      <3> QED
        BY <2>2, <2>3 DEF FoldsAs
    <2> HIDE DEF h
    <2> QED
      BY <2>4, <2>5
  <1> HIDE DEF Folded
  <1>3. 0 \in T /\ \A k \in Nat : k \in T => k + 1 \in T
    BY <1>1, <1>2
  <1>4. n \in T
    <2> HIDE DEF T
    <2> QED
      BY <1>3, Induction
  <1>5. Folded(n)
    BY <1>4
  <1> QED
    BY <1>5 DEF Folded

\* A fold keeps to a set that its base is in and its steps do not leave.
LEMMA FoldStays ==
  ASSUME NEW V, NEW n \in Nat, NEW g, g[{}] \in V,
         \A k \in 1 .. n : g[1 .. k - 1] \in V => g[1 .. k] \in V
  PROVE  g[1 .. n] \in V
  <1> DEFINE T == {k \in Nat : k <= n => g[1 .. k] \in V}
  <1>1. 0 \in T
    <2>1. 1 .. 0 = {}
      OBVIOUS
    <2> QED
      BY <2>1
  <1>2. ASSUME NEW k \in Nat, k \in T PROVE k + 1 \in T
    <2>1. k + 1 <= n => g[1 .. (k + 1) - 1] \in V /\ (k + 1) - 1 = k
      BY <1>2
    <2>2. k + 1 <= n => k + 1 \in 1 .. n
      OBVIOUS
    <2> QED
      BY <2>1, <2>2
  <1>3. n \in T
    <2> HIDE DEF T
    <2> QED
      BY <1>1, <1>2, Induction
  <1> QED
    BY <1>3

\* The same, with the types at hand.
FoldSteps(g, V, base, step, n) ==
  \A s \in SUBSET (1 .. n) :
    \/ s = {} /\ g[s] = base
    \/ /\ s # {} /\ Top(s) \in 1 .. n /\ g[s \ {Top(s)}] \in V
       /\ g[s] = step[Top(s)][g[s \ {Top(s)}]]

\* The fold with steps on a set exists.
LEMMA FoldFixed ==
  ASSUME NEW V, NEW base \in V, NEW n \in Nat, NEW step \in [1 .. n -> [V -> V]]
  PROVE  \E g : /\ g = [s \in SUBSET (1 .. n) |-> g[s]]
                /\ FoldSteps(g, V, base, step, n)
  <1>1. PICK g \in [SUBSET (1 .. n) -> V] : FoldsAs(g, base, step, n)
    BY FoldExists
  <1> QED
    BY <1>1, TopIn DEF FoldsAs, FoldSteps

\* The places up to one, among all of them.
LEMMA FirstPlaces ==
  ASSUME NEW n \in Nat, NEW k \in 1 .. n
  PROVE  /\ 1 .. k \in SUBSET (1 .. n) /\ 1 .. k # {}
         /\ Top(1 .. k) = k /\ (1 .. k) \ {Top(1 .. k)} = 1 .. k - 1
  BY TopOfFirst

\* The sum of sizes adds them one by one.
Adds(g, sizes) == g[{}] = 0 /\ \A k \in 1 .. Len(sizes) : g[1 .. k] = g[1 .. k - 1] + sizes[k]

\* Sum adds the sizes one by one.
LEMMA SumAdds ==
  ASSUME NEW sizes \in Seq(Nat)
  PROVE  \E g : Adds(g, sizes) /\ Sum(sizes) = g[1 .. Len(sizes)]
  <1> DEFINE n == Len(sizes)
             step == [k \in 1 .. n |-> [v \in Nat |-> v + sizes[k]]]
             Is(g) == g = [s \in SUBSET (1 .. n) |->
                            IF s = {} THEN 0 ELSE g[s \ {Top(s)}] + sizes[Top(s)]]
             sum == CHOOSE f : Is(f)
  <1>1. n \in Nat /\ DOMAIN sizes = 1 .. n /\ \A k \in 1 .. n : sizes[k] \in Nat
    OBVIOUS
  <1>2. Sum(sizes) = sum[1 .. n]
    BY <1>1 DEF Sum, FoldLeft, MapThenFoldSet, Max, Top
  <1>3. step \in [1 .. n -> [Nat -> Nat]] /\ 0 \in Nat
    OBVIOUS
  <1>4. Is(sum)
    <2>1. PICK g : g = [s \in SUBSET (1 .. n) |-> g[s]] /\ FoldSteps(g, Nat, 0, step, n)
      <3> HIDE DEF step, n
      <3> QED
        BY <1>1, <1>3, FoldFixed
    <2>2. Is(g)
      BY <2>1 DEF FoldSteps
    <2> HIDE DEF Is
    <2> QED
      BY <2>2
  <1> HIDE DEF sum
  <1>5. sum[{}] = 0
    BY <1>4
  <1>6. ASSUME NEW k \in 1 .. n
        PROVE  sum[1 .. k] = sum[1 .. k - 1] + sizes[k]
    BY <1>1, <1>4, FirstPlaces
  <1>7. Adds(sum, sizes)
    BY <1>5, <1>6 DEF Adds
  <1> QED
    BY <1>2, <1>7

\* Every partial sum is a number.
LEMMA SumType ==
  ASSUME NEW sizes \in Seq(Nat), NEW g, Adds(g, sizes), NEW k \in 0 .. Len(sizes)
  PROVE  g[1 .. k] \in Nat
  <1> DEFINE n == Len(sizes)
  <1>1. n \in Nat /\ \A i \in 1 .. n : sizes[i] \in Nat
    OBVIOUS
  <1>2. g[{}] \in Nat
    BY DEF Adds
  <1>3. ASSUME NEW i \in 1 .. k, g[1 .. i - 1] \in Nat
        PROVE  g[1 .. i] \in Nat
    <2>1. i \in 1 .. n
      BY <1>1
    <2>2. sizes[i] \in Nat
      BY <1>1, <2>1
    <2>3. g[1 .. i] = g[1 .. i - 1] + sizes[i]
      BY <2>1 DEF Adds
    <2> HIDE DEF n
    <2> QED
      BY <1>3, <2>2, <2>3
  <1>4. k \in Nat
    BY <1>1
  <1> HIDE DEF n
  <1> QED
    BY <1>2, <1>3, <1>4, FoldStays

\* The sum of sizes is a number.
LEMMA SumIs ==
  ASSUME NEW sizes \in Seq(Nat)
  PROVE  Sum(sizes) \in Nat
  <1>1. PICK g : Adds(g, sizes) /\ Sum(sizes) = g[1 .. Len(sizes)]
    BY SumAdds
  <1>2. Len(sizes) \in 0 .. Len(sizes)
    OBVIOUS
  <1> QED
    BY <1>1, <1>2, SumType

\* One size more.
LEMMA SumOfLonger ==
  ASSUME NEW sizes \in Seq(Nat), NEW more \in Nat
  PROVE  Sum(Append(sizes, more)) = Sum(sizes) + more
  <1> DEFINE n == Len(sizes)
             longer == Append(sizes, more)
  <1>1. n \in Nat /\ longer \in Seq(Nat) /\ Len(longer) = n + 1 /\ longer[n + 1] = more
        /\ \A k \in 1 .. n : longer[k] = sizes[k]
    OBVIOUS
  <1> HIDE DEF longer
  <1>2. PICK g : Adds(g, sizes) /\ Sum(sizes) = g[1 .. n]
    BY SumAdds
  <1>3. PICK h : Adds(h, longer) /\ Sum(longer) = h[1 .. n + 1]
    BY <1>1, SumAdds
  <1> DEFINE T == {k \in Nat : k <= n => g[1 .. k] = h[1 .. k]}
  <1>4. 0 \in T
    <2>1. 1 .. 0 = {}
      OBVIOUS
    <2> QED
      BY <1>2, <1>3, <2>1 DEF Adds
  <1>5. ASSUME NEW k \in Nat, k \in T PROVE k + 1 \in T
    <2> SUFFICES ASSUME k + 1 <= n PROVE g[1 .. k + 1] = h[1 .. k + 1]
      OBVIOUS
    <2>1. /\ k + 1 \in 1 .. n /\ k + 1 \in 1 .. Len(longer) /\ (k + 1) - 1 = k
          /\ g[1 .. k] = h[1 .. k] /\ longer[k + 1] = sizes[k + 1]
      BY <1>1, <1>5
    <2>2. g[1 .. k + 1] = g[1 .. (k + 1) - 1] + sizes[k + 1]
      BY <1>2, <2>1 DEF Adds
    <2>3. h[1 .. k + 1] = h[1 .. (k + 1) - 1] + longer[k + 1]
      BY <1>3, <2>1 DEF Adds
    <2> QED
      BY <2>1, <2>2, <2>3
  <1>6. n \in T
    <2> HIDE DEF T, n
    <2> QED
      BY <1>1, <1>4, <1>5, Induction
  <1>7. h[1 .. n + 1] = h[1 .. (n + 1) - 1] + longer[n + 1]
    BY <1>1, <1>3 DEF Adds
  <1>8. (n + 1) - 1 = n /\ g[1 .. n] = h[1 .. n]
    BY <1>1, <1>6
  <1> QED
    BY <1>1, <1>2, <1>3, <1>7, <1>8 DEF longer

-----------------------------------------------------------------------------
(***************************************************************************)
(* Recursive functions, and what they are used for: the elements of a      *)
(* sequence at certain places, and sequences one after the other.          *)
(***************************************************************************)
\* A recursive function keeps to a set that its steps do not leave.
LEMMA FollowsStays ==
  ASSUME NEW V, NEW n \in Nat, NEW f, f[0] \in V,
         \A k \in 1 .. n : f[k - 1] \in V => f[k] \in V
  PROVE  \A k \in 0 .. n : f[k] \in V
  <1> DEFINE T == {k \in Nat : k <= n => f[k] \in V}
  <1>1. 0 \in T
    OBVIOUS
  <1>2. ASSUME NEW k \in Nat, k \in T PROVE k + 1 \in T
    <2>1. k + 1 <= n => k + 1 \in 1 .. n /\ (k + 1) - 1 = k
      OBVIOUS
    <2> QED
      BY <1>2, <2>1
  <1>3. Nat \subseteq T
    <2> HIDE DEF T
    <2> QED
      BY <1>1, <1>2, Induction
  <1> QED
    BY <1>3

\* Selected goes through the sequence and takes what is at the places.
Takes(f, seq, places) ==
  /\ f[0] = <<>>
  /\ \A k \in 1 .. Len(seq) : f[k] = IF k \in places THEN Append(f[k - 1], seq[k]) ELSE f[k - 1]

\* Selected does so.
LEMMA SelectedTakes ==
  ASSUME NEW S, NEW seq \in Seq(S), NEW places
  PROVE  \E f : Takes(f, seq, places) /\ Selected(seq, places) = f[Len(seq)]
  <1> DEFINE n == Len(seq)
             V == Seq({seq[i] : i \in places \intersect DOMAIN seq})
             longer(v, k) == IF k \in places THEN Append(v, seq[k]) ELSE v
             step == [k \in Nat |-> [v \in V |-> IF k \in DOMAIN seq THEN longer(v, k) ELSE v]]
             Is(f) == f = [k \in 0 .. n |-> IF k = 0 THEN <<>> ELSE longer(f[k - 1], k)]
             taken == CHOOSE f : Is(f)
  <1>1. n \in Nat /\ \A k \in 1 .. n : k \in DOMAIN seq
    OBVIOUS
  <1>2. <<>> \in V /\ \A v \in V, k \in DOMAIN seq : longer(v, k) \in V
    OBVIOUS
  <1>3. Selected(seq, places) = taken[n]
    BY DEF Selected
  <1> HIDE DEF V, longer
  <1>4. step \in [Nat -> [V -> V]]
    BY <1>2
  <1>5. Is(taken)
    <2>1. PICK f \in [0 .. n -> V] : Follows(f, <<>>, step, n)
      <3> HIDE DEF step, n
      <3> QED
        BY <1>1, <1>2, <1>4, Recursion
    <2>2. ASSUME NEW k \in 1 .. n PROVE f[k] = longer(f[k - 1], k)
      <3>1. k \in Nat /\ k \in DOMAIN seq /\ k - 1 \in 0 .. n
        BY <1>1
      <3>2. f[k - 1] \in V /\ f[k] = step[k][f[k - 1]]
        BY <2>1, <3>1 DEF Follows
      <3> QED
        BY <3>1, <3>2
    <2>3. f[0] = <<>>
      BY <2>1 DEF Follows
    <2> HIDE DEF step
    <2>4. Is(f)
      BY <1>1, <2>1, <2>2, <2>3
    <2> HIDE DEF Is
    <2> QED
      BY <2>4
  <1> HIDE DEF taken
  <1>6. taken[0] = <<>> /\ \A k \in 1 .. n : taken[k] = longer(taken[k - 1], k)
    BY <1>1, <1>5
  <1>7. Takes(taken, seq, places)
    BY <1>6 DEF Takes, longer
  <1> QED
    BY <1>3, <1>7

\* What is selected from a sequence are its elements at the places.
LEMMA SelectedIs ==
  ASSUME NEW S, NEW seq \in Seq(S), NEW places
  PROVE  Selected(seq, places) \in Seq({seq[i] : i \in places \intersect DOMAIN seq})
  <1> DEFINE n == Len(seq)
             V == Seq({seq[i] : i \in places \intersect DOMAIN seq})
  <1>1. n \in Nat /\ \A k \in 1 .. n : k \in DOMAIN seq
    OBVIOUS
  <1>2. PICK f : Takes(f, seq, places) /\ Selected(seq, places) = f[n]
    BY SelectedTakes
  <1>3. f[0] \in V
    BY <1>2 DEF Takes
  <1>4. ASSUME NEW k \in 1 .. n, f[k - 1] \in V PROVE f[k] \in V
    <2>1. k \in places => Append(f[k - 1], seq[k]) \in V
      BY <1>1, <1>4
    <2> QED
      BY <1>2, <1>4, <2>1 DEF Takes
  <1>5. f[n] \in V
    <2>1. n \in 0 .. n
      BY <1>1
    <2> HIDE DEF n, V
    <2> QED
      BY <1>1, <1>3, <1>4, <2>1, FollowsStays
  <1> QED
    BY <1>2, <1>5 DEF V

\* Sequences one after the other.
LEMMA FlattenIs ==
  ASSUME NEW S, NEW seqs \in Seq(Seq(S))
  PROVE  FlattenSeq(seqs) \in Seq(S)
  <1> DEFINE n == Len(seqs)
             V == Seq(S)
             joined(v, k) == v \o seqs[k]
             step == [k \in Nat |-> [v \in V |-> IF k = 1 THEN seqs[1]
                                                ELSE IF k \in DOMAIN seqs THEN joined(v, k)
                                                ELSE v]]
             Is(f) == f = [i \in 1 .. n |-> IF i = 1 THEN seqs[i] ELSE joined(f[i - 1], i)]
             flatten == CHOOSE f : Is(f)
  <1>1. n \in Nat /\ \A k \in 1 .. n : k \in DOMAIN seqs
    OBVIOUS
  <1>2. <<>> \in V /\ \A v \in V, k \in DOMAIN seqs : joined(v, k) \in V
    OBVIOUS
  <1>3. CASE n = 0
    BY <1>3 DEF FlattenSeq
  <1>4. CASE n # 0
    <2>1. FlattenSeq(seqs) = flatten[n] /\ 1 \in DOMAIN seqs /\ 1 \in 1 .. n
      BY <1>4 DEF FlattenSeq
    <2>2. seqs[1] \in V
      BY <2>1
    <2> HIDE DEF V, joined
    <2>3. step \in [Nat -> [V -> V]]
      BY <1>2, <2>2
    <2>4. Is(flatten)
      <3>1. PICK f \in [0 .. n -> V] : Follows(f, <<>>, step, n)
        <4> HIDE DEF step, n
        <4> QED
          BY <1>1, <1>2, <2>3, Recursion
      <3> DEFINE g == [i \in 1 .. n |-> f[i]]
      <3>2. ASSUME NEW k \in 1 .. n
            PROVE  f[k] = IF k = 1 THEN seqs[k] ELSE joined(f[k - 1], k)
        <4>1. k \in Nat /\ k \in DOMAIN seqs /\ k - 1 \in 0 .. n
          BY <1>1
        <4>2. f[k - 1] \in V /\ f[k] = step[k][f[k - 1]]
          BY <3>1, <4>1 DEF Follows
        <4> QED
          BY <4>1, <4>2
      <3> HIDE DEF step
      <3>3. ASSUME NEW k \in 1 .. n
            PROVE  g[k] = IF k = 1 THEN seqs[k] ELSE joined(g[k - 1], k)
        <4>1. k # 1 => k - 1 \in 1 .. n
          BY <1>1
        <4> QED
          BY <3>2, <4>1
      <3>4. g = [i \in 1 .. n |-> g[i]]
        OBVIOUS
      <3> HIDE DEF g
      <3>5. Is(g)
        BY <3>3, <3>4
      <3> HIDE DEF Is
      <3> QED
        BY <3>5
    <2> HIDE DEF flatten
    <2> DEFINE started == [k \in 0 .. n |-> IF k = 0 THEN <<>> ELSE flatten[k]]
    <2>5. started[0] \in V
      BY <1>1, <1>2
    <2>6. ASSUME NEW k \in 1 .. n, started[k - 1] \in V PROVE started[k] \in V
      <3>1. k - 1 \in 0 .. n /\ k \in 0 .. n /\ k # 0 /\ k \in DOMAIN seqs /\ (k # 1 => k - 1 # 0)
        BY <1>1
      <3>2. flatten[k] = IF k = 1 THEN seqs[k] ELSE joined(flatten[k - 1], k)
        BY <2>4
      <3> QED
        BY <1>2, <2>2, <2>6, <3>1, <3>2
    <2>7. started[n] \in V /\ started[n] = flatten[n]
      <3>1. started[n] = flatten[n] /\ n \in 0 .. n
        BY <1>1, <1>4
      <3> HIDE DEF n, started
      <3> QED
        BY <1>1, <2>5, <2>6, <3>1, FollowsStays
    <2> QED
      BY <2>1, <2>7 DEF V
  <1> QED
    BY <1>3, <1>4

-----------------------------------------------------------------------------
(***************************************************************************)
(* Bitwise operators, as they are made from one operator on bits: a        *)
(* function of two numbers that halves them. It exists, it is the only     *)
(* one, and it makes bytes of bytes.                                       *)
(***************************************************************************)
Bit == {0, 1}
Doubled(f, bit, a, b) == bit[<<a % 2, b % 2>>] + 2 * f[<<a \div 2, b \div 2>>]
OneBit(f, bit, a, b) == f[<<a, b>>] = IF a = 0 /\ b = 0 THEN 0 ELSE Doubled(f, bit, a, b)

\* f does numbers up to n bit by bit.
BitsUp(f, bit, n) == \A a, b \in 0 .. n : f[<<a, b>>] \in Nat /\ OneBit(f, bit, a, b)

\* Half of a number is smaller, the rest is a bit.
LEMMA HalfIs ==
  ASSUME NEW a \in Nat, NEW k \in Nat, a <= k + 1
  PROVE  a \div 2 \in 0 .. k /\ a % 2 \in Bit /\ a \div 2 <= a
  BY DEF Bit

\* For numbers up to n there is a function that does so.
LEMMA BitsUpExists ==
  ASSUME NEW bit \in [Bit \X Bit -> Bit], NEW n \in Nat
  PROVE  \E f : BitsUp(f, bit, n)
  <1> DEFINE T == {k \in Nat : \E f : BitsUp(f, bit, k)}
  <1>1. 0 \in T
    <2> DEFINE f == [p \in Nat \X Nat |-> 0]
    <2>1. \A a, b \in 0 .. 0 : f[<<a, b>>] = 0 /\ a = 0 /\ b = 0
      OBVIOUS
    <2> HIDE DEF f
    <2>2. BitsUp(f, bit, 0)
      BY <2>1 DEF BitsUp, OneBit
    <2> QED
      BY <2>2
  <1>2. ASSUME NEW k \in Nat, k \in T PROVE k + 1 \in T
    <2>1. PICK f : BitsUp(f, bit, k)
      BY <1>2
    <2> DEFINE h == [p \in Nat \X Nat |->
                      IF p[1] = 0 /\ p[2] = 0 THEN 0 ELSE Doubled(f, bit, p[1], p[2])]
    <2>2. \A a, b \in Nat :
            h[<<a, b>>] = IF a = 0 /\ b = 0 THEN 0 ELSE Doubled(f, bit, a, b)
      OBVIOUS
    <2> HIDE DEF h
    <2>3. ASSUME NEW a \in 0 .. k, NEW b \in 0 .. k PROVE h[<<a, b>>] = f[<<a, b>>]
      <3>1. OneBit(f, bit, a, b)
        BY <2>1 DEF BitsUp
      <3>2. a \in Nat /\ b \in Nat
        OBVIOUS
      <3> QED
        BY <2>2, <3>1, <3>2 DEF OneBit
    <2>4. ASSUME NEW a \in 0 .. k + 1, NEW b \in 0 .. k + 1
          PROVE  h[<<a, b>>] \in Nat /\ OneBit(h, bit, a, b)
      <3>1. /\ a \in Nat /\ b \in Nat /\ a \div 2 \in 0 .. k /\ b \div 2 \in 0 .. k
            /\ a % 2 \in Bit /\ b % 2 \in Bit
        BY HalfIs
      <3>2. /\ f[<<a \div 2, b \div 2>>] \in Nat
            /\ h[<<a \div 2, b \div 2>>] = f[<<a \div 2, b \div 2>>]
        BY <2>1, <2>3, <3>1 DEF BitsUp
      <3>3. bit[<<a % 2, b % 2>>] \in Nat
        BY <3>1 DEF Bit
      <3>4. Doubled(h, bit, a, b) = Doubled(f, bit, a, b) /\ Doubled(f, bit, a, b) \in Nat
        BY <3>2, <3>3 DEF Doubled
      <3> QED
        BY <2>2, <3>1, <3>4 DEF OneBit
    <2>5. BitsUp(h, bit, k + 1)
      BY <2>4 DEF BitsUp
    <2> QED
      BY <2>5
  <1>3. n \in T
    <2> HIDE DEF T
    <2> QED
      BY <1>1, <1>2, Induction
  <1> QED
    BY <1>3

\* They all do the same.
LEMMA BitsUpSame ==
  ASSUME NEW bit, NEW n \in Nat, NEW m \in Nat, n <= m, NEW f, NEW g,
         BitsUp(f, bit, n), BitsUp(g, bit, m)
  PROVE  \A a, b \in 0 .. n : f[<<a, b>>] = g[<<a, b>>]
  <1> DEFINE T == {k \in Nat : \A a, b \in 0 .. n : a <= k /\ b <= k => f[<<a, b>>] = g[<<a, b>>]}
  <1>0. \A a, b \in 0 .. n : OneBit(f, bit, a, b) /\ OneBit(g, bit, a, b)
    <2> SUFFICES ASSUME NEW a \in 0 .. n, NEW b \in 0 .. n
                 PROVE  OneBit(f, bit, a, b) /\ OneBit(g, bit, a, b)
      OBVIOUS
    <2>1. a \in 0 .. m /\ b \in 0 .. m
      OBVIOUS
    <2> QED
      BY <2>1 DEF BitsUp
  <1>1. 0 \in T
    BY <1>0 DEF OneBit
  <1>2. ASSUME NEW k \in Nat, k \in T PROVE k + 1 \in T
    <2> SUFFICES ASSUME NEW a \in 0 .. n, NEW b \in 0 .. n, a <= k + 1, b <= k + 1
                 PROVE  f[<<a, b>>] = g[<<a, b>>]
      OBVIOUS
    <2>1. a \div 2 \in 0 .. k /\ b \div 2 \in 0 .. k /\ a \div 2 <= a /\ b \div 2 <= b
      BY HalfIs
    <2>2. a \div 2 \in 0 .. n /\ b \div 2 \in 0 .. n
      BY <2>1
    <2>3. f[<<a \div 2, b \div 2>>] = g[<<a \div 2, b \div 2>>]
      BY <1>2, <2>1, <2>2
    <2>4. Doubled(f, bit, a, b) = Doubled(g, bit, a, b)
      BY <2>3 DEF Doubled
    <2>5. OneBit(f, bit, a, b) /\ OneBit(g, bit, a, b)
      BY <1>0
    <2> HIDE DEF T
    <2> QED
      BY <2>4, <2>5 DEF OneBit
  <1>3. n \in T
    <2> HIDE DEF T
    <2> QED
      BY <1>1, <1>2, Induction
  <1>4. \A a, b \in 0 .. n : a <= n /\ b <= n => f[<<a, b>>] = g[<<a, b>>]
    BY <1>3
  <1>5. \A a \in 0 .. n : a <= n
    OBVIOUS
  <1> HIDE DEF T
  <1> QED
    BY <1>4, <1>5

\* The numbers a bitwise operator makes, below a power of two if its operands are.
BitFunction(f, bit) ==
  \A a, b \in Nat : f[<<a, b>>] \in Nat /\ OneBit(f, bit, a, b)

\* Such a function exists.
LEMMA BitFunctionExists ==
  ASSUME NEW bit \in [Bit \X Bit -> Bit]
  PROVE  \E f : f = [p \in Nat \X Nat |-> f[p]] /\ BitFunction(f, bit)
  <1> DEFINE upto(n) == CHOOSE f : BitsUp(f, bit, n)
             f == [p \in Nat \X Nat |-> upto(p[1] + p[2])[p]]
  <1>1. \A n \in Nat : BitsUp(upto(n), bit, n)
    BY BitsUpExists
  <1> HIDE DEF upto
  <1>2. f = [p \in Nat \X Nat |-> f[p]] /\ \A a, b \in Nat : f[<<a, b>>] = upto(a + b)[<<a, b>>]
    OBVIOUS
  <1> HIDE DEF f
  <1>3. ASSUME NEW a \in Nat, NEW b \in Nat
        PROVE  f[<<a, b>>] \in Nat /\ OneBit(f, bit, a, b)
    <2> DEFINE c == a \div 2
               d == b \div 2
    <2>1. c \in Nat /\ d \in Nat /\ c + d \in Nat /\ c + d <= a + b /\ a + b \in Nat
      OBVIOUS
    <2>2. a \in 0 .. a + b /\ b \in 0 .. a + b /\ c \in 0 .. c + d /\ d \in 0 .. c + d
      BY <2>1
    <2>3. OneBit(upto(a + b), bit, a, b) /\ upto(a + b)[<<a, b>>] \in Nat
      BY <1>1, <2>1, <2>2 DEF BitsUp
    <2> HIDE DEF c, d
    <2>4. upto(c + d)[<<c, d>>] = upto(a + b)[<<c, d>>]
      BY <1>1, <2>1, <2>2, BitsUpSame
    <2>5. f[<<c, d>>] = upto(a + b)[<<c, d>>] /\ f[<<a, b>>] = upto(a + b)[<<a, b>>]
      BY <1>2, <2>1, <2>4
    <2> QED
      BY <2>3, <2>5 DEF OneBit, Doubled, c, d
  <1>4. BitFunction(f, bit)
    BY <1>3 DEF BitFunction
  <1> QED
    BY <1>2, <1>4

\* One more bit of the operands is one more bit of the result.
LEMMA BitsBelow ==
  ASSUME NEW bit \in [Bit \X Bit -> Bit], NEW f, BitFunction(f, bit),
         NEW m \in Nat, \A a, b \in 0 .. m - 1 : f[<<a, b>>] \in 0 .. m - 1
  PROVE  \A a, b \in 0 .. (2 * m) - 1 : f[<<a, b>>] \in 0 .. (2 * m) - 1
  <1> SUFFICES ASSUME NEW a \in 0 .. (2 * m) - 1, NEW b \in 0 .. (2 * m) - 1
               PROVE  f[<<a, b>>] \in 0 .. (2 * m) - 1
    OBVIOUS
  <1>1. /\ a \in Nat /\ b \in Nat /\ a \div 2 \in 0 .. m - 1 /\ b \div 2 \in 0 .. m - 1
        /\ a % 2 \in Bit /\ b % 2 \in Bit
    BY DEF Bit
  <1>2. f[<<a \div 2, b \div 2>>] \in 0 .. m - 1 /\ bit[<<a % 2, b % 2>>] \in {0, 1}
    BY <1>1 DEF Bit
  <1>3. OneBit(f, bit, a, b) /\ f[<<a, b>>] \in Nat
    BY <1>1 DEF BitFunction
  <1> QED
    BY <1>1, <1>2, <1>3 DEF OneBit, Doubled

\* Bytes make bytes.
LEMMA ByteBits ==
  ASSUME NEW bit \in [Bit \X Bit -> Bit], NEW f, BitFunction(f, bit)
  PROVE  \A a, b \in 0 .. 255 : f[<<a, b>>] \in 0 .. 255
  <1> DEFINE In(m) == \A a, b \in 0 .. m - 1 : f[<<a, b>>] \in 0 .. m - 1
  <1>1. In(1)
    <2>1. 0 \in Nat /\ OneBit(f, bit, 0, 0)
      BY DEF BitFunction
    <2> QED
      BY <2>1 DEF OneBit
  <1>2. \A m \in Nat : In(m) => In(2 * m)
    BY BitsBelow
  <1> HIDE DEF In
  <1>3. In(256)
    <2>1. In(2)
      BY <1>1, <1>2
    <2>2. In(4)
      BY <2>1, <1>2
    <2>3. In(8)
      BY <2>2, <1>2
    <2>4. In(16)
      BY <2>3, <1>2
    <2>5. In(32)
      BY <2>4, <1>2
    <2>6. In(64)
      BY <2>5, <1>2
    <2>7. In(128)
      BY <2>6, <1>2
    <2> QED
      BY <2>7, <1>2
  <1>4. \A a, b \in 0 .. 256 - 1 : f[<<a, b>>] \in 0 .. 256 - 1
    BY <1>3, Zenon DEF In
  <1>5. 0 .. 256 - 1 = 0 .. 255
    OBVIOUS
  <1> QED
    BY <1>4, <1>5

\* The function as it is written, and that it is one of these.
BitByBitAs(f, bit) ==
  f = [p \in Nat \X Nat |-> IF p = <<0, 0>> THEN 0 ELSE Doubled(f, bit, p[1], p[2])]

\* There is one as it is written.
LEMMA BitByBitExists ==
  ASSUME NEW bit \in [Bit \X Bit -> Bit]
  PROVE  \E f : BitByBitAs(f, bit)
  <1>1. PICK f : f = [p \in Nat \X Nat |-> f[p]] /\ BitFunction(f, bit)
    BY BitFunctionExists
  <1>2. ASSUME NEW p \in Nat \X Nat
        PROVE  f[p] = IF p = <<0, 0>> THEN 0 ELSE Doubled(f, bit, p[1], p[2])
    <2>1. PICK a \in Nat, b \in Nat : p = <<a, b>>
      OBVIOUS
    <2>2. OneBit(f, bit, a, b)
      BY <1>1 DEF BitFunction
    <2>3. p[1] = a /\ p[2] = b /\ (p = <<0, 0>> <=> a = 0 /\ b = 0)
      BY <2>1
    <2> QED
      BY <2>1, <2>2, <2>3 DEF OneBit
  <1> QED
    BY <1>1, <1>2 DEF BitByBitAs

\* Every one as it is written is a bitwise operator.
LEMMA BitByBitIs ==
  ASSUME NEW bit \in [Bit \X Bit -> Bit], NEW f, BitByBitAs(f, bit)
  PROVE  BitFunction(f, bit)
  <1>1. PICK g : g = [p \in Nat \X Nat |-> g[p]] /\ BitFunction(g, bit)
    BY BitFunctionExists
  <1>2. ASSUME NEW a \in Nat, NEW b \in Nat PROVE OneBit(f, bit, a, b)
    <2> DEFINE p == <<a, b>>
    <2>1. p \in Nat \X Nat /\ p[1] = a /\ p[2] = b /\ (p = <<0, 0>> <=> a = 0 /\ b = 0)
      OBVIOUS
    <2> HIDE DEF p
    <2>2. f[p] = IF a = 0 /\ b = 0 THEN 0 ELSE Doubled(f, bit, a, b)
      BY <2>1 DEF BitByBitAs
    <2> QED
      BY <2>2 DEF OneBit, p
  <1>3. ASSUME NEW n \in Nat PROVE \A a, b \in 0 .. n : f[<<a, b>>] = g[<<a, b>>]
    <2> DEFINE T == {k \in Nat : \A a, b \in 0 .. n : a <= k /\ b <= k => f[<<a, b>>] = g[<<a, b>>]}
    <2>0. ASSUME NEW a \in 0 .. n, NEW b \in 0 .. n
          PROVE  OneBit(f, bit, a, b) /\ OneBit(g, bit, a, b)
      <3>1. a \in Nat /\ b \in Nat
        OBVIOUS
      <3> QED
        BY <1>1, <1>2, <3>1 DEF BitFunction
    <2>1. 0 \in T
      BY <2>0 DEF OneBit
    <2>2. ASSUME NEW k \in Nat, k \in T PROVE k + 1 \in T
      <3> SUFFICES ASSUME NEW a \in 0 .. n, NEW b \in 0 .. n, a <= k + 1, b <= k + 1
                   PROVE  f[<<a, b>>] = g[<<a, b>>]
        OBVIOUS
      <3>1. a \div 2 \in 0 .. k /\ b \div 2 \in 0 .. k /\ a \div 2 <= a /\ b \div 2 <= b
        BY HalfIs
      <3>2. a \div 2 \in 0 .. n /\ b \div 2 \in 0 .. n
        BY <3>1
      <3>3. f[<<a \div 2, b \div 2>>] = g[<<a \div 2, b \div 2>>]
        BY <2>2, <3>1, <3>2
      <3>4. Doubled(f, bit, a, b) = Doubled(g, bit, a, b)
        BY <3>3 DEF Doubled
      <3> HIDE DEF T
      <3> QED
        BY <2>0, <3>4 DEF OneBit
    <2>3. n \in T
      <3> HIDE DEF T
      <3> QED
        BY <2>1, <2>2, Induction
    <2>4. \A a, b \in 0 .. n : a <= n /\ b <= n => f[<<a, b>>] = g[<<a, b>>]
      BY <2>3
    <2>5. \A a \in 0 .. n : a <= n
      OBVIOUS
    <2> HIDE DEF T
    <2> QED
      BY <2>4, <2>5
  <1>4. ASSUME NEW a \in Nat, NEW b \in Nat PROVE f[<<a, b>>] \in Nat
    <2>1. a \in 0 .. a + b /\ b \in 0 .. a + b /\ a + b \in Nat
      OBVIOUS
    <2>2. f[<<a, b>>] = g[<<a, b>>]
      BY <1>3, <2>1
    <2> QED
      BY <1>1, <2>2 DEF BitFunction
  <1> QED
    BY <1>2, <1>4 DEF BitFunction

\* BitOr of numbers is a number.
LEMMA BitOrIs ==
  ASSUME NEW x \in Nat, NEW y \in Nat
  PROVE  BitOr(x, y) \in Nat
  <1> DEFINE bit == [p \in Bit \X Bit |-> p[1] + p[2] - p[1] * p[2]]
             Is(f) == f = [p \in Nat \X Nat |->
                            IF p = <<0, 0>> THEN 0
                            ELSE ((p[1] % 2) + (p[2] % 2) - (p[1] % 2) * (p[2] % 2))
                                 + 2 * f[<<p[1] \div 2, p[2] \div 2>>]]
             of == CHOOSE f : Is(f)
  <1>1. bit \in [Bit \X Bit -> Bit] /\ \A c, d \in Bit : bit[<<c, d>>] = c + d - c * d
    BY DEF Bit
  <1>2. BitOr(x, y) = of[<<x, y>>]
    BY DEF BitOr, BitByBit
  <1> HIDE DEF bit
  <1>3. ASSUME NEW f PROVE BitByBitAs(f, bit) <=> Is(f)
    <2>1. \A p \in Nat \X Nat : p[1] \in Nat /\ p[2] \in Nat /\ p[1] % 2 \in Bit /\ p[2] % 2 \in Bit
      BY DEF Bit
    <2>2. \A p \in Nat \X Nat :
            Doubled(f, bit, p[1], p[2])
              = ((p[1] % 2) + (p[2] % 2) - (p[1] % 2) * (p[2] % 2))
                + 2 * f[<<p[1] \div 2, p[2] \div 2>>]
      BY <1>1, <2>1 DEF Doubled
    <2> QED
      BY <2>2 DEF BitByBitAs
  <1> HIDE DEF Is
  <1>4. BitFunction(of, bit)
    BY <1>1, <1>3, BitByBitExists, BitByBitIs
  <1> HIDE DEF of
  <1> QED
    BY <1>1, <1>2, <1>4 DEF BitFunction

\* BitXor of bytes is a byte.
LEMMA BitXorIs ==
  ASSUME NEW x \in 0 .. 255, NEW y \in 0 .. 255
  PROVE  BitXor(x, y) \in 0 .. 255
  <1> DEFINE bit == [p \in Bit \X Bit |-> (p[1] + p[2]) % 2]
             Is(f) == f = [p \in Nat \X Nat |->
                            IF p = <<0, 0>> THEN 0
                            ELSE (((p[1] % 2) + (p[2] % 2)) % 2)
                                 + 2 * f[<<p[1] \div 2, p[2] \div 2>>]]
             of == CHOOSE f : Is(f)
  <1>1. bit \in [Bit \X Bit -> Bit] /\ \A c, d \in Bit : bit[<<c, d>>] = (c + d) % 2
    BY DEF Bit
  <1>2. BitXor(x, y) = of[<<x, y>>]
    BY DEF BitXor, BitByBit
  <1> HIDE DEF bit
  <1>3. ASSUME NEW f PROVE BitByBitAs(f, bit) <=> Is(f)
    <2>1. \A p \in Nat \X Nat : p[1] \in Nat /\ p[2] \in Nat /\ p[1] % 2 \in Bit /\ p[2] % 2 \in Bit
      BY DEF Bit
    <2>2. \A p \in Nat \X Nat :
            Doubled(f, bit, p[1], p[2])
              = (((p[1] % 2) + (p[2] % 2)) % 2) + 2 * f[<<p[1] \div 2, p[2] \div 2>>]
      BY <1>1, <2>1 DEF Doubled
    <2> QED
      BY <2>2 DEF BitByBitAs
  <1> HIDE DEF Is
  <1>4. BitFunction(of, bit)
    BY <1>1, <1>3, BitByBitExists, BitByBitIs
  <1> HIDE DEF of
  <1>5. \A a, b \in 0 .. 255 : of[<<a, b>>] \in 0 .. 255
    <2>1. bit \in [Bit \X Bit -> Bit]
      BY <1>1
    <2> QED
      BY <2>1, <1>4, ByteBits
  <1> QED
    BY <1>2, <1>5

-----------------------------------------------------------------------------
(***************************************************************************)
(* The folds of the model. Each is the last of a chain of values that      *)
(* starts at its base and goes on by its own step.                         *)
(***************************************************************************)
UpdateNext(state, name, i) == IF state.panic = None THEN UpdateField(state, name, i) ELSE state
AddNext(state, messages, name) ==
  IF state.panic = None THEN add_message(state, messages[name]) ELSE state
JoinNext(state, enums, name) ==
  IF state.panic = None THEN add_enum(state, enums[name]) ELSE state

AllRead(base, attrs) == FoldLeft(Attribute, base, attrs)
FieldsUpdated(base, name, places) ==
  FoldLeft(LAMBDA st, i : UpdateNext(st, name, i), base, places)
AllUpdated(base, names) == FoldLeft(UpdateFields, base, names)
AllKept(base, events) == FoldLeft(filter_extension, base, events)
AllLoaded(base, profile, names) ==
  FoldLeft(LAMBDA dialect, name : LoadMessage(profile, dialect, name), base, names)
AllValued(base, restriction, entries) ==
  FoldLeft(LAMBDA acc, entry : NextEntry(restriction, acc, entry), base, entries)
AllJoined(base, enumeration, pieces) ==
  FoldLeft(LAMBDA bits, piece : WithPiece(enumeration, bits, piece), base, pieces)
AllSupplied(base, definition, fields) ==
  FoldLeft(LAMBDA draft, named : Supply(definition, draft, named), base, fields)
AllDefaulted(base, dialect, fields) ==
  FoldLeft(LAMBDA draft, field : Defaulted(dialect, draft, field), base, fields)

\* The steps of all of them: what is done, with what, to a value, for an element.
StepOf(what, with, value, element) ==
  CASE what = "attributes" -> Attribute(value, element)
    [] what = "updates" -> UpdateNext(value, with, element)
    [] what = "updated" -> UpdateFields(value, element)
    [] what = "added" -> AddNext(value, with, element)
    [] what = "joined" -> JoinNext(value, with, element)
    [] what = "loaded" -> LoadMessage(with, value, element)
    [] what = "filtered" -> filter_extension(value, element)
    [] what = "valued" -> NextEntry(with, value, element)
    [] what = "pieces" -> WithPiece(with, value, element)
    [] what = "supplied" -> Supply(with, value, element)
    [] what = "defaulted" -> Defaulted(with, value, element)

\* A chain of values makes these steps.
Chain(g, what, with, base, seq, n) ==
  g = [s \in SUBSET (1 .. n) |->
         IF s = {} THEN base ELSE StepOf(what, with, g[s \ {Top(s)}], seq[Top(s)])]

\* Such a chain exists.
LEMMA ChainExists ==
  ASSUME NEW what, NEW with, NEW base, NEW seq, NEW n \in Nat
  PROVE  \E g : Chain(g, what, with, base, seq, n)
  <1> DEFINE T == {k \in Nat : \E g : Chain(g, what, with, base, seq, k)}
             made(g, s) ==
               IF s = {} THEN base ELSE StepOf(what, with, g[s \ {Top(s)}], seq[Top(s)])
  <1>1. 0 \in T
    <2> DEFINE g == [s \in SUBSET (1 .. 0) |-> base]
    <2>1. g = [s \in SUBSET (1 .. 0) |-> made(g, s)]
      OBVIOUS
    <2> HIDE DEF g
    <2> QED
      BY <2>1 DEF Chain
  <1>2. ASSUME NEW k \in Nat, k \in T PROVE k + 1 \in T
    <2>1. PICK g : Chain(g, what, with, base, seq, k)
      BY <1>2
    <2> DEFINE all == SUBSET (1 .. k + 1)
               h == [s \in all |-> made(g, s)]
    <2>2. ASSUME NEW s \in SUBSET (1 .. k) PROVE g[s] = made(g, s) /\ s \in all
      <3>1. s \in all
        OBVIOUS
      <3> HIDE DEF all, h, T
      <3> QED
        BY <2>1, <3>1 DEF Chain
    <2>3. \A s \in all : h[s] = made(g, s)
      OBVIOUS
    <2> HIDE DEF h, T
    <2>4. ASSUME NEW s \in all PROVE s = {} \/ h[s \ {Top(s)}] = g[s \ {Top(s)}]
      <3>1. s # {} => s \ {Top(s)} \in SUBSET (1 .. k)
        BY TopIn, TopIs
      <3> HIDE DEF all, made
      <3> QED
        BY <2>2, <2>3, <3>1
    <2>5. \A s \in all : made(g, s) = made(h, s)
      BY <2>4
    <2>6. h = [s \in all |-> made(h, s)]
      <3> HIDE DEF made, all
      <3> QED
        BY <2>5 DEF h
    <2>7. Chain(h, what, with, base, seq, k + 1)
      BY <2>6 DEF Chain
    <2> QED
      BY <2>7 DEF T
  <1>3. n \in T
    <2> HIDE DEF T
    <2> QED
      BY <1>1, <1>2, Induction
  <1> QED
    BY <1>3

\* What it starts with, and its steps one by one.
LEMMA ChainSteps ==
  ASSUME NEW n \in Nat, NEW g, NEW what, NEW with, NEW base, NEW seq,
         Chain(g, what, with, base, seq, n)
  PROVE  /\ g[{}] = base
         /\ \A k \in 1 .. n : g[1 .. k] = StepOf(what, with, g[1 .. k - 1], seq[k])
  <1>1. g[{}] = base
    BY DEF Chain
  <1>2. ASSUME NEW k \in 1 .. n
        PROVE  g[1 .. k] = StepOf(what, with, g[1 .. k - 1], seq[k])
    <2>1. /\ 1 .. k \in SUBSET (1 .. n) /\ 1 .. k # {}
          /\ Top(1 .. k) = k /\ (1 .. k) \ {Top(1 .. k)} = 1 .. k - 1
      BY FirstPlaces
    <2> QED
      BY <2>1 DEF Chain
  <1> QED
    BY <1>1, <1>2

\* The attributes of an element, read one by one.
LEMMA AttributesAsFolds ==
  ASSUME NEW base, NEW attrs, IsList(attrs)
  PROVE  \E g : /\ g[{}] = base
                /\ \A k \in 1 .. Len(attrs) :
                     g[1 .. k] = Attribute(g[1 .. k - 1], attrs[k])
                /\ AllRead(base, attrs) = g[1 .. Len(attrs)]
  <1> DEFINE n == Len(attrs)
             Is(f) ==
               f = [s \in SUBSET (1 .. n) |->
                      IF s = {} THEN base
                      ELSE Attribute(f[s \ {Top(s)}], attrs[Top(s)])]
             g == CHOOSE f : Is(f)
             Made(f) == Chain(f, "attributes", None, base, attrs, n)
  <1>1. n \in Nat /\ DOMAIN attrs = 1 .. n
    BY DEF IsList
  <1>2. AllRead(base, attrs) = g[1 .. n]
    BY <1>1 DEF FoldLeft, MapThenFoldSet, Max, Top, AllRead
  <1>3. \A v, x : StepOf("attributes", None, v, x) = Attribute(v, x)
    BY DEF StepOf
  <1> HIDE DEF n
  <1>4. \A f : Made(f) <=> Is(f)
    BY <1>3 DEF Chain
  <1> HIDE DEF Is
  <1>5. Made(g)
    <2>1. \E f : Made(f)
      BY <1>1, ChainExists
    <2> HIDE DEF Made
    <2> QED
      BY <1>4, <2>1
  <1> HIDE DEF g
  <1> QED
    BY <1>1, <1>2, <1>3, <1>5, ChainSteps DEF n

\* The fields of a message, updated one by one.
LEMMA UpdatesAsFolds ==
  ASSUME NEW base, NEW name, NEW places, IsList(places)
  PROVE  \E g : /\ g[{}] = base
                /\ \A k \in 1 .. Len(places) :
                     g[1 .. k] = UpdateNext(g[1 .. k - 1], name, places[k])
                /\ FieldsUpdated(base, name, places) = g[1 .. Len(places)]
  <1> DEFINE n == Len(places)
             Is(f) ==
               f = [s \in SUBSET (1 .. n) |->
                      IF s = {} THEN base
                      ELSE UpdateNext(f[s \ {Top(s)}], name, places[Top(s)])]
             g == CHOOSE f : Is(f)
             Made(f) == Chain(f, "updates", name, base, places, n)
  <1>1. n \in Nat /\ DOMAIN places = 1 .. n
    BY DEF IsList
  <1>2. FieldsUpdated(base, name, places) = g[1 .. n]
    BY <1>1 DEF FoldLeft, MapThenFoldSet, Max, Top, FieldsUpdated
  <1>3. \A v, x : StepOf("updates", name, v, x) = UpdateNext(v, name, x)
    BY DEF StepOf
  <1> HIDE DEF n
  <1>4. \A f : Made(f) <=> Is(f)
    BY <1>3 DEF Chain
  <1> HIDE DEF Is
  <1>5. Made(g)
    <2>1. \E f : Made(f)
      BY <1>1, ChainExists
    <2> HIDE DEF Made
    <2> QED
      BY <1>4, <2>1
  <1> HIDE DEF g
  <1> QED
    BY <1>1, <1>2, <1>3, <1>5, ChainSteps DEF n

\* The messages, updated one by one.
LEMMA UpdatedAsFolds ==
  ASSUME NEW base, NEW names, IsList(names)
  PROVE  \E g : /\ g[{}] = base
                /\ \A k \in 1 .. Len(names) :
                     g[1 .. k] = UpdateFields(g[1 .. k - 1], names[k])
                /\ AllUpdated(base, names) = g[1 .. Len(names)]
  <1> DEFINE n == Len(names)
             Is(f) ==
               f = [s \in SUBSET (1 .. n) |->
                      IF s = {} THEN base
                      ELSE UpdateFields(f[s \ {Top(s)}], names[Top(s)])]
             g == CHOOSE f : Is(f)
             Made(f) == Chain(f, "updated", None, base, names, n)
  <1>1. n \in Nat /\ DOMAIN names = 1 .. n
    BY DEF IsList
  <1>2. AllUpdated(base, names) = g[1 .. n]
    BY <1>1 DEF FoldLeft, MapThenFoldSet, Max, Top, AllUpdated
  <1>3. \A v, x : StepOf("updated", None, v, x) = UpdateFields(v, x)
    BY DEF StepOf
  <1> HIDE DEF n
  <1>4. \A f : Made(f) <=> Is(f)
    BY <1>3 DEF Chain
  <1> HIDE DEF Is
  <1>5. Made(g)
    <2>1. \E f : Made(f)
      BY <1>1, ChainExists
    <2> HIDE DEF Made
    <2> QED
      BY <1>4, <2>1
  <1> HIDE DEF g
  <1> QED
    BY <1>1, <1>2, <1>3, <1>5, ChainSteps DEF n

\* Messages added one by one.
LEMMA AddedAsFolds ==
  ASSUME NEW base, NEW messages, NEW names, names = InOrder(messages), IsList(names)
  PROVE  \E g : /\ g[{}] = base
                /\ \A k \in 1 .. Len(names) :
                     g[1 .. k] = AddNext(g[1 .. k - 1], messages, names[k])
                /\ AddMessages(base, messages) = g[1 .. Len(names)]
  <1> DEFINE n == Len(names)
             Is(f) ==
               f = [s \in SUBSET (1 .. n) |->
                      IF s = {} THEN base
                      ELSE AddNext(f[s \ {Top(s)}], messages, names[Top(s)])]
             g == CHOOSE f : Is(f)
             Made(f) == Chain(f, "added", messages, base, names, n)
  <1>1. n \in Nat /\ DOMAIN names = 1 .. n
    BY DEF IsList
  <1>2. AddMessages(base, messages) = g[1 .. n]
    BY <1>1 DEF FoldLeft, MapThenFoldSet, Max, Top, AddMessages, AddNext
  <1>3. \A v, x : StepOf("added", messages, v, x) = AddNext(v, messages, x)
    BY DEF StepOf
  <1> HIDE DEF n
  <1>4. \A f : Made(f) <=> Is(f)
    BY <1>3 DEF Chain
  <1> HIDE DEF Is
  <1>5. Made(g)
    <2>1. \E f : Made(f)
      BY <1>1, ChainExists
    <2> HIDE DEF Made
    <2> QED
      BY <1>4, <2>1
  <1> HIDE DEF g
  <1> QED
    BY <1>1, <1>2, <1>3, <1>5, ChainSteps DEF n

\* Enums joined one by one.
LEMMA JoinedAsFolds ==
  ASSUME NEW base, NEW enums, NEW names, names = InOrder(enums), IsList(names)
  PROVE  \E g : /\ g[{}] = base
                /\ \A k \in 1 .. Len(names) :
                     g[1 .. k] = JoinNext(g[1 .. k - 1], enums, names[k])
                /\ AddEnums(base, enums) = g[1 .. Len(names)]
  <1> DEFINE n == Len(names)
             Is(f) ==
               f = [s \in SUBSET (1 .. n) |->
                      IF s = {} THEN base
                      ELSE JoinNext(f[s \ {Top(s)}], enums, names[Top(s)])]
             g == CHOOSE f : Is(f)
             Made(f) == Chain(f, "joined", enums, base, names, n)
  <1>1. n \in Nat /\ DOMAIN names = 1 .. n
    BY DEF IsList
  <1>2. AddEnums(base, enums) = g[1 .. n]
    BY <1>1 DEF FoldLeft, MapThenFoldSet, Max, Top, AddEnums, JoinNext
  <1>3. \A v, x : StepOf("joined", enums, v, x) = JoinNext(v, enums, x)
    BY DEF StepOf
  <1> HIDE DEF n
  <1>4. \A f : Made(f) <=> Is(f)
    BY <1>3 DEF Chain
  <1> HIDE DEF Is
  <1>5. Made(g)
    <2>1. \E f : Made(f)
      BY <1>1, ChainExists
    <2> HIDE DEF Made
    <2> QED
      BY <1>4, <2>1
  <1> HIDE DEF g
  <1> QED
    BY <1>1, <1>2, <1>3, <1>5, ChainSteps DEF n

\* The messages of a profile, loaded one by one.
LEMMA LoadedAsFolds ==
  ASSUME NEW base, NEW profile, NEW names, IsList(names)
  PROVE  \E g : /\ g[{}] = base
                /\ \A k \in 1 .. Len(names) :
                     g[1 .. k] = LoadMessage(profile, g[1 .. k - 1], names[k])
                /\ AllLoaded(base, profile, names) = g[1 .. Len(names)]
  <1> DEFINE n == Len(names)
             Is(f) ==
               f = [s \in SUBSET (1 .. n) |->
                      IF s = {} THEN base
                      ELSE LoadMessage(profile, f[s \ {Top(s)}], names[Top(s)])]
             g == CHOOSE f : Is(f)
             Made(f) == Chain(f, "loaded", profile, base, names, n)
  <1>1. n \in Nat /\ DOMAIN names = 1 .. n
    BY DEF IsList
  <1>2. AllLoaded(base, profile, names) = g[1 .. n]
    BY <1>1 DEF FoldLeft, MapThenFoldSet, Max, Top, AllLoaded
  <1>3. \A v, x : StepOf("loaded", profile, v, x) = LoadMessage(profile, v, x)
    BY DEF StepOf
  <1> HIDE DEF n
  <1>4. \A f : Made(f) <=> Is(f)
    BY <1>3 DEF Chain
  <1> HIDE DEF Is
  <1>5. Made(g)
    <2>1. \E f : Made(f)
      BY <1>1, ChainExists
    <2> HIDE DEF Made
    <2> QED
      BY <1>4, <2>1
  <1> HIDE DEF g
  <1> QED
    BY <1>1, <1>2, <1>3, <1>5, ChainSteps DEF n

\* The events of a file, kept or left out one by one.
LEMMA FilteredAsFolds ==
  ASSUME NEW base, NEW events, IsList(events)
  PROVE  \E g : /\ g[{}] = base
                /\ \A k \in 1 .. Len(events) :
                     g[1 .. k] = filter_extension(g[1 .. k - 1], events[k])
                /\ AllKept(base, events) = g[1 .. Len(events)]
  <1> DEFINE n == Len(events)
             Is(f) ==
               f = [s \in SUBSET (1 .. n) |->
                      IF s = {} THEN base
                      ELSE filter_extension(f[s \ {Top(s)}], events[Top(s)])]
             g == CHOOSE f : Is(f)
             Made(f) == Chain(f, "filtered", None, base, events, n)
  <1>1. n \in Nat /\ DOMAIN events = 1 .. n
    BY DEF IsList
  <1>2. AllKept(base, events) = g[1 .. n]
    BY <1>1 DEF FoldLeft, MapThenFoldSet, Max, Top, AllKept
  <1>3. \A v, x : StepOf("filtered", None, v, x) = filter_extension(v, x)
    BY DEF StepOf
  <1> HIDE DEF n
  <1>4. \A f : Made(f) <=> Is(f)
    BY <1>3 DEF Chain
  <1> HIDE DEF Is
  <1>5. Made(g)
    <2>1. \E f : Made(f)
      BY <1>1, ChainExists
    <2> HIDE DEF Made
    <2> QED
      BY <1>4, <2>1
  <1> HIDE DEF g
  <1> QED
    BY <1>1, <1>2, <1>3, <1>5, ChainSteps DEF n

\* The entries of an enum, given values one by one.
LEMMA ValuedAsFolds ==
  ASSUME NEW base, NEW restriction, NEW entries, IsList(entries)
  PROVE  \E g : /\ g[{}] = base
                /\ \A k \in 1 .. Len(entries) :
                     g[1 .. k] = NextEntry(restriction, g[1 .. k - 1], entries[k])
                /\ AllValued(base, restriction, entries) = g[1 .. Len(entries)]
  <1> DEFINE n == Len(entries)
             Is(f) ==
               f = [s \in SUBSET (1 .. n) |->
                      IF s = {} THEN base
                      ELSE NextEntry(restriction, f[s \ {Top(s)}], entries[Top(s)])]
             g == CHOOSE f : Is(f)
             Made(f) == Chain(f, "valued", restriction, base, entries, n)
  <1>1. n \in Nat /\ DOMAIN entries = 1 .. n
    BY DEF IsList
  <1>2. AllValued(base, restriction, entries) = g[1 .. n]
    BY <1>1 DEF FoldLeft, MapThenFoldSet, Max, Top, AllValued
  <1>3. \A v, x : StepOf("valued", restriction, v, x) = NextEntry(restriction, v, x)
    BY DEF StepOf
  <1> HIDE DEF n
  <1>4. \A f : Made(f) <=> Is(f)
    BY <1>3 DEF Chain
  <1> HIDE DEF Is
  <1>5. Made(g)
    <2>1. \E f : Made(f)
      BY <1>1, ChainExists
    <2> HIDE DEF Made
    <2> QED
      BY <1>4, <2>1
  <1> HIDE DEF g
  <1> QED
    BY <1>1, <1>2, <1>3, <1>5, ChainSteps DEF n

\* The pieces of a text, joined one by one.
LEMMA PiecesAsFolds ==
  ASSUME NEW base, NEW enumeration, NEW pieces, IsList(pieces)
  PROVE  \E g : /\ g[{}] = base
                /\ \A k \in 1 .. Len(pieces) :
                     g[1 .. k] = WithPiece(enumeration, g[1 .. k - 1], pieces[k])
                /\ AllJoined(base, enumeration, pieces) = g[1 .. Len(pieces)]
  <1> DEFINE n == Len(pieces)
             Is(f) ==
               f = [s \in SUBSET (1 .. n) |->
                      IF s = {} THEN base
                      ELSE WithPiece(enumeration, f[s \ {Top(s)}], pieces[Top(s)])]
             g == CHOOSE f : Is(f)
             Made(f) == Chain(f, "pieces", enumeration, base, pieces, n)
  <1>1. n \in Nat /\ DOMAIN pieces = 1 .. n
    BY DEF IsList
  <1>2. AllJoined(base, enumeration, pieces) = g[1 .. n]
    BY <1>1 DEF FoldLeft, MapThenFoldSet, Max, Top, AllJoined
  <1>3. \A v, x : StepOf("pieces", enumeration, v, x) = WithPiece(enumeration, v, x)
    BY DEF StepOf
  <1> HIDE DEF n
  <1>4. \A f : Made(f) <=> Is(f)
    BY <1>3 DEF Chain
  <1> HIDE DEF Is
  <1>5. Made(g)
    <2>1. \E f : Made(f)
      BY <1>1, ChainExists
    <2> HIDE DEF Made
    <2> QED
      BY <1>4, <2>1
  <1> HIDE DEF g
  <1> QED
    BY <1>1, <1>2, <1>3, <1>5, ChainSteps DEF n

\* The named values, placed one by one.
LEMMA SuppliedAsFolds ==
  ASSUME NEW base, NEW definition, NEW fields, IsList(fields)
  PROVE  \E g : /\ g[{}] = base
                /\ \A k \in 1 .. Len(fields) :
                     g[1 .. k] = Supply(definition, g[1 .. k - 1], fields[k])
                /\ AllSupplied(base, definition, fields) = g[1 .. Len(fields)]
  <1> DEFINE n == Len(fields)
             Is(f) ==
               f = [s \in SUBSET (1 .. n) |->
                      IF s = {} THEN base
                      ELSE Supply(definition, f[s \ {Top(s)}], fields[Top(s)])]
             g == CHOOSE f : Is(f)
             Made(f) == Chain(f, "supplied", definition, base, fields, n)
  <1>1. n \in Nat /\ DOMAIN fields = 1 .. n
    BY DEF IsList
  <1>2. AllSupplied(base, definition, fields) = g[1 .. n]
    BY <1>1 DEF FoldLeft, MapThenFoldSet, Max, Top, AllSupplied
  <1>3. \A v, x : StepOf("supplied", definition, v, x) = Supply(definition, v, x)
    BY DEF StepOf
  <1> HIDE DEF n
  <1>4. \A f : Made(f) <=> Is(f)
    BY <1>3 DEF Chain
  <1> HIDE DEF Is
  <1>5. Made(g)
    <2>1. \E f : Made(f)
      BY <1>1, ChainExists
    <2> HIDE DEF Made
    <2> QED
      BY <1>4, <2>1
  <1> HIDE DEF g
  <1> QED
    BY <1>1, <1>2, <1>3, <1>5, ChainSteps DEF n

\* The fields without a value, given their defaults one by one.
LEMMA DefaultedAsFolds ==
  ASSUME NEW base, NEW dialect, NEW fields, IsList(fields)
  PROVE  \E g : /\ g[{}] = base
                /\ \A k \in 1 .. Len(fields) :
                     g[1 .. k] = Defaulted(dialect, g[1 .. k - 1], fields[k])
                /\ AllDefaulted(base, dialect, fields) = g[1 .. Len(fields)]
  <1> DEFINE n == Len(fields)
             Is(f) ==
               f = [s \in SUBSET (1 .. n) |->
                      IF s = {} THEN base
                      ELSE Defaulted(dialect, f[s \ {Top(s)}], fields[Top(s)])]
             g == CHOOSE f : Is(f)
             Made(f) == Chain(f, "defaulted", dialect, base, fields, n)
  <1>1. n \in Nat /\ DOMAIN fields = 1 .. n
    BY DEF IsList
  <1>2. AllDefaulted(base, dialect, fields) = g[1 .. n]
    BY <1>1 DEF FoldLeft, MapThenFoldSet, Max, Top, AllDefaulted
  <1>3. \A v, x : StepOf("defaulted", dialect, v, x) = Defaulted(dialect, v, x)
    BY DEF StepOf
  <1> HIDE DEF n
  <1>4. \A f : Made(f) <=> Is(f)
    BY <1>3 DEF Chain
  <1> HIDE DEF Is
  <1>5. Made(g)
    <2>1. \E f : Made(f)
      BY <1>1, ChainExists
    <2> HIDE DEF Made
    <2> QED
      BY <1>4, <2>1
  <1> HIDE DEF g
  <1> QED
    BY <1>1, <1>2, <1>3, <1>5, ChainSteps DEF n

-----------------------------------------------------------------------------
(***************************************************************************)
(* What the compiler works on has its parts, and the parts their types.    *)
(* Names other than those the checksum reads, descriptions and lifecycles  *)
(* may be anything.                                                        *)
(***************************************************************************)
Types == [base : DOMAIN Width, length : Lengths]
TokenNames == DOMAIN TokenCode \union {"mavtype"}

IsField(f) ==
  /\ DOMAIN f = {"name", "mavtype", "description", "enumtype", "display", "is_extension",
                 "is_undersized"}
  /\ f.name \in TokenNames /\ f.mavtype \in Types

IsFields(s) == IsList(s) /\ \A i \in DOMAIN s : IsField(s[i])

IsMessage(m) ==
  /\ DOMAIN m = {"id", "name", "description", "fields", "lifecycle"}
  /\ m.id \in Nat /\ m.name \in DOMAIN TokenCode /\ IsFields(m.fields)

IsEntry(e) ==
  /\ DOMAIN e = {"name", "value", "description", "params", "lifecycle"}
  /\ e.value # None => e.value[1] \in Nat

IsEntries(s) == IsList(s) /\ \A i \in DOMAIN s : IsEntry(s[i])

IsEnum(e) ==
  /\ DOMAIN e = {"name", "description", "entries", "primitive", "bitmask", "lifecycle",
                 "additional_primitives"}
  /\ IsEntries(e.entries)
  /\ e.primitive # None => e.primitive[1] \in Types

IsMessages(map) == \A name \in DOMAIN map : IsMessage(map[name])
IsEnums(map) == \A name \in DOMAIN map : IsEnum(map[name])
IsVersion(v) == v # None => v[1] \in 0 .. Radix - 1

IsProfile(pr) ==
  /\ DOMAIN pr = {"messages", "enums", "version", "dialect"}
  /\ IsMessages(pr.messages) /\ IsEnums(pr.enums) /\ IsVersion(pr.version)

IsStart(event) ==
  event.kind = "Start" =>
    IsList(event.attrs) /\ \A k \in DOMAIN event.attrs : IsAttribute(event.el, event.attrs[k])
IsEvents(s) == IsList(s) /\ \A i \in DOMAIN s : IsStart(s[i])

IsParse(p) ==
  /\ DOMAIN p = {"path", "extensions", "events", "stack", "text", "profile", "field", "message",
                 "mavenum", "entry", "param", "lifecycle", "is_in_extension", "panic"}
  /\ IsEvents(p.events) /\ IsList(p.stack) /\ IsProfile(p.profile)
  /\ IsField(p.field) /\ IsMessage(p.message) /\ IsEnum(p.mavenum) /\ IsEntry(p.entry)

-----------------------------------------------------------------------------
\* Lists.
LEMMA ListIs ==
  ASSUME NEW s, IsList(s)
  PROVE  Len(s) \in Nat /\ DOMAIN s = 1 .. Len(s) /\ s = [i \in 1 .. Len(s) |-> s[i]]
  BY DEF IsList

\* A list of members of a set is a sequence over it.
LEMMA ListIn ==
  ASSUME NEW s, IsList(s), NEW S, \A i \in DOMAIN s : s[i] \in S
  PROVE  s \in Seq(S)
  <1>1. s \in [1 .. Len(s) -> S] /\ Len(s) \in Nat
    BY DEF IsList
  <1> QED
    BY <1>1, IsSequence

\* A sequence is a list.
LEMMA SeqIsList ==
  ASSUME NEW S, NEW s \in Seq(S)
  PROVE  IsList(s)
  BY DEF IsList

\* A list with one element more.
LEMMA ListAppend ==
  ASSUME NEW s, IsList(s), NEW x
  PROVE  /\ IsList(Append(s, x)) /\ Len(s) \in Nat
         /\ DOMAIN Append(s, x) = 1 .. Len(s) + 1
         /\ \A i \in DOMAIN s : Append(s, x)[i] = s[i]
         /\ Append(s, x)[Len(s) + 1] = x
         /\ Last(Append(s, x)) = x
  <1> DEFINE S == {s[i] : i \in DOMAIN s} \union {x}
  <1>1. s \in Seq(S) /\ x \in S
    BY ListIn
  <1> HIDE DEF S
  <1>2. Append(s, x) \in Seq(S)
    BY <1>1
  <1>3. IsList(Append(s, x))
    BY <1>2, SeqIsList
  <1>4. Len(Append(s, x)) = Len(s) + 1 /\ Len(s) \in Nat
    BY <1>1
  <1>5. DOMAIN Append(s, x) = 1 .. Len(s) + 1
    BY <1>1, <1>2, <1>4
  <1>6. /\ \A i \in DOMAIN s : Append(s, x)[i] = s[i]
        /\ Append(s, x)[Len(s) + 1] = x
    BY <1>1
  <1> QED
    BY <1>3, <1>4, <1>5, <1>6 DEF Last

\* A list of elements of two others.
IsJoined(r, s, t) ==
  /\ IsList(r)
  /\ \A k \in DOMAIN r : (\E i \in DOMAIN s : r[k] = s[i]) \/ \E j \in DOMAIN t : r[k] = t[j]

\* One list after another.
LEMMA ListJoined ==
  ASSUME NEW s, IsList(s), NEW t, IsList(t)
  PROVE  IsJoined(s \o t, s, t)
  <1> DEFINE S == {s[i] : i \in DOMAIN s} \union {t[i] : i \in DOMAIN t}
  <1>1. s \in Seq(S) /\ t \in Seq(S)
    BY ListIn
  <1> HIDE DEF S
  <1>2. s \o t \in Seq(S)
    BY <1>1
  <1>3. ASSUME NEW k \in DOMAIN (s \o t)
        PROVE  (\E i \in DOMAIN s : (s \o t)[k] = s[i]) \/ \E j \in DOMAIN t : (s \o t)[k] = t[j]
    <2>1. CASE k <= Len(s)
      <3>1. k \in DOMAIN s /\ (s \o t)[k] = s[k]
        BY <1>1, <2>1
      <3> QED
        BY <3>1
    <2>2. CASE ~(k <= Len(s))
      <3>1. k - Len(s) \in DOMAIN t /\ (s \o t)[k] = t[k - Len(s)]
        BY <1>1, <2>2
      <3> QED
        BY <3>1
    <2> QED
      BY <2>1, <2>2
  <1> QED
    BY <1>2, <1>3, SeqIsList DEF IsJoined

\* A list with one element changed.
IsChanged(t, s, i, x) ==
  IsList(t) /\ DOMAIN t = DOMAIN s /\ \A k \in DOMAIN s : t[k] = IF k = i THEN x ELSE s[k]

\* The element changes and no other.
LEMMA ListChanged ==
  ASSUME NEW s, IsList(s), NEW i \in DOMAIN s, NEW x
  PROVE  IsChanged([s EXCEPT ![i] = x], s, i, x)
  <1> DEFINE S == {s[k] : k \in DOMAIN s} \union {x}
             t == [s EXCEPT ![i] = x]
  <1>1. s \in Seq(S) /\ x \in S
    BY ListIn
  <1>2. DOMAIN t = DOMAIN s /\ \A k \in DOMAIN s : t[k] = IF k = i THEN x ELSE s[k]
    OBVIOUS
  <1>3. t \in Seq(S)
    <2> HIDE DEF S
    <2> QED
      BY <1>1
  <1> HIDE DEF S, t
  <1>4. IsList(t)
    BY <1>3, SeqIsList
  <1> QED
    BY <1>2, <1>4 DEF t, IsChanged

\* What is selected from a list are its elements at the places.
LEMMA ListSelected ==
  ASSUME NEW s, IsList(s), NEW places
  PROVE  /\ IsList(Selected(s, places))
         /\ \A k \in DOMAIN Selected(s, places) :
              \E i \in places \intersect DOMAIN s : Selected(s, places)[k] = s[i]
  <1> DEFINE S == {s[i] : i \in DOMAIN s}
             V == {s[i] : i \in places \intersect DOMAIN s}
             t == Selected(s, places)
  <1>1. s \in Seq(S)
    BY ListIn
  <1>2. t \in Seq(V)
    <2> HIDE DEF S
    <2> QED
      BY <1>1, SelectedIs
  <1> HIDE DEF t
  <1>3. IsList(t)
    BY <1>2, SeqIsList
  <1>4. \A k \in DOMAIN t : t[k] \in V
    <2> HIDE DEF V
    <2> QED
      BY <1>2
  <1> QED
    BY <1>3, <1>4 DEF t

-----------------------------------------------------------------------------
(***************************************************************************)
(* What adds to a profile.                                                 *)
(***************************************************************************)
\* A message more, or another one of that name.
LEMMA WithMessage ==
  ASSUME NEW map, IsMessages(map), NEW name, NEW m, IsMessage(m)
  PROVE  IsMessages(WithEntry(map, name, m))
  BY DEF IsMessages, WithEntry

\* An enum more, or another one of that name.
LEMMA WithEnum ==
  ASSUME NEW map, IsEnums(map), NEW name, NEW e, IsEnum(e)
  PROVE  IsEnums(WithEntry(map, name, e))
  BY DEF IsEnums, WithEntry

\* A profile with another part of the right type.
LEMMA ProfileWith ==
  ASSUME NEW pr, IsProfile(pr), NEW x
  PROVE  /\ IsMessages(x) => IsProfile([pr EXCEPT !.messages = x])
         /\ IsEnums(x) => IsProfile([pr EXCEPT !.enums = x])
         /\ IsVersion(x) => IsProfile([pr EXCEPT !.version = x])
         /\ IsProfile([pr EXCEPT !.dialect = x])
  BY DEF IsProfile

\* A call with another part of the right type.
LEMMA ParseWith ==
  ASSUME NEW p, IsParse(p), NEW x
  PROVE  /\ IsProfile(x) => IsParse([p EXCEPT !.profile = x])
         /\ IsField(x) => IsParse([p EXCEPT !.field = x])
         /\ IsMessage(x) => IsParse([p EXCEPT !.message = x])
         /\ IsEnum(x) => IsParse([p EXCEPT !.mavenum = x])
         /\ IsEntry(x) => IsParse([p EXCEPT !.entry = x])
         /\ IsEvents(x) => IsParse([p EXCEPT !.events = x])
         /\ IsList(x) => IsParse([p EXCEPT !.stack = x])
         /\ IsParse([p EXCEPT !.text = x]) /\ IsParse([p EXCEPT !.param = x])
         /\ IsParse([p EXCEPT !.lifecycle = x]) /\ IsParse([p EXCEPT !.is_in_extension = x])
         /\ IsParse([p EXCEPT !.panic = x])
  BY DEF IsParse

\* All that an attribute must leave alone.
SameStack(p, q) == q.stack = p.stack

\* No part but the stack is the stack.
LEMMA StackWith ==
  ASSUME NEW p, IsParse(p), NEW x
  PROVE  /\ SameStack(p, [p EXCEPT !.profile = x]) /\ SameStack(p, [p EXCEPT !.field = x])
         /\ SameStack(p, [p EXCEPT !.message = x]) /\ SameStack(p, [p EXCEPT !.mavenum = x])
         /\ SameStack(p, [p EXCEPT !.entry = x]) /\ SameStack(p, [p EXCEPT !.param = x])
         /\ SameStack(p, [p EXCEPT !.lifecycle = x]) /\ SameStack(p, [p EXCEPT !.panic = x])
  BY DEF IsParse, SameStack

\* A panic changes nothing else.
LEMMA Panicked ==
  ASSUME NEW p, IsParse(p), NEW why
  PROVE  IsParse(Panic(p, why)) /\ SameStack(p, Panic(p, why)) /\ Panic(p, why).panic # None
  <1>1. Panic(p, why).panic = Some(why)
    BY DEF Panic, IsParse
  <1>2. IsParse(Panic(p, why)) /\ SameStack(p, Panic(p, why))
    BY ParseWith, StackWith DEF Panic
  <1>3. Some(why) # None
    BY DEF Some, None
  <1> QED
    BY <1>1, <1>2, <1>3

-----------------------------------------------------------------------------
\* add_message keeps types.
LEMMA AddMessageIs ==
  ASSUME NEW p, IsParse(p), NEW m, IsMessage(m)
  PROVE  IsParse(add_message(p, m))
  <1> DEFINE known == p.profile.messages
             more == WithEntry(known, m.name, m)
             q == [p EXCEPT !.profile.messages = more]
  <1>1. IsProfile(p.profile) /\ IsMessages(known)
    BY DEF IsParse, IsProfile
  <1>2. IsMessages(more)
    BY <1>1, WithMessage
  <1>3. IsParse(q)
    <2>1. q = [p EXCEPT !.profile = [p.profile EXCEPT !.messages = more]]
      OBVIOUS
    <2> HIDE DEF q, more
    <2> QED
      BY <1>1, <1>2, <2>1, ProfileWith, ParseWith
  <1> HIDE DEF q
  <1> QED
    BY <1>3, Panicked DEF add_message, q

\* The entries of one enum after those of another.
LEMMA EntriesJoined ==
  ASSUME NEW s, IsEntries(s), NEW t, IsEntries(t)
  PROVE  IsEntries(s \o t)
  <1>1. IsList(s) /\ IsList(t) /\ \A i \in DOMAIN s : IsEntry(s[i])
    BY DEF IsEntries
  <1>2. \A i \in DOMAIN t : IsEntry(t[i])
    BY DEF IsEntries
  <1>3. IsJoined(s \o t, s, t)
    BY <1>1, ListJoined
  <1>4. ASSUME NEW r, IsJoined(r, s, t) PROVE IsEntries(r)
    BY <1>1, <1>2, <1>4 DEF IsEntries, IsJoined
  <1> QED
    BY <1>3, <1>4

\* try_combine keeps types.
LEMMA CombineIs ==
  ASSUME NEW p, IsParse(p), NEW e, IsEnum(e), e.name \in DOMAIN p.profile.enums
  PROVE  IsParse(try_combine(p, e))
  <1> DEFINE known == p.profile.enums[e.name]
             joined == known.entries \o e.entries
             more == [known EXCEPT !.entries = joined,
                                   !.additional_primitives = @ \union e.additional_primitives]
             enums == [p.profile.enums EXCEPT ![e.name] = more]
             q == [p EXCEPT !.profile.enums[e.name] = more]
  <1>1. IsProfile(p.profile) /\ IsEnums(p.profile.enums)
    BY DEF IsParse, IsProfile
  <1>2. IsEnum(known)
    BY <1>1 DEF IsEnums
  <1>3. IsEntries(joined)
    <2>1. IsEntries(known.entries) /\ IsEntries(e.entries)
      BY <1>2 DEF IsEnum
    <2> QED
      BY <2>1, EntriesJoined
  <1>4. IsEnum(more)
    <2> HIDE DEF joined, known
    <2> QED
      BY <1>2, <1>3 DEF IsEnum
  <1>5. IsEnums(enums)
    <2> HIDE DEF more
    <2> QED
      BY <1>1, <1>4 DEF IsEnums
  <1>6. IsParse(q)
    <2>1. q = [p EXCEPT !.profile = [p.profile EXCEPT !.enums = enums]]
      OBVIOUS
    <2> HIDE DEF q, enums
    <2> QED
      BY <1>1, <1>5, <2>1, ProfileWith, ParseWith
  <1>7. try_combine(p, e) \in {q, Panic(p, "entry exists")}
    BY DEF try_combine
  <1> HIDE DEF q
  <1> QED
    BY <1>6, <1>7, Panicked

\* add_enum keeps types.
LEMMA AddEnumIs ==
  ASSUME NEW p, IsParse(p), NEW e, IsEnum(e)
  PROVE  IsParse(add_enum(p, e))
  <1> DEFINE more == WithEntry(p.profile.enums, e.name, e)
             q == [p EXCEPT !.profile.enums = more]
  <1>1. IsProfile(p.profile) /\ IsEnums(p.profile.enums)
    BY DEF IsParse, IsProfile
  <1>2. IsEnums(more)
    BY <1>1, WithEnum
  <1>3. IsParse(q)
    <2>1. q = [p EXCEPT !.profile = [p.profile EXCEPT !.enums = more]]
      OBVIOUS
    <2> HIDE DEF q, more
    <2> QED
      BY <1>1, <1>2, <2>1, ProfileWith, ParseWith
  <1>4. e.name \notin DOMAIN p.profile.enums => add_enum(p, e) = q
    BY DEF add_enum
  <1> HIDE DEF q
  <1> QED
    BY <1>3, <1>4, CombineIs DEF add_enum

-----------------------------------------------------------------------------
(***************************************************************************)
(* What updates the fields and enums of a profile at the end of a file.    *)
(***************************************************************************)
\* Updates of fields leave their places.
SameFields(p, q) ==
  /\ DOMAIN q.profile.messages = DOMAIN p.profile.messages
  /\ \A n \in DOMAIN p.profile.messages :
       DOMAIN q.profile.messages[n].fields = DOMAIN p.profile.messages[n].fields

\* Fields with one of them changed.
LEMMA FieldsChanged ==
  ASSUME NEW s, IsFields(s), NEW i \in DOMAIN s, NEW f, IsField(f)
  PROVE  IsFields([s EXCEPT ![i] = f]) /\ DOMAIN [s EXCEPT ![i] = f] = DOMAIN s
  <1>1. IsList(s) /\ \A k \in DOMAIN s : IsField(s[k])
    BY DEF IsFields
  <1>2. IsChanged([s EXCEPT ![i] = f], s, i, f)
    BY <1>1, ListChanged
  <1>3. ASSUME NEW t, IsChanged(t, s, i, f) PROVE IsFields(t) /\ DOMAIN t = DOMAIN s
    BY <1>1, <1>3 DEF IsFields, IsChanged
  <1> QED
    BY <1>2, <1>3

\* A profile with one field of a message changed.
LEMMA FieldChanged ==
  ASSUME NEW p, IsParse(p), NEW name \in DOMAIN p.profile.messages,
         NEW i \in DOMAIN p.profile.messages[name].fields, NEW f, IsField(f)
  PROVE  /\ IsParse([p EXCEPT !.profile.messages[name].fields[i] = f])
         /\ SameFields(p, [p EXCEPT !.profile.messages[name].fields[i] = f])
  <1> DEFINE known == p.profile.messages
             fields == known[name].fields
             changed == [fields EXCEPT ![i] = f]
             made == [known[name] EXCEPT !.fields = changed]
             messages == [known EXCEPT ![name] = made]
             profile == [p.profile EXCEPT !.messages = messages]
             q == [p EXCEPT !.profile.messages[name].fields[i] = f]
  <1>1. IsProfile(p.profile) /\ IsMessages(known)
    BY DEF IsParse, IsProfile
  <1>2. IsMessage(known[name]) /\ IsFields(fields)
    BY <1>1 DEF IsMessages, IsMessage
  <1>3. IsFields(changed) /\ DOMAIN changed = DOMAIN fields
    <2> HIDE DEF fields
    <2> QED
      BY <1>2, FieldsChanged DEF fields
  <1>4. IsMessage(made) /\ made.fields = changed
    <2> HIDE DEF changed, known
    <2> QED
      BY <1>2, <1>3 DEF IsMessage
  <1>5. /\ IsMessages(messages) /\ DOMAIN messages = DOMAIN known
        /\ \A n \in DOMAIN known : messages[n] = IF n = name THEN made ELSE known[n]
    <2> HIDE DEF made
    <2> QED
      BY <1>1, <1>4 DEF IsMessages
  <1>6. IsProfile(profile) /\ profile.messages = messages
    <2> HIDE DEF messages
    <2> QED
      BY <1>1, <1>5, ProfileWith DEF IsProfile
  <1>7. q = [p EXCEPT !.profile = profile]
    OBVIOUS
  <1> HIDE DEF q, profile
  <1>8. IsParse(q) /\ q.profile = profile
    BY <1>6, <1>7, ParseWith DEF IsParse
  <1>9. SameFields(p, q)
    <2>1. q.profile.messages = messages
      BY <1>6, <1>8
    <2> HIDE DEF messages, made, changed
    <2> QED
      BY <1>3, <1>4, <1>5, <2>1 DEF SameFields
  <1> QED
    BY <1>8, <1>9 DEF q

\* A profile with an enum changed.
LEMMA EnumChanged ==
  ASSUME NEW p, IsParse(p), NEW name, NEW e, IsEnum(e)
  PROVE  /\ IsParse([p EXCEPT !.profile.enums[name] = e])
         /\ SameFields(p, [p EXCEPT !.profile.enums[name] = e])
  <1> DEFINE enums == [p.profile.enums EXCEPT ![name] = e]
             profile == [p.profile EXCEPT !.enums = enums]
             q == [p EXCEPT !.profile.enums[name] = e]
  <1>1. IsProfile(p.profile) /\ IsEnums(p.profile.enums)
    BY DEF IsParse, IsProfile
  <1>2. IsEnums(enums)
    BY <1>1 DEF IsEnums
  <1>3. IsProfile(profile) /\ profile.messages = p.profile.messages
    <2> HIDE DEF enums
    <2> QED
      BY <1>1, <1>2, ProfileWith DEF IsProfile
  <1>4. q = [p EXCEPT !.profile = profile]
    OBVIOUS
  <1> HIDE DEF q, profile
  <1>5. IsParse(q) /\ q.profile = profile
    BY <1>3, <1>4, ParseWith DEF IsParse
  <1> QED
    BY <1>3, <1>5 DEF SameFields, q

\* Two updates after each other.
LEMMA SameFieldsOn ==
  ASSUME NEW p, NEW q, NEW r, SameFields(p, q), SameFields(q, r)
  PROVE  SameFields(p, r)
  BY DEF SameFields

\* update_enums, for one field: it keeps types and the places of the fields.
LEMMA UpdateFieldIs ==
  ASSUME NEW p, IsParse(p), NEW name \in DOMAIN p.profile.messages,
         NEW i \in DOMAIN p.profile.messages[name].fields
  PROVE  IsParse(UpdateField(p, name, i)) /\ SameFields(p, UpdateField(p, name, i))
  <1> DEFINE field == p.profile.messages[name].fields[i]
             known == field.enumtype # None /\ field.enumtype[1] \in DOMAIN p.profile.enums
             enm   == p.profile.enums[field.enumtype[1]]
             large == TooLarge(field, enm)
             f == [field EXCEPT !.is_undersized = @ \/ large # {},
                                !.display = IF @ = None THEN Some("bitmask") ELSE @]
             e == [enm EXCEPT !.bitmask = TRUE,
                              !.primitive = IF large = {} THEN Some(field.mavtype) ELSE @,
                              !.additional_primitives =
                                IF large = {} THEN @ ELSE @ \union {field.mavtype}]
             q == [p EXCEPT !.profile.messages[name].fields[i] = f]
             r == [q EXCEPT !.profile.enums[enm.name] = e]
  <1>1. IsMessages(p.profile.messages) /\ IsEnums(p.profile.enums)
    BY DEF IsParse, IsProfile
  <1>2. IsField(field)
    <2>1. IsMessage(p.profile.messages[name])
      BY <1>1 DEF IsMessages
    <2> QED
      BY <2>1 DEF IsMessage, IsFields
  <1>3. CASE ~known
    BY <1>3 DEF UpdateField, SameFields
  <1>4. CASE known
    <2>1. UpdateField(p, name, i) \in {p, Panic(p, "no entry fits"), r}
      BY DEF UpdateField
    <2>2. IsEnum(enm)
      BY <1>1, <1>4 DEF IsEnums
    <2> HIDE DEF large, known
    <2>3. IsField(f)
      <3> HIDE DEF field
      <3> QED
        BY <1>2 DEF IsField
    <2>4. IsEnum(e)
      <3>1. field.mavtype \in Types
        BY <1>2 DEF IsField
      <3> HIDE DEF enm, field
      <3> QED
        BY <2>2, <3>1 DEF IsEnum, Some
    <2> HIDE DEF f, e
    <2>5. IsParse(q) /\ SameFields(p, q)
      BY <2>3, FieldChanged
    <2> HIDE DEF q, enm
    <2>6. IsParse(r) /\ SameFields(p, r)
      BY <2>4, <2>5, EnumChanged, SameFieldsOn
    <2>7. IsParse(Panic(p, "no entry fits")) /\ SameFields(p, Panic(p, "no entry fits"))
      <3>1. Panic(p, "no entry fits").profile = p.profile
        BY DEF Panic, IsParse
      <3> QED
        BY <3>1, Panicked DEF SameFields
    <2>8. SameFields(p, p)
      BY DEF SameFields
    <2> HIDE DEF r
    <2> QED
      BY <2>1, <2>6, <2>7, <2>8
  <1> QED
    BY <1>3, <1>4

\* InOrder lists names of the map.
LEMMA InOrderIs ==
  ASSUME NEW map
  PROVE  /\ IsList(InOrder(map))
         /\ \A k \in 1 .. Len(InOrder(map)) : InOrder(map)[k] \in DOMAIN map
  <1> DEFINE places == {i \in DOMAIN NameOrder : NameOrder[i] \in DOMAIN map}
             names == InOrder(map)
  <1>1. IsList(NameOrder)
    BY NameAssumption, SeqIsList
  <1>2. names = Selected(NameOrder, places)
    BY DEF InOrder
  <1> HIDE DEF names
  <1>3. /\ IsList(names)
        /\ \A k \in DOMAIN names :
             \E i \in places \intersect DOMAIN NameOrder : names[k] = NameOrder[i]
    <2> HIDE DEF places
    <2> QED
      BY <1>1, <1>2, ListSelected
  <1>4. DOMAIN names = 1 .. Len(names)
    BY <1>3, ListIs
  <1>5. \A k \in DOMAIN names : names[k] \in DOMAIN map
    BY <1>3
  <1>6. IsList(names) /\ \A k \in 1 .. Len(names) : names[k] \in DOMAIN map
    BY <1>3, <1>4, <1>5
  <1> QED
    BY <1>6 DEF names

\* update_enums, for the fields of one message.
LEMMA UpdateFieldsIs ==
  ASSUME NEW p, IsParse(p), NEW name \in DOMAIN p.profile.messages
  PROVE  IsParse(UpdateFields(p, name)) /\ SameFields(p, UpdateFields(p, name))
  <1> DEFINE fields == p.profile.messages[name].fields
             places == [i \in DOMAIN fields |-> i]
             n == Len(places)
  <1>1. IsList(fields)
    <2>1. IsProfile(p.profile)
      BY DEF IsParse
    <2>2. IsMessage(p.profile.messages[name])
      BY <2>1 DEF IsProfile, IsMessages
    <2> QED
      BY <2>2 DEF IsMessage, IsFields
  <1>2. IsList(places) /\ n \in Nat /\ \A k \in 1 .. n : places[k] \in DOMAIN fields
    <2>1. DOMAIN fields = 1 .. Len(fields) /\ Len(fields) \in Nat
      BY <1>1, ListIs
    <2>2. places \in Seq(Nat) /\ DOMAIN places = 1 .. n /\ n \in Nat
      BY <2>1
    <2>3. \A k \in DOMAIN places : places[k] \in DOMAIN fields
      OBVIOUS
    <2> QED
      BY <2>2, <2>3, SeqIsList
  <1>3. UpdateFields(p, name) = FieldsUpdated(p, name, places)
    BY DEF UpdateFields, UpdateNext, FieldsUpdated
  <1> HIDE DEF places, fields
  <1>4. PICK g : /\ g[{}] = p
                 /\ \A k \in 1 .. n : g[1 .. k] = UpdateNext(g[1 .. k - 1], name, places[k])
                 /\ FieldsUpdated(p, name, places) = g[1 .. n]
    BY <1>2, UpdatesAsFolds
  <1> DEFINE V == {x \in {g[1 .. k] : k \in 0 .. n} \union {p} : IsParse(x) /\ SameFields(p, x)}
  <1>5. g[{}] \in V
    BY <1>4 DEF SameFields
  <1>6. ASSUME NEW k \in 1 .. n, g[1 .. k - 1] \in V PROVE g[1 .. k] \in V
    <2> DEFINE q == g[1 .. k - 1]
    <2>1. IsParse(q) /\ SameFields(p, q)
      BY <1>6
    <2>2. name \in DOMAIN q.profile.messages /\ places[k] \in DOMAIN q.profile.messages[name].fields
      BY <1>2, <2>1 DEF SameFields, fields
    <2>3. g[1 .. k] = UpdateNext(q, name, places[k])
      BY <1>4
    <2> HIDE DEF q
    <2>4. IsParse(g[1 .. k]) /\ SameFields(p, g[1 .. k])
      BY <2>1, <2>2, <2>3, UpdateFieldIs, SameFieldsOn DEF UpdateNext
    <2> QED
      BY <2>4
  <1>7. g[1 .. n] \in V
    <2> HIDE DEF V
    <2> QED
      BY <1>2, <1>5, <1>6, FoldStays
  <1> QED
    BY <1>3, <1>4, <1>7

\* The primitive an enum gets at the end of a file.
LEMMA WithPrimitiveIs ==
  ASSUME NEW e, IsEnum(e)
  PROVE  IsEnum(WithPrimitive(e))
  <1>1. DefaultPrimitive(e) \in Types
    BY DEF DefaultPrimitive, Types, Lengths, Scalar, Width
  <1>2. IsEnum([e EXCEPT !.primitive = Some(DefaultPrimitive(e))])
    BY <1>1 DEF IsEnum, Some
  <1> QED
    BY <1>2 DEF WithPrimitive

\* update_enums keeps types.
LEMMA UpdateEnumsIs ==
  ASSUME NEW p, IsParse(p)
  PROVE  IsParse(update_enums(p))
  <1> DEFINE names == InOrder(p.profile.messages)
             n == Len(names)
             updated == AllUpdated(p, names)
             enums == [m \in DOMAIN updated.profile.enums |->
                         WithPrimitive(updated.profile.enums[m])]
             profile == [updated.profile EXCEPT !.enums = enums]
  <1>1. IsList(names) /\ \A k \in 1 .. n : names[k] \in DOMAIN p.profile.messages
    BY InOrderIs
  <1> HIDE DEF names
  <1>2. n \in Nat
    BY <1>1 DEF IsList
  <1>3. PICK g : /\ g[{}] = p
                 /\ \A k \in 1 .. n : g[1 .. k] = UpdateFields(g[1 .. k - 1], names[k])
                 /\ updated = g[1 .. n]
    BY <1>1, UpdatedAsFolds
  <1> DEFINE V == {x \in {g[1 .. k] : k \in 0 .. n} \union {p} : IsParse(x) /\ SameFields(p, x)}
  <1>4. g[{}] \in V
    BY <1>3 DEF SameFields
  <1>5. ASSUME NEW k \in 1 .. n, g[1 .. k - 1] \in V PROVE g[1 .. k] \in V
    <2> DEFINE q == g[1 .. k - 1]
    <2>1. IsParse(q) /\ SameFields(p, q)
      BY <1>5
    <2>2. names[k] \in DOMAIN q.profile.messages
      BY <1>1, <2>1 DEF SameFields
    <2>3. g[1 .. k] = UpdateFields(q, names[k])
      BY <1>3
    <2> HIDE DEF q
    <2>4. IsParse(g[1 .. k]) /\ SameFields(p, g[1 .. k])
      BY <2>1, <2>2, <2>3, UpdateFieldsIs, SameFieldsOn
    <2> QED
      BY <2>4
  <1>6. g[1 .. n] \in V
    <2> HIDE DEF V
    <2> QED
      BY <1>2, <1>4, <1>5, FoldStays
  <1>7. IsParse(updated)
    BY <1>3, <1>6
  <1> HIDE DEF updated
  <1>8. IsProfile(updated.profile) /\ IsEnums(updated.profile.enums)
    BY <1>7 DEF IsParse, IsProfile
  <1>9. IsEnums(enums)
    BY <1>8, WithPrimitiveIs DEF IsEnums
  <1>10. update_enums(p) = [updated EXCEPT !.profile = profile]
    BY DEF update_enums, updated, names, AllUpdated
  <1> HIDE DEF enums
  <1>11. IsProfile(profile)
    BY <1>8, <1>9, ProfileWith
  <1> HIDE DEF profile
  <1>12. IsParse([updated EXCEPT !.profile = profile])
    BY <1>7, <1>11, ParseWith
  <1> QED
    BY <1>10, <1>12

-----------------------------------------------------------------------------
(***************************************************************************)
(* Fields in wire order, and the ends of elements.                         *)
(***************************************************************************)
\* A field more.
LEMMA FieldsAppend ==
  ASSUME NEW s, IsFields(s), NEW f, IsField(f)
  PROVE  IsFields(Append(s, f))
  <1>1. IsList(s) /\ \A i \in DOMAIN s : IsField(s[i])
    BY DEF IsFields
  <1> DEFINE t == Append(s, f)
  <1>2. /\ IsList(t) /\ DOMAIN t = 1 .. Len(s) + 1 /\ Len(s) \in Nat
        /\ t[Len(s) + 1] = f /\ \A i \in DOMAIN s : t[i] = s[i]
    BY <1>1, ListAppend
  <1> HIDE DEF t
  <1>3. DOMAIN s = 1 .. Len(s)
    BY <1>1, ListIs
  <1>4. ASSUME NEW i \in DOMAIN t PROVE IsField(t[i])
    <2>1. i \in DOMAIN s \/ i = Len(s) + 1
      BY <1>2, <1>3
    <2> QED
      BY <1>1, <1>2, <2>1
  <1> QED
    BY <1>2, <1>4 DEF IsFields, t

\* An entry more.
LEMMA EntriesAppend ==
  ASSUME NEW s, IsEntries(s), NEW e, IsEntry(e)
  PROVE  IsEntries(Append(s, e))
  <1>1. IsList(s) /\ \A i \in DOMAIN s : IsEntry(s[i])
    BY DEF IsEntries
  <1> DEFINE t == Append(s, e)
  <1>2. /\ IsList(t) /\ DOMAIN t = 1 .. Len(s) + 1 /\ Len(s) \in Nat
        /\ t[Len(s) + 1] = e /\ \A i \in DOMAIN s : t[i] = s[i]
    BY <1>1, ListAppend
  <1> HIDE DEF t
  <1>3. DOMAIN s = 1 .. Len(s)
    BY <1>1, ListIs
  <1>4. ASSUME NEW i \in DOMAIN t PROVE IsEntry(t[i])
    <2>1. i \in DOMAIN s \/ i = Len(s) + 1
      BY <1>2, <1>3
    <2> QED
      BY <1>1, <1>2, <2>1
  <1> QED
    BY <1>2, <1>4 DEF IsEntries, t

\* Fields at some places.
LEMMA FieldsSelected ==
  ASSUME NEW s, IsFields(s), NEW places
  PROVE  IsFields(Selected(s, places))
  <1>1. IsList(s) /\ \A i \in DOMAIN s : IsField(s[i])
    BY DEF IsFields
  <1> DEFINE t == Selected(s, places)
  <1>2. IsList(t) /\ \A k \in DOMAIN t : \E i \in places \intersect DOMAIN s : t[k] = s[i]
    BY <1>1, ListSelected
  <1> HIDE DEF t
  <1> QED
    BY <1>1, <1>2 DEF IsFields, t

\* Fields after others.
LEMMA FieldsJoined ==
  ASSUME NEW s, IsFields(s), NEW t, IsFields(t)
  PROVE  IsFields(s \o t)
  <1>1. IsList(s) /\ IsList(t) /\ \A i \in DOMAIN s : IsField(s[i])
    BY DEF IsFields
  <1>2. \A i \in DOMAIN t : IsField(t[i])
    BY DEF IsFields
  <1>3. IsJoined(s \o t, s, t)
    BY <1>1, ListJoined
  <1>4. ASSUME NEW r, IsJoined(r, s, t) PROVE IsFields(r)
    BY <1>1, <1>2, <1>4 DEF IsFields, IsJoined
  <1> QED
    BY <1>3, <1>4

\* Sorted fields are fields, all of them and those of the base alone.
LEMMA WireOrderIs ==
  ASSUME NEW s, IsFields(s)
  PROVE  IsFields(WireOrder(s)) /\ IsFields(BaseFields(s)) /\ IsFields(SortFields(BaseFields(s)))
  <1> DEFINE base == BaseFields(s)
  <1>1. IsFields(base)
    BY FieldsSelected DEF BaseFields
  <1> HIDE DEF base
  <1>2. IsFields(SortFields(base))
    <2>1. \A width : IsFields(Selected(base, SizedPlaces(base, width)))
      BY <1>1, FieldsSelected
    <2> QED
      BY <2>1, FieldsJoined DEF SortFields
  <1>3. IsFields(Selected(s, ExtensionPlaces(s)))
    BY FieldsSelected
  <1> QED
    BY <1>1, <1>2, <1>3, FieldsJoined DEF WireOrder, base

-----------------------------------------------------------------------------
\* The ends of elements.
LEMMA EndFieldIs ==
  ASSUME NEW p, IsParse(p)
  PROVE  IsParse(EndField(p))
  <1> DEFINE f == [p.field EXCEPT !.description = p.text]
             fields == Append(p.message.fields, f)
             m == [p.message EXCEPT !.fields = fields]
  <1>1. IsField(p.field) /\ IsMessage(p.message)
    BY DEF IsParse
  <1>2. IsField(f)
    BY <1>1 DEF IsField
  <1>3. IsFields(fields)
    <2> HIDE DEF f
    <2> QED
      BY <1>1, <1>2, FieldsAppend DEF IsMessage
  <1>4. IsMessage(m)
    <2> HIDE DEF fields
    <2> QED
      BY <1>1, <1>3 DEF IsMessage
  <1>5. EndField(p) = [p EXCEPT !.message = m]
    BY DEF EndField
  <1> HIDE DEF m
  <1>6. IsParse([p EXCEPT !.message = m])
    BY <1>4, ParseWith
  <1> QED
    BY <1>5, <1>6

\* The end of an entry keeps types.
LEMMA EndEntryIs ==
  ASSUME NEW p, IsParse(p)
  PROVE  IsParse(EndEntry(p))
  <1> DEFINE e == [p.entry EXCEPT !.lifecycle = p.lifecycle]
             entries == Append(p.mavenum.entries, e)
             m == [p.mavenum EXCEPT !.entries = entries]
             q == [p EXCEPT !.mavenum = m]
  <1>1. IsEntry(p.entry) /\ IsEnum(p.mavenum)
    BY DEF IsParse
  <1>2. IsEntry(e)
    BY <1>1 DEF IsEntry
  <1>3. IsEntries(entries)
    <2> HIDE DEF e
    <2> QED
      BY <1>1, <1>2, EntriesAppend DEF IsEnum
  <1>4. IsEnum(m)
    <2> HIDE DEF entries
    <2> QED
      BY <1>1, <1>3 DEF IsEnum
  <1>5. EndEntry(p) = [q EXCEPT !.lifecycle = None]
    BY DEF EndEntry
  <1> HIDE DEF m
  <1>6. IsParse(q)
    BY <1>4, ParseWith
  <1> HIDE DEF q
  <1>7. IsParse([q EXCEPT !.lifecycle = None])
    BY <1>6, ParseWith
  <1> QED
    BY <1>5, <1>7

\* The end of a message keeps types.
LEMMA EndMessageIs ==
  ASSUME NEW p, IsParse(p)
  PROVE  IsParse(EndMessage(p))
  <1> DEFINE m == [p.message EXCEPT !.lifecycle = p.lifecycle]
             fields == WireOrder(p.message.fields)
             sorted == [m EXCEPT !.fields = fields]
             q == [[[p EXCEPT !.message = m] EXCEPT !.lifecycle = None]
                     EXCEPT !.is_in_extension = FALSE]
  <1>1. IsMessage(p.message)
    BY DEF IsParse
  <1>2. IsMessage(m) /\ m.fields = p.message.fields
    BY <1>1 DEF IsMessage
  <1>3. IsFields(fields)
    BY <1>1, WireOrderIs DEF IsMessage
  <1>4. IsMessage(sorted)
    <2> HIDE DEF fields, m
    <2> QED
      BY <1>2, <1>3 DEF IsMessage
  <1>5. IsParse(q)
    <2> HIDE DEF m
    <2> QED
      BY <1>2, ParseWith
  <1>6. EndMessage(p) \in {Panic(q, "duplicate field"), Panic(q, "field count"),
                           add_message(q, sorted)}
    <2>1. sorted = [p.message EXCEPT !.lifecycle = p.lifecycle, !.fields = WireOrder(@)]
      BY <1>1 DEF IsMessage
    <2>2. q = [p EXCEPT !.message.lifecycle = p.lifecycle, !.lifecycle = None,
                        !.is_in_extension = FALSE]
      OBVIOUS
    <2> HIDE DEF sorted, q
    <2> QED
      BY <2>1, <2>2 DEF EndMessage
  <1> HIDE DEF q, sorted
  <1> QED
    BY <1>4, <1>5, <1>6, Panicked, AddMessageIs

\* The end of a description keeps types.
LEMMA EndDescriptionIs ==
  ASSUME NEW p, IsParse(p)
  PROVE  IsParse(EndDescription(p))
  <1> DEFINE m == [p.message EXCEPT !.description = p.text]
             e == [p.mavenum EXCEPT !.description = p.text]
             y == [p.entry EXCEPT !.description = p.text]
  <1>1. IsMessage(m) /\ IsEnum(e) /\ IsEntry(y)
    BY DEF IsParse, IsMessage, IsEnum, IsEntry
  <1>2. EndDescription(p) \in {[p EXCEPT !.message = m], [p EXCEPT !.mavenum = e],
                               [p EXCEPT !.entry = y], p}
    BY DEF EndDescription
  <1> HIDE DEF m, e, y
  <1>3. /\ IsParse([p EXCEPT !.message = m]) /\ IsParse([p EXCEPT !.mavenum = e])
        /\ IsParse([p EXCEPT !.entry = y])
    BY <1>1, ParseWith
  <1> QED
    BY <1>2, <1>3

\* The end of a lifecycle keeps types.
LEMMA EndLifecycleIs ==
  ASSUME NEW p, IsParse(p)
  PROVE  IsParse(EndLifecycle(p))
  <1> DEFINE l == [p.lifecycle EXCEPT ![1] = [@ EXCEPT !.note = p.text]]
  <1>1. EndLifecycle(p) \in {p, [p EXCEPT !.lifecycle = l]}
    BY DEF EndLifecycle
  <1> HIDE DEF l
  <1>2. IsParse([p EXCEPT !.lifecycle = l])
    BY ParseWith
  <1> QED
    BY <1>1, <1>2

\* The end of a parameter keeps types.
LEMMA EndParamIs ==
  ASSUME NEW p, IsParse(p)
  PROVE  IsParse(EndParam(p))
  <1>1. PICK placed :
          \/ EndParam(p) \in {p, Panic(p, "param without index"), Panic(p, "param range")}
          \/ EndParam(p) = [p EXCEPT !.entry.params = Some(placed), !.param.label = None,
                                     !.param.units = None, !.param.enum_used = None]
    BY DEF EndParam
  <1> DEFINE e == [p.entry EXCEPT !.params = Some(placed)]
             q == [p EXCEPT !.entry = e]
             reset == [q.param EXCEPT !.label = None, !.units = None, !.enum_used = None]
             r == [q EXCEPT !.param = reset]
  <1>2. IsEntry(e)
    BY DEF IsParse, IsEntry
  <1>3. r = [p EXCEPT !.entry.params = Some(placed), !.param.label = None,
                      !.param.units = None, !.param.enum_used = None]
    OBVIOUS
  <1> HIDE DEF e
  <1>4. IsParse(q)
    BY <1>2, ParseWith
  <1> HIDE DEF q, reset
  <1>5. IsParse(r)
    BY <1>4, ParseWith
  <1> HIDE DEF r
  <1> QED
    BY <1>1, <1>3, <1>5, Panicked

\* The end of any element keeps types.
LEMMA EndedIs ==
  ASSUME NEW p, IsParse(p)
  PROVE  IsParse(Ended(p))
  <1> DEFINE el == Last(p.stack)
             v == [p EXCEPT !.profile.version = p.text]
             d == [p EXCEPT !.profile.dialect = p.text]
  <1>1. IsProfile(p.profile) /\ IsEnum(p.mavenum)
    BY DEF IsParse
  <1>2. ByteText(p.text) => IsParse(v)
    <2> DEFINE profile == [p.profile EXCEPT !.version = p.text]
    <2>1. ByteText(p.text) => IsProfile(profile)
      BY <1>1, ProfileWith DEF ByteText, IsVersion
    <2>2. v = [p EXCEPT !.profile = profile]
      OBVIOUS
    <2> HIDE DEF profile, v
    <2> QED
      BY <2>1, <2>2, ParseWith
  <1>3. IsParse(d)
    <2> DEFINE profile == [p.profile EXCEPT !.dialect = p.text]
    <2>1. IsProfile(profile)
      BY <1>1, ProfileWith
    <2>2. d = [p EXCEPT !.profile = profile]
      OBVIOUS
    <2> HIDE DEF profile, d
    <2> QED
      BY <2>1, <2>2, ParseWith
  <1> HIDE DEF v, d
  <1>4. CASE el = "field"
    <2>1. Ended(p) = EndField(p)
      BY <1>4 DEF Ended, LifecycleElements
    <2> QED
      BY <2>1, EndFieldIs
  <1>5. CASE el = "entry"
    <2>1. Ended(p) = EndEntry(p)
      BY <1>5 DEF Ended, LifecycleElements
    <2> QED
      BY <2>1, EndEntryIs
  <1>6. CASE el = "message"
    <2>1. Ended(p) = EndMessage(p)
      BY <1>6 DEF Ended, LifecycleElements
    <2> QED
      BY <2>1, EndMessageIs
  <1>7. CASE el = "enum"
    <2>1. Ended(p) = add_enum(p, p.mavenum)
      BY <1>7 DEF Ended, LifecycleElements
    <2> QED
      BY <2>1, <1>1, AddEnumIs
  <1>8. CASE el = "description"
    <2>1. Ended(p) = EndDescription(p)
      BY <1>8 DEF Ended, LifecycleElements
    <2> QED
      BY <2>1, EndDescriptionIs
  <1>9. CASE el = "param"
    <2>1. Ended(p) = EndParam(p)
      BY <1>9 DEF Ended, LifecycleElements
    <2> QED
      BY <2>1, EndParamIs
  <1>10. CASE el = "version"
    <2>1. Ended(p) \in {p, Panic(p, "invalid version")} \/ (ByteText(p.text) /\ Ended(p) = v)
      BY <1>10 DEF Ended, v, LifecycleElements
    <2> QED
      BY <1>2, <2>1, Panicked
  <1>11. CASE el = "dialect"
    <2>1. Ended(p) \in {p, d, Panic(p, "invalid dialect")}
      BY <1>11 DEF Ended, d, LifecycleElements
    <2> QED
      BY <1>3, <2>1, Panicked
  <1>12. CASE el \in LifecycleElements
    <2>1. Ended(p) = EndLifecycle(p)
      BY <1>12 DEF Ended, LifecycleElements
    <2> QED
      BY <2>1, EndLifecycleIs
  <1>13. CASE el \notin LifecycleElements \union {"field", "entry", "message", "enum",
                                                  "description", "param", "version", "dialect"}
    <2>1. Ended(p) = p
      BY <1>13 DEF Ended
    <2> QED
      BY <2>1
  <1> QED
    BY <1>4, <1>5, <1>6, <1>7, <1>8, <1>9, <1>10, <1>11, <1>12, <1>13

\* The element that ends leaves the stack.
LEMMA CloseElementIs ==
  ASSUME NEW p, IsParse(p)
  PROVE  IsParse(CloseElement(p)) /\ CloseElement(p).panic = p.panic
  <1> DEFINE stack == Front(p.stack)
             q == [p EXCEPT !.text = None]
  <1>1. IsList(stack)
    <2> DEFINE S == {p.stack[i] : i \in DOMAIN p.stack}
    <2>1. p.stack \in Seq(S)
      BY ListIn DEF IsParse
    <2> HIDE DEF S
    <2>2. stack \in Seq(S)
      BY <2>1 DEF Front
    <2> HIDE DEF stack
    <2> QED
      BY <2>2, SeqIsList
  <1>2. CloseElement(p) = [q EXCEPT !.stack = stack]
    BY DEF CloseElement
  <1>3. CloseElement(p).panic = p.panic
    BY <1>2 DEF IsParse
  <1> HIDE DEF stack
  <1>4. IsParse(q)
    BY ParseWith
  <1> HIDE DEF q
  <1>5. IsParse([q EXCEPT !.stack = stack])
    BY <1>1, <1>4, ParseWith
  <1> QED
    BY <1>2, <1>3, <1>5

\* Text keeps types, a number of a version among it.
LEMMA ReadTextIs ==
  ASSUME NEW p, IsParse(p), NEW event
  PROVE  IsParse(ReadText(p, event))
  <1> DEFINE text == Append(p.text, event.text)
  <1>1. ReadText(p, event) \in {[p EXCEPT !.text = text], Panic(p, "unexpected text")}
    BY DEF ReadText
  <1> HIDE DEF text
  <1>2. IsParse([p EXCEPT !.text = text])
    BY ParseWith
  <1> QED
    BY <1>1, <1>2, Panicked

\* So does a reference in it.
LEMMA ReadReferenceIs ==
  ASSUME NEW p, IsParse(p), NEW event
  PROVE  IsParse(ReadReference(p, event))
  <1> DEFINE text == Append(p.text, event.text)
  <1>1. ReadReference(p, event) = [p EXCEPT !.text = text]
    BY DEF ReadReference
  <1> HIDE DEF text
  <1>2. IsParse([p EXCEPT !.text = text])
    BY ParseWith
  <1> QED
    BY <1>1, <1>2

\* What an included file defines.
LEMMA AddMessagesIs ==
  ASSUME NEW p, IsParse(p), NEW messages, IsMessages(messages)
  PROVE  IsParse(AddMessages(p, messages))
  <1> DEFINE names == InOrder(messages)
             n == Len(names)
  <1>1. IsList(names) /\ \A k \in 1 .. n : names[k] \in DOMAIN messages
    BY InOrderIs
  <1>2. n \in Nat
    BY <1>1 DEF IsList
  <1>3. PICK g : /\ g[{}] = p
                 /\ \A k \in 1 .. n : g[1 .. k] = AddNext(g[1 .. k - 1], messages, names[k])
                 /\ AddMessages(p, messages) = g[1 .. n]
    BY <1>1, AddedAsFolds
  <1> HIDE DEF names
  <1> DEFINE V == {x \in {g[1 .. k] : k \in 0 .. n} \union {p} : IsParse(x)}
  <1>4. g[{}] \in V
    BY <1>3
  <1>5. ASSUME NEW k \in 1 .. n, g[1 .. k - 1] \in V PROVE g[1 .. k] \in V
    <2> DEFINE q == g[1 .. k - 1]
    <2>1. IsParse(q) /\ IsMessage(messages[names[k]])
      BY <1>1, <1>5 DEF IsMessages
    <2>2. g[1 .. k] = AddNext(q, messages, names[k])
      BY <1>3
    <2> HIDE DEF q
    <2>3. IsParse(g[1 .. k])
      BY <2>1, <2>2, AddMessageIs DEF AddNext
    <2> QED
      BY <2>3
  <1>6. g[1 .. n] \in V
    <2> HIDE DEF V
    <2> QED
      BY <1>2, <1>4, <1>5, FoldStays
  <1> QED
    BY <1>3, <1>6

\* The enums an included file defines.
LEMMA AddEnumsIs ==
  ASSUME NEW p, IsParse(p), NEW enums, IsEnums(enums)
  PROVE  IsParse(AddEnums(p, enums))
  <1> DEFINE names == InOrder(enums)
             n == Len(names)
  <1>1. IsList(names) /\ \A k \in 1 .. n : names[k] \in DOMAIN enums
    BY InOrderIs
  <1>2. n \in Nat
    BY <1>1 DEF IsList
  <1>3. PICK g : /\ g[{}] = p
                 /\ \A k \in 1 .. n : g[1 .. k] = JoinNext(g[1 .. k - 1], enums, names[k])
                 /\ AddEnums(p, enums) = g[1 .. n]
    BY <1>1, JoinedAsFolds
  <1> HIDE DEF names
  <1> DEFINE V == {x \in {g[1 .. k] : k \in 0 .. n} \union {p} : IsParse(x)}
  <1>4. g[{}] \in V
    BY <1>3
  <1>5. ASSUME NEW k \in 1 .. n, g[1 .. k - 1] \in V PROVE g[1 .. k] \in V
    <2> DEFINE q == g[1 .. k - 1]
    <2>1. IsParse(q) /\ IsEnum(enums[names[k]])
      BY <1>1, <1>5 DEF IsEnums
    <2>2. g[1 .. k] = JoinNext(q, enums, names[k])
      BY <1>3
    <2> HIDE DEF q
    <2>3. IsParse(g[1 .. k])
      BY <2>1, <2>2, AddEnumIs DEF JoinNext
    <2> QED
      BY <2>3
  <1>6. g[1 .. n] \in V
    <2> HIDE DEF V
    <2> QED
      BY <1>2, <1>4, <1>5, FoldStays
  <1> QED
    BY <1>3, <1>6

\* What an included file defines joins what the including file defines.
LEMMA IncludedIs ==
  ASSUME NEW p, IsParse(p), NEW pr, IsProfile(pr)
  PROVE  IsParse(Included(p, pr))
  <1> DEFINE q == AddEnums(AddMessages(p, pr.messages), pr.enums)
             version == IF q.profile.version = None THEN pr.version ELSE q.profile.version
             profile == [q.profile EXCEPT !.version = version]
  <1>1. IsParse(q)
    BY AddMessagesIs, AddEnumsIs DEF IsProfile
  <1>2. Included(p, pr) = [q EXCEPT !.profile = profile]
    BY DEF Included
  <1> HIDE DEF q
  <1>3. IsProfile(q.profile) /\ IsVersion(version)
    BY <1>1 DEF IsParse, IsProfile
  <1> HIDE DEF version
  <1>4. IsProfile(profile)
    BY <1>3, ProfileWith
  <1> HIDE DEF profile
  <1>5. IsParse([q EXCEPT !.profile = profile])
    BY <1>1, <1>4, ParseWith
  <1> QED
    BY <1>2, <1>5

-----------------------------------------------------------------------------
(***************************************************************************)
(* The start of an element, and its attributes.                            *)
(***************************************************************************)
\* The start of an element.
LEMMA DefaultsAre ==
  /\ \A x : IsField(DefaultField(x))
  /\ IsMessage(DefaultMessage) /\ IsEnum(DefaultEnum) /\ IsEntry(DefaultEntry)
  /\ IsProfile(EmptyProfile)
  <1>1. IsList(<<>>)
    BY DEF IsList
  <1>2. \A x : IsField(DefaultField(x))
    BY NameAssumption DEF IsField, DefaultField, TokenNames, Types, Lengths, Scalar, Width
  <1>3. IsMessage(DefaultMessage)
    <2>1. IsFields(<<>>)
      BY <1>1 DEF IsFields
    <2>2. "" \in DOMAIN TokenCode
      BY NameAssumption
    <2> QED
      BY <2>1, <2>2 DEF IsMessage, DefaultMessage
  <1>4. IsEnum(DefaultEnum)
    BY <1>1 DEF IsEnum, DefaultEnum, IsEntries, None
  <1>5. IsEntry(DefaultEntry)
    BY DEF IsEntry, DefaultEntry, None
  <1>6. IsProfile(EmptyProfile)
    BY DEF IsProfile, EmptyProfile, IsMessages, IsEnums, NoEntries, IsVersion, None
  <1> QED
    BY <1>2, <1>3, <1>4, <1>5, <1>6

\* The start of an element keeps types.
LEMMA OpenElementIs ==
  ASSUME NEW p, IsParse(p), NEW el
  PROVE  IsParse(OpenElement(p, el)) /\ Last(OpenElement(p, el).stack) = el
  <1> DEFINE stack == Append(p.stack, el)
             q == [p EXCEPT !.stack = stack]
             Opens(r) == IsParse(r) /\ SameStack(q, r)
             ext == [q EXCEPT !.is_in_extension = TRUE]
             msg == [q EXCEPT !.message = DefaultMessage]
             fld == [q EXCEPT !.field = DefaultField(p.is_in_extension)]
             enu == [q EXCEPT !.mavenum = DefaultEnum]
             par == [q EXCEPT !.param = [DefaultParam EXCEPT !.label = p.param.label,
                                                             !.units = p.param.units,
                                                             !.enum_used = p.param.enum_used]]
             life == [q EXCEPT !.lifecycle = Some(Lifecycle(el))]
             of == IF p.mavenum.entries = <<>> THEN p.lifecycle ELSE q.mavenum.lifecycle
             m == [q.mavenum EXCEPT !.lifecycle = of]
             e1 == [q EXCEPT !.mavenum = m]
             e2 == [e1 EXCEPT !.lifecycle = None]
             ent == [e2 EXCEPT !.entry = DefaultEntry]
  <1>1. IsList(stack) /\ Last(stack) = el
    BY ListAppend DEF IsParse
  <1>2. OpenElement(p, el) \in {ext, msg, fld, enu, ent, par, life, q}
    BY DEF OpenElement
  <1>3. IsParse(q) /\ q.stack = stack
    <2> HIDE DEF stack
    <2> QED
      BY <1>1, ParseWith DEF IsParse
  <1> HIDE DEF q
  <1>4. Opens(ext) /\ Opens(par) /\ Opens(life) /\ Opens(q)
    BY <1>3, ParseWith, StackWith DEF SameStack, IsParse
  <1>5. Opens(msg) /\ Opens(fld) /\ Opens(enu)
    BY <1>3, ParseWith, StackWith, DefaultsAre
  <1>6. Opens(ent)
    <2>1. IsEnum(m)
      BY <1>3 DEF IsParse, IsEnum
    <2> HIDE DEF m
    <2>2. Opens(e1)
      BY <1>3, <2>1, ParseWith, StackWith
    <2> HIDE DEF e1
    <2>3. Opens(e2)
      BY <2>2, ParseWith, StackWith DEF SameStack
    <2> HIDE DEF e2
    <2> QED
      BY <2>3, DefaultsAre, ParseWith, StackWith DEF SameStack
  <1> HIDE DEF ext, msg, fld, enu, ent, par, life
  <1>7. Opens(OpenElement(p, el))
    BY <1>2, <1>4, <1>5, <1>6
  <1> QED
    BY <1>1, <1>3, <1>7 DEF SameStack

-----------------------------------------------------------------------------
\* One attribute.
Keeps(p, q) == IsParse(q) /\ SameStack(p, q)

\* A part of the right type is all an attribute changes.
LEMMA KeepsWith ==
  ASSUME NEW p, IsParse(p), NEW x
  PROVE  /\ Keeps(p, p) /\ Keeps(p, Panic(p, x))
         /\ IsField(x) => Keeps(p, [p EXCEPT !.field = x])
         /\ IsMessage(x) => Keeps(p, [p EXCEPT !.message = x])
         /\ IsEnum(x) => Keeps(p, [p EXCEPT !.mavenum = x])
         /\ IsEntry(x) => Keeps(p, [p EXCEPT !.entry = x])
         /\ Keeps(p, [p EXCEPT !.param = x])
         /\ Keeps(p, [p EXCEPT !.lifecycle = x])
  BY ParseWith, StackWith, Panicked DEF Keeps, SameStack

\* Nothing or a panic keeps both.
LEMMA KeepsOn ==
  ASSUME NEW p, NEW q, NEW r, Keeps(p, q), Keeps(q, r)
  PROVE  Keeps(p, r)
  BY DEF Keeps, SameStack

\* An attribute of an enum keeps types.
LEMMA EnumAttributeIs ==
  ASSUME NEW p, IsParse(p), NEW key, NEW value
  PROVE  Keeps(p, EnumAttribute(p, key, value))
  <1> DEFINE n == [p.mavenum EXCEPT !.name = value]
             b == [p.mavenum EXCEPT !.bitmask = TRUE]
  <1>1. IsEnum(n) /\ IsEnum(b)
    BY DEF IsParse, IsEnum
  <1>2. EnumAttribute(p, key, value) \in {[p EXCEPT !.mavenum = n], [p EXCEPT !.mavenum = b], p}
    BY DEF EnumAttribute
  <1> HIDE DEF n, b
  <1>3. Keeps(p, [p EXCEPT !.mavenum = n]) /\ Keeps(p, [p EXCEPT !.mavenum = b]) /\ Keeps(p, p)
    BY <1>1, KeepsWith
  <1> QED
    BY <1>2, <1>3

\* The moduli are numbers.
LEMMA U64Is == U64Modulus \in Nat \ {0} /\ Power[4] \in Nat \ {0}
  BY PowerType DEF U64Modulus

\* An attribute of an entry keeps types: its value is a number.
LEMMA EntryAttributeIs ==
  ASSUME NEW p, IsParse(p), NEW key, NEW value
  PROVE  Keeps(p, EntryAttribute(p, key, value))
  <1> DEFINE n == [p.entry EXCEPT !.name = value]
             v == [p.entry EXCEPT !.value = Some(value)]
             bad == Panic(p, "invalid enum entry value")
  <1>1. IsEntry(p.entry)
    BY DEF IsParse
  <1>2. IsEntry(n)
    BY <1>1 DEF IsEntry
  <1>3. value \in 0 .. U64Modulus - 1 => IsEntry(v)
    <2>1. value \in 0 .. U64Modulus - 1 => value \in Nat
      BY U64Is
    <2> QED
      BY <1>1, <2>1 DEF IsEntry, Some
  <1>4. \/ EntryAttribute(p, key, value) \in {[p EXCEPT !.entry = n], bad, p}
        \/ /\ value \in 0 .. U64Modulus - 1
           /\ EntryAttribute(p, key, value) = [p EXCEPT !.entry = v]
    BY DEF EntryAttribute
  <1> HIDE DEF n, v, bad
  <1>5. Keeps(p, [p EXCEPT !.entry = n]) /\ Keeps(p, p)
    BY <1>2, KeepsWith
  <1>6. IsEntry(v) => Keeps(p, [p EXCEPT !.entry = v])
    BY KeepsWith
  <1>7. Keeps(p, bad)
    BY KeepsWith DEF bad
  <1> QED
    BY <1>3, <1>4, <1>5, <1>6, <1>7

\* An attribute of a message keeps types: its id is a number.
LEMMA MessageAttributeIs ==
  ASSUME NEW p, IsParse(p), NEW key, NEW value, key = "name" => value \in DOMAIN TokenCode
  PROVE  Keeps(p, MessageAttribute(p, key, value))
  <1> DEFINE n == [p.message EXCEPT !.name = value]
             i == [p.message EXCEPT !.id = value]
             bad == Panic(p, "invalid message id")
  <1>1. IsMessage(p.message)
    BY DEF IsParse
  <1>2. value \in DOMAIN TokenCode => IsMessage(n)
    BY <1>1 DEF IsMessage
  <1>3. value \in 0 .. Power[4] - 1 => IsMessage(i)
    <2>1. value \in 0 .. Power[4] - 1 => value \in Nat
      BY U64Is
    <2> QED
      BY <1>1, <2>1 DEF IsMessage
  <1>4. \/ key = "name" /\ MessageAttribute(p, key, value) = [p EXCEPT !.message = n]
        \/ MessageAttribute(p, key, value) \in {bad, p}
        \/ /\ value \in 0 .. Power[4] - 1
           /\ MessageAttribute(p, key, value) = [p EXCEPT !.message = i]
    BY DEF MessageAttribute
  <1> HIDE DEF n, i, bad
  <1>5. IsMessage(n) => Keeps(p, [p EXCEPT !.message = n])
    BY KeepsWith
  <1>6. IsMessage(i) => Keeps(p, [p EXCEPT !.message = i])
    BY KeepsWith
  <1>7. Keeps(p, bad) /\ Keeps(p, p)
    BY KeepsWith DEF bad
  <1> QED
    BY <1>2, <1>3, <1>4, <1>5, <1>6, <1>7

\* parse_type gives a type of the module.
LEMMA ParsedType ==
  ASSUME NEW type \in [base : STRING, length : Lengths], parse_type(type) # None
  PROVE  parse_type(type)[1] \in Types
  <1> DEFINE spelled == Spelled(type)
  <1>1. spelled = [base |-> spelled.base, length |-> type.length] /\ type.length \in Lengths
    BY DEF Spelled
  <1>2. spelled.base \in DOMAIN Width /\ parse_type(type) = <<spelled>>
    BY DEF parse_type, None
  <1> HIDE DEF spelled
  <1>3. spelled \in Types
    BY <1>1, <1>2 DEF Types
  <1> QED
    BY <1>2, <1>3

\* An attribute of a field keeps types.
LEMMA FieldAttributeIs ==
  ASSUME NEW p, IsParse(p), NEW key, NEW value, key = "name" => value \in DOMAIN TokenCode,
         key = "type" => value \in [base : STRING, length : Lengths]
  PROVE  Keeps(p, FieldAttribute(p, key, value))
  <1> DEFINE n == [p.field EXCEPT !.name = IF value = "type" THEN "mavtype" ELSE value]
             t == [p.field EXCEPT !.mavtype = parse_type(value)[1]]
             marked == value \in DOMAIN p.profile.enums /\ p.profile.enums[value].bitmask
             e1 == [p.field EXCEPT !.enumtype = Some(value)]
             e == [e1 EXCEPT !.display = IF marked THEN Some("bitmask") ELSE @]
             d == [p.field EXCEPT !.display = Some(value)]
             bad == Panic(p, "unknown type")
  <1>1. IsField(p.field)
    BY DEF IsParse
  <1>2. key = "name" => IsField(n)
    BY <1>1 DEF IsField, TokenNames
  <1>3. key = "type" /\ parse_type(value) # None => IsField(t)
    BY <1>1, ParsedType DEF IsField
  <1>4. IsField(d) /\ IsField(e)
    <2> HIDE DEF marked
    <2> QED
      BY <1>1 DEF IsField
  <1>5. \/ key = "name" /\ FieldAttribute(p, key, value) = [p EXCEPT !.field = n]
        \/ FieldAttribute(p, key, value) \in {bad, p, [p EXCEPT !.field = d]}
        \/ FieldAttribute(p, key, value)
             = [p EXCEPT !.field.enumtype = Some(value),
                         !.field.display = IF marked THEN Some("bitmask") ELSE @]
        \/ /\ key = "type" /\ parse_type(value) # None
           /\ FieldAttribute(p, key, value) = [p EXCEPT !.field = t]
    <2> HIDE DEF marked
    <2> QED
      BY DEF FieldAttribute, marked
  <1>6. [p EXCEPT !.field = e] = [p EXCEPT !.field.enumtype = Some(value),
                                           !.field.display = IF marked THEN Some("bitmask") ELSE @]
    <2> HIDE DEF marked
    <2> QED
      BY <1>1 DEF IsParse, IsField
  <1> HIDE DEF n, t, e, d, bad, marked
  <1>7. IsField(n) => Keeps(p, [p EXCEPT !.field = n])
    BY KeepsWith
  <1>8. IsField(t) => Keeps(p, [p EXCEPT !.field = t])
    BY KeepsWith
  <1>9. Keeps(p, [p EXCEPT !.field = d])
    BY <1>4, KeepsWith
  <1>10. Keeps(p, [p EXCEPT !.field = e])
    BY <1>4, KeepsWith
  <1>11. Keeps(p, bad) /\ Keeps(p, p)
    BY KeepsWith DEF bad
  <1> QED
    BY <1>2, <1>3, <1>5, <1>6, <1>7, <1>8, <1>9, <1>10, <1>11

\* An attribute of a parameter keeps types.
LEMMA ParamAttributeIs ==
  ASSUME NEW p, IsParse(p), NEW key, NEW value
  PROVE  Keeps(p, ParamAttribute(p, key, value))
  <1> DEFINE e == [p.entry EXCEPT !.params = Some(unwrap_or(p.entry.params, <<>>))]
             q == [p EXCEPT !.entry = e]
             made == ParamAttribute(p, key, value)
  <1>1. IsEntry(e)
    BY DEF IsParse, IsEntry
  <1>2. q = [p EXCEPT !.entry.params = Some(unwrap_or(@, <<>>))]
    OBVIOUS
  <1> HIDE DEF e
  <1>3. Keeps(p, q)
    BY <1>1, KeepsWith
  <1> HIDE DEF q
  <1>4. /\ Keeps(q, q) /\ \A why : Keeps(q, Panic(q, why))
        /\ \A x : Keeps(q, [q EXCEPT !.param = x])
    BY <1>3, KeepsWith DEF Keeps
  <1>5. SUFFICES Keeps(q, made)
    BY <1>3, KeepsOn
  <1>6. CASE key = "index"
    <2> DEFINE i == [q.param EXCEPT !.index = Some(value)]
    <2>1. CASE value \in 1 .. 7
      <3>1. made = [q EXCEPT !.param = i]
        BY <1>2, <1>6, <2>1 DEF ParamAttribute, NumberKeys
      <3> HIDE DEF i, made
      <3> QED
        BY <1>4, <3>1
    <2>2. CASE value \notin 1 .. 7
      <3>1. made = Panic(q, "param index")
        BY <1>2, <1>6, <2>2 DEF ParamAttribute, NumberKeys
      <3> HIDE DEF made
      <3> QED
        BY <1>4, <3>1
    <2> QED
      BY <2>1, <2>2
  <1>7. CASE key = "label"
    <2> DEFINE x == [q.param EXCEPT !.label = Some(value)]
    <2>1. made = [q EXCEPT !.param = x]
      BY <1>2, <1>7 DEF ParamAttribute, NumberKeys
    <2> HIDE DEF x, made
    <2> QED
      BY <1>4, <2>1
  <1>8. CASE key = "units"
    <2> DEFINE x == [q.param EXCEPT !.units = Some(value)]
    <2>1. made = [q EXCEPT !.param = x]
      BY <1>2, <1>8 DEF ParamAttribute, NumberKeys
    <2> HIDE DEF x, made
    <2> QED
      BY <1>4, <2>1
  <1>9. CASE key = "enum"
    <2> DEFINE x == [q.param EXCEPT !.enum_used = Some(value)]
    <2>1. made = [q EXCEPT !.param = x]
      BY <1>2, <1>9 DEF ParamAttribute, NumberKeys
    <2> HIDE DEF x, made
    <2> QED
      BY <1>4, <2>1
  <1>10. CASE key = "reserved"
    <2> DEFINE x == [q.param EXCEPT !.reserved = IsTrue(value)]
    <2>1. made = [q EXCEPT !.param = x]
      BY <1>2, <1>10 DEF ParamAttribute, NumberKeys
    <2> HIDE DEF x, made
    <2> QED
      BY <1>4, <2>1
  <1>11. CASE key \in NumberKeys
    <2> DEFINE s == [q.param EXCEPT !.increment = Some(value)]
               a == [q.param EXCEPT !.min = Some(value)]
               z == [q.param EXCEPT !.max = Some(value)]
               d == [q.param EXCEPT !.default = Some(value)]
    <2>1. made = ParamNumber(q, key, value)
      BY <1>2, <1>11 DEF ParamAttribute, NumberKeys
    <2>2. \/ made = Panic(q, "param number")
          \/ made = [q EXCEPT !.param = s] \/ made = [q EXCEPT !.param = a]
          \/ made = [q EXCEPT !.param = z] \/ made = [q EXCEPT !.param = d]
      <3> HIDE DEF made
      <3> QED
        BY <1>11, <2>1 DEF ParamNumber, NumberKeys
    <2> HIDE DEF s, a, z, d, made
    <2> QED
      BY <1>4, <2>2
  <1>12. CASE key \notin {"index", "label", "units", "enum", "reserved"} \union NumberKeys
    <2>1. made = q
      BY <1>2, <1>12 DEF ParamAttribute
    <2> QED
      BY <1>4, <2>1
  <1> QED
    BY <1>6, <1>7, <1>8, <1>9, <1>10, <1>11, <1>12

\* An attribute of a lifecycle keeps types.
LEMMA LifecycleAttributeIs ==
  ASSUME NEW p, IsParse(p), NEW key, NEW value
  PROVE  Keeps(p, LifecycleAttribute(p, key, value))
  <1> DEFINE s == [p.lifecycle EXCEPT ![1] = [@ EXCEPT !.since = value]]
             r == [p.lifecycle EXCEPT ![1] = [@ EXCEPT !.replaced_by = Some(value)]]
             d == [p.lifecycle EXCEPT ![1] = [@ EXCEPT !.remove_on_date = Some(value)]]
  <1>1. LifecycleAttribute(p, key, value)
          \in {p, [p EXCEPT !.lifecycle = s], [p EXCEPT !.lifecycle = r],
               [p EXCEPT !.lifecycle = d]}
    BY DEF LifecycleAttribute
  <1> HIDE DEF s, r, d
  <1>2. /\ Keeps(p, p) /\ Keeps(p, [p EXCEPT !.lifecycle = s])
        /\ Keeps(p, [p EXCEPT !.lifecycle = r]) /\ Keeps(p, [p EXCEPT !.lifecycle = d])
    BY KeepsWith
  <1> QED
    BY <1>1, <1>2

\* An attribute of any element keeps types and the stack.
LEMMA AttributeIs ==
  ASSUME NEW p, IsParse(p), NEW attr, IsAttribute(Last(p.stack), attr)
  PROVE  Keeps(p, Attribute(p, attr))
  <1> DEFINE el == Last(p.stack)
             key == attr[1]
             value == attr[2]
  <1>1. /\ el \in {"message", "field"} /\ key = "name" => value \in DOMAIN TokenCode
        /\ el = "field" /\ key = "type" => value \in [base : STRING, length : Lengths]
    BY DEF IsAttribute
  <1>2. \/ Attribute(p, attr) \in {p, EnumAttribute(p, key, value), EntryAttribute(p, key, value),
                                   ParamAttribute(p, key, value),
                                   LifecycleAttribute(p, key, value)}
        \/ el = "message" /\ Attribute(p, attr) = MessageAttribute(p, key, value)
        \/ el = "field" /\ Attribute(p, attr) = FieldAttribute(p, key, value)
    BY DEF Attribute
  <1> HIDE DEF el, key, value
  <1>3. /\ Keeps(p, EnumAttribute(p, key, value)) /\ Keeps(p, EntryAttribute(p, key, value))
        /\ Keeps(p, ParamAttribute(p, key, value)) /\ Keeps(p, LifecycleAttribute(p, key, value))
        /\ Keeps(p, p)
    BY EnumAttributeIs, EntryAttributeIs, ParamAttributeIs, LifecycleAttributeIs, KeepsWith
  <1>4. el = "message" => Keeps(p, MessageAttribute(p, key, value))
    BY <1>1, MessageAttributeIs
  <1>5. el = "field" => Keeps(p, FieldAttribute(p, key, value))
    BY <1>1, FieldAttributeIs
  <1> QED
    BY <1>2, <1>3, <1>4, <1>5

\* The start of an element with its attributes keeps types.
LEMMA StartedIs ==
  ASSUME NEW p, IsParse(p), NEW event, IsStart(event), event.kind = "Start"
  PROVE  IsParse(Started(p, event))
  <1> DEFINE base == OpenElement(p, event.el)
             attrs == event.attrs
             n == Len(attrs)
  <1>1. IsList(attrs) /\ \A k \in DOMAIN attrs : IsAttribute(event.el, attrs[k])
    BY DEF IsStart
  <1>2. IsParse(base) /\ Last(base.stack) = event.el
    BY OpenElementIs
  <1> HIDE DEF base, attrs
  <1>3. n \in Nat /\ DOMAIN attrs = 1 .. n
    BY <1>1, ListIs
  <1> DEFINE made == AllRead(base, attrs)
  <1>4. PICK g : /\ g[{}] = base
                 /\ \A k \in 1 .. n : g[1 .. k] = Attribute(g[1 .. k - 1], attrs[k])
                 /\ made = g[1 .. n]
    BY <1>1, AttributesAsFolds
  <1>10. Started(p, event) \in {Panic(p, "not valid parent"), made}
    BY DEF Started, AllRead, base, attrs
  <1> HIDE DEF made
  <1> DEFINE V == {x \in {g[1 .. k] : k \in 0 .. n} : Keeps(base, x)}
  <1> HIDE DEF n
  <1>5. g[{}] \in V
    <2>1. 1 .. 0 = {} /\ 0 \in 0 .. n
      BY <1>3
    <2>2. Keeps(base, base)
      BY <1>2, KeepsWith
    <2>3. g[1 .. 0] \in {g[1 .. k] : k \in 0 .. n}
      BY <2>1
    <2> QED
      BY <1>4, <2>1, <2>2, <2>3
  <1>6. ASSUME NEW k \in 1 .. n, g[1 .. k - 1] \in V PROVE g[1 .. k] \in V
    <2> DEFINE x == g[1 .. k - 1]
               y == g[1 .. k]
    <2>1. Keeps(base, x) /\ y = Attribute(x, attrs[k]) /\ k \in DOMAIN attrs
      BY <1>3, <1>4, <1>6
    <2>2. y \in {g[1 .. j] : j \in 0 .. n}
      BY <1>3
    <2> HIDE DEF x, y, V
    <2>3. IsParse(x) /\ Last(x.stack) = event.el
      BY <1>2, <2>1 DEF Keeps, SameStack
    <2>4. Keeps(x, y)
      BY <1>1, <2>1, <2>3, AttributeIs
    <2>5. Keeps(base, y)
      BY <2>1, <2>4, KeepsOn
    <2> QED
      BY <2>2, <2>5 DEF V, y
  <1>7. g[1 .. n] \in V
    <2> HIDE DEF V
    <2> QED
      BY <1>3, <1>5, <1>6, FoldStays
  <1>8. IsParse(g[1 .. n])
    BY <1>7 DEF Keeps
  <1>9. Started(p, event) \in {Panic(p, "not valid parent"), g[1 .. n]}
    BY <1>4, <1>10
  <1> QED
    BY <1>8, <1>9, Panicked

-----------------------------------------------------------------------------
(***************************************************************************)
(* The calls of the compiler.                                              *)
(***************************************************************************)
\* An event more.
LEMMA EventsAppend ==
  ASSUME NEW s, IsEvents(s), NEW e, IsStart(e)
  PROVE  IsEvents(Append(s, e))
  <1>1. IsList(s) /\ \A i \in DOMAIN s : IsStart(s[i])
    BY DEF IsEvents
  <1> DEFINE t == Append(s, e)
  <1>2. /\ IsList(t) /\ DOMAIN t = 1 .. Len(s) + 1 /\ Len(s) \in Nat
        /\ t[Len(s) + 1] = e /\ \A i \in DOMAIN s : t[i] = s[i]
    BY <1>1, ListAppend
  <1> HIDE DEF t
  <1>3. ASSUME NEW i \in DOMAIN t PROVE IsStart(t[i])
    <2>1. i \in DOMAIN s \/ i = Len(s) + 1
      BY <1>1, <1>2, ListIs
    <2> QED
      BY <1>1, <1>2, <2>1
  <1> QED
    BY <1>2, <1>3 DEF IsEvents, t

\* The first of a list, and the others.
LEMMA ListTail ==
  ASSUME NEW s, IsList(s), s # <<>>
  PROVE  /\ IsList(Tail(s)) /\ 1 \in DOMAIN s /\ Head(s) = s[1]
         /\ \A k \in DOMAIN Tail(s) : k + 1 \in DOMAIN s /\ Tail(s)[k] = s[k + 1]
  <1> DEFINE S == {s[i] : i \in DOMAIN s}
  <1>1. s \in Seq(S)
    BY ListIn
  <1> HIDE DEF S
  <1>2. Tail(s) \in Seq(S)
    BY <1>1
  <1>3. IsList(Tail(s))
    BY <1>2, SeqIsList
  <1>4. 1 \in DOMAIN s /\ Head(s) = s[1]
    BY <1>1
  <1>5. \A k \in DOMAIN Tail(s) : k + 1 \in DOMAIN s /\ Tail(s)[k] = s[k + 1]
    BY <1>1, <1>2
  <1> QED
    BY <1>3, <1>4, <1>5

\* The first event, and the others.
LEMMA EventsTail ==
  ASSUME NEW s, IsEvents(s), s # <<>>
  PROVE  IsEvents(Tail(s)) /\ IsStart(Head(s))
  <1>1. IsList(s) /\ \A i \in DOMAIN s : IsStart(s[i])
    BY DEF IsEvents
  <1> DEFINE t == Tail(s)
  <1>2. /\ IsList(t) /\ 1 \in DOMAIN s /\ Head(s) = s[1]
        /\ \A k \in DOMAIN t : k + 1 \in DOMAIN s /\ t[k] = s[k + 1]
    BY <1>1, ListTail
  <1> HIDE DEF t
  <1>3. \A k \in DOMAIN t : IsStart(t[k])
    BY <1>1, <1>2
  <1> QED
    BY <1>1, <1>2, <1>3 DEF IsEvents, t

\* The first elements of a list.
LEMMA ListPart ==
  ASSUME NEW s, IsList(s), NEW n \in 0 .. Len(s)
  PROVE  /\ IsList(SubSeq(s, 1, n)) /\ DOMAIN SubSeq(s, 1, n) = 1 .. n
         /\ \A k \in 1 .. n : k \in DOMAIN s /\ SubSeq(s, 1, n)[k] = s[k]
  <1> DEFINE S == {s[i] : i \in DOMAIN s}
  <1>1. s \in Seq(S)
    BY ListIn
  <1> HIDE DEF S
  <1>2. SubSeq(s, 1, n) \in Seq(S) /\ Len(SubSeq(s, 1, n)) = n
    BY <1>1
  <1>3. IsList(SubSeq(s, 1, n))
    BY <1>2, SeqIsList
  <1>4. \A k \in 1 .. n : k \in DOMAIN s /\ SubSeq(s, 1, n)[k] = s[k]
    BY <1>1
  <1>5. DOMAIN SubSeq(s, 1, n) = 1 .. n
    BY <1>1, <1>2
  <1> QED
    BY <1>3, <1>4, <1>5

-----------------------------------------------------------------------------
\* The filter only leaves events out.
LEMMA FilterIs ==
  ASSUME NEW events, IsEvents(events), NEW extensions
  PROVE  IsEvents(filter(events, extensions))
  <1> DEFINE base == [is_in |-> FALSE, events |-> <<>>]
             n == Len(events)
             made == AllKept(base, events)
  <1>1. IsList(events) /\ \A i \in DOMAIN events : IsStart(events[i])
    BY DEF IsEvents
  <1>2. n \in Nat /\ DOMAIN events = 1 .. n
    BY <1>1, ListIs
  <1>3. filter(events, extensions) \in {events, made.events}
    BY DEF filter, AllKept
  <1>4. IsEvents(base.events)
    BY DEF IsEvents, IsList
  <1> HIDE DEF base, made
  <1>5. PICK g : /\ g[{}] = base
                 /\ \A k \in 1 .. n : g[1 .. k] = filter_extension(g[1 .. k - 1], events[k])
                 /\ made = g[1 .. n]
    BY <1>1, FilteredAsFolds DEF made
  <1> DEFINE V == {x \in {g[1 .. k] : k \in 0 .. n} \union {base} : IsEvents(x.events)}
  <1> HIDE DEF n
  <1>6. g[{}] \in V
    BY <1>4, <1>5
  <1>7. ASSUME NEW k \in 1 .. n, g[1 .. k - 1] \in V PROVE g[1 .. k] \in V
    <2> DEFINE x == g[1 .. k - 1]
               y == g[1 .. k]
    <2>1. IsEvents(x.events) /\ y = filter_extension(x, events[k]) /\ IsStart(events[k])
      BY <1>1, <1>2, <1>5, <1>7
    <2>2. y \in {g[1 .. j] : j \in 0 .. n}
      BY <1>2
    <2> HIDE DEF x, y, V
    <2>3. y.events \in {x.events, Append(x.events, events[k])}
      BY <2>1 DEF filter_extension
    <2>4. IsEvents(Append(x.events, events[k]))
      BY <2>1, EventsAppend
    <2>5. IsEvents(y.events)
      BY <2>1, <2>3, <2>4
    <2> QED
      BY <2>2, <2>5 DEF V, y
  <1>8. g[1 .. n] \in V
    <2> HIDE DEF V
    <2> QED
      BY <1>2, <1>6, <1>7, FoldStays
  <1>9. IsEvents(made.events)
    BY <1>5, <1>8
  <1> QED
    BY <1>3, <1>9

\* A call begins with the types it must have.
LEMMA NewParseIs ==
  ASSUME NEW path \in DOMAIN Content, NEW extensions
  PROVE  IsParse(NewParse(path, extensions))
  <1> DEFINE read == Events(Content[path])
             bad == \E i \in DOMAIN read : ~identify_element(read[i])
             events == IF bad THEN <<>> ELSE filter(read, extensions)
             panic == IF bad THEN Some("unexpected element") ELSE None
  <1>1. IsEvents(read)
    BY ContentAssumption DEF IsEvents, IsStart
  <1>2. IsList(<<>>)
    BY DEF IsList
  <1>3. IsEvents(<<>>)
    BY <1>2 DEF IsEvents
  <1> HIDE DEF read, bad
  <1>4. IsEvents(events)
    BY <1>1, <1>3, FilterIs
  <1>5. NewParse(path, extensions)
          = [path |-> path, extensions |-> extensions, events |-> events,
             stack |-> <<>>, text |-> None, profile |-> EmptyProfile,
             field |-> DefaultField(FALSE), message |-> DefaultMessage, mavenum |-> DefaultEnum,
             entry |-> DefaultEntry, param |-> DefaultParam, lifecycle |-> None,
             is_in_extension |-> FALSE,
             panic |-> panic]
    BY DEF NewParse, read, bad
  <1> DEFINE q == NewParse(path, extensions)
  <1>6. /\ DOMAIN q = {"path", "extensions", "events", "stack", "text", "profile", "field",
                       "message", "mavenum", "entry", "param", "lifecycle", "is_in_extension",
                       "panic"}
        /\ q.events = events /\ q.stack = <<>> /\ q.profile = EmptyProfile
        /\ q.field = DefaultField(FALSE) /\ q.message = DefaultMessage
        /\ q.mavenum = DefaultEnum /\ q.entry = DefaultEntry
    <2> HIDE DEF events, panic, q
    <2> QED
      BY <1>5 DEF q
  <1> HIDE DEF events, panic, q
  <1>7. IsField(DefaultField(FALSE))
    BY DefaultsAre
  <1>8. IsMessage(DefaultMessage) /\ IsEnum(DefaultEnum) /\ IsEntry(DefaultEntry)
        /\ IsProfile(EmptyProfile)
    BY DefaultsAre
  <1>9. IsParse(q)
    BY <1>2, <1>4, <1>6, <1>7, <1>8 DEF IsParse
  <1> QED
    BY <1>9 DEF q

-----------------------------------------------------------------------------
\* What the calls under way and the last result hold.
IsParses(s) == IsList(s) /\ \A i \in DOMAIN s : IsParse(s[i])
IsOutcome(o) == o.status = "ok" => IsProfile(o.profile)

\* A call more.
LEMMA ParsesAppend ==
  ASSUME NEW s, IsParses(s), NEW p, IsParse(p)
  PROVE  IsParses(Append(s, p))
  <1>1. IsList(s) /\ \A i \in DOMAIN s : IsParse(s[i])
    BY DEF IsParses
  <1> DEFINE t == Append(s, p)
  <1>2. /\ IsList(t) /\ DOMAIN t = 1 .. Len(s) + 1 /\ Len(s) \in Nat
        /\ t[Len(s) + 1] = p /\ \A i \in DOMAIN s : t[i] = s[i]
    BY <1>1, ListAppend
  <1> HIDE DEF t
  <1>3. ASSUME NEW i \in DOMAIN t PROVE IsParse(t[i])
    <2>1. i \in DOMAIN s \/ i = Len(s) + 1
      BY <1>1, <1>2, ListIs
    <2> QED
      BY <1>1, <1>2, <2>1
  <1> QED
    BY <1>2, <1>3 DEF IsParses, t

\* The first calls.
LEMMA ParsesPart ==
  ASSUME NEW s, IsParses(s), NEW n \in 0 .. Len(s)
  PROVE  IsParses(SubSeq(s, 1, n))
  <1>1. IsList(s) /\ \A i \in DOMAIN s : IsParse(s[i])
    BY DEF IsParses
  <1> DEFINE t == SubSeq(s, 1, n)
  <1>2. IsList(t) /\ DOMAIN t = 1 .. n /\ \A k \in 1 .. n : k \in DOMAIN s /\ t[k] = s[k]
    BY <1>1, ListPart
  <1> HIDE DEF t
  <1> QED
    BY <1>1, <1>2 DEF IsParses, t

\* The calls without the innermost, the innermost, and the one before.
LEMMA ParsesAre ==
  ASSUME NEW s, IsParses(s), s # <<>>
  PROVE  /\ Len(s) \in Nat \ {0} /\ IsParse(Last(s)) /\ IsParses(Front(s))
         /\ Len(s) # 1 => /\ Len(s) - 1 \in DOMAIN s /\ Len(s) - 2 \in 0 .. Len(s)
                          /\ IsParse(s[Len(s) - 1])
  <1>1. IsList(s) /\ \A i \in DOMAIN s : IsParse(s[i])
    BY DEF IsParses
  <1>2. Len(s) \in Nat /\ DOMAIN s = 1 .. Len(s) /\ s = [i \in 1 .. Len(s) |-> s[i]]
    BY <1>1, ListIs
  <1>3. Len(s) # 0
    <2> DEFINE S == {s[i] : i \in DOMAIN s}
    <2>1. s \in Seq(S)
      BY <1>1, ListIn
    <2> HIDE DEF S
    <2> QED
      BY <2>1
  <1>4. IsParse(Last(s))
    <2>1. Len(s) \in DOMAIN s
      BY <1>2, <1>3
    <2> QED
      BY <1>1, <2>1 DEF Last
  <1>5. IsParses(Front(s))
    <2>1. Len(s) - 1 \in 0 .. Len(s)
      BY <1>2, <1>3
    <2> QED
      BY <2>1, ParsesPart DEF Front
  <1>6. Len(s) # 1 => Len(s) - 1 \in DOMAIN s /\ Len(s) - 2 \in 0 .. Len(s)
    BY <1>2, <1>3
  <1> QED
    BY <1>1, <1>2, <1>3, <1>4, <1>5, <1>6

-----------------------------------------------------------------------------
(***************************************************************************)
(* The invariant of the compiler: the calls under way and the last result  *)
(* have the types of their parts, whatever is in the files.                *)
(***************************************************************************)
CompilerInv == IsParses(parses) /\ IsOutcome(outcome)

\* No call has any type.
LEMMA NoParses == IsParses(<<>>)
  BY DEF IsParses, IsList

\* Only a load that ends well has a profile.
LEMMA NoOutcome ==
  /\ IsOutcome(Running)
  /\ \A status, why : status # "ok" => IsOutcome(Failed(status, why))
  BY DEF IsOutcome, Running, Failed

\* A call of parse_profile keeps the invariant.
LEMMA EnterTyped ==
  ASSUME NEW calls, IsParses(calls), NEW path, NEW extensions, Enter(calls, path, extensions)
  PROVE  CompilerInv'
  <1>1. CASE path \in DOMAIN Content
    <2>1. IsParses(Append(calls, NewParse(path, extensions)))
      BY <1>1, NewParseIs, ParsesAppend
    <2>2. parses' = Append(calls, NewParse(path, extensions)) /\ outcome' = Running
      BY <1>1 DEF Enter
    <2> QED
      BY <2>1, <2>2, NoOutcome DEF CompilerInv
  <1>2. CASE path \notin DOMAIN Content
    <2>1. parses' = <<>> /\ outcome' = Failed("error", "CouldNotReadDefinitionFile")
      BY <1>2 DEF Enter
    <2>2. IsOutcome(outcome')
      BY <2>1, NoOutcome
    <2> QED
      BY <2>1, <2>2, NoParses DEF CompilerInv
  <1> QED
    BY <1>1, <1>2

\* So does a step of the innermost call.
LEMMA ContinueTyped ==
  ASSUME CompilerInv, parses # <<>>, NEW p, IsParse(p), Continue(p)
  PROVE  CompilerInv'
  <1>1. CASE p.panic # None
    <2>1. parses' = <<>> /\ outcome' = Failed("panic", p.panic[1])
      BY <1>1 DEF Continue
    <2>2. IsOutcome(outcome')
      BY <2>1, NoOutcome
    <2> QED
      BY <2>1, <2>2, NoParses DEF CompilerInv
  <1>2. CASE p.panic = None
    <2>1. parses' = Append(Front(parses), p) /\ outcome' = outcome
      BY <1>2 DEF Continue
    <2>2. IsParses(Append(Front(parses), p))
      BY ParsesAre, ParsesAppend DEF CompilerInv
    <2> QED
      BY <2>1, <2>2 DEF CompilerInv
  <1> QED
    BY <1>1, <1>2

\* What a step reads is a call and an event of the right types.
LEMMA PoppedIs ==
  ASSUME IsParses(parses), Reading
  PROVE  IsParse(Popped) /\ IsStart(NextEvent) /\ IsParse(Innermost) /\ parses # <<>>
  <1>1. IsParse(Innermost) /\ parses # <<>>
    BY ParsesAre DEF Reading, Innermost
  <1>2. IsEvents(Innermost.events) /\ Innermost.events # <<>>
    BY <1>1 DEF Reading, IsParse
  <1>3. IsEvents(Tail(Innermost.events)) /\ IsStart(NextEvent)
    BY <1>2, EventsTail DEF NextEvent
  <1>4. IsParse(Popped)
    BY <1>1, <1>3, ParseWith DEF Popped
  <1> QED
    BY <1>1, <1>3, <1>4

\* Every step of the compiler keeps the invariant.
LEMMA CompilerTyped ==
  ASSUME CompilerInv, CompilerStep
  PROVE  CompilerInv'
  <1>0. IsParses(parses) /\ IsOutcome(outcome)
    BY DEF CompilerInv
  <1>1. CASE RefuseFile
    BY <1>0, <1>1, ParsesAre, ContinueTyped DEF RefuseFile, Innermost
  <1>2. CASE StartElement
    <2>1. Reading /\ NextEvent.kind = "Start" /\ Continue(Started(Popped, NextEvent))
      BY <1>2 DEF StartElement
    <2> QED
      BY <1>0, <2>1, PoppedIs, StartedIs, ContinueTyped
  <1>3. CASE TextOfElement
    <2>1. Reading /\ Continue(ReadText(Popped, NextEvent))
      BY <1>3 DEF TextOfElement
    <2> QED
      BY <1>0, <2>1, PoppedIs, ReadTextIs, ContinueTyped
  <1>4. CASE EndElement
    <2>1. Reading /\ Continue(CloseElement(Ended(Popped)))
      BY <1>4 DEF EndElement
    <2> QED
      BY <1>0, <2>1, PoppedIs, EndedIs, CloseElementIs, ContinueTyped
  <1>5. CASE EndInclude
    <2>1. /\ Reading
          /\ Enter(Append(Front(parses), Popped), IncludePath(Innermost), Innermost.extensions)
      BY <1>5 DEF EndInclude
    <2>2. IsParses(Append(Front(parses), Popped))
      BY <1>0, <2>1, PoppedIs, ParsesAre, ParsesAppend
    <2> QED
      BY <2>1, <2>2, EnterTyped
  <1>6. CASE EndOfFile
    <2> DEFINE done == update_enums(Innermost)
               caller == CloseElement(Included(parses[Len(parses) - 1], done.profile))
    <2>1. parses # <<>> /\ IsParse(Innermost)
      BY <1>0, <1>6, ParsesAre DEF EndOfFile, Innermost
    <2>2. IsParse(done) /\ IsProfile(done.profile)
      BY <2>1, UpdateEnumsIs DEF IsParse
    <2> HIDE DEF done
    <2>3. CASE done.panic # None
      <3>1. Continue(done)
        BY <1>6, <2>3 DEF EndOfFile, done
      <3> QED
        BY <2>1, <2>2, <3>1, ContinueTyped
    <2>4. CASE done.panic = None /\ Len(parses) = 1
      <3>1. /\ parses' = <<>>
            /\ outcome' = [status |-> "ok", why |-> "", profile |-> done.profile]
        BY <1>6, <2>4 DEF EndOfFile, done
      <3>2. IsOutcome(outcome')
        BY <2>2, <3>1 DEF IsOutcome
      <3> QED
        BY <3>1, <3>2, NoParses DEF CompilerInv
    <2>5. CASE done.panic = None /\ Len(parses) # 1
      <3>1. IsParse(caller)
        <4>1. IsParse(parses[Len(parses) - 1])
          BY <1>0, <2>1, <2>5, ParsesAre
        <4> QED
          BY <2>2, <4>1, IncludedIs, CloseElementIs
      <3> HIDE DEF caller
      <3>2. CASE caller.panic # None
        <4>1. Continue(caller)
          BY <1>6, <2>5, <3>2 DEF EndOfFile, done, caller
        <4> QED
          BY <2>1, <3>1, <4>1, ContinueTyped
      <3>3. CASE caller.panic = None
        <4>1. /\ parses' = Append(SubSeq(parses, 1, Len(parses) - 2), caller)
              /\ outcome' = outcome
          BY <1>6, <2>5, <3>3 DEF EndOfFile, done, caller
        <4>2. Len(parses) - 2 \in 0 .. Len(parses)
          BY <1>0, <2>1, <2>5, ParsesAre
        <4>3. IsParses(Append(SubSeq(parses, 1, Len(parses) - 2), caller))
          BY <1>0, <3>1, <4>2, ParsesPart, ParsesAppend
        <4> QED
          BY <1>0, <4>1, <4>3 DEF CompilerInv
      <3> QED
        BY <3>2, <3>3
    <2> QED
      BY <2>3, <2>4, <2>5
  <1>7. CASE ReferenceInText
    <2>1. Reading /\ Continue(ReadReference(Popped, NextEvent))
      BY <1>7 DEF ReferenceInText
    <2> QED
      BY <1>0, <2>1, PoppedIs, ReadReferenceIs, ContinueTyped
  <1> QED
    BY <1>1, <1>2, <1>3, <1>4, <1>5, <1>6, <1>7 DEF CompilerStep

-----------------------------------------------------------------------------
(***************************************************************************)
(* Sizes. The fields selected for the base of a message are not larger     *)
(* than all of them.                                                       *)
(***************************************************************************)
\* The widths of the primitive types.
LEMMA WidthIs == \A base \in DOMAIN Width : Width[base] \in {1, 2, 4, 8}
  BY DEF Width

\* The size of a type, and that of its elements.
LEMMA SizeIs ==
  ASSUME NEW type \in Types
  PROVE  size(type) \in Nat /\ (IsScalar(type) => size(type) \in {1, 2, 4, 8})
  <1> DEFINE w == Width[type.base]
             l == type.length
  <1>1. w \in {1, 2, 4, 8} /\ (IsScalar(type) \/ l \in Nat)
    BY WidthIs DEF Types, Lengths, IsScalar
  <1>2. size(type) = w * (IF IsScalar(type) THEN 1 ELSE l)
    BY DEF size
  <1> HIDE DEF w, l
  <1> QED
    BY <1>1, <1>2

IsSizes(s, fields) ==
  /\ s \in Seq(Nat) /\ Len(s) = Len(fields)
  /\ \A k \in 1 .. Len(fields) : s[k] = size(fields[k].mavtype)

\* The sizes of fields, and their sum.
LEMMA FieldSizes ==
  ASSUME NEW fields, IsFields(fields)
  PROVE  IsSizes(Sizes(fields), fields) /\ EncodedSize(fields) \in Nat
  <1> DEFINE n == Len(fields)
             s == Sizes(fields)
  <1>1. n \in Nat /\ DOMAIN fields = 1 .. n
    BY ListIs DEF IsFields
  <1>2. \A k \in 1 .. n : size(fields[k].mavtype) \in Nat
    BY <1>1, SizeIs DEF IsFields, IsField
  <1>3. s = [k \in 1 .. n |-> size(fields[k].mavtype)]
    BY <1>1 DEF Sizes
  <1> HIDE DEF s, n
  <1>4. s \in [1 .. n -> Nat]
    BY <1>2, <1>3
  <1>5. s \in Seq(Nat) /\ Len(s) = n
    BY <1>1, <1>4, IsSequence
  <1>6. Sum(s) \in Nat
    BY <1>5, SumIs
  <1>7. IsSizes(s, fields)
    BY <1>3, <1>5 DEF IsSizes, n
  <1> QED
    BY <1>6, <1>7 DEF EncodedSize, s

\* One field more.
LEMMA SizeOfLonger ==
  ASSUME NEW fields, IsFields(fields), NEW f, IsField(f)
  PROVE  EncodedSize(Append(fields, f)) = EncodedSize(fields) + size(f.mavtype)
  <1> DEFINE longer == Append(fields, f)
             n == Len(fields)
             s == Sizes(fields)
             t == Sizes(longer)
             more == size(f.mavtype)
  <1>1. /\ IsList(fields) /\ IsFields(longer) /\ more \in Nat
    BY FieldsAppend, SizeIs DEF IsFields, IsField
  <1>2. DOMAIN longer = 1 .. n + 1 /\ longer[n + 1] = f /\ n \in Nat
        /\ \A i \in DOMAIN fields : longer[i] = fields[i]
    BY <1>1, ListAppend
  <1>3. DOMAIN fields = 1 .. n
    BY <1>1, ListIs
  <1> HIDE DEF longer, n, s, t, more
  <1>4. s \in Seq(Nat) /\ Len(s) = n /\ \A k \in 1 .. n : s[k] = size(fields[k].mavtype)
    <2>1. IsSizes(s, fields)
      BY FieldSizes DEF s
    <2> QED
      BY <2>1 DEF IsSizes, n
  <1>5. t = [k \in 1 .. n + 1 |-> size(longer[k].mavtype)]
    BY <1>2 DEF t, Sizes
  <1>6. t = Append(s, more)
    <2> DEFINE u == Append(s, more)
    <2>1. u = [k \in 1 .. n + 1 |-> IF k = n + 1 THEN more ELSE s[k]]
      <3>1. u \in Seq(Nat) /\ Len(u) = n + 1
        BY <1>1, <1>2, <1>4
      <3>2. \A k \in 1 .. n + 1 : u[k] = IF k = n + 1 THEN more ELSE s[k]
        BY <1>1, <1>2, <1>4
      <3> HIDE DEF u
      <3> QED
        BY <3>1, <3>2
    <2>2. ASSUME NEW k \in 1 .. n + 1
          PROVE  size(longer[k].mavtype) = IF k = n + 1 THEN more ELSE s[k]
      <3>1. CASE k = n + 1
        BY <1>2, <3>1 DEF more
      <3>2. CASE k # n + 1
        <4>1. k \in 1 .. n
          BY <1>2, <3>2
        <4> QED
          BY <1>2, <1>3, <1>4, <3>2, <4>1
      <3> QED
        BY <3>1, <3>2
    <2> HIDE DEF u
    <2> QED
      BY <1>5, <2>1, <2>2 DEF u
  <1>7. Sum(Append(s, more)) = Sum(s) + more
    BY <1>1, <1>4, SumOfLonger
  <1> QED
    BY <1>6, <1>7 DEF EncodedSize, s, t, longer, more

\* A selection is not larger than what it is selected from.
LEMMA SelectionFits ==
  ASSUME NEW fields, IsFields(fields), NEW places
  PROVE  EncodedSize(Selected(fields, places)) <= EncodedSize(fields)
  <1> DEFINE n == Len(fields)
             s == Sizes(fields)
             S == {fields[i] : i \in DOMAIN fields}
  <1>1. /\ IsList(fields) /\ n \in Nat /\ DOMAIN fields = 1 .. n
        /\ \A k \in 1 .. n : IsField(fields[k])
    BY ListIs DEF IsFields
  <1>2. fields \in Seq(S)
    BY <1>1, ListIn
  <1> HIDE DEF S
  <1>3. PICK f : Takes(f, fields, places) /\ Selected(fields, places) = f[n]
    BY <1>2, SelectedTakes
  <1>4. s \in Seq(Nat) /\ Len(s) = n /\ \A k \in 1 .. n : s[k] = size(fields[k].mavtype)
    <2>1. IsSizes(s, fields)
      BY FieldSizes
    <2> HIDE DEF s
    <2> QED
      BY <2>1 DEF IsSizes
  <1> HIDE DEF s
  <1>5. PICK g : Adds(g, s) /\ Sum(s) = g[1 .. n]
    BY <1>4, SumAdds
  <1> HIDE DEF n
  <1>6. \A k \in 0 .. n : g[1 .. k] \in Nat
    BY <1>4, <1>5, SumType
  <1> DEFINE Within(k) == IsFields(f[k]) /\ EncodedSize(f[k]) <= g[1 .. k]
             T == {k \in Nat : k <= n => Within(k)}
  <1>7. 0 \in T
    <2>1. f[0] = <<>> /\ g[1 .. 0] = 0
      <3>1. 1 .. 0 = {}
        OBVIOUS
      <3> QED
        BY <1>3, <1>5, <3>1 DEF Takes, Adds
    <2>2. IsFields(<<>>)
      BY DEF IsFields, IsList
    <2>3. EncodedSize(<<>>) = 0
      <3> DEFINE e == Sizes(<<>>)
      <3>1. e \in Seq(Nat) /\ Len(e) = 0
        <4>1. IsSizes(e, <<>>)
          BY <2>2, FieldSizes
        <4> HIDE DEF e
        <4> QED
          BY <4>1 DEF IsSizes
      <3> HIDE DEF e
      <3>2. PICK h : Adds(h, e) /\ Sum(e) = h[1 .. 0]
        BY <3>1, SumAdds
      <3>3. 1 .. 0 = {}
        OBVIOUS
      <3> QED
        BY <3>2, <3>3 DEF Adds, EncodedSize, e
    <2>4. Within(0)
      BY <2>1, <2>2, <2>3
    <2> QED
      BY <2>4
  <1>8. ASSUME NEW k \in Nat, k \in T PROVE k + 1 \in T
    <2> SUFFICES ASSUME k + 1 <= n PROVE Within(k + 1)
      OBVIOUS
    <2>1. k + 1 \in 1 .. n /\ (k + 1) - 1 = k /\ k \in 0 .. n /\ k + 1 \in 0 .. n /\ Within(k)
      BY <1>1, <1>8
    <2> DEFINE x == fields[k + 1]
               w == size(x.mavtype)
    <2>2. IsField(x) /\ w \in Nat
      BY <1>1, <2>1, SizeIs DEF IsField
    <2>3. g[1 .. k + 1] = g[1 .. k] + w
      <3>1. g[1 .. k + 1] = g[1 .. (k + 1) - 1] + s[k + 1]
        BY <1>4, <1>5, <2>1 DEF Adds
      <3> QED
        BY <1>4, <2>1, <3>1
    <2>4. f[k + 1] = IF k + 1 \in places THEN Append(f[k], x) ELSE f[k]
      <3>1. f[k + 1] = IF k + 1 \in places THEN Append(f[(k + 1) - 1], x) ELSE f[(k + 1) - 1]
        BY <1>3, <2>1 DEF Takes, n
      <3> QED
        BY <2>1, <3>1
    <2> HIDE DEF x, w
    <2>5. g[1 .. k] \in Nat /\ EncodedSize(f[k]) \in Nat
      BY <1>6, <2>1, FieldSizes
    <2>6. IsFields(Append(f[k], x)) /\ EncodedSize(Append(f[k], x)) = EncodedSize(f[k]) + w
      BY <2>1, <2>2, FieldsAppend, SizeOfLonger DEF w
    <2>7. CASE k + 1 \in places
      <3>1. IsFields(f[k + 1]) /\ EncodedSize(f[k + 1]) = EncodedSize(f[k]) + w
        BY <2>4, <2>6, <2>7
      <3> QED
        BY <2>1, <2>2, <2>3, <2>5, <3>1
    <2>8. CASE k + 1 \notin places
      <3>1. f[k + 1] = f[k]
        BY <2>4, <2>8
      <3> QED
        BY <2>1, <2>2, <2>3, <2>5, <3>1
    <2> QED
      BY <2>7, <2>8
  <1>9. n \in T
    <2> HIDE DEF T
    <2> QED
      BY <1>1, <1>7, <1>8, Induction
  <1>10. Within(n)
    BY <1>1, <1>9
  <1> QED
    BY <1>3, <1>5, <1>10 DEF EncodedSize, s

-----------------------------------------------------------------------------
(***************************************************************************)
(* What a load makes of a profile: definitions with an extra checksum,     *)
(* sizes and offsets.                                                      *)
(***************************************************************************)
\* The extra checksum is one byte.
LEMMA ExtraCrcIs ==
  ASSUME NEW m, IsMessage(m)
  PROVE  extra_crc(m) \in 0 .. 255
  <1> DEFINE token(f) == <<TokenCode[primitive_type(f.mavtype)],
                           TokenCode[IF f.name = "mavtype" THEN "type" ELSE f.name]>>
                         \o (IF IsScalar(f.mavtype) THEN <<>> ELSE <<f.mavtype.length % 256>>)
             sorted == SortFields(BaseFields(m.fields))
             parts == [i \in DOMAIN sorted |-> token(sorted[i])]
             first == <<TokenCode[m.name]>>
             tokens == first \o FlattenSeq(parts)
             start == 65535
             crc == DigestAll(start, tokens)
  <1>1. IsFields(sorted)
    BY WireOrderIs DEF IsMessage
  <1>2. ASSUME NEW f, IsField(f) PROVE token(f) \in Seq(Nat)
    <2> DEFINE type == primitive_type(f.mavtype)
               name == IF f.name = "mavtype" THEN "type" ELSE f.name
               extent == IF IsScalar(f.mavtype) THEN <<>> ELSE <<f.mavtype.length % 256>>
    <2>1. f.mavtype.base \in DOMAIN Width /\ f.mavtype.length \in Int
      BY <1>2 DEF IsField, Types, Lengths, NoLength
    <2>2. type \in DOMAIN TokenCode
      <3>1. primitive_type(Scalar(f.mavtype.base)) \in DOMAIN TokenCode
        BY <2>1, NameAssumption
      <3> QED
        BY <3>1 DEF primitive_type, Scalar
    <2>3. name \in DOMAIN TokenCode
      BY <1>2, NameAssumption DEF IsField, TokenNames
    <2> HIDE DEF type, name
    <2>4. TokenCode[type] \in Nat /\ TokenCode[name] \in Nat
      BY <2>2, <2>3, NameAssumption
    <2>5. <<TokenCode[type], TokenCode[name]>> \in Seq(Nat)
      BY <2>4
    <2>6. extent \in Seq(Nat)
      <3>1. f.mavtype.length % 256 \in Nat
        BY <2>1
      <3> QED
        BY <3>1
    <2>7. token(f) = <<TokenCode[type], TokenCode[name]>> \o extent
      BY DEF type, name
    <2>8. ASSUME NEW s \in Seq(Nat), NEW t \in Seq(Nat) PROVE s \o t \in Seq(Nat)
      OBVIOUS
    <2> HIDE DEF token, extent
    <2> QED
      BY <2>5, <2>6, <2>7, <2>8
  <1> HIDE DEF token, sorted
  <1>3. Len(sorted) \in Nat /\ DOMAIN sorted = 1 .. Len(sorted)
    BY <1>1, ListIs DEF IsFields
  <1>4. parts \in Seq(Seq(Nat))
    <2>1. \A i \in 1 .. Len(sorted) : token(sorted[i]) \in Seq(Nat)
      BY <1>1, <1>2, <1>3 DEF IsFields
    <2>2. parts = [i \in 1 .. Len(sorted) |-> token(sorted[i])]
      BY <1>3
    <2> HIDE DEF parts
    <2>3. parts \in [1 .. Len(sorted) -> Seq(Nat)]
      BY <2>1, <2>2
    <2> QED
      BY <1>3, <2>3, IsSequence
  <1>5. first \in Seq(Nat) /\ Len(first) = 1
    <2>1. TokenCode[m.name] \in Nat
      BY NameAssumption DEF IsMessage
    <2> QED
      BY <2>1
  <1> HIDE DEF parts, first
  <1>6. FlattenSeq(parts) \in Seq(Nat)
    BY <1>4, FlattenIs
  <1>7. tokens \in Seq(Nat) /\ tokens # <<>>
    <2>1. ASSUME NEW s \in Seq(Nat), NEW t \in Seq(Nat), Len(s) = 1
          PROVE  s \o t \in Seq(Nat) /\ s \o t # <<>>
      <3>1. s \o t \in Seq(Nat)
        OBVIOUS
      <3>2. Len(s \o t) = Len(s) + Len(t) /\ Len(t) \in Nat
        OBVIOUS
      <3>3. Len(s \o t) # 0
        BY <2>1, <3>2
      <3> QED
        BY <3>1, <3>3
    <2> QED
      BY <1>5, <1>6, <2>1
  <1>8. CrcTokens(m) = tokens
    BY DEF CrcTokens, tokens, first, parts, sorted, token
  <1> HIDE DEF tokens
  <1>9. extra_crc(m) = BitXor(crc % 256, crc \div 256)
    BY <1>8 DEF extra_crc
  <1>10. start \in Nat
    OBVIOUS
  <1> HIDE DEF start
  <1>11. crc \in Checksums
    BY <1>7, <1>10, DigestType
  <1> HIDE DEF crc
  <1> DEFINE low == crc % 256
             high == crc \div 256
  <1>12. low \in 0 .. 255 /\ high \in 0 .. 255
    BY <1>11, ChecksumBytes DEF Byte
  <1>13. extra_crc(m) = BitXor(low, high)
    BY <1>9
  <1> HIDE DEF low, high
  <1> QED
    BY <1>12, <1>13, BitXorIs

-----------------------------------------------------------------------------
\* What a load makes of them.
IsValued(s) == IsList(s) /\ \A i \in DOMAIN s : s[i][2] \in Nat

IsEnumeration(e) ==
  e # None => /\ e[1].primitive # None => e[1].primitive[1] \in Types
              /\ IsValued(e[1].entries)

IsDefinedField(f) == f.mavtype \in Types /\ f.offset \in Nat /\ IsEnumeration(f.enumeration)

IsDefinition(d) ==
  /\ d.id \in Nat /\ d.extra_crc \in 0 .. 255
  /\ d.base_payload_len \in Nat /\ d.encoded_size \in Nat
  /\ d.base_payload_len <= d.encoded_size
  /\ IsList(d.fields) /\ \A i \in DOMAIN d.fields : IsDefinedField(d.fields[i])

\* An entry more.
LEMMA ValuedAppend ==
  ASSUME NEW s, IsValued(s), NEW e, e[2] \in Nat
  PROVE  IsValued(Append(s, e))
  <1>1. IsList(s) /\ \A i \in DOMAIN s : s[i][2] \in Nat
    BY DEF IsValued
  <1> DEFINE t == Append(s, e)
  <1>2. /\ IsList(t) /\ DOMAIN t = 1 .. Len(s) + 1 /\ Len(s) \in Nat
        /\ t[Len(s) + 1] = e /\ \A i \in DOMAIN s : t[i] = s[i]
    BY <1>1, ListAppend
  <1> HIDE DEF t
  <1>3. ASSUME NEW i \in DOMAIN t PROVE t[i][2] \in Nat
    <2>1. i \in DOMAIN s \/ i = Len(s) + 1
      BY <1>1, <1>2, ListIs
    <2> QED
      BY <1>1, <1>2, <2>1
  <1> QED
    BY <1>2, <1>3 DEF IsValued, t

\* entries_with_values gives every entry a number.
LEMMA EntriesValued ==
  ASSUME NEW enm, IsEnum(enm), NEW restriction
  PROVE  IsValued(entries_with_values(enm, restriction))
  <1> DEFINE entries == enm.entries
             base == [previous |-> 0, entries |-> <<>>]
             n == Len(entries)
             made == AllValued(base, restriction, entries)
             Is(x) == x.previous \in Nat /\ IsValued(x.entries)
  <1>1. IsList(entries) /\ \A i \in DOMAIN entries : IsEntry(entries[i])
    BY DEF IsEnum, IsEntries
  <1>2. n \in Nat /\ DOMAIN entries = 1 .. n
    BY <1>1, ListIs
  <1>3. entries_with_values(enm, restriction) = made.entries
    BY DEF entries_with_values, AllValued
  <1>4. Is(base)
    BY DEF IsValued, IsList
  <1> HIDE DEF base, made, entries
  <1>5. PICK g : /\ g[{}] = base
                 /\ \A k \in 1 .. n : g[1 .. k] = NextEntry(restriction, g[1 .. k - 1], entries[k])
                 /\ made = g[1 .. n]
    BY <1>1, ValuedAsFolds DEF made
  <1> DEFINE V == {x \in {g[1 .. k] : k \in 0 .. n} \union {base} : Is(x)}
  <1> HIDE DEF n
  <1>6. g[{}] \in V
    BY <1>4, <1>5
  <1>7. ASSUME NEW k \in 1 .. n, g[1 .. k - 1] \in V PROVE g[1 .. k] \in V
    <2> DEFINE x == g[1 .. k - 1]
               y == g[1 .. k]
               entry == entries[k]
               value == unwrap_or(entry.value, x.previous + 1)
    <2>1. Is(x) /\ y = NextEntry(restriction, x, entry) /\ IsEntry(entry)
      BY <1>1, <1>2, <1>5, <1>7
    <2>2. y \in {g[1 .. j] : j \in 0 .. n}
      BY <1>2
    <2> HIDE DEF x, y, V, entry
    <2>3. value \in Nat
      BY <2>1 DEF unwrap_or, IsEntry
    <2>4. /\ y.previous \in {value, x.previous}
          /\ y.entries \in {x.entries, Append(x.entries, <<entry.name, value>>)}
      BY <2>1 DEF NextEntry
    <2> HIDE DEF value
    <2>5. IsValued(Append(x.entries, <<entry.name, value>>))
      BY <2>1, <2>3, ValuedAppend
    <2>6. Is(y)
      BY <2>1, <2>3, <2>4, <2>5
    <2> QED
      BY <2>2, <2>6 DEF V, y
  <1>8. g[1 .. n] \in V
    <2> HIDE DEF V
    <2> QED
      BY <1>2, <1>6, <1>7, FoldStays
  <1>9. IsValued(made.entries)
    BY <1>5, <1>8
  <1> QED
    BY <1>3, <1>9

\* The enumeration of a field.
LEMMA EnumerationIs ==
  ASSUME NEW pr, IsProfile(pr), NEW f, IsField(f)
  PROVE  IsEnumeration(Enumeration(pr, f))
  <1>1. ASSUME NEW enm, IsEnum(enm), NEW restriction \in {None, Some(f.mavtype)}
        PROVE  IsEnumeration(Some(DynamicEnum(enm, restriction)))
    <2> DEFINE e == DynamicEnum(enm, restriction)
               primitive == IF restriction # None THEN restriction ELSE enm.primitive
    <2>1. primitive # None => primitive[1] \in Types
      BY <1>1 DEF IsEnum, IsField, Some
    <2>2. \A type \in Types : Element(type) \in Types
      BY DEF Types, Element, Scalar, Lengths
    <2>3. e.primitive = (IF primitive # None /\ IsArray(primitive[1])
                         THEN Some(Element(primitive[1])) ELSE primitive)
          /\ e.entries = entries_with_values(enm, restriction)
      BY DEF DynamicEnum
    <2> HIDE DEF e, primitive
    <2>4. e.primitive # None => e.primitive[1] \in Types
      BY <2>1, <2>2, <2>3 DEF Some
    <2>5. IsValued(e.entries)
      BY <1>1, <2>3, EntriesValued
    <2>6. Some(e)[1] = e
      BY DEF Some
    <2> QED
      BY <2>4, <2>5, <2>6 DEF IsEnumeration, e
  <1> DEFINE enm == pr.enums[f.enumtype[1]]
             known == f.enumtype # None /\ f.enumtype[1] \in DOMAIN pr.enums
  <1>2. known => IsEnum(enm)
    BY DEF IsProfile, IsEnums
  <1>3. \/ Enumeration(pr, f) = None
        \/ known /\ Enumeration(pr, f) = Some(DynamicEnum(enm, None))
        \/ known /\ Enumeration(pr, f) = Some(DynamicEnum(enm, Some(f.mavtype)))
    BY DEF Enumeration
  <1>4. IsEnumeration(None)
    BY DEF IsEnumeration
  <1> HIDE DEF known, enm
  <1>5. known => /\ IsEnumeration(Some(DynamicEnum(enm, None)))
                 /\ IsEnumeration(Some(DynamicEnum(enm, Some(f.mavtype))))
    BY <1>1, <1>2
  <1> QED
    BY <1>3, <1>4, <1>5

\* The first fields.
LEMMA FieldsPart ==
  ASSUME NEW s, IsFields(s), NEW n \in 0 .. Len(s)
  PROVE  IsFields(SubSeq(s, 1, n))
  <1>1. IsList(s) /\ \A i \in DOMAIN s : IsField(s[i])
    BY DEF IsFields
  <1> DEFINE t == SubSeq(s, 1, n)
  <1>2. IsList(t) /\ DOMAIN t = 1 .. n /\ \A k \in 1 .. n : k \in DOMAIN s /\ t[k] = s[k]
    BY <1>1, ListPart
  <1> HIDE DEF t
  <1> QED
    BY <1>1, <1>2 DEF IsFields, t

\* A message makes a definition.
LEMMA DefinitionIs ==
  ASSUME NEW pr, IsProfile(pr), NEW m, IsMessage(m)
  PROVE  IsDefinition(runtime_message_definition(pr, m))
  <1> DEFINE fields == m.fields
             n == Len(fields)
             made == [i \in DOMAIN fields |-> DynamicField(pr, fields, i)]
             d == runtime_message_definition(pr, m)
  <1>1. IsFields(fields) /\ m.id \in Nat
    BY DEF IsMessage
  <1>2. /\ n \in Nat /\ DOMAIN fields = 1 .. n
        /\ \A i \in 1 .. n : IsField(fields[i])
    BY <1>1, ListIs DEF IsFields
  <1>3. /\ d.id = m.id /\ d.extra_crc = extra_crc(m) /\ d.fields = made
        /\ d.base_payload_len = EncodedSize(BaseFields(fields))
        /\ d.encoded_size = EncodedSize(fields)
    BY DEF runtime_message_definition
  <1> HIDE DEF d, fields
  <1>4. d.base_payload_len \in Nat /\ d.encoded_size \in Nat
    BY <1>1, <1>3, FieldSizes, WireOrderIs
  <1>5. d.base_payload_len <= d.encoded_size
    BY <1>1, <1>3, SelectionFits DEF BaseFields
  <1>6. d.extra_crc \in 0 .. 255
    BY <1>3, ExtraCrcIs
  <1>7. ASSUME NEW i \in 1 .. n PROVE IsDefinedField(DynamicField(pr, fields, i))
    <2> DEFINE f == DynamicField(pr, fields, i)
               before == SubSeq(fields, 1, i - 1)
    <2>1. IsField(fields[i]) /\ i - 1 \in 0 .. n
      BY <1>2
    <2>2. /\ f.mavtype = fields[i].mavtype /\ f.enumeration = Enumeration(pr, fields[i])
          /\ f.offset = EncodedSize(before)
      BY DEF DynamicField
    <2> HIDE DEF f
    <2>3. IsFields(before)
      BY <1>1, <2>1, FieldsPart
    <2> HIDE DEF before
    <2>4. f.offset \in Nat
      BY <2>2, <2>3, FieldSizes
    <2>5. IsEnumeration(f.enumeration)
      BY <2>1, <2>2, EnumerationIs
    <2>6. f.mavtype \in Types
      BY <2>1, <2>2 DEF IsField
    <2> QED
      BY <2>4, <2>5, <2>6 DEF IsDefinedField, f
  <1>8. IsList(made) /\ \A i \in DOMAIN made : IsDefinedField(made[i])
    <2> DEFINE S == {DynamicField(pr, fields, i) : i \in 1 .. n}
    <2>1. made = [i \in 1 .. n |-> DynamicField(pr, fields, i)]
      BY <1>2
    <2> HIDE DEF made, n
    <2>2. made \in [1 .. n -> S]
      BY <2>1
    <2>3. made \in Seq(S)
      <3> HIDE DEF S
      <3> QED
        BY <1>2, <2>2, IsSequence
    <2>4. IsList(made)
      BY <2>3, SeqIsList
    <2>5. \A i \in DOMAIN made : i \in 1 .. n /\ made[i] = DynamicField(pr, fields, i)
      BY <2>1
    <2> QED
      BY <1>7, <2>4, <2>5
  <1> HIDE DEF made
  <1> QED
    BY <1>1, <1>3, <1>4, <1>5, <1>6, <1>8 DEF IsDefinition, d

\* A loaded dialect has what fits a frame.
IsDialect(dialect) ==
  /\ DOMAIN dialect = {"instance", "version", "error", "messages"}
  /\ IsVersion(dialect.version)
  /\ \A id \in DOMAIN dialect.messages :
       /\ id \in 0 .. MaxMessageId
       /\ IsDefinition(dialect.messages[id])
       /\ dialect.messages[id].encoded_size <= MAX_PAYLOAD_LEN

\* Loading one message: a definition that is too large is refused.
LEMMA LoadMessageIs ==
  ASSUME NEW pr, IsProfile(pr), NEW dialect, IsDialect(dialect), NEW name \in DOMAIN pr.messages
  PROVE  IsDialect(LoadMessage(pr, dialect, name))
  <1> DEFINE d == runtime_message_definition(pr, pr.messages[name])
             more == WithEntry(dialect.messages, d.id, d)
  <1>1. IsDefinition(d)
    BY DefinitionIs DEF IsProfile, IsMessages
  <1>2. \/ LoadMessage(pr, dialect, name)
             \in {dialect, [dialect EXCEPT !.error = "MessageIdOutOfRange"],
                  [dialect EXCEPT !.error = "PayloadTooLong"],
                  [dialect EXCEPT !.error = "DuplicateMessageId"]}
        \/ /\ d.id <= MaxMessageId /\ d.encoded_size <= MAX_PAYLOAD_LEN
           /\ LoadMessage(pr, dialect, name) = [dialect EXCEPT !.messages = more]
    <2>1. d.id \in Nat /\ MaxMessageId \in Nat
      BY <1>1, PowerType DEF IsDefinition, MaxMessageId
    <2>2. d.encoded_size \in Nat /\ MAX_PAYLOAD_LEN \in Nat
      BY <1>1, PayloadAssumption DEF IsDefinition
    <2>3. LoadMessage(pr, dialect, name)
            = CASE dialect.error # "" -> dialect
                [] dialect.error = "" /\ d.id > MaxMessageId ->
                     [dialect EXCEPT !.error = "MessageIdOutOfRange"]
                [] dialect.error = "" /\ d.id <= MaxMessageId /\ d.encoded_size > MAX_PAYLOAD_LEN ->
                     [dialect EXCEPT !.error = "PayloadTooLong"]
                [] dialect.error = "" /\ d.id <= MaxMessageId
                   /\ d.encoded_size <= MAX_PAYLOAD_LEN ->
                     IF d.id \in DOMAIN dialect.messages
                     THEN [dialect EXCEPT !.error = "DuplicateMessageId"]
                     ELSE [dialect EXCEPT !.messages = more]
      BY DEF LoadMessage
    <2> DEFINE id == d.id
               len == d.encoded_size
    <2>4. id > MaxMessageId \/ id <= MaxMessageId
      BY <2>1
    <2>5. len > MAX_PAYLOAD_LEN \/ len <= MAX_PAYLOAD_LEN
      BY <2>2
    <2> HIDE DEF d, more
    <2> QED
      BY <2>1, <2>2, <2>3, <2>4, <2>5
  <1>3. \A why : IsDialect([dialect EXCEPT !.error = why])
    BY DEF IsDialect
  <1>4. ASSUME d.id <= MaxMessageId, d.encoded_size <= MAX_PAYLOAD_LEN
        PROVE  IsDialect([dialect EXCEPT !.messages = more])
    <2>1. d.id \in 0 .. MaxMessageId
      BY <1>1, <1>4, PowerType DEF IsDefinition, MaxMessageId
    <2> HIDE DEF d
    <2>2. \A id \in DOMAIN more :
            /\ id \in 0 .. MaxMessageId /\ IsDefinition(more[id])
            /\ more[id].encoded_size <= MAX_PAYLOAD_LEN
      BY <1>1, <1>4, <2>1 DEF WithEntry, IsDialect
    <2> HIDE DEF more
    <2> QED
      BY <2>2 DEF IsDialect
  <1> HIDE DEF d, more
  <1> QED
    BY <1>2, <1>3, <1>4

\* A profile makes a dialect.
LEMMA LoadIs ==
  ASSUME NEW pr, IsProfile(pr), NEW instance
  PROVE  IsDialect(from_profile(pr, instance))
  <1> DEFINE names == InOrder(pr.messages)
             base == [instance |-> instance, version |-> pr.version, error |-> "",
                      messages |-> [id \in {} |-> None]]
             n == Len(names)
             made == AllLoaded(base, pr, names)
  <1>1. IsList(names) /\ \A k \in 1 .. n : names[k] \in DOMAIN pr.messages
    BY InOrderIs
  <1>2. n \in Nat
    BY <1>1, ListIs
  <1>3. from_profile(pr, instance) = made
    BY DEF from_profile, AllLoaded
  <1>4. IsDialect(base)
    BY DEF IsDialect, IsProfile
  <1> HIDE DEF base, made, names
  <1>5. PICK g : /\ g[{}] = base
                 /\ \A k \in 1 .. n : g[1 .. k] = LoadMessage(pr, g[1 .. k - 1], names[k])
                 /\ made = g[1 .. n]
    <2>1. IsList(names)
      BY <1>1
    <2> HIDE DEF n
    <2>2. \E g : /\ g[{}] = base
                 /\ \A k \in 1 .. Len(names) :
                      g[1 .. k] = LoadMessage(pr, g[1 .. k - 1], names[k])
                 /\ AllLoaded(base, pr, names) = g[1 .. Len(names)]
      BY <2>1, LoadedAsFolds
    <2> QED
      BY <2>2 DEF made, n
  <1> DEFINE V == {x \in {g[1 .. k] : k \in 0 .. n} \union {base} : IsDialect(x)}
  <1> HIDE DEF n
  <1>6. g[{}] \in V
    BY <1>4, <1>5
  <1>7. ASSUME NEW k \in 1 .. n, g[1 .. k - 1] \in V PROVE g[1 .. k] \in V
    <2> DEFINE x == g[1 .. k - 1]
               y == g[1 .. k]
    <2>1. IsDialect(x) /\ y = LoadMessage(pr, x, names[k]) /\ names[k] \in DOMAIN pr.messages
      BY <1>1, <1>5, <1>7
    <2>2. y \in {g[1 .. j] : j \in 0 .. n}
      BY <1>2
    <2> HIDE DEF x, y, V
    <2>3. IsDialect(y)
      BY <2>1, LoadMessageIs
    <2> QED
      BY <2>2, <2>3 DEF V, y
  <1>8. g[1 .. n] \in V
    <2> HIDE DEF V
    <2> QED
      BY <1>2, <1>6, <1>7, FoldStays
  <1> QED
    BY <1>3, <1>5, <1>8

-----------------------------------------------------------------------------
(***************************************************************************)
(* Bytes. Every value of every type becomes bytes or an error, so that a   *)
(* message built from fields is made of bytes.                             *)
(***************************************************************************)
Octet == 0 .. MaxId

\* An octet is a digit and a byte.
LEMMA OctetIs == 0 \in Octet /\ Octet = 0 .. Radix - 1 /\ Octet = 0 .. Power[1] - 1
  BY RadixAssumption, PowerOfOne DEF Octet, MaxId

\* Zeroes are bytes.
LEMMA ZeroesAre ==
  ASSUME NEW n \in Nat
  PROVE  Zeroes(n) \in Seq(Octet)
  <1>1. Zeroes(n) \in [1 .. n -> Octet]
    BY OctetIs DEF Zeroes
  <1> QED
    BY <1>1, IsSequence

\* Padded bytes are bytes.
LEMMA PaddedIs ==
  ASSUME NEW S, 0 \in S, NEW bytes \in Seq(S), NEW width \in Nat
  PROVE  padded(bytes, width) \in Seq(S)
  <1> DEFINE taken == Take(bytes, width)
             n == width - Len(taken)
  <1>1. taken \in Seq(S) /\ Len(taken) \in Nat /\ Len(taken) <= width
    BY DEF Take
  <1> HIDE DEF taken
  <1>2. n \in Nat
    BY <1>1
  <1> HIDE DEF n
  <1>3. Zeroes(n) \in Seq(S)
    <2>1. Zeroes(n) \in [1 .. n -> S]
      BY DEF Zeroes
    <2> QED
      BY <1>2, <2>1, IsSequence
  <1>4. taken \o Zeroes(n) \in Seq(S)
    BY <1>1, <1>3
  <1> QED
    BY <1>4 DEF padded, taken, n

\* The bytes of a number are bytes.
LEMMA BytesOf ==
  ASSUME NEW v \in Nat, NEW width \in {1, 2, 4, 8}
  PROVE  ToBytes(v, width) \in Seq(Octet)
  <1>1. width \in 0 .. 8
    OBVIOUS
  <1> QED
    BY <1>1, ToBytesType DEF Octet

\* So are padded ones.
LEMMA BytesPadded ==
  ASSUME NEW bytes \in Seq(Octet), NEW width \in Nat
  PROVE  padded(bytes, width) \in Seq(Octet)
  BY OctetIs, PaddedIs

\* Powers grow.
LEMMA PowersGrow == \A width \in {1, 2, 4, 8} : Power[width] \in Nat /\ Power[width] <= U64Modulus
  <1>1. ASSUME NEW n \in 0 .. 7 PROVE Power[n] <= Power[n + 1]
    <2> DEFINE p == Power[n]
    <2>1. n + 1 \in 1 .. 8 /\ (n + 1) - 1 = n
      OBVIOUS
    <2>2. Power[n + 1] = Radix * Power[(n + 1) - 1]
      BY <2>1, PowerDef
    <2>3. p \in Nat /\ Power[n + 1] = Radix * p
      BY <2>1, <2>2, PowerDef
    <2> HIDE DEF p
    <2>4. p <= Radix * p
      BY <2>3, RadixAssumption
    <2> QED
      BY <2>3, <2>4 DEF p
  <1>2. \A n \in 0 .. 8 : Power[n] \in Nat
    BY PowerDef
  <1>3. /\ Power[1] <= Power[2] /\ Power[2] <= Power[3] /\ Power[3] <= Power[4]
        /\ Power[4] <= Power[5] /\ Power[5] <= Power[6] /\ Power[6] <= Power[7]
        /\ Power[7] <= Power[8]
    BY <1>1
  <1> QED
    BY <1>2, <1>3 DEF U64Modulus

\* A number cut to its type is a number.
LEMMA TruncatedIs ==
  ASSUME NEW base \in DOMAIN Width, NEW value \in Nat
  PROVE  Truncated(base, value) \in Nat
  <1> DEFINE width == Width[base]
             p == Power[width]
             low == value % p
  <1>1. p \in Nat \ {0} /\ p <= U64Modulus /\ U64Modulus \in Nat
    <2>1. width \in {1, 2, 4, 8} /\ width \in 0 .. 8
      BY WidthIs
    <2> QED
      BY <2>1, PowersGrow, PowerType, U64Is
  <1>2. low \in Nat
    BY <1>1
  <1>3. Truncated(base, value) \in {low, low + U64Modulus - p}
    BY DEF Truncated
  <1> HIDE DEF low, p
  <1> QED
    BY <1>1, <1>2, <1>3

\* So is a number cast to a type, if it can be.
LEMMA CastIs ==
  ASSUME NEW type \in Types, NEW value \in Nat
  PROVE  cast_integer(type, value) # NoInteger => cast_integer(type, value) \in Nat
  <1>1. Truncated(type.base, value) \in Nat
    BY TruncatedIs DEF Types
  <1> QED
    BY <1>1 DEF cast_integer

-----------------------------------------------------------------------------
\* The number of an entry, or of the pieces of a text.
IsNatural(v) == v # NoInteger => v \in Nat

\* The number of the entry of a name.
LEMMA EntryValueIs ==
  ASSUME NEW e, IsValued(e.entries), NEW name
  PROVE  IsNatural(enum_entry_value(e, name))
  <1> DEFINE entries == e.entries
             places == {i \in DOMAIN entries : entries[i][1] = name}
             found == Selected(entries, places)
  <1>1. IsList(entries) /\ \A i \in DOMAIN entries : entries[i][2] \in Nat
    BY DEF IsValued
  <1>2. enum_entry_value(e, name) = IF found = <<>> THEN NoInteger ELSE found[1][2]
    BY DEF enum_entry_value
  <1> HIDE DEF entries, places
  <1>3. /\ IsList(found)
        /\ \A k \in DOMAIN found : \E i \in places \intersect DOMAIN entries : found[k] = entries[i]
    BY <1>1, ListSelected
  <1> HIDE DEF found
  <1>4. found # <<>> => 1 \in DOMAIN found
    BY <1>3, ListTail
  <1>5. found # <<>> => found[1][2] \in Nat
    BY <1>1, <1>3, <1>4
  <1> QED
    BY <1>2, <1>5 DEF IsNatural

\* The number of the pieces of a text.
LEMMA TextValueIs ==
  ASSUME NEW e, IsValued(e.entries), NEW pieces, IsList(pieces),
         \A i \in DOMAIN pieces : IsPiece(pieces[i])
  PROVE  IsNatural(parse_enum_value(pieces, e))
  <1> DEFINE n == Len(pieces)
             made == AllJoined(0, e, pieces)
  <1>1. n \in Nat /\ DOMAIN pieces = 1 .. n
    BY ListIs
  <1>2. parse_enum_value(pieces, e) \in {made, enum_entry_value(e, pieces[1][2]), NoInteger}
    BY DEF parse_enum_value, AllJoined
  <1> HIDE DEF made
  <1>3. PICK g : /\ g[{}] = 0
                 /\ \A k \in 1 .. n : g[1 .. k] = WithPiece(e, g[1 .. k - 1], pieces[k])
                 /\ made = g[1 .. n]
    BY PiecesAsFolds DEF made
  <1> DEFINE V == Nat \union {NoInteger}
  <1> HIDE DEF n
  <1>4. g[{}] \in V
    BY <1>3
  <1>5. ASSUME NEW k \in 1 .. n, g[1 .. k - 1] \in V PROVE g[1 .. k] \in V
    <2> DEFINE x == g[1 .. k - 1]
               piece == pieces[k]
               value == PieceValue(e, piece)
    <2>1. x \in V /\ g[1 .. k] = WithPiece(e, x, piece) /\ IsPiece(piece)
      BY <1>1, <1>3, <1>5
    <2> HIDE DEF x, piece
    <2>2. IsNatural(value)
      <3>1. piece[1] = "hex" => piece[2] \in Nat
        BY <2>1, U64Is DEF IsPiece
      <3> QED
        BY <3>1, EntryValueIs DEF PieceValue, IsNatural
    <2> HIDE DEF value
    <2>3. WithPiece(e, x, piece) \in {NoInteger, BitOr(x, value)}
      BY DEF WithPiece, value
    <2>4. CASE x = NoInteger \/ value = NoInteger
      <3>1. WithPiece(e, x, piece) = NoInteger
        BY <2>4 DEF WithPiece, value
      <3> QED
        BY <2>1, <3>1
    <2>5. CASE x # NoInteger /\ value # NoInteger
      <3>1. BitOr(x, value) \in Nat
        BY <2>1, <2>2, <2>5, BitOrIs DEF IsNatural
      <3> QED
        BY <2>1, <2>3, <3>1
    <2> QED
      BY <2>4, <2>5
  <1>6. g[1 .. n] \in V
    <2> HIDE DEF V
    <2> QED
      BY <1>1, <1>4, <1>5, FoldStays
  <1>7. IsNatural(made)
    BY <1>3, <1>6 DEF IsNatural
  <1> QED
    BY <1>2, <1>7, EntryValueIs DEF IsNatural

\* Bytes, or an error.
IsBytes(b) == b # None => b[1] \in Seq(Octet)

\* An error, or bytes.
LEMMA BytesOrError ==
  /\ IsBytes(None)
  /\ \A bytes \in Seq(Octet) : IsBytes(Some(bytes))
  BY DEF IsBytes, Some

\* The size of a type that is no array.
LEMMA ScalarSize ==
  ASSUME NEW type \in Types, IsScalar(type)
  PROVE  size(type) \in {1, 2, 4, 8}
  BY SizeIs

\* An enum given by name becomes bytes.
LEMMA NamedBytesAre ==
  ASSUME NEW type \in Types, IsScalar(type), NEW e, IsEnumeration(Some(e)), NEW value,
         IsNatural(value)
  PROVE  IsBytes(NamedBytes(type, e, value))
  <1> DEFINE as == unwrap_or(e.primitive, type)
             cast == cast_integer(as, value)
             bytes == ToBytes(cast, size(type))
  <1>1. as \in Types
    BY DEF IsEnumeration, Some, None, unwrap_or
  <1>2. \/ NamedBytes(type, e, value) = None
        \/ value # NoInteger /\ cast # NoInteger /\ NamedBytes(type, e, value) = Some(bytes)
    BY DEF NamedBytes
  <1> HIDE DEF as
  <1>3. value # NoInteger /\ cast # NoInteger => cast \in Nat
    BY <1>1, CastIs DEF IsNatural
  <1> HIDE DEF cast
  <1>4. cast \in Nat => bytes \in Seq(Octet)
    BY ScalarSize, BytesOf
  <1> HIDE DEF bytes
  <1> QED
    BY <1>2, <1>3, <1>4, BytesOrError

\* A number is a number.
LEMMA NumberIs ==
  ASSUME NEW value, IsNumber(value), value.kind \in DOMAIN KindBase
  PROVE  value.value \in Nat
  <1> DEFINE base == KindBase[value.kind]
             p == Power[Width[base]]
  <1>1. base \in DOMAIN Width
    BY DEF KindBase, Width
  <1> HIDE DEF base
  <1>2. p \in Nat
    BY <1>1, WidthIs, PowersGrow
  <1>3. value.value \in 0 .. p - 1
    BY DEF IsNumber, base
  <1> HIDE DEF p
  <1> QED
    BY <1>2, <1>3

\* A value that is no array becomes bytes.
LEMMA ScalarBytes ==
  ASSUME NEW type \in Types, IsScalar(type), NEW e, IsEnumeration(e), NEW value,
         IsNumber(value), e # None => IsString(value)
  PROVE  IsBytes(write_scalar(type, e, value))
  <1> DEFINE named == parse_enum_value(value.pieces, e[1])
             bytes == ToBytes(value.value, size(type))
  <1>1. \/ write_scalar(type, e, value) = None
        \/ /\ value.kind = "String" /\ e # None
           /\ write_scalar(type, e, value) = NamedBytes(type, e[1], named)
        \/ /\ value.kind \in DOMAIN KindBase
           /\ write_scalar(type, e, value) = Some(bytes)
    BY DEF write_scalar, write_names
  <1>2. value.kind = "String" /\ e # None => IsBytes(NamedBytes(type, e[1], named))
    <2> SUFFICES ASSUME value.kind = "String", e # None PROVE IsBytes(NamedBytes(type, e[1], named))
      OBVIOUS
    <2>1. IsValued(e[1].entries) /\ IsEnumeration(Some(e[1]))
      BY DEF IsEnumeration, Some, None
    <2>2. IsList(value.pieces) /\ \A i \in DOMAIN value.pieces : IsPiece(value.pieces[i])
      BY DEF IsString
    <2>3. IsNatural(named)
      BY <2>1, <2>2, TextValueIs
    <2> HIDE DEF named
    <2> QED
      BY <2>1, <2>3, NamedBytesAre
  <1> HIDE DEF named
  <1>3. value.kind \in DOMAIN KindBase => bytes \in Seq(Octet)
    BY NumberIs, ScalarSize, BytesOf
  <1> HIDE DEF bytes
  <1> QED
    BY <1>1, <1>2, <1>3, BytesOrError

\* A text becomes bytes.
LEMMA CharBytes ==
  ASSUME NEW length \in Nat, NEW value, IsValue(value)
  PROVE  IsBytes(write_char_array(length, value))
  <1> DEFINE text == padded(value.value, length)
             chars == [i \in 1 .. length |-> value.value[i].value]
  <1>1. \/ write_char_array(length, value) = None
        \/ value.kind = "String" /\ write_char_array(length, value) = Some(text)
        \/ /\ value.kind = "Array" /\ Len(value.value) = length
           /\ \A i \in 1 .. length : value.value[i].kind = "U8"
           /\ write_char_array(length, value) = Some(chars)
    BY DEF write_char_array
  <1>2. value.kind = "String" => text \in Seq(Octet)
    BY OctetIs, BytesPadded DEF IsValue, IsString
  <1>3. ASSUME value.kind = "Array", Len(value.value) = length,
               \A i \in 1 .. length : value.value[i].kind = "U8"
        PROVE  chars \in Seq(Octet)
    <2>1. ASSUME NEW i \in 1 .. length PROVE value.value[i].value \in Octet
      <3> DEFINE v == value.value[i]
      <3>1. IsNumber(v) /\ v.kind = "U8"
        BY <1>3 DEF IsValue
      <3> HIDE DEF v
      <3>2. "U8" \in DOMAIN KindBase /\ Width[KindBase["U8"]] = 1
        BY DEF KindBase, Width
      <3>3. v.value \in 0 .. Power[1] - 1
        BY <3>1, <3>2 DEF IsNumber
      <3> QED
        BY <3>3, OctetIs DEF v
    <2>2. chars \in [1 .. length -> Octet]
      BY <2>1
    <2> HIDE DEF chars
    <2> QED
      BY <2>2, IsSequence
  <1> HIDE DEF text, chars
  <1> QED
    BY <1>1, <1>2, <1>3, BytesOrError

\* An array becomes bytes.
LEMMA ArrayBytes ==
  ASSUME NEW type \in Types, ~IsScalar(type), NEW value, IsValue(value)
  PROVE  IsBytes(write_array(type, value))
  <1> DEFINE n == type.length
             written(i) == write_scalar(Element(type), None, value.value[i])
             elements == [i \in 1 .. n |-> written(i)]
             parts == [i \in 1 .. n |-> elements[i][1]]
  <1>1. n \in Nat /\ Element(type) \in Types /\ IsScalar(Element(type))
    BY DEF Types, Element, Scalar, Lengths, IsScalar
  <1>2. \/ write_array(type, value) = None
        \/ /\ value.kind = "Array" /\ Len(value.value) = n
           /\ write_array(type, value) = AllWritten(elements)
    BY DEF write_array
  <1>3. DOMAIN elements = 1 .. n /\ \A i \in 1 .. n : elements[i] = written(i)
    OBVIOUS
  <1>4. ASSUME value.kind = "Array", Len(value.value) = n, NEW i \in 1 .. n
        PROVE  IsBytes(written(i))
    <2>1. IsNumber(value.value[i])
      BY <1>4 DEF IsValue
    <2>2. IsEnumeration(None)
      BY DEF IsEnumeration
    <2> QED
      BY <1>1, <2>1, <2>2, ScalarBytes
  <1> HIDE DEF written, elements, n
  <1>5. \/ AllWritten(elements) = None
        \/ /\ \A i \in 1 .. n : elements[i] # None
           /\ AllWritten(elements) = Some(FlattenSeq(parts))
    BY <1>3 DEF AllWritten
  <1>6. ASSUME value.kind = "Array", Len(value.value) = n, \A i \in 1 .. n : elements[i] # None
        PROVE  FlattenSeq(parts) \in Seq(Octet)
    <2>1. \A i \in 1 .. n : elements[i][1] \in Seq(Octet)
      BY <1>3, <1>4, <1>6 DEF IsBytes
    <2>2. parts \in [1 .. n -> Seq(Octet)]
      BY <2>1
    <2> HIDE DEF parts
    <2>3. parts \in Seq(Seq(Octet))
      BY <1>1, <2>2, IsSequence DEF n
    <2> QED
      BY <2>3, FlattenIs
  <1> HIDE DEF parts
  <1> QED
    BY <1>2, <1>5, <1>6, BytesOrError

\* Every value becomes bytes, or an error, for a field of any type.
LEMMA ValueBytes ==
  ASSUME NEW type \in Types, NEW e, IsEnumeration(e), NEW value, IsValue(value)
  PROVE  IsBytes(write_value(type, e, value))
  <1>1. IsArray(type) => ~IsScalar(type)
    BY DEF IsArray
  <1>2. ~IsArray(type) /\ ~IsCharArray(type) => IsScalar(type)
    BY DEF IsArray, IsCharArray
  <1>4. IsCharArray(type) => type.length \in Nat
    BY DEF Types, Lengths, IsCharArray, IsScalar
  <1>3. IsScalar(type) => IsBytes(write_scalar(type, e, value))
    BY ScalarBytes DEF IsValue
  <1> QED
    BY <1>1, <1>2, <1>3, <1>4, ArrayBytes, CharBytes DEF write_value

-----------------------------------------------------------------------------
\* The default of a field that is not supplied.
LEMMA DefaultBytes ==
  ASSUME NEW type \in Types, NEW e, IsEnumeration(e), NEW version, IsVersion(version)
  PROVE  write_default(type, e, version) \in Seq(Octet)
  <1> DEFINE own == <<unwrap_or(version, 0)>>
             zeroes == Zeroes(size(type))
             part == IF type.base = "uint8_t_mavlink_version" THEN own
                     ELSE Zeroes(size(Element(type)))
             n == type.length
             parts == [i \in 1 .. n |-> part]
             entry == padded(ToBytes(e[1].entries[1][2], 8), size(type))
  <1>1. own \in Seq(Octet)
    <2>1. unwrap_or(version, 0) \in Octet
      BY OctetIs DEF unwrap_or, IsVersion
    <2> QED
      BY <2>1
  <1>2. \A t \in Types : Zeroes(size(t)) \in Seq(Octet)
    BY SizeIs, ZeroesAre
  <1>3. (IsArray(type) => n \in Nat) /\ Element(type) \in Types
    BY DEF Types, Element, Scalar, Lengths, IsArray, IsScalar
  <1>4. part \in Seq(Octet)
    BY <1>1, <1>2, <1>3
  <1> HIDE DEF own, part
  <1>5. IsArray(type) => FlattenSeq(parts) \in Seq(Octet)
    <2> SUFFICES ASSUME IsArray(type) PROVE FlattenSeq(parts) \in Seq(Octet)
      OBVIOUS
    <2>1. parts \in [1 .. n -> Seq(Octet)]
      BY <1>4
    <2> HIDE DEF parts
    <2>2. parts \in Seq(Seq(Octet))
      BY <1>3, <2>1, IsSequence
    <2> QED
      BY <2>2, FlattenIs
  <1>6. e # None /\ e[1].entries # <<>> => entry \in Seq(Octet)
    <2> SUFFICES ASSUME e # None, e[1].entries # <<>> PROVE entry \in Seq(Octet)
      OBVIOUS
    <2> DEFINE first == e[1].entries[1][2]
    <2>1. IsValued(e[1].entries)
      BY DEF IsEnumeration
    <2>2. first \in Nat
      BY <2>1, ListTail DEF IsValued
    <2> HIDE DEF first
    <2>3. ToBytes(first, 8) \in Seq(Octet) /\ size(type) \in Nat
      BY <2>2, BytesOf, SizeIs
    <2> QED
      BY <2>3, BytesPadded DEF first
  <1>7. \/ write_default(type, e, version) \in {own, zeroes}
        \/ IsArray(type) /\ write_default(type, e, version) = FlattenSeq(parts)
        \/ /\ e # None /\ e[1].entries # <<>>
           /\ write_default(type, e, version) = entry
    BY DEF write_default, parts, part, own
  <1> HIDE DEF parts, entry
  <1> QED
    BY <1>1, <1>2, <1>5, <1>6, <1>7

-----------------------------------------------------------------------------
(***************************************************************************)
(* Messages built from fields.                                             *)
(***************************************************************************)
\* A message in the making: as many bytes as its definition has.
IsDraft(d, n) == DOMAIN d = {"payload", "supplied", "error"} /\ d.payload \in [1 .. n -> Octet]

\* Bytes written over bytes, wherever, are as many bytes.
LEMMA OverwrittenBytes ==
  ASSUME NEW n, NEW bytes \in [1 .. n -> Octet], NEW offset, NEW new \in Seq(Octet)
  PROVE  Overwrite(bytes, offset, new) \in [1 .. n -> Octet]
  <1> DEFINE cell(i) == IF i - offset \in DOMAIN new THEN new[i - offset] ELSE bytes[i]
  <1>1. \A k \in DOMAIN new : new[k] \in Octet
    OBVIOUS
  <1>2. \A i \in 1 .. n : bytes[i] \in Octet
    OBVIOUS
  <1> HIDE DEF Octet
  <1>3. \A i \in 1 .. n : cell(i) \in Octet
    BY <1>1, <1>2, Zenon
  <1>4. Overwrite(bytes, offset, new) = [i \in 1 .. n |-> cell(i)]
    BY DEF Overwrite
  <1> HIDE DEF cell
  <1> QED
    BY <1>3, <1>4

\* A draft with another part of the right type.
LEMMA DraftWith ==
  ASSUME NEW n, NEW d, IsDraft(d, n)
  PROVE  /\ \A why : IsDraft([d EXCEPT !.error = why], n)
         /\ \A bytes \in [1 .. n -> Octet] : \A names :
              IsDraft([d EXCEPT !.payload = bytes, !.supplied = names], n)
         /\ \A bytes \in [1 .. n -> Octet] : IsDraft([d EXCEPT !.payload = bytes], n)
  BY DEF IsDraft

\* A field found by its name is one of the definition's.
LEMMA FieldFound ==
  ASSUME NEW definition, IsDefinition(definition), NEW name
  PROVE  FieldNamed(definition, name) # <<>> => IsDefinedField(FieldNamed(definition, name)[1])
  <1> DEFINE fields == definition.fields
             places == {i \in DOMAIN fields : fields[i].name = name}
             found == Selected(fields, places)
  <1>1. IsList(fields) /\ \A i \in DOMAIN fields : IsDefinedField(fields[i])
    BY DEF IsDefinition
  <1>2. FieldNamed(definition, name) = found
    BY DEF FieldNamed
  <1> HIDE DEF fields, places
  <1>3. /\ IsList(found)
        /\ \A k \in DOMAIN found : \E i \in places \intersect DOMAIN fields : found[k] = fields[i]
    BY <1>1, ListSelected
  <1> HIDE DEF found
  <1>4. found # <<>> => 1 \in DOMAIN found
    BY <1>3, ListTail
  <1> QED
    BY <1>1, <1>2, <1>3, <1>4

\* One named value.
LEMMA SupplyIs ==
  ASSUME NEW definition, IsDefinition(definition), NEW n, NEW draft, IsDraft(draft, n),
         NEW named, IsValue(named[2])
  PROVE  IsDraft(Supply(definition, draft, named), n)
  <1> DEFINE found == FieldNamed(definition, named[1])
             f == found[1]
             written == write_value(f.mavtype, f.enumeration, named[2])
             more == Overwrite(draft.payload, f.offset, written[1])
             names == draft.supplied \union {f.name}
             s == Supply(definition, draft, named)
  <1>1. \/ s \in {draft, [draft EXCEPT !.error = "UnknownField"],
                  [draft EXCEPT !.error = "InvalidValue"]}
        \/ /\ found # <<>> /\ written # None
           /\ s = [draft EXCEPT !.payload = more, !.supplied = names]
    <2>1. s = SupplyField(draft, found, named[2])
      BY DEF Supply
    <2>2. s = IF draft.error # "" THEN draft
              ELSE IF found = <<>> THEN [draft EXCEPT !.error = "UnknownField"]
              ELSE Place(draft, f, written)
      BY <2>1 DEF SupplyField
    <2>3. Place(draft, f, written) =
            IF written = None THEN [draft EXCEPT !.error = "InvalidValue"]
            ELSE [draft EXCEPT !.payload = more, !.supplied = names]
      BY DEF Place
    <2> HIDE DEF s, found, f, written, more, names
    <2> QED
      BY <2>2, <2>3
  <1>2. found # <<>> /\ written # None => more \in [1 .. n -> Octet]
    <2> SUFFICES ASSUME found # <<>>, written # None PROVE more \in [1 .. n -> Octet]
      OBVIOUS
    <2>1. IsDefinedField(f)
      BY FieldFound
    <2> HIDE DEF found, f
    <2>2. IsBytes(written)
      BY <2>1, ValueBytes DEF IsDefinedField
    <2>3. written[1] \in Seq(Octet)
      BY <2>2 DEF IsBytes
    <2> HIDE DEF written
    <2> QED
      BY <2>3, OverwrittenBytes DEF IsDraft
  <1> HIDE DEF s, found, written, more, names
  <1>3. /\ IsDraft([draft EXCEPT !.error = "UnknownField"], n)
        /\ IsDraft([draft EXCEPT !.error = "InvalidValue"], n)
    BY DraftWith
  <1>4. more \in [1 .. n -> Octet] =>
          IsDraft([draft EXCEPT !.payload = more, !.supplied = names], n)
    BY DraftWith
  <1>5. IsDraft(s, n)
    <2>1. CASE s = [draft EXCEPT !.payload = more, !.supplied = names] /\ found # <<>>
               /\ written # None
      BY <1>2, <1>4, <2>1
    <2>2. CASE s = draft
      BY <2>2
    <2>3. CASE s = [draft EXCEPT !.error = "UnknownField"]
      BY <1>3, <2>3
    <2>4. CASE s = [draft EXCEPT !.error = "InvalidValue"]
      BY <1>3, <2>4
    <2> QED
      BY <1>1, <2>1, <2>2, <2>3, <2>4
  <1> QED
    BY <1>5 DEF s

\* One default.
LEMMA DefaultedIs ==
  ASSUME NEW dialect, IsDialect(dialect), NEW n, NEW draft, IsDraft(draft, n),
         NEW f, IsDefinedField(f)
  PROVE  IsDraft(Defaulted(dialect, draft, f), n)
  <1> DEFINE written == write_default(f.mavtype, f.enumeration, dialect.version)
             more == Overwrite(draft.payload, f.offset, written)
  <1>1. Defaulted(dialect, draft, f) \in {draft, [draft EXCEPT !.payload = more]}
    BY DEF Defaulted
  <1>2. written \in Seq(Octet)
    BY DefaultBytes DEF IsDefinedField, IsDialect
  <1> HIDE DEF written
  <1>3. more \in [1 .. n -> Octet]
    BY <1>2, OverwrittenBytes DEF IsDraft
  <1> HIDE DEF more
  <1>4. IsDraft([draft EXCEPT !.payload = more], n)
    BY <1>3, DraftWith
  <1> QED
    BY <1>1, <1>4

\* All defaults.
LEMMA CompleteIs ==
  ASSUME NEW dialect, IsDialect(dialect), NEW definition, IsDefinition(definition),
         NEW n, NEW draft, IsDraft(draft, n)
  PROVE  IsDraft(Complete(dialect, definition, draft), n)
  <1> DEFINE fields == definition.fields
             m == Len(fields)
             made == AllDefaulted(draft, dialect, fields)
  <1>1. IsList(fields) /\ \A i \in DOMAIN fields : IsDefinedField(fields[i])
    BY DEF IsDefinition
  <1>2. m \in Nat /\ DOMAIN fields = 1 .. m
    BY <1>1, ListIs
  <1>3. Complete(dialect, definition, draft) \in {draft, made}
    BY DEF Complete, AllDefaulted
  <1> HIDE DEF fields, made
  <1>4. PICK g : /\ g[{}] = draft
                 /\ \A k \in 1 .. m : g[1 .. k] = Defaulted(dialect, g[1 .. k - 1], fields[k])
                 /\ made = g[1 .. m]
    <2>1. IsList(fields)
      BY <1>1
    <2> HIDE DEF m
    <2> QED
      BY <2>1, DefaultedAsFolds DEF made, m
  <1> DEFINE V == {x \in {g[1 .. k] : k \in 0 .. m} \union {draft} : IsDraft(x, n)}
  <1> HIDE DEF m
  <1>5. g[{}] \in V
    BY <1>4
  <1>6. ASSUME NEW k \in 1 .. m, g[1 .. k - 1] \in V PROVE g[1 .. k] \in V
    <2> DEFINE x == g[1 .. k - 1]
               y == g[1 .. k]
    <2>1. IsDraft(x, n) /\ y = Defaulted(dialect, x, fields[k]) /\ IsDefinedField(fields[k])
      BY <1>1, <1>2, <1>4, <1>6
    <2>2. y \in {g[1 .. j] : j \in 0 .. m}
      BY <1>2
    <2> HIDE DEF x, y, V
    <2>3. IsDraft(y, n)
      BY <2>1, DefaultedIs
    <2> QED
      BY <2>2, <2>3 DEF V, y
  <1>7. g[1 .. m] \in V
    <2> HIDE DEF V
    <2> QED
      BY <1>2, <1>5, <1>6, FoldStays
  <1> QED
    BY <1>3, <1>4, <1>7

\* All named values and all defaults: the payload keeps its length.
LEMMA PayloadIs ==
  ASSUME NEW dialect, IsDialect(dialect), NEW definition, IsDefinition(definition),
         NEW fields, IsList(fields), \A i \in DOMAIN fields : IsValue(fields[i][2])
  PROVE  IsDraft(CompletePayload(dialect, definition, fields), definition.encoded_size)
  <1> DEFINE n == definition.encoded_size
             m == Len(fields)
             base == [payload |-> Zeroes(n), supplied |-> {}, error |-> ""]
             made == AllSupplied(base, definition, fields)
  <1>1. m \in Nat /\ DOMAIN fields = 1 .. m
    BY ListIs
  <1>2. CompletePayload(dialect, definition, fields) = Complete(dialect, definition, made)
    BY DEF CompletePayload, AllSupplied
  <1>3. IsDraft(base, n)
    <2>1. Zeroes(n) \in [1 .. n -> Octet]
      BY OctetIs DEF Zeroes
    <2> QED
      BY <2>1 DEF IsDraft
  <1> HIDE DEF base, made, n
  <1>4. PICK g : /\ g[{}] = base
                 /\ \A k \in 1 .. m : g[1 .. k] = Supply(definition, g[1 .. k - 1], fields[k])
                 /\ made = g[1 .. m]
    <2> HIDE DEF m
    <2> QED
      BY SuppliedAsFolds DEF made, m
  <1> DEFINE V == {x \in {g[1 .. k] : k \in 0 .. m} \union {base} : IsDraft(x, n)}
  <1> HIDE DEF m
  <1>5. g[{}] \in V
    BY <1>3, <1>4
  <1>6. ASSUME NEW k \in 1 .. m, g[1 .. k - 1] \in V PROVE g[1 .. k] \in V
    <2> DEFINE x == g[1 .. k - 1]
               y == g[1 .. k]
    <2>1. IsDraft(x, n) /\ y = Supply(definition, x, fields[k]) /\ IsValue(fields[k][2])
      BY <1>1, <1>4, <1>6
    <2>2. y \in {g[1 .. j] : j \in 0 .. m}
      BY <1>1
    <2> HIDE DEF x, y, V
    <2>3. IsDraft(y, n)
      BY <2>1, SupplyIs
    <2> QED
      BY <2>2, <2>3 DEF V, y
  <1>7. g[1 .. m] \in V
    <2> HIDE DEF V
    <2> QED
      BY <1>1, <1>5, <1>6, FoldStays
  <1>8. IsDraft(made, n)
    BY <1>4, <1>7
  <1> QED
    BY <1>2, <1>8, CompleteIs DEF n

\* What a version leaves of a payload.
LEMMA TruncateIs ==
  ASSUME NEW definition, definition.base_payload_len \in Nat, NEW version,
         NEW bytes \in Seq(Octet)
  PROVE  Truncate(definition, version, bytes) \in Seq(Octet)
  <1> DEFINE n == Len(bytes)
             used == {i \in 1 .. n : i = 1 \/ bytes[i] # 0}
             trailing == remove_trailing_zeroes(bytes)
  <1>1. n \in Nat /\ DOMAIN bytes = 1 .. n /\ used \in SUBSET (1 .. n)
    OBVIOUS
  <1>2. trailing = IF used = {} THEN 0 ELSE CHOOSE i \in used : \A j \in used : j <= i
    BY <1>1 DEF remove_trailing_zeroes
  <1> HIDE DEF trailing, used, n
  <1>3. (CHOOSE i \in used : \A j \in used : j <= i) = Top(used)
    BY DEF Top
  <1>4. used # {} => Top(used) \in 1 .. n
    BY <1>1, TopIn
  <1>5. trailing \in Nat
    <2>1. CASE used = {}
      BY <1>2, <2>1
    <2>2. CASE used # {}
      <3>1. trailing = Top(used)
        BY <1>2, <1>3, <2>2, Zenon
      <3> QED
        BY <1>1, <1>4, <2>2, <3>1
    <2> QED
      BY <2>1, <2>2
  <1>6. \A count \in Nat : Take(bytes, count) \in Seq(Octet)
    <2> SUFFICES ASSUME NEW count \in Nat PROVE Take(bytes, count) \in Seq(Octet)
      OBVIOUS
    <2>1. \A i \in DOMAIN bytes : bytes[i] \in Octet
      OBVIOUS
    <2> HIDE DEF Octet
    <2> DEFINE m == IF count < Len(bytes) THEN count ELSE Len(bytes)
    <2>2. m \in Nat /\ m <= Len(bytes)
      OBVIOUS
    <2>3. Take(bytes, count) = SubSeq(bytes, 1, m)
      BY DEF Take
    <2> HIDE DEF m
    <2> QED
      BY <2>2, <2>3
  <1>7. Truncate(definition, version, bytes) \in {Take(bytes, definition.base_payload_len),
                                                  Take(bytes, trailing)}
    BY DEF Truncate, trailing
  <1> QED
    BY <1>5, <1>6, <1>7

\* A message built from fields is made of bytes.
LEMMA FieldsMakeBytes ==
  ASSUME NEW dialect, IsDialect(dialect), NEW version, NEW composition \in Compositions,
         message_from_fields(dialect, version, composition[1], composition[2]).error = ""
  PROVE  message_from_fields(dialect, version, composition[1], composition[2]).message.payload
           \in Seq(Octet)
  <1> DEFINE fields == composition[2]
             named == DefinitionNamed(dialect, composition[1])
             definition == CHOOSE d \in named : TRUE
             draft == CompletePayload(dialect, definition, fields)
             built == message_from_fields(dialect, version, composition[1], fields)
  <1>1. IsList(fields) /\ \A i \in DOMAIN fields : IsValue(fields[i][2])
    BY CompositionAssumption
  <1>2. named # {} /\ built = MessageOf(dialect, definition, version, draft)
    BY DEF message_from_fields
  <1>3. IsDefinition(definition)
    <2>1. definition \in named
      BY <1>2
    <2> HIDE DEF definition
    <2> QED
      BY <2>1 DEF DefinitionNamed, IsDialect
  <1>4. built.error = ""
    OBVIOUS
  <1> HIDE DEF fields, definition, built
  <1>5. IsDraft(draft, definition.encoded_size)
    BY <1>1, <1>3, PayloadIs
  <1> HIDE DEF draft
  <1>6. draft.payload \in Seq(Octet)
    <2>1. definition.encoded_size \in Nat
      BY <1>3 DEF IsDefinition
    <2> QED
      BY <1>5, <2>1, IsSequence DEF IsDraft
  <1>7. built.message.payload = Truncate(definition, version, draft.payload)
    <2>1. CASE draft.error # ""
      <3>1. built = [error |-> draft.error]
        BY <1>2, <2>1 DEF MessageOf
      <3> QED
        BY <1>4, <2>1, <3>1
    <2>2. CASE draft.error = ""
      BY <1>2, <2>2 DEF MessageOf, Message
    <2> QED
      BY <2>1, <2>2
  <1>8. built.message.payload \in Seq(Octet)
    BY <1>3, <1>6, <1>7, TruncateIs DEF IsDefinition
  <1> QED
    BY <1>8 DEF built, fields

-----------------------------------------------------------------------------
(***************************************************************************)
(* The dialects of the peers.                                              *)
(***************************************************************************)
\* What a peer has loaded is as it should be, and what it is loading too.
DialectsInv ==
  /\ CompilerInv /\ DOMAIN dialects = Peers
  /\ \A p \in Peers : Loaded(p) => IsDialect(dialects[p].dialect)

\* At first nothing is loaded.
LEMMA DialectsInit == InitSession => DialectsInv
  <1> SUFFICES ASSUME InitSession PROVE DialectsInv
    OBVIOUS
  <1>1. CompilerInv
    BY NoParses, NoOutcome DEF InitSession, CompilerInv
  <1>2. DOMAIN dialects = Peers /\ \A p \in Peers : ~Loaded(p)
    BY DEF InitSession, NotLoaded, Loaded
  <1> QED
    BY <1>1, <1>2 DEF DialectsInv

\* What a load gives a peer.
LEMMA DialectOfIs ==
  ASSUME NEW compiled, IsOutcome(compiled), NEW instance
  PROVE  DialectOf(compiled, instance).status = "ok"
           => IsDialect(DialectOf(compiled, instance).dialect)
  <1> DEFINE dialect == from_profile(compiled.profile, instance)
             d == DialectOf(compiled, instance)
  <1>1. CASE compiled.status # "ok"
    <2>1. d.status = compiled.status
      BY <1>1 DEF DialectOf
    <2> QED
      BY <1>1, <2>1
  <1>2. CASE compiled.status = "ok" /\ dialect.error # ""
    <2>1. d.status = "error"
      BY <1>2 DEF DialectOf
    <2> QED
      BY <2>1
  <1>3. CASE compiled.status = "ok" /\ dialect.error = ""
    <2>1. d.dialect = dialect
      BY <1>3 DEF DialectOf
    <2>2. IsDialect(dialect)
      BY <1>3, LoadIs DEF IsOutcome
    <2> QED
      BY <2>1, <2>2
  <1> QED
    BY <1>1, <1>2, <1>3

\* Every step keeps the invariant.
LEMMA DialectsStep == DialectsInv /\ [Next]_<<session, vars>> => DialectsInv'
  <1> SUFFICES ASSUME DialectsInv, [Next]_<<session, vars>> PROVE DialectsInv'
    OBVIOUS
  <1>1. ASSUME UNCHANGED dialects, CompilerInv' PROVE DialectsInv'
    BY <1>1 DEF DialectsInv, Loaded
  <1>2. CASE UNCHANGED <<parses, outcome, dialects>>
    BY <1>1, <1>2 DEF DialectsInv, CompilerInv
  <1>3. CASE StartLoading
    <2>1. Enter(<<>>, scenario.root[Loader], scenario.extensions[Loader]) /\ UNCHANGED dialects
      BY <1>3 DEF StartLoading, session
    <2> QED
      BY <1>1, <2>1, EnterTyped, NoParses
  <1>4. CASE CompileStep
    BY <1>1, <1>4, CompilerTyped DEF CompileStep, session, DialectsInv
  <1>5. CASE FinishLoading
    <2> DEFINE loaded == DialectOf(outcome, Len(loading))
    <2>1. /\ dialects' = [dialects EXCEPT ![Loader] = loaded]
          /\ outcome' = Running /\ parses' = parses
      BY <1>5 DEF FinishLoading
    <2>2. loaded.status = "ok" => IsDialect(loaded.dialect)
      BY DialectOfIs DEF DialectsInv, CompilerInv
    <2>3. CompilerInv'
      BY <2>1, NoOutcome DEF DialectsInv, CompilerInv
    <2> HIDE DEF loaded
    <2>4. DOMAIN dialects' = Peers
      BY <2>1 DEF DialectsInv
    <2>5. ASSUME NEW p \in Peers, Loaded(p)' PROVE IsDialect(dialects[p].dialect)'
      <3>1. dialects'[p] \in {dialects[p], loaded} /\ dialects'[p].status = "ok"
        BY <2>1, <2>5 DEF DialectsInv, Loaded
      <3>2. IsDialect(dialects'[p].dialect)
        <4>1. CASE dialects'[p] = dialects[p]
          BY <3>1, <4>1 DEF DialectsInv, Loaded
        <4>2. CASE dialects'[p] = loaded
          BY <2>2, <3>1, <4>2
        <4> QED
          BY <3>1, <4>1, <4>2
      <3> QED
        BY <3>2 DEF IsDialect, IsVersion, IsDefinition, IsDefinedField, IsEnumeration, IsValued,
           IsList
    <2> QED
      BY <2>3, <2>4, <2>5 DEF DialectsInv
  <1> QED
    BY <1>2, <1>3, <1>4, <1>5
    DEF Next, BuildFromFields, BuildFromPayload, Hold, Serialize, Receive, session, vars

\* It is what the exchange of messages needs.
LEMMA DialectsAreTyped == DialectsInv => DialectsTyped
  <1> SUFFICES ASSUME DialectsInv PROVE DialectsTyped
    OBVIOUS
  <1>1. ASSUME NEW p \in Peers, Loaded(p),
               NEW id \in DOMAIN dialects[p].dialect.messages
        PROVE  LET definition == dialects[p].dialect.messages[id] IN
               /\ id \in 0 .. MaxMessageId
               /\ definition.base_payload_len \in 0 .. MAX_PAYLOAD_LEN
               /\ definition.encoded_size \in 0 .. MAX_PAYLOAD_LEN
               /\ definition.extra_crc \in 0 .. 255
    <2> DEFINE d == dialects[p].dialect.messages[id]
    <2>1. id \in 0 .. MaxMessageId /\ IsDefinition(d) /\ d.encoded_size <= MAX_PAYLOAD_LEN
      BY <1>1 DEF DialectsInv, IsDialect
    <2> HIDE DEF d
    <2>2. /\ d.base_payload_len \in 0 .. MAX_PAYLOAD_LEN
          /\ d.encoded_size \in 0 .. MAX_PAYLOAD_LEN /\ d.extra_crc \in 0 .. 255
      BY <2>1, PayloadAssumption DEF IsDefinition
    <2> QED
      BY <2>1, <2>2 DEF d
  <1>2. ASSUME Fresh, NEW version \in Versions, NEW composition \in Compositions,
               message_from_fields(dialects[First].dialect, version,
                                   composition[1], composition[2]).error = ""
        PROVE  message_from_fields(dialects[First].dialect, version,
                                   composition[1], composition[2]).message.payload
                 \in Seq(0 .. MaxId)
    <2>1. IsDialect(dialects[First].dialect)
      BY <1>2, SessionAssumption DEF Fresh, Ready, DialectsInv
    <2> QED
      BY <1>2, <2>1, FieldsMakeBytes DEF Octet
  <1> QED
    BY <1>1, <1>2 DEF DialectsTyped

-----------------------------------------------------------------------------
(***************************************************************************)
(* Writing frames.  Whatever the buffers held before, they keep their      *)
(* size, and the frame written last holds what was to be written.          *)
(***************************************************************************)
\* What a dialect hands over fits in a frame.
LEMMA EncodedIs ==
  ASSUME DialectsTyped, MessagesTyped, Ready, NEW p \in Peers, message[p] # None,
         NEW encoder \in Peers, NEW version \in Versions
  PROVE  EncodedRight(Encoded(dialects[encoder].dialect, version, message[p][1]))
  <1> DEFINE dialect == dialects[encoder].dialect
             msg == message[p][1]
             id == msg.definition.id
             bytes == IF version = "V1" THEN padded(msg.payload, msg.definition.base_payload_len)
                      ELSE msg.payload
             done == encode(dialect, version, msg)
             encoded == Encoded(dialect, version, msg)
  <1>1. /\ msg.payload \in Seq(0 .. MaxId)
        /\ msg.definition.base_payload_len \in 0 .. MAX_PAYLOAD_LEN
    BY DEF MessagesTyped
  <1>2. id \in DOMAIN dialect.messages =>
          id \in 0 .. LargestId /\ dialect.messages[id].extra_crc \in 0 .. 255
    BY DEF DialectsTyped, Ready, MaxMessageId, LargestId
  <1>3. bytes \in Seq(0 .. MaxId)
    <2>1. 0 \in 0 .. MaxId /\ msg.definition.base_payload_len \in Nat
      <3>1. 0 \in 0 .. MaxId
        BY SizesAre
      <3> HIDE DEF msg
      <3>2. msg.definition.base_payload_len \in Nat
        BY <1>1, MaxPayload
      <3> QED
        BY <3>1, <3>2
    <2> DEFINE Ids == 0 .. MaxId
    <2> HIDE DEF Ids
    <2>2. padded(msg.payload, msg.definition.base_payload_len) \in Seq(Ids)
      BY <1>1, <2>1, PaddedIs DEF Ids
    <2> QED
      BY <1>1, <2>2 DEF Ids
  <1>4. CASE done.error # ""
    <2>1. encoded = [error |-> done.error]
      BY <1>4 DEF Encoded
    <2> HIDE DEF encoded, done
    <2>2. encoded.error # ""
      BY <1>4, <2>1
    <2>3. EncodedRight(encoded)
      BY <2>2 DEF EncodedRight
    <2> QED
      BY <2>3 DEF encoded
  <1>5. CASE done.error = ""
    <2>1. /\ id \in DOMAIN dialect.messages /\ ~(Len(bytes) > MAX_PAYLOAD_LEN)
          /\ done.payload = bytes
      BY <1>5 DEF encode
    <2>2. encoded = [error |-> "", id |-> id, payload |-> done.payload,
                     extra_crc |-> dialect.messages[id].extra_crc]
      BY <1>5 DEF Encoded
    <2>3. Len(bytes) <= MAX_PAYLOAD_LEN
      BY <1>3, <2>1, MaxPayload
    <2> HIDE DEF encoded, bytes, done, dialect, id
    <2>4. EncodedRight(encoded)
      BY <1>2, <1>3, <2>1, <2>2, <2>3 DEF EncodedRight, Byte
    <2> QED
      BY <2>4 DEF encoded, dialect
  <1> QED
    BY <1>4, <1>5

\* A frame in a buffer, signed if asked for.
Framed(frame, v, hdr, encoded, signs) ==
  /\ frame \in Buffer(v)
  /\ Holds(frame, v, hdr, encoded.id, encoded.payload, encoded.extra_crc)
  /\ signs => v = "V2" /\ SignedBy(frame, Key)
  /\ v = "V1" => hdr.system_id <= MaxId /\ encoded.id <= MaxId

\* What Serialize writes: into the peer's own buffer, or by the write functions into a
\* new one.
IntoOf(own, signs, r, v, hdr, encoded) ==
  IF own THEN serialize_message(r, v, hdr, encoded, signs)
  ELSE write_versioned_msg_with_dialect(v, hdr, encoded)

FrameOf(own, signs, v, hdr, encoded, into, timestamp) ==
  IF ~own /\ signs
  THEN write_versioned_msg_with_dialect_signed(v, hdr, encoded, Key, 1, timestamp).raw
  ELSE IF signs THEN sign_message(into.raw, Key, 1, timestamp) ELSE into.raw

FrameMade(into, frame, v, hdr, encoded, signs) ==
  /\ into.raw \in Buffer(v)
  /\ into.error = "" => encoded.error = "" /\ Framed(frame, v, hdr, encoded, signs)

\* A frame written into any buffer of its version.
LEMMA OwnFrame ==
  ASSUME NEW v \in Versions, NEW r \in Buffer(v), NEW hdr \in Header, NEW encoded,
         EncodedRight(encoded), NEW signs \in BOOLEAN, signs => v = "V2",
         NEW timestamp \in Nat, NEW into, into = serialize_message(r, v, hdr, encoded, signs)
  PROVE  FrameMade(into, FrameOf(TRUE, signs, v, hdr, encoded, into, timestamp),
                   v, hdr, encoded, signs)
  <1>1. Written(into, v, hdr, encoded, signs)
    BY SerializeWrites
  <1>2. ASSUME into.error = "", signs
        PROVE  Framed(sign_message(into.raw, Key, 1, timestamp), v, hdr, encoded, signs)
    <2>1. /\ v = "V2" /\ into.raw \in Buffer("V2") /\ is_signed(into.raw, "V2")
          /\ Holds(into.raw, "V2", hdr, encoded.id, encoded.payload, encoded.extra_crc)
      BY <1>1, <1>2 DEF Written
    <2>2. 1 \in Byte /\ Key \in Nat
      BY SessionAssumption DEF Byte
    <2> DEFINE s == sign_message(into.raw, Key, 1, timestamp)
    <2>3. /\ s \in Buffer("V2") /\ SignedBy(s, Key)
          /\ Holds(s, "V2", hdr, encoded.id, encoded.payload, encoded.extra_crc)
      BY <2>1, <2>2, SignWrites
    <2> HIDE DEF s
    <2> QED
      BY <2>1, <2>3 DEF Framed, s
  <1>3. ASSUME into.error = "", ~signs
        PROVE  Framed(into.raw, v, hdr, encoded, signs)
    BY <1>1, <1>3 DEF Written, Framed
  <1> QED
    BY <1>1, <1>2, <1>3 DEF Written, FrameMade, FrameOf

\* The write function for a signed frame fails only where the one for a frame does.
LEMMA SignedFrames ==
  ASSUME NEW hdr \in Header, NEW encoded, EncodedRight(encoded), encoded.error = "",
         NEW timestamp \in Nat
  PROVE  Framed(write_versioned_msg_with_dialect_signed("V2", hdr, encoded, Key, 1, timestamp).raw,
                "V2", hdr, encoded, TRUE)
  <1> DEFINE done == serialize_message(NewRaw("V2"), "V2", hdr, encoded, TRUE)
             signed == write_versioned_msg_with_dialect_signed(
                         "V2", hdr, encoded, Key, 1, timestamp)
  <1>1. "V2" \in Versions /\ NewRaw("V2") \in Buffer("V2")
    BY NewRawIs DEF Versions
  <1>2. \E buffer : done = [error |-> "", raw |-> buffer]
    BY DEF serialize_message
  <1>3. signed = IF done.error # "" THEN done
                 ELSE [done EXCEPT !.raw = sign_message(done.raw, Key, 1, timestamp)]
    BY DEF write_versioned_msg_with_dialect_signed
  <1> HIDE DEF done, signed
  <1>4. signed.raw = sign_message(done.raw, Key, 1, timestamp) /\ done.error = ""
    <2>1. PICK buffer : done = [error |-> "", raw |-> buffer]
      BY <1>2
    <2>2. done.error = "" /\ done.raw = buffer
      BY <2>1
    <2> DEFINE s == sign_message(done.raw, Key, 1, timestamp)
    <2>3. signed = [done EXCEPT !.raw = s]
      BY <1>3, <2>2
    <2> HIDE DEF s
    <2>4. signed.raw = s
      BY <2>1, <2>3
    <2> QED
      BY <2>2, <2>4 DEF s
  <1>5. Framed(sign_message(done.raw, Key, 1, timestamp), "V2", hdr, encoded, TRUE)
    <2>1. done = serialize_message(NewRaw("V2"), "V2", hdr, encoded, TRUE)
      BY DEF done
    <2>2. FrameMade(done, FrameOf(TRUE, TRUE, "V2", hdr, encoded, done, timestamp),
                    "V2", hdr, encoded, TRUE)
      BY <1>1, <2>1, OwnFrame
    <2> QED
      BY <1>4, <2>2 DEF FrameMade, FrameOf
  <1> QED
    BY <1>4, <1>5 DEF signed

\* The last frame written, and what goes with it.
LastRight(l) ==
  /\ l.version \in Versions /\ l.raw \in Buffer(l.version) /\ l.header \in Header
  /\ l.id \in 0 .. LargestId /\ l.payload \in Seq(0 .. MaxId)
  /\ Holds(l.raw, l.version, l.header, l.id, l.payload, l.extra_crc)
  /\ l.signed => l.version = "V2" /\ SignedBy(l.raw, Key)
  /\ l.version = "V1" => l.header.system_id <= MaxId /\ l.id <= MaxId

FramesInv ==
  /\ BuffersTyped /\ MessagesTyped
  /\ frames \in 0 .. MaxFrames
  /\ last # None => LastRight(last[1])
  /\ wire # None => /\ Ready /\ last # None
                    /\ last[1].peer \in Peers
                    /\ wire[1].version = last[1].version
                    /\ wire[1].bytes = raw_bytes(last[1].raw, last[1].version)

LEMMA FramesInit == InitSession => FramesInv
  <1> SUFFICES ASSUME InitSession PROVE FramesInv
    OBVIOUS
  <1>1. \A v \in Versions : NewRaw(v) \in Buffer(v)
    BY NewRawIs
  <1>2. BuffersTyped
    BY <1>1 DEF InitSession, BuffersTyped, Versions
  <1>3. frames \in 0 .. MaxFrames
    BY SessionAssumption DEF InitSession
  <1>4. MessagesTyped
    BY DEF InitSession, MessagesTyped
  <1> QED
    BY <1>2, <1>3, <1>4 DEF InitSession, FramesInv

\* The frame that Serialize makes, either way.
LEMMA FrameIs ==
  ASSUME NEW own \in BOOLEAN, NEW signs \in BOOLEAN, NEW v \in Versions, NEW r \in Buffer(v),
         NEW hdr \in Header, NEW encoded, EncodedRight(encoded), signs => v = "V2",
         NEW timestamp \in Nat, NEW into, into = IntoOf(own, signs, r, v, hdr, encoded)
  PROVE  FrameMade(into, FrameOf(own, signs, v, hdr, encoded, into, timestamp),
                   v, hdr, encoded, signs)
  <1>1. CASE own
    <2>1. into = serialize_message(r, v, hdr, encoded, signs) /\ own = TRUE
      BY <1>1 DEF IntoOf
    <2> QED
      BY <2>1, OwnFrame
  <1>2. CASE ~own
    <2>1. /\ into = serialize_message(NewRaw(v), v, hdr, encoded, FALSE)
          /\ NewRaw(v) \in Buffer(v)
      BY <1>2, NewRawIs DEF IntoOf, write_versioned_msg_with_dialect
    <2>2. FrameMade(into, FrameOf(TRUE, FALSE, v, hdr, encoded, into, timestamp),
                    v, hdr, encoded, FALSE)
      BY <2>1, OwnFrame
    <2>3. FrameMade(into, into.raw, v, hdr, encoded, FALSE)
      BY <2>2 DEF FrameOf
    <2>4. CASE signs
      <3> DEFINE frame == FrameOf(own, signs, v, hdr, encoded, into, timestamp)
      <3>1. v = "V2" /\ signs = TRUE
        BY <2>4
      <3>2. frame = write_versioned_msg_with_dialect_signed(
                      "V2", hdr, encoded, Key, 1, timestamp).raw
        BY <1>2, <3>1 DEF FrameOf
      <3> HIDE DEF frame
      <3>3. encoded.error = "" => Framed(frame, v, hdr, encoded, signs)
        BY <3>1, <3>2, SignedFrames
      <3>4. FrameMade(into, frame, v, hdr, encoded, signs)
        BY <2>3, <3>3 DEF FrameMade
      <3> QED
        BY <3>4 DEF frame
    <2>5. CASE ~signs
      <3>1. signs = FALSE /\ FrameOf(own, signs, v, hdr, encoded, into, timestamp) = into.raw
        BY <2>5 DEF FrameOf
      <3> QED
        BY <2>3, <3>1
    <2> QED
      BY <2>4, <2>5
  <1> QED
    BY <1>1, <1>2

LEMMA SerializeStep == DialectsTyped /\ FramesInv /\ Serialize => FramesInv'
  <1> SUFFICES ASSUME DialectsTyped, FramesInv, Serialize PROVE FramesInv'
    OBVIOUS
  <1>1. frames \in Nat /\ frames' \in 0 .. MaxFrames
    <2>1. frames \in 0 .. MaxFrames /\ MaxFrames \in Nat
      BY SessionAssumption DEF FramesInv
    <2>2. frames < MaxFrames /\ frames' = frames + 1
      BY Zenon DEF Serialize
    <2> QED
      BY <2>1, <2>2
  <1>2. PICK p \in {q \in Peers : message[q] # None}, encoder \in Peers, v \in Versions,
             hdr \in Headers, signing \in BOOLEAN, own \in BOOLEAN :
          LET encoded == Encoded(dialects[encoder].dialect, v, message[p][1])
              signs == signing /\ v = "V2"
              into  == IntoOf(own, signs, raw[p][v], v, hdr, encoded)
              frame == FrameOf(own, signs, v, hdr, encoded, into, frames)
          IN  /\ raw' = IF ~own THEN raw
                        ELSE [raw EXCEPT ![p][v] = IF into.error = "" THEN frame ELSE into.raw]
              /\ IF into.error # "" THEN UNCHANGED <<wire, last, crossed>>
                 ELSE /\ wire' = Some([version |-> v, bytes |-> raw_bytes(frame, v)])
                      /\ last' = Some(LastFrame(p, encoder, v, hdr, encoded, signs, frame))
                      /\ crossed' = (crossed \/ v = "V1")
    BY Zenon DEF Serialize, IntoOf, FrameOf
  <1> DEFINE encoded == Encoded(dialects[encoder].dialect, v, message[p][1])
             signs == signing /\ v = "V2"
             into  == IntoOf(own, signs, raw[p][v], v, hdr, encoded)
             frame == FrameOf(own, signs, v, hdr, encoded, into, frames)
             new == IF into.error = "" THEN frame ELSE into.raw
  <1>3. /\ raw' = IF ~own THEN raw ELSE [raw EXCEPT ![p][v] = new]
        /\ into.error # "" => wire' = wire /\ last' = last
        /\ into.error = "" =>
             /\ wire' = Some([version |-> v, bytes |-> raw_bytes(frame, v)])
             /\ last' = Some(LastFrame(p, encoder, v, hdr, encoded, signs, frame))
    BY <1>2
  <1>4. EncodedRight(encoded)
    <2>1. Ready /\ MessagesTyped
      BY DEF Serialize, FramesInv
    <2> QED
      BY <2>1, EncodedIs
  <1>5. raw[p][v] \in Buffer(v) /\ hdr \in Header /\ signs \in BOOLEAN /\ (signs => v = "V2")
    BY SessionAssumption DEF FramesInv, BuffersTyped
  <1> HIDE DEF encoded, signs
  <1>6. /\ into.raw \in Buffer(v)
        /\ into.error = "" => encoded.error = "" /\ Framed(frame, v, hdr, encoded, signs)
    <2> DEFINE it == into
    <2> HIDE DEF it
    <2>1. it = IntoOf(own, signs, raw[p][v], v, hdr, encoded)
      BY DEF it
    <2>2. FrameMade(it, FrameOf(own, signs, v, hdr, encoded, it, frames), v, hdr, encoded, signs)
      BY <1>1, <1>4, <1>5, <2>1, FrameIs
    <2> QED
      BY <2>2 DEF it, FrameMade
  <1> HIDE DEF into, frame
  <1>7. new \in Buffer(v)
    BY <1>6 DEF Framed
  <1> HIDE DEF new
  <1>8. BuffersTyped'
    <2>1. CASE ~own
      BY <1>3, <2>1 DEF FramesInv, BuffersTyped
    <2>2. CASE own
      <3>1. raw' = [raw EXCEPT ![p][v] = new]
        BY <1>3, <2>2
      <3>2. raw \in [Peers -> [Versions -> Buffer("V1") \union Buffer("V2")]]
        BY DEF FramesInv, BuffersTyped
      <3>3. \A q \in Peers, w \in Versions : raw[q][w] \in Buffer(w)
        BY DEF FramesInv, BuffersTyped
      <3>4. new \in Buffer("V1") \union Buffer("V2")
        BY <1>7 DEF Versions
      <3>5. raw' \in [Peers -> [Versions -> Buffer("V1") \union Buffer("V2")]]
        BY <3>1, <3>2, <3>4
      <3>6. ASSUME NEW q \in Peers, NEW w \in Versions
            PROVE  raw'[q][w] \in Buffer(w)
        BY <1>7, <3>1, <3>2, <3>3
      <3> QED
        BY <3>5, <3>6 DEF BuffersTyped
    <2> QED
      BY <2>1, <2>2
  <1>9a. MessagesTyped' /\ Ready'
    BY DEF Serialize, FramesInv, MessagesTyped, Ready, Loaded
  <1>9. CASE into.error # ""
    BY <1>1, <1>3, <1>8, <1>9, <1>9a DEF FramesInv
  <1>10. CASE into.error = ""
    <2> DEFINE l == LastFrame(p, encoder, v, hdr, encoded, signs, frame)
    <2>1. /\ l.version = v /\ l.raw = frame /\ l.header = hdr /\ l.id = encoded.id
          /\ l.payload = encoded.payload /\ l.extra_crc = encoded.extra_crc /\ l.signed = signs
          /\ l.peer = p
      BY DEF LastFrame
    <2>2. encoded.error = "" /\ Framed(frame, v, hdr, encoded, signs)
      BY <1>6, <1>10
    <2>3. encoded.id \in 0 .. LargestId /\ encoded.payload \in Seq(0 .. MaxId)
      BY <1>4, <2>2 DEF EncodedRight
    <2>4. last' = <<l>> /\ wire' = <<[version |-> v, bytes |-> raw_bytes(frame, v)]>>
      BY <1>3, <1>10 DEF Some
    <2> HIDE DEF l
    <2>5. LastRight(l)
      BY <1>5, <2>1, <2>2, <2>3 DEF LastRight, Framed
    <2>6. last'[1] = l /\ last' # None
      BY <2>4 DEF None
    <2>7. LastRight(last[1])'
      <3>1. LastRight(last'[1])
        BY <2>5, <2>6
      <3> QED
        BY <3>1 DEF LastRight, Holds, HoldsHeader, HoldsPayload, HoldsChecksum, SignedBy
    <2>8. /\ wire'[1].version = last'[1].version
          /\ wire'[1].bytes = raw_bytes(last'[1].raw, last'[1].version)
      BY <2>1, <2>4, <2>6
    <2> QED
      BY <1>1, <1>8, <1>9a, <2>1, <2>6, <2>7, <2>8 DEF FramesInv
  <1> QED
    BY <1>9, <1>10

\* Both peers have another.
LEMMA OthersAre == \A p \in Peers : Other(p) \in Peers
  <1> SUFFICES ASSUME NEW p \in Peers PROVE Other(p) \in Peers
    OBVIOUS
  <1>1. \E q \in Peers : q # p
    BY SessionAssumption
  <1> QED
    BY <1>1 DEF Other

\* What the other peer reads are the bytes that were sent.
LEMMA ReceiveTyped ==
  ASSUME DialectsTyped, FramesInv, Receive
  PROVE  MessagesTyped'
  <1> DEFINE l == last[1]
             v == wire[1].version
             reader == Other(l.peer)
             frame == FromFrame(wire[1].bytes, v)
             id == message_id(frame, v)
             dialect == dialects[reader].dialect
             bytes == payload(frame, v)
             decoded == decode(dialect, v, id, bytes)
             valid == /\ id \in DOMAIN dialect.messages
                      /\ has_valid_crc(frame, v, dialect.messages[id].extra_crc)
  <1>1. message' = IF valid /\ decoded.error = ""
                   THEN [message EXCEPT ![reader] = Some(decoded.message)] ELSE message
    BY DEF Receive
  <1>2. /\ wire # None /\ last # None /\ Ready /\ LastRight(l) /\ reader \in Peers
        /\ v = l.version /\ wire[1].bytes = raw_bytes(l.raw, l.version)
    BY OthersAre DEF Receive, FramesInv
  <1>3. bytes \in Seq(0 .. MaxId)
    <2>1. /\ v \in Versions /\ l.raw \in Buffer(v) /\ l.payload \in Seq(0 .. MaxId)
          /\ Holds(l.raw, v, l.header, l.id, l.payload, l.extra_crc)
          /\ frame = FromFrame(raw_bytes(l.raw, v), v)
      BY <1>2 DEF LastRight
    <2> HIDE DEF l, v, frame
    <2>2. frame \in Buffer(v) /\ Holds(frame, v, l.header, l.id, l.payload, l.extra_crc)
      BY <2>1, ReceivedIs
    <2>3. Reads(frame, v, l.header, l.id, l.payload, l.extra_crc)
      BY <2>1, <2>2, HoldsReads
    <2> QED
      BY <2>1, <2>3 DEF Reads
  <1>4. CASE valid /\ decoded.error = ""
    <2>1. decoded.message.payload = bytes /\ decoded.message.definition = dialect.messages[id]
      BY <1>4 DEF decode, Message
    <2>2. dialect.messages[id].base_payload_len \in 0 .. MAX_PAYLOAD_LEN
      BY <1>2, <1>4 DEF DialectsTyped, Ready
    <2>3. message' = [message EXCEPT ![reader] = Some(decoded.message)]
      BY <1>1, <1>4
    <2> HIDE DEF reader, decoded, bytes, dialect, id
    <2>4. Some(decoded.message)[1] = decoded.message
      BY DEF Some
    <2>5. MessagesTyped
      BY DEF FramesInv
    <2> QED
      BY <1>3, <2>1, <2>2, <2>3, <2>4, <2>5 DEF MessagesTyped
  <1>5. CASE ~(valid /\ decoded.error = "")
    <2>1. message' = message
      BY <1>1, <1>5
    <2> QED
      BY <2>1 DEF FramesInv, MessagesTyped
  <1> QED
    BY <1>4, <1>5

\* A message that is built is one of the dialect's.
LEMMA BuiltTyped ==
  ASSUME DialectsTyped, MessagesTyped, BuildFromFields \/ BuildFromPayload
  PROVE  MessagesTyped'
  <1>1. Fresh /\ Loaded(First) /\ First \in Peers
    BY SessionAssumption DEF BuildFromFields, BuildFromPayload, Fresh, Ready
  <1> DEFINE dialect == dialects[First].dialect
  <1>2. \A id \in DOMAIN dialect.messages :
          dialect.messages[id].base_payload_len \in 0 .. MAX_PAYLOAD_LEN
    BY <1>1 DEF DialectsTyped
  <1>3. ASSUME NEW msg, Hold(First, msg), msg.payload \in Seq(0 .. MaxId),
               \E id \in DOMAIN dialect.messages : msg.definition = dialect.messages[id]
        PROVE  MessagesTyped'
    <2>1. message' = [message EXCEPT ![First] = Some(msg)] /\ Some(msg)[1] = msg
      BY <1>3 DEF Hold, Some
    <2>2. msg.definition.base_payload_len \in 0 .. MAX_PAYLOAD_LEN
      BY <1>2, <1>3
    <2> QED
      BY <1>3, <2>1, <2>2 DEF MessagesTyped
  <1>4. CASE BuildFromFields
    <2>1. PICK version \in Versions, composition \in Compositions :
            LET built == message_from_fields(dialect, version, composition[1], composition[2])
            IN  built.error = "" /\ Hold(First, built.message)
      BY <1>4 DEF BuildFromFields
    <2> DEFINE name == composition[1]
               named == DefinitionNamed(dialect, name)
               definition == CHOOSE d \in named : TRUE
               draft == CompletePayload(dialect, definition, composition[2])
               built == message_from_fields(dialect, version, name, composition[2])
    <2>2. built.error = "" /\ Hold(First, built.message)
      BY <2>1
    <2>3. built.message.payload \in Seq(0 .. MaxId)
      BY <1>1, <2>2 DEF DialectsTyped
    <2>4. named # {}
      BY <2>2 DEF message_from_fields
    <2>5. built = MessageOf(dialect, definition, version, draft)
      BY <2>4 DEF message_from_fields
    <2>6. \E id \in DOMAIN dialect.messages : definition = dialect.messages[id]
      <3>1. definition \in named
        BY <2>4
      <3> HIDE DEF definition
      <3> QED
        BY <3>1 DEF DefinitionNamed
    <2> HIDE DEF built, definition, draft, dialect
    <2>7. built.message.definition = definition
      <3>1. CASE draft.error # ""
        <4>1. built = [error |-> draft.error]
          BY <2>5, <3>1 DEF MessageOf
        <4> QED
          BY <2>2, <3>1, <4>1
      <3>2. CASE draft.error = ""
        BY <2>5, <3>2 DEF MessageOf, Message
      <3> QED
        BY <3>1, <3>2
    <2> QED
      BY <1>3, <2>2, <2>3, <2>6, <2>7
  <1>5. CASE BuildFromPayload
    <2>1. PICK version \in Versions, given \in Payloads :
            LET built == message_from_payload(dialect, version, given[1], given[2])
            IN  built.error = "" /\ Hold(First, built.message)
      BY <1>5 DEF BuildFromPayload
    <2> DEFINE built == decode(dialect, version, given[1], given[2])
    <2>2. built.error = "" /\ Hold(First, built.message)
      BY <2>1 DEF message_from_payload
    <2>3. given[2] \in Seq(0 .. MaxId)
      BY SessionAssumption DEF MaxId
    <2>4. /\ built.message.payload = given[2] /\ given[1] \in DOMAIN dialect.messages
          /\ built.message.definition = dialect.messages[given[1]]
      BY <2>2 DEF decode, Message
    <2> HIDE DEF built, dialect
    <2> QED
      BY <1>3, <2>2, <2>3, <2>4
  <1> QED
    BY <1>4, <1>5

LEMMA FramesStep == DialectsTyped /\ FramesInv /\ [Next]_<<session, vars>> => FramesInv'
  <1> SUFFICES ASSUME DialectsTyped, FramesInv, [Next]_<<session, vars>> PROVE FramesInv'
    OBVIOUS
  <1>1. CASE Serialize
    BY <1>1, SerializeStep
  <1>2. ASSUME UNCHANGED <<raw, last, frames>>, MessagesTyped',
               wire' = None \/ (wire' = wire /\ (Ready => UNCHANGED <<loading, dialects>>))
        PROVE  FramesInv'
    BY <1>2 DEF FramesInv, BuffersTyped, None, Ready, Loaded
  <1>3. CASE StartLoading \/ CompileStep \/ UNCHANGED <<session, vars>>
    <2>1. UNCHANGED session
      BY <1>3 DEF StartLoading, CompileStep
    <2> QED
      BY <1>2, <2>1 DEF session, FramesInv, MessagesTyped
  <1>4. CASE FinishLoading
    <2>1. loading # <<>> /\ UNCHANGED <<raw, last, frames, wire, message>>
      BY <1>4 DEF FinishLoading
    <2> QED
      BY <1>2, <2>1 DEF FramesInv, MessagesTyped, Ready
  <1>5. CASE BuildFromFields \/ BuildFromPayload
    <2>1. UNCHANGED <<raw, last, frames, wire, loading, dialects>>
      BY <1>5 DEF BuildFromFields, BuildFromPayload, Hold
    <2>2. MessagesTyped'
      BY <1>5, BuiltTyped DEF FramesInv
    <2> QED
      BY <1>2, <2>1, <2>2
  <1>6. CASE Receive
    <2>1. UNCHANGED <<raw, last, frames>> /\ wire' = None
      BY <1>6 DEF Receive
    <2>2. MessagesTyped'
      BY <1>6, ReceiveTyped
    <2> QED
      BY <1>2, <2>1, <2>2
  <1> QED
    BY <1>1, <1>3, <1>4, <1>5, <1>6 DEF Next

\* A frame that is as it should be reads back.
LEMMA FramesRead == FramesInv => ReadBack
  <1> SUFFICES ASSUME FramesInv, last # None PROVE ReadBack
    BY DEF ReadBack
  <1> DEFINE l == last[1]
             r == l.raw
             v == l.version
             s == FromFrame(wire[1].bytes, v)
             good(buffer) == /\ Reads(buffer, v, l.header, l.id, l.payload, l.extra_crc)
                             /\ l.signed => /\ is_signed(buffer, v)
                                            /\ signature_value(buffer)
                                                 = calculate_signature(buffer, Key)
  <1>1. LastRight(l)
    BY DEF FramesInv
  <1>2. /\ v \in Versions /\ r \in Buffer(v) /\ l.header \in Header
        /\ l.id \in 0 .. LargestId /\ l.payload \in Seq(0 .. MaxId)
        /\ Holds(r, v, l.header, l.id, l.payload, l.extra_crc)
        /\ l.signed => v = "V2" /\ SignedBy(r, Key)
        /\ v = "V1" => l.header.system_id <= MaxId /\ l.id <= MaxId
    BY <1>1 DEF LastRight
  <1>3. wire # None => wire[1].bytes = raw_bytes(r, v)
    BY DEF FramesInv
  <1> HIDE DEF l, r, v
  <1>4. good(r)
    BY <1>2, HoldsReads DEF SignedBy
  <1>5. ASSUME wire # None
        PROVE  good(s)
    <2>1. s = FromFrame(raw_bytes(r, v), v)
      BY <1>3, <1>5
    <2> HIDE DEF s
    <2>2. /\ s \in Buffer(v) /\ Holds(s, v, l.header, l.id, l.payload, l.extra_crc)
          /\ \A key : v = "V2" /\ SignedBy(r, key) => SignedBy(s, key)
      BY <1>2, <2>1, ReceivedIs
    <2>3. Reads(s, v, l.header, l.id, l.payload, l.extra_crc)
      BY <1>2, <2>2, HoldsReads
    <2>4. l.signed => v = "V2" /\ SignedBy(s, Key)
      BY <1>2, <2>2
    <2> QED
      BY <2>3, <2>4 DEF SignedBy
  <1>6. deser_with_flags(v, ShortFlags(l.header), MavFrameSer(v, l.header, l.id, l.payload))
          = [error |-> "", header |-> l.header, id |-> l.id, payload |-> l.payload]
    BY <1>2, ShortReads
  <1> HIDE DEF s
  <1> QED
    BY <1>3, <1>4, <1>5, <1>6 DEF ReadBack, ShortFlags, l, r, v, s

\* Both invariants, from the first state on.
LEMMA SessionStep ==
  DialectsInv /\ FramesInv /\ [Next]_<<session, vars>> => DialectsInv' /\ FramesInv'
  BY DialectsStep, DialectsAreTyped, FramesStep

\* Whatever was in a buffer before, and for every header, key, version and size
\* of a frame, the frame just written reads back as what was written, with its
\* checksum and its signature: in the buffer, in the receiver's copy and as a
\* MavFrame; for any definition files that load and any values composed.
THEOREM ReadBackCorrect == Spec => []ReadBack
  BY DialectsInit, FramesInit, SessionStep, FramesRead, PTL DEF Spec

\* Definitions are within the bounds of a frame, whatever the files hold and
\* however they include each other; the fields of a message become bytes,
\* whatever values they are given; buffers keep their size and hold bytes, and
\* so do messages, read with whatever dialect and written again.
THEOREM TypeCorrect == Spec => []TypeOK
  <1>1. DialectsInv /\ FramesInv => TypeOK
    BY DialectsAreTyped DEF FramesInv, TypeOK
  <1> QED
    BY <1>1, DialectsInit, FramesInit, SessionStep, PTL DEF Spec
=============================================================================
