-------------------------- MODULE Detection_proofs --------------------------
(***************************************************************************)
(* The detection of thread groups: the state between passes, and that      *)
(* union and find over all pairs of threads yields the connected sets, for *)
(* any number of threads and futexes.                                      *)
(***************************************************************************)
EXTENDS Detection, Sums_proofs, SequenceTheorems

Mail == [pid : Pids, sent : BOOLEAN]
Unsent(s) == {i \in DOMAIN s : ~s[i].sent}

LEMMA UnsentFinite ==
    ASSUME NEW s \in Seq(Mail)
    PROVE  /\ IsFiniteSet(Unsent(s)) /\ Cardinality(Unsent(s)) \in Nat
           /\ Cardinality(Unsent(s)) <= Len(s) /\ Unsent(s) \subseteq 1..Len(s)
<1>1. Unsent(s) \subseteq 1..Len(s) /\ Len(s) \in Nat
  BY DEF Unsent
<1>2. IsFiniteSet(1..Len(s)) /\ Cardinality(1..Len(s)) = Len(s)
  <2>1. ASSUME NEW n \in Nat PROVE IsFiniteSet(1..n) /\ Cardinality(1..n) = n
    BY FS_Interval
  <2> QED
    BY <1>1, <2>1
<1> QED
  BY <1>1, <1>2, FS_Subset, FS_CardinalityType

LEMMA UnsentAppend ==
    ASSUME NEW s \in Seq(Mail), NEW p \in Pids
    PROVE  LET new == Append(s, [pid |-> p, sent |-> FALSE])
           IN new \in Seq(Mail) /\ Cardinality(Unsent(new)) = Cardinality(Unsent(s)) + 1
<1> DEFINE e == [pid |-> p, sent |-> FALSE]
           new == Append(s, e)
<1>1. e \in Mail /\ ~e.sent
  BY DEF Mail
<1> HIDE DEF e
<1>2. /\ new \in Seq(Mail) /\ Len(new) = Len(s) + 1 /\ DOMAIN new = 1..(Len(s) + 1)
      /\ \A i \in 1..Len(s) : new[i] = s[i]
      /\ new[Len(s) + 1] = e
  BY <1>1
<1> HIDE DEF new
<1>3. Unsent(new) = Unsent(s) \cup {Len(s) + 1}
  <2>1. Len(s) \in Nat /\ DOMAIN s = 1..Len(s)
    OBVIOUS
  <2>2. \A i \in 1..(Len(s) + 1) : i \in 1..Len(s) \/ i = Len(s) + 1
    BY <2>1
  <2> QED
    BY <1>1, <1>2, <2>1, <2>2 DEF Unsent
<1>4. Len(s) + 1 \notin Unsent(s)
  BY UnsentFinite
<1>5. Cardinality(Unsent(new)) = Cardinality(Unsent(s)) + 1
  BY <1>3, <1>4, UnsentFinite, FS_AddElement
<1> QED
  BY <1>2, <1>5 DEF new, e

LEMMA UnsentSend ==
    ASSUME NEW s \in Seq(Mail), NEW i \in Unsent(s)
    PROVE  LET new == [s EXCEPT ![i].sent = TRUE]
           IN new \in Seq(Mail) /\ Cardinality(Unsent(new)) = Cardinality(Unsent(s)) - 1
<1> DEFINE new == [s EXCEPT ![i].sent = TRUE]
<1>1. i \in 1..Len(s) /\ Len(s) \in Nat /\ s[i] \in Mail /\ DOMAIN s = 1..Len(s)
  BY DEF Unsent
<1>2. DOMAIN new = 1..Len(s) /\ \A k \in 1..Len(s) : k # i => new[k] = s[k]
  BY <1>1
<1>3. new[i] \in Mail /\ new[i].sent
  BY <1>1 DEF Mail
<1>4. new \in Seq(Mail)
  BY <1>1, <1>3
<1> HIDE DEF new
<1>5. Unsent(new) = Unsent(s) \ {i}
  BY <1>1, <1>2, <1>3 DEF Unsent
<1>6. Cardinality(Unsent(new)) = Cardinality(Unsent(s)) - 1
  BY <1>5, UnsentFinite, FS_RemoveElement
<1> QED
  BY <1>4, <1>6 DEF new

LEMMA UnsentRemove ==
    ASSUME NEW s \in Seq(Mail), NEW i \in DOMAIN s
    PROVE  LET new == RemoveAt(s, i)
           IN new \in Seq(Mail) /\ Cardinality(Unsent(new)) <= Cardinality(Unsent(s))
<1> DEFINE new == RemoveAt(s, i)
<1>1. i \in 1..Len(s) /\ Len(s) \in Nat
  OBVIOUS
<1>2. /\ SubSeq(s, 1, i - 1) \in Seq(Mail) /\ Len(SubSeq(s, 1, i - 1)) = i - 1
      /\ \A k \in 1..(i - 1) : SubSeq(s, 1, i - 1)[k] = s[k]
  BY <1>1, SubSeqProperties
<1>3. /\ SubSeq(s, i + 1, Len(s)) \in Seq(Mail) /\ Len(SubSeq(s, i + 1, Len(s))) = Len(s) - i
      /\ \A k \in 1..(Len(s) - i) : SubSeq(s, i + 1, Len(s))[k] = s[i + k]
  BY <1>1, SubSeqProperties
<1> DEFINE a == SubSeq(s, 1, i - 1)
           b == SubSeq(s, i + 1, Len(s))
<1>4. new = a \o b
  BY DEF RemoveAt
<1> HIDE DEF new, a, b
<1>5. /\ new \in Seq(Mail) /\ Len(new) = Len(s) - 1
      /\ \A k \in 1..(Len(s) - 1) : new[k] = IF k < i THEN s[k] ELSE s[k + 1]
  <2>1. a \o b \in Seq(Mail) /\ Len(a \o b) = Len(a) + Len(b)
    BY <1>2, <1>3 DEF a, b
  <2>2. ASSUME NEW k \in 1..(Len(s) - 1) PROVE (a \o b)[k] = IF k < i THEN s[k] ELSE s[k + 1]
    <3>1. a \in Seq(Mail) /\ b \in Seq(Mail) /\ Len(a) = i - 1 /\ Len(b) = Len(s) - i
      BY <1>2, <1>3 DEF a, b
    <3>2. (a \o b)[k] = IF k <= Len(a) THEN a[k] ELSE b[k - Len(a)]
      <4>1. k \in 1..(Len(a) + Len(b))
        BY <1>1, <3>1
      <4> QED
        BY <3>1, <4>1, ConcatProperties, Zenon
    <3>3. CASE k < i
      BY <1>1, <1>2, <3>1, <3>2, <3>3 DEF a
    <3>4. CASE ~(k < i)
      <4>1. k - (i - 1) \in 1..(Len(s) - i) /\ i + (k - (i - 1)) = k + 1
        BY <1>1, <3>4
      <4>2. b[k - (i - 1)] = s[k + 1]
        BY <1>3, <4>1 DEF b
      <4> QED
        BY <1>1, <3>1, <3>2, <3>4, <4>2
    <3> QED
      BY <3>3, <3>4
  <2> QED
    <3>2. Len(a) = i - 1 /\ Len(b) = Len(s) - i
      BY <1>2, <1>3 DEF a, b
    <3>1. Len(a) + Len(b) = Len(s) - 1
      BY <1>1, <3>2
    <3> QED
      BY <1>4, <2>1, <2>2, <3>1
<1> DEFINE f == [k \in Unsent(new) |-> IF k < i THEN k ELSE k + 1]
<1>6. f \in Injection(Unsent(new), Unsent(s))
  <2>1. ASSUME NEW k \in Unsent(new) PROVE f[k] \in Unsent(s) /\ k \in Nat
    <3>1. k \in 1..(Len(s) - 1) /\ ~new[k].sent
      BY <1>5 DEF Unsent
    <3>2. f[k] \in 1..Len(s)
      BY <1>1, <3>1
    <3>3. new[k] = s[f[k]]
      BY <1>5, <3>1
    <3> QED
      BY <3>1, <3>2, <3>3 DEF Unsent
  <2>2. \A k, l \in Unsent(new) : f[k] = f[l] => k = l
    BY <1>1, <2>1
  <2> QED
    BY <2>1, <2>2 DEF Injection, IsInjective
<1>7. Cardinality(Unsent(new)) <= Cardinality(Unsent(s))
  BY <1>6, UnsentFinite, FS_Injection
<1> QED
  BY <1>5, <1>7 DEF new

-----------------------------------------------------------------------------
(* The groups as a set of sets of threads *)

\* A sequence that lists a set, each element once
Listing(s, S) ==
    /\ s \in Seq(S)
    /\ \A i, j \in DOMAIN s : s[i] = s[j] => i = j
    /\ \A t \in S : \E i \in DOMAIN s : s[i] = t

Apart(groups) == \A g, h \in groups : g # h => g \cap h = {}

LEMMA OrderLists == \A S \in SUBSET Tids : Listing(Order[S], S)
<1> TAKE S \in SUBSET Tids
<1>1. IsFiniteSet(S) /\ Cardinality(S) \in Nat /\ ExistsBijection(1..Cardinality(S), S)
  BY DetectionAssumption, FS_Subset, FS_CardinalityType
<1> DEFINE n == Cardinality(S)
<1>2. \E f \in [1..n -> S] : IsInjective(f)
  BY <1>1 DEF ExistsBijection, Bijection, Injection
<1>3. Order[S] = SetToSeq(S)
  BY DEF Order
<1>4. Order[S] \in [1..n -> S] /\ IsInjective(Order[S])
  BY <1>2, <1>3, Zenon DEF SetToSeq
<1> DEFINE s == Order[S]
<1> HIDE DEF s
<1>5. s \in Injection(1..n, S)
  BY <1>4 DEF Injection, s
<1>6. IsFiniteSet(1..n) /\ Cardinality(1..n) = n
  BY <1>1, FS_Interval
<1> HIDE DEF n
<1>7. s \in Surjection(1..n, S)
  <2>1. Cardinality(1..n) = Cardinality(S)
    BY <1>6 DEF n
  <2> QED
    BY <1>1, <1>5, <2>1, FS_Injection
<1>8. n \in Nat /\ s \in [1..n -> S] /\ IsInjective(s)
  BY <1>1, <1>4 DEF n, s
<1>9. s \in Seq(S) /\ DOMAIN s = 1..n
  BY <1>8
<1>10. \A t \in S : \E i \in 1..n : s[i] = t
  BY <1>7 DEF Surjection
<1>11. \A i, j \in DOMAIN s : s[i] = s[j] => i = j
  BY <1>8 DEF IsInjective
<1> QED
  BY <1>9, <1>10, <1>11 DEF Listing, s

LEMMA SeveralFacts ==
    ASSUME NEW groups \in SUBSET SUBSET Tids, Apart(groups), {} \notin groups
    PROVE  /\ IsFiniteSet(groups) /\ Several(groups) \subseteq groups
           /\ Cardinality(groups) \in Nat /\ Cardinality(Several(groups)) \in 0..Cardinality(Tids)
           /\ Cardinality(Several(groups)) <= Cardinality(groups)
           /\ Apart(Several(groups)) /\ UNION Several(groups) \in SUBSET Tids
<1> DEFINE f == [g \in groups |-> CHOOSE t \in g : TRUE]
<1>1. \A g \in groups : f[g] \in g /\ g \subseteq Tids
  BY Zenon
<1>2. f \in Injection(groups, Tids)
  BY <1>1 DEF Injection, IsInjective, Apart
<1>3. /\ IsFiniteSet(groups) /\ Cardinality(groups) <= Cardinality(Tids)
      /\ Cardinality(Tids) \in Nat /\ Cardinality(groups) \in Nat
  BY <1>2, FS_Injection, FS_CardinalityType, DetectionAssumption
<1>4. Several(groups) \subseteq groups
  BY DEF Several
<1>5. Cardinality(Several(groups)) \in Nat /\ Cardinality(Several(groups)) <= Cardinality(groups)
  BY <1>3, <1>4, FS_Subset, FS_CardinalityType
<1> QED
  BY <1>3, <1>4, <1>5 DEF Apart

\* Groups by roots, whatever the roots are, have no thread in common
LEMMA GroupsApart ==
    ASSUME NEW S \in SUBSET Tids, NEW s, Listing(s, S), NEW tidMap
    PROVE  /\ GroupTids(tidMap, s) \in SUBSET SUBSET S
           /\ Apart(GroupTids(tidMap, s)) /\ {} \notin GroupTids(tidMap, s)
<1> DEFINE root(i) == FindRoot(i, JoinAll(tidMap, s))
           groupOf(i) == {s[j] : j \in {k \in DOMAIN s : root(k) = root(i)}}
<1>1. GroupTids(tidMap, s) = {groupOf(i) : i \in DOMAIN s}
  BY Zenon DEF GroupTids
<1>2. \A i \in DOMAIN s : s[i] \in S /\ s[i] \in groupOf(i)
  BY DEF Listing
<1>3. ASSUME NEW i \in DOMAIN s, NEW k \in DOMAIN s, NEW t \in groupOf(i) \cap groupOf(k)
      PROVE  root(i) = root(k)
  <2>1. PICK a \in DOMAIN s : root(a) = root(i) /\ s[a] = t
    BY <1>3
  <2>2. PICK b \in DOMAIN s : root(b) = root(k) /\ s[b] = t
    BY <1>3
  <2>3. a = b
    BY <2>1, <2>2 DEF Listing
  <2> QED
    BY <2>1, <2>2, <2>3
<1>4. \A i, k \in DOMAIN s : root(i) = root(k) => groupOf(i) = groupOf(k)
  OBVIOUS
<1>5. Apart({groupOf(i) : i \in DOMAIN s})
  BY <1>3, <1>4 DEF Apart
<1>6. \A i \in DOMAIN s : groupOf(i) \subseteq S
  BY <1>2
<1> HIDE DEF groupOf
<1> QED
  BY <1>1, <1>2, <1>5, <1>6

-----------------------------------------------------------------------------
(* The state between steps *)

\* TypeOK, with what is counted on its own
Types ==
    /\ {task, currentPid, pid} \subseteq Pids \cup {NoPid}
    /\ {scanOn, panicked, wiped} \subseteq BOOLEAN
    /\ step \in {"idle", "take", "start", "collect", "insert", "changed"}
    /\ sends \in Seq(Mail)
    /\ resultTidMap \in [Tids -> SUBSET Futexes]
    /\ left \in Seq(DOMAIN infos)
    /\ resultTidsSlice \subseteq SUBSET Tids /\ bound \subseteq SUBSET Tids
    /\ {resultTidsGroupAll, oldTidsGroupAll} \subseteq (SUBSET Tids) \cup {Nil}
    /\ {resultGroupNum, oldGroupNum} \subseteq 0..Cardinality(Tids)

Pending ==
    /\ count \in Nat /\ ch \in Nat /\ lookups \in Nat /\ count <= ch
    /\ lookups + Cardinality(Unsent(sends)) + ch <= MaxPending

\* What is traced and copied into the map, thread by thread
ListInv ==
    /\ DOMAIN infos \subseteq Tids /\ \A t \in DOMAIN infos : infos[t] \subseteq Futexes
    /\ step = "collect" => resultTidArray = <<>> /\ ~wiped
    /\ step = "insert" => Listing(resultTidArray \o left, DOMAIN infos)
    /\ step = "insert" => resultTidArray \in Seq(DOMAIN infos)

\* The result is the one that was saved, but for the one of this pass
SavedInv ==
    /\ ~panicked /\ Apart(bound)
    /\ oldGroupNum = Cardinality(bound) /\ oldTidsGroupAll \in {Nil, UNION bound}
    /\ Apart(resultTidsSlice) /\ {} \notin resultTidsSlice
    /\ resultTidsSlice # {} => /\ resultGroupNum = Cardinality(Several(resultTidsSlice))
                               /\ resultTidsGroupAll = UNION Several(resultTidsSlice)
    /\ GroupChanged => /\ step = "changed"
                       /\ resultTidsSlice = {} => resultGroupNum = 0 /\ resultTidsGroupAll = {}

Inv == Types /\ Pending /\ ListInv /\ SavedInv

\* Where only the pass, the goroutines, the task and the switch move
LEMMA SavedStays ==
    ASSUME SavedInv, UNCHANGED <<result, old, bound, panicked>>,
           step' = "changed" \/ ~GroupChanged
    PROVE  SavedInv'
BY DEF SavedInv, GroupChanged, result, old

LEMMA ListStays ==
    ASSUME ListInv, UNCHANGED <<infos, left, resultTidArray>>,
           step' # "insert" \/ step = "insert",
           step' = "collect" => step = "collect" /\ wiped' = wiped
    PROVE  ListInv'
BY DEF ListInv

LEMMA InitInv == Init => Inv
<1> SUFFICES ASSUME Init PROVE Inv
  OBVIOUS
<1>1. Cardinality({}) = 0 /\ Cardinality(Tids) \in Nat
  BY FS_EmptySet, FS_CardinalityType, DetectionAssumption
<1>2. \A S : <<>> \in Seq(S)
  OBVIOUS
<1>3. Cardinality(Unsent(sends)) = 0
  <2>1. Unsent(sends) = {}
    BY DEF Init, Unsent
  <2> QED
    BY <1>1, <2>1
<1>4. MaxPending \in Nat
  BY DetectionAssumption
<1>5. Pending
  BY <1>3, <1>4 DEF Init, Pending
<1>6. Types
  <2>1. sends \in Seq(Mail) /\ left \in Seq(DOMAIN infos)
    BY <1>2 DEF Init
  <2>2. resultTidMap \in [Tids -> SUBSET Futexes]
    BY DEF Init
  <2>3. {resultGroupNum, oldGroupNum} \subseteq 0..Cardinality(Tids)
    BY <1>1 DEF Init
  <2>4. /\ {task, currentPid, pid} \subseteq Pids \cup {NoPid}
        /\ {scanOn, panicked, wiped} \subseteq BOOLEAN /\ step = "idle"
        /\ resultTidsSlice = {} /\ bound = {}
        /\ resultTidsGroupAll = Nil /\ oldTidsGroupAll = Nil
    BY DEF Init
  <2>5. {resultTidsGroupAll, oldTidsGroupAll} \subseteq (SUBSET Tids) \cup {Nil}
    <3>1. Nil \in (SUBSET Tids) \cup {Nil}
      BY Zenon
    <3> HIDE DEF Nil
    <3> QED
      BY <2>4, <3>1, Zenon
  <2>6. resultTidsSlice \subseteq SUBSET Tids /\ bound \subseteq SUBSET Tids
    BY <2>4
  <2> QED
    BY <2>1, <2>2, <2>3, <2>4, <2>5, <2>6, Zenon DEF Types
<1>7. ListInv
  BY DEF Init, ListInv
<1>8. SavedInv
  BY <1>1 DEF Init, SavedInv, Apart, GroupChanged
<1> QED
  BY <1>5, <1>6, <1>7, <1>8 DEF Inv

-----------------------------------------------------------------------------
(* The steps *)

LEMMA TickInv == Inv /\ Tick => Inv'
<1> SUFFICES ASSUME Inv, Tick PROVE Inv'
  OBVIOUS
<1>1. Types' /\ Pending'
  BY DEF Inv, Tick, Types, Pending, result, old, goroutines
<1>2. SavedInv' /\ ListInv'
  BY SavedStays, ListStays DEF Inv, Tick, result, old, SavedInv
<1> QED
  BY <1>1, <1>2 DEF Inv

LEMMA TakeInv == Inv /\ Take => Inv'
<1> SUFFICES ASSUME Inv, Take PROVE Inv'
  OBVIOUS
<1>1. Types' /\ Pending'
  BY UnsentFinite, DetectionAssumption DEF Inv, Take, Types, Pending, result, old, goroutines
<1>2. SavedInv' /\ ListInv'
  BY SavedStays, ListStays DEF Inv, Take, result, old, SavedInv
<1> QED
  BY <1>1, <1>2 DEF Inv

LEMMA PassEndInv == Inv /\ PassEnd => Inv'
<1> SUFFICES ASSUME Inv, PassEnd PROVE Inv'
  OBVIOUS
<1>1. Types'
  BY DEF Inv, PassEnd, Types, result, old
<1>3. Pending'
  <2>1. Cardinality(Unsent(sends)) \in Nat /\ Cardinality(Unsent(sends)) <= Len(sends) /\ Len(sends) \in Nat
    BY UnsentFinite DEF Inv, Types
  <2>2. sends' = sends
    BY DEF PassEnd
  <2> QED
    BY <2>1, <2>2, DetectionAssumption DEF Inv, PassEnd, Pending
<1>2. SavedInv' /\ ListInv'
  BY SavedStays, ListStays DEF Inv, PassEnd, result, old, SavedInv
<1> QED
  BY <1>1, <1>2, <1>3 DEF Inv

LEMMA StartGroupsInv == Inv /\ StartGroups => Inv'
<1> SUFFICES ASSUME Inv, StartGroups PROVE Inv'
  OBVIOUS
<1>1. Types' /\ Pending'
  BY DEF Inv, StartGroups, Types, Pending, old, goroutines
<1>2. SavedInv'
  BY DEF Inv, StartGroups, SavedInv, old, GroupChanged, Apart
<1>3. ListInv'
  BY DEF Inv, StartGroups, ListInv
<1> QED
  BY <1>1, <1>2, <1>3 DEF Inv

LEMMA CollectInv == Inv /\ Collect => Inv'
<1> SUFFICES ASSUME Inv, Collect PROVE Inv'
  OBVIOUS
<1>1. SavedInv' /\ Pending'
  BY SavedStays DEF Inv, Collect, result, old, SavedInv, Pending, goroutines
<1>2. CASE task # pid /\ step' = "changed" /\ UNCHANGED <<infos, left>>
  <2>1. UNCHANGED <<infos, left, resultTidArray>> /\ step' = "changed"
    BY <1>2 DEF Collect
  <2>2. ListInv' /\ Types'
    BY <1>2, <2>1, ListStays DEF Inv, Collect, result, old, goroutines, Types
  <2> QED
    BY <1>1, <2>2 DEF Inv
<1>3. CASE \E tr \in Traces : infos' = tr /\ left' = Order[DOMAIN tr] /\ step' = "insert"
  <2>1. PICK tr \in Traces : infos' = tr /\ left' = Order[DOMAIN tr] /\ step' = "insert"
    BY <1>3
  <2>2. DOMAIN tr \subseteq Tids /\ \A t \in DOMAIN tr : tr[t] \subseteq Futexes
    BY DetectionAssumption
  <2>3. Listing(left', DOMAIN infos')
    BY <2>1, <2>2, OrderLists
  <2>4. resultTidArray' = <<>>
    BY DEF Inv, ListInv, Collect
  <2>5. left' \in Seq(DOMAIN infos')
    BY <2>3 DEF Listing
  <2>6. resultTidArray' \o left' = left' /\ resultTidArray' \in Seq(DOMAIN infos')
    BY <2>4, <2>5
  <2>7. Types'
    BY <2>1, <2>5 DEF Inv, Types, Collect, result, old, goroutines
  <2>8. ListInv'
    BY <2>1, <2>2, <2>3, <2>6 DEF ListInv
  <2> QED
    BY <1>1, <2>7, <2>8 DEF Inv
<1> QED
  BY <1>2, <1>3 DEF Collect

LEMMA InsertInv == Inv /\ Insert => Inv'
<1> SUFFICES ASSUME Inv, Insert PROVE Inv'
  OBVIOUS
<1>1. SavedInv' /\ Pending'
  BY SavedStays DEF Inv, Insert, result, old, SavedInv, Pending, goroutines
<1> DEFINE t == Head(left)
<1>2. /\ step = "insert" /\ step' = "insert" /\ left # <<>> /\ left \in Seq(DOMAIN infos)
      /\ infos' = infos /\ resultTidArray' = Append(resultTidArray, t) /\ left' = Tail(left)
      /\ resultTidMap' = [resultTidMap EXCEPT ![t] = infos[t]]
      /\ resultTidArray \in Seq(DOMAIN infos) /\ DOMAIN infos \subseteq Tids
  BY DEF Inv, Insert, Types, ListInv
<1>3. t \in DOMAIN infos /\ left' \in Seq(DOMAIN infos) /\ resultTidArray' \in Seq(DOMAIN infos)
  BY <1>2
<1>4. resultTidArray' \o left' = resultTidArray \o left
  <2> DEFINE S == DOMAIN infos
  <2>1. left = <<t>> \o Tail(left)
    BY <1>2
  <2>2. Append(resultTidArray, t) = resultTidArray \o <<t>>
    BY <1>2, <1>3, AppendIsConcat
  <2>3. <<t>> \in Seq(S) /\ Tail(left) \in Seq(S)
    BY <1>2, <1>3
  <2>4. (resultTidArray \o <<t>>) \o Tail(left) = resultTidArray \o (<<t>> \o Tail(left))
    BY <1>2, <2>3, ConcatAssociative
  <2> QED
    BY <1>2, <2>1, <2>2, <2>4
<1>5. ListInv'
  BY <1>2, <1>3, <1>4 DEF Inv, ListInv
<1>6. Types'
  <2>1. infos[t] \subseteq Futexes /\ t \in Tids
    BY <1>2, <1>3 DEF Inv, ListInv
  <2>2. resultTidMap' \in [Tids -> SUBSET Futexes]
    BY <1>2, <2>1 DEF Inv, Types
  <2> QED
    BY <1>2, <1>3, <2>2 DEF Inv, Types, Insert, result, old, goroutines
<1> QED
  BY <1>1, <1>5, <1>6 DEF Inv

LEMMA GroupInv == Inv /\ Group => Inv'
<1> SUFFICES ASSUME Inv, Group PROVE Inv'
  OBVIOUS
<1> DEFINE G == GroupTids(resultTidMap, resultTidArray)
<1>1. /\ step = "insert" /\ left = <<>> /\ step' = "changed" /\ resultTidsSlice' = G
      /\ resultGroupNum' = Cardinality(Several(G)) /\ resultTidsGroupAll' = UNION Several(G)
      /\ UNCHANGED <<infos, left, resultTidArray, old, bound, panicked>>
  BY DEF Group
<1>2. Listing(resultTidArray, DOMAIN infos) /\ DOMAIN infos \in SUBSET Tids
  <2>1. resultTidArray \in Seq(DOMAIN infos) /\ Listing(resultTidArray \o left, DOMAIN infos)
    BY <1>1 DEF Inv, ListInv
  <2>2. resultTidArray \o left = resultTidArray
    BY <1>1, <2>1, ConcatEmptySeq
  <2> QED
    BY <2>1, <2>2 DEF Inv, ListInv
<1>3. G \in SUBSET SUBSET Tids /\ Apart(G) /\ {} \notin G
  BY <1>2, GroupsApart
<1> HIDE DEF G
<1>4. /\ Cardinality(Several(G)) \in 0..Cardinality(Tids) /\ UNION Several(G) \in SUBSET Tids
      /\ G = {} => Several(G) = {}
  BY <1>3, SeveralFacts
<1>5. Types' /\ Pending'
  BY <1>1, <1>3, <1>4 DEF Inv, Types, Pending, Group, old, goroutines
<1>6. ListInv'
  BY <1>1, ListStays DEF Inv
<1>7. SavedInv'
  BY <1>1, <1>3, <1>4, FS_EmptySet DEF Inv, SavedInv, old
<1> QED
  BY <1>5, <1>6, <1>7 DEF Inv

LEMMA RebindInv == Inv /\ Rebind => Inv'
<1> SUFFICES ASSUME Inv, Rebind PROVE Inv'
  OBVIOUS
<1>1. /\ step = "changed" /\ GroupChanged
      /\ UNCHANGED <<infos, left, resultTidArray, result>>
      /\ oldGroupNum' = resultGroupNum /\ oldTidsGroupAll' = resultTidsGroupAll
  BY DEF Rebind
<1>2. /\ Cardinality(resultTidsSlice) \in Nat /\ Several(resultTidsSlice) \subseteq resultTidsSlice
      /\ Cardinality(Several(resultTidsSlice)) <= Cardinality(resultTidsSlice)
      /\ Apart(Several(resultTidsSlice))
  BY SeveralFacts DEF Inv, SavedInv, Types
<1>3. /\ resultGroupNum = Cardinality(Several(resultTidsSlice))
      /\ resultTidsGroupAll = UNION Several(resultTidsSlice)
  <2>1. CASE resultTidsSlice = {}
    <3>1. Several(resultTidsSlice) = {}
      BY <1>2, <2>1
    <3>2. Cardinality(Several(resultTidsSlice)) = 0 /\ UNION Several(resultTidsSlice) = {}
      BY <3>1, FS_EmptySet
    <3> QED
      BY <1>1, <2>1, <3>2 DEF Inv, SavedInv
  <2>2. CASE resultTidsSlice # {}
    BY <2>2 DEF Inv, SavedInv
  <2> QED
    BY <2>1, <2>2
<1>4. bound' = Several(resultTidsSlice) /\ step' = "take" /\ UNCHANGED panicked
  <2>1. ~(Cardinality(resultTidsSlice) < resultGroupNum)
    BY <1>2, <1>3, FS_CardinalityType, FS_Subset, SeveralFacts DEF Inv, SavedInv, Types
  <2> QED
    BY <2>1 DEF Rebind
<1>5. ListInv'
  BY <1>1, <1>4, ListStays DEF Inv
<1>6. Types' /\ Pending'
  BY <1>1, <1>2, <1>4 DEF Inv, Types, Pending, Rebind, result, goroutines
<1>7. SavedInv'
  <2>1. ~GroupChanged'
    BY <1>1 DEF GroupChanged, result
  <2> QED
    BY <1>1, <1>2, <1>3, <1>4, <2>1 DEF Inv, SavedInv, result
<1> QED
  BY <1>5, <1>6, <1>7 DEF Inv

LEMMA SameInv == Inv /\ Same => Inv'
<1> SUFFICES ASSUME Inv, Same PROVE Inv'
  OBVIOUS
<1>1. Types' /\ Pending'
  BY DEF Inv, Same, Types, Pending, result, old, goroutines
<1>2. SavedInv' /\ ListInv'
  BY SavedStays, ListStays DEF Inv, Same, result, old, SavedInv
<1> QED
  BY <1>1, <1>2 DEF Inv

LEMMA LookupInv == Inv /\ Lookup => Inv'
<1> SUFFICES ASSUME Inv, Lookup PROVE Inv'
  OBVIOUS
<1>1. SavedInv' /\ ListInv'
  BY SavedStays, ListStays DEF Inv, Lookup, result, old, SavedInv
<1>2. CASE task = NoPid
  <2>1. lookups' = lookups - 1 /\ lookups > 0 /\ sends' = sends
    BY <1>2 DEF Lookup
  <2>2. Types' /\ Pending'
    BY <2>1, UnsentFinite, DetectionAssumption DEF Inv, Lookup, Types, Pending, result, old
  <2> QED
    BY <1>1, <2>2 DEF Inv
<1>3. CASE task # NoPid
  <2>1. task \in Pids
    BY <1>3 DEF Inv, Types
  <2>2. sends' \in Seq(Mail) /\ Cardinality(Unsent(sends')) = Cardinality(Unsent(sends)) + 1
    BY <1>3, <2>1, UnsentAppend DEF Inv, Types, Lookup
  <2>3. Cardinality(Unsent(sends)) \in Nat
    BY UnsentFinite DEF Inv, Types
  <2>4. Types' /\ Pending'
    BY <2>2, <2>3, DetectionAssumption DEF Inv, Lookup, Types, Pending, result, old
  <2> QED
    BY <1>1, <2>4 DEF Inv
<1> QED
  BY <1>2, <1>3

LEMMA SendInv == ASSUME Inv, NEW i \in DOMAIN sends, Send(i) PROVE Inv'
<1>1. SavedInv' /\ ListInv'
  BY SavedStays, ListStays DEF Inv, Send, result, old, SavedInv
<1>2. sends \in Seq(Mail) /\ i \in Unsent(sends)
  BY DEF Inv, Types, Send, Unsent
<1>3. sends' \in Seq(Mail) /\ Cardinality(Unsent(sends')) = Cardinality(Unsent(sends)) - 1
  BY <1>2, UnsentSend DEF Send
<1>4. Cardinality(Unsent(sends)) \in Nat
  BY <1>2, UnsentFinite
<1>5. Types'
  BY <1>3 DEF Inv, Send, Types, result, old
<1>6. Pending'
  BY <1>3, <1>4, DetectionAssumption DEF Inv, Send, Pending
<1> QED
  BY <1>1, <1>5, <1>6 DEF Inv

LEMMA PidChangedInv == ASSUME Inv, NEW i \in DOMAIN sends, PidChanged(i) PROVE Inv'
<1>1. SavedInv' /\ ListInv'
  <2>1. step' = step /\ (step = "collect" => wiped' = wiped)
    BY DEF PidChanged, Inv, Types
  <2> QED
    BY <2>1, SavedStays, ListStays DEF Inv, PidChanged, result, old, SavedInv
<1>2. sends \in Seq(Mail) /\ sends[i] \in Mail
  BY DEF Inv, Types
<1>3. sends' \in Seq(Mail) /\ Cardinality(Unsent(sends')) <= Cardinality(Unsent(sends))
  BY <1>2, UnsentRemove DEF PidChanged
<1>4. Cardinality(Unsent(sends)) \in Nat /\ Cardinality(Unsent(sends')) \in Nat
  BY <1>2, <1>3, UnsentFinite
<1>5. Pending'
  BY <1>4, <1>3, DetectionAssumption DEF Inv, PidChanged, Pending
<1>6. currentPid' \in Pids \cup {NoPid} /\ wiped' \in BOOLEAN
      /\ resultTidMap' \in [Tids -> SUBSET Futexes]
  BY <1>2 DEF Inv, PidChanged, Types, Mail
<1>7. Types'
  BY <1>3, <1>6 DEF Inv, PidChanged, Types, result, old
<1> QED
  BY <1>1, <1>5, <1>7 DEF Inv

LEMMA EnvironmentInv == Inv /\ Environment => Inv'
<1> SUFFICES ASSUME Inv, Environment PROVE Inv'
  OBVIOUS
<1>1. task' \in Pids \cup {NoPid}
  BY DEF Environment, TaskExit, TaskStart
<1>2. Types' /\ Pending'
  BY <1>1 DEF Inv, Environment, Types, Pending, result, old, goroutines
<1>3. SavedInv' /\ ListInv'
  BY SavedStays, ListStays DEF Inv, Environment, result, old, SavedInv
<1> QED
  BY <1>2, <1>3 DEF Inv

LEMMA StopScanInv == Inv /\ StopScan => Inv'
<1> SUFFICES ASSUME Inv, StopScan PROVE Inv'
  OBVIOUS
<1>1. Types' /\ Pending'
  BY DEF Inv, StopScan, Types, Pending, result, old, goroutines
<1>2. SavedInv' /\ ListInv'
  BY SavedStays, ListStays DEF Inv, StopScan, result, old, SavedInv
<1> QED
  BY <1>1, <1>2 DEF Inv

LEMMA StutterInv == Inv /\ UNCHANGED vars => Inv'
<1> SUFFICES ASSUME Inv, UNCHANGED vars PROVE Inv'
  OBVIOUS
<1>1. Types' /\ Pending'
  BY DEF Inv, vars, Types, Pending, result, old, goroutines
<1>2. SavedInv' /\ ListInv'
  BY SavedStays, ListStays DEF Inv, vars, result, old, SavedInv
<1> QED
  BY <1>1, <1>2 DEF Inv

LEMMA NextInv == Inv /\ [Next]_vars => Inv'
BY TickInv, TakeInv, PassEndInv, StartGroupsInv, CollectInv, InsertInv, GroupInv, RebindInv, SameInv,
   LookupInv, SendInv, PidChangedInv, EnvironmentInv, StopScanInv, StutterInv
   DEF Next, Scan, Goroutine

\* The inductive invariant of the passes and the goroutines: types, the groups saved and
\* bound, and the pids under way
THEOREM InvHolds == Spec => []Inv
BY InitInv, NextInv, PTL DEF Spec

\* The pass takes no more pids than the channel holds, and what is counted of
\* goroutines, groups and threads stays in its bounds
THEOREM TypeCorrect == Spec => []TypeOK
<1>1. Inv => TypeOK
  <2> SUFFICES ASSUME Inv PROVE TypeOK
    OBVIOUS
  <2>1. count \in 0..ch /\ lookups + Cardinality({i \in DOMAIN sends : ~sends[i].sent}) + ch <= MaxPending
    BY DEF Inv, Pending, Unsent
  <2> QED
    BY <2>1 DEF Inv, Types, TypeOK, Mail
<1> QED
  BY <1>1, InvHolds, PTL

\* The groups that are bound are those that the saved number and threads describe,
\* and no change indexes groups that a failed look-up has dropped
THEOREM BoundAsSavedHolds == Spec => []BoundAsSaved
<1>1. Inv => BoundAsSaved
  BY DEF Inv, SavedInv, BoundAsSaved, Apart
<1> QED
  BY <1>1, InvHolds, PTL

-----------------------------------------------------------------------------
(* Union and find: the roots *)

\* r holds the roots of the indices in array; h, which falls towards a root, shows that there is
\* no circle
Tree(n, array, r, h) ==
    /\ array \in [1..n -> 1..n] /\ r \in [1..n -> 1..n] /\ h \in [1..n -> Nat]
    /\ \A i \in 1..n : /\ r[i] = IF array[i] = i THEN i ELSE r[array[i]]
                       /\ array[i] # i => h[array[i]] < h[i]
                       /\ array[r[i]] = r[i]

Roots(q, array) == q = [i \in DOMAIN array |-> IF array[i] = i THEN i ELSE q[array[i]]]

LEMMA FindRootIs == \A son, array : FindRoot(son, array) = (CHOOSE q : Roots(q, array))[son]
BY Zenon DEF FindRoot, Roots

\* findRoot ends at the root
LEMMA RootFound ==
    ASSUME NEW n \in Nat, NEW array, NEW r, NEW h, Tree(n, array, r, h)
    PROVE  \A i \in 1..n : FindRoot(i, array) = r[i]
<1> DEFINE q == CHOOSE q : Roots(q, array)
<1>1. Roots(r, array)
  BY DEF Tree, Roots
<1>2. Roots(q, array)
  BY <1>1
<1> HIDE DEF q
<1>3. \A i \in 1..n : q[i] = IF array[i] = i THEN i ELSE q[array[i]]
  BY <1>2 DEF Roots, Tree
<1> DEFINE bad == {k \in Nat : \E i \in 1..n : h[i] = k /\ q[i] # r[i]}
<1>4. bad = {}
  <2>1. SUFFICES ASSUME bad # {} PROVE FALSE
    OBVIOUS
  <2>2. PICK k \in bad : \A l \in bad : k <= l
    BY <2>1, NatHasMin
  <2>3. PICK i \in 1..n : h[i] = k /\ q[i] # r[i]
    BY <2>2
  <2>4. array[i] # i /\ q[array[i]] # r[array[i]] /\ array[i] \in 1..n
    BY <1>3, <2>3 DEF Tree
  <2>5. h[array[i]] \in Nat /\ h[array[i]] < k /\ k \in Nat
    BY <2>2, <2>3, <2>4 DEF Tree
  <2>6. h[array[i]] \in bad
    BY <2>4, <2>5
  <2> QED
    BY <2>2, <2>5, <2>6
<1>5. ASSUME NEW i \in 1..n PROVE q[i] = r[i]
  <2>1. h[i] \in Nat /\ h[i] \notin bad
    BY <1>4 DEF Tree
  <2> QED
    BY <2>1
<1> QED
  BY <1>5, FindRootIs DEF q

\* union hangs one tree up at the root of the other
LEMMA UnionJoins ==
    ASSUME NEW n \in Nat, NEW array, NEW r, NEW h, Tree(n, array, r, h),
           NEW a \in 1..n, NEW b \in 1..n
    PROVE  \E g : Tree(n, Union(a, b, array), [x \in 1..n |-> IF r[x] = r[a] THEN r[b] ELSE r[x]], g)
<1> DEFINE s == [x \in 1..n |-> IF r[x] = r[a] THEN r[b] ELSE r[x]]
           g == [x \in 1..n |-> IF r[x] = r[a] /\ r[a] # r[b] THEN h[x] + h[r[b]] + 1 ELSE h[x]]
           new == [array EXCEPT ![r[a]] = r[b]]
<1>1. Union(a, b, array) = new
  <2>1. FindRoot(a, array) = r[a] /\ FindRoot(b, array) = r[b]
    BY RootFound
  <2> QED
    BY <2>1, Zenon DEF Union
<1>2. /\ array \in [1..n -> 1..n] /\ r \in [1..n -> 1..n] /\ h \in [1..n -> Nat]
      /\ \A i \in 1..n : /\ r[i] = IF array[i] = i THEN i ELSE r[array[i]]
                         /\ array[i] # i => h[array[i]] < h[i]
                         /\ array[r[i]] = r[i]
  BY DEF Tree
<1>3. ASSUME NEW i \in 1..n PROVE r[r[i]] = r[i]
  <2>1. r[i] \in 1..n /\ array[r[i]] = r[i]
    BY <1>2
  <2> QED
    BY <1>2, <2>1
<1>4. new \in [1..n -> 1..n] /\ s \in [1..n -> 1..n] /\ g \in [1..n -> Nat]
  <2>1. r[a] \in 1..n /\ r[b] \in 1..n
    BY <1>2
  <2>4. h[r[b]] \in Nat
    BY <1>2, <2>1
  <2>2. ASSUME NEW x \in 1..n PROVE h[x] \in Nat /\ h[x] + h[r[b]] + 1 \in Nat /\ r[x] \in 1..n
    <3>1. h[x] \in Nat /\ r[x] \in 1..n
      BY <1>2
    <3> QED
      BY <2>4, <3>1
  <2>3. new \in [1..n -> 1..n]
    BY <1>2, <2>1
  <2> QED
    BY <2>1, <2>2, <2>3
<1>5. /\ \A i \in 1..n : new[i] = IF i = r[a] THEN r[b] ELSE array[i]
      /\ \A i \in 1..n : s[i] = IF r[i] = r[a] THEN r[b] ELSE r[i]
      /\ \A i \in 1..n : g[i] = IF r[i] = r[a] /\ r[a] # r[b] THEN h[i] + h[r[b]] + 1 ELSE h[i]
  BY <1>2
<1> HIDE DEF new, s, g
<1>6. ASSUME NEW i \in 1..n
      PROVE  /\ s[i] = IF new[i] = i THEN i ELSE s[new[i]]
             /\ new[i] # i => g[new[i]] < g[i]
             /\ new[s[i]] = s[i]
  <2>1. r[a] \in 1..n /\ r[b] \in 1..n /\ array[i] \in 1..n /\ r[i] \in 1..n
    BY <1>2
  <2>2. h[i] \in Nat /\ h[r[b]] \in Nat /\ h[array[i]] \in Nat /\ h[r[a]] \in Nat
    BY <1>2, <2>1
  <2>3. CASE i = r[a]
    <3>1. r[i] = r[a] /\ new[i] = r[b] /\ s[i] = r[b]
      BY <1>3, <1>5, <2>3
    <3>2. r[r[b]] = r[b] /\ s[r[b]] = r[b]
      BY <1>3, <1>5, <2>1
    <3>3. new[r[b]] = r[b]
      BY <1>2, <1>5, <2>1
    <3>4. r[a] # r[b] => g[r[b]] = h[r[b]] /\ g[i] = h[i] + h[r[b]] + 1
      BY <1>5, <2>1, <3>1, <3>2
    <3> QED
      BY <2>2, <2>3, <3>1, <3>2, <3>3, <3>4
  <2>4. CASE i # r[a]
    <3>1. new[i] = array[i]
      BY <1>5, <2>4
    <3>2. array[i] # i => r[array[i]] = r[i] /\ h[array[i]] < h[i]
      BY <1>2
    <3>3. array[i] # i => s[array[i]] = s[i]
      BY <1>5, <2>1, <3>2
    <3>4. array[i] = i => r[i] = i /\ s[i] = i
      BY <1>2, <1>5, <2>4
    <3>5. array[i] # i => g[array[i]] < g[i]
      BY <1>5, <2>1, <2>2, <3>2
    <3>6. new[s[i]] = s[i]
      <4>1. new[r[b]] = r[b]
        BY <1>2, <1>5, <2>1
      <4>2. r[i] # r[a] => new[r[i]] = r[i]
        BY <1>2, <1>5, <2>1
      <4> QED
        BY <1>5, <4>1, <4>2
    <3> QED
      BY <3>1, <3>3, <3>4, <3>5, <3>6
  <2> QED
    BY <2>3, <2>4
<1>7. Tree(n, new, s, g)
  BY <1>4, <1>6 DEF Tree
<1> QED
  BY <1>1, <1>7 DEF s

-----------------------------------------------------------------------------
(* The loops over all pairs *)

Edge(x, y, tm, ta) == MapConnect(tm[ta[x]], tm[ta[y]])

RowStep(i, j, array, tm, ta) == IF Edge(i, j, tm, ta) THEN Union(i, j, array) ELSE array

RowOf(q, i, n, start, tm, ta) ==
    q = [j \in i..n |-> IF j = i THEN start ELSE RowStep(i, j, q[j - 1], tm, ta)]

LEMMA JoinRowIs ==
    \A i, start, tm, ta :
       JoinRow(i, start, tm, ta) = (CHOOSE q : RowOf(q, i, Len(ta), start, tm, ta))[Len(ta)]
<1> TAKE i, start, tm, ta
<1>1. \A q : RowOf(q, i, Len(ta), start, tm, ta) <=>
               q = [j \in i..Len(ta) |->
                      IF j = i THEN start
                      ELSE IF MapConnect(tm[ta[i]], tm[ta[j]])
                      THEN Union(i, j, q[j - 1]) ELSE q[j - 1]]
  BY Zenon DEF RowOf, RowStep, Edge
<1> QED
  BY <1>1, Zenon DEF JoinRow

AllOf(q, n, tm, ta) ==
    q = [i \in 0..n |-> IF i = 0 THEN [k \in 1..n |-> k] ELSE JoinRow(i, q[i - 1], tm, ta)]

LEMMA JoinAllIs ==
    \A tm, ta : JoinAll(tm, ta) = (CHOOSE q : AllOf(q, Len(ta), tm, ta))[Len(ta)]
BY Zenon DEF JoinAll, AllOf

\* The tables of the loops exist
LEMMA RowExists ==
    ASSUME NEW i \in Nat, NEW n \in Nat, i <= n, NEW start, NEW tm, NEW ta
    PROVE  \E q : RowOf(q, i, n, start, tm, ta)
<1> DEFINE bad == {m \in Nat : i <= m /\ ~ \E q : RowOf(q, i, m, start, tm, ta)}
<1>1. SUFFICES ASSUME bad # {} PROVE FALSE
  OBVIOUS
<1>2. PICK m \in bad : \A l \in bad : m <= l
  BY <1>1, NatHasMin
<1>3. m \in Nat /\ i <= m /\ ~ \E q : RowOf(q, i, m, start, tm, ta)
  BY <1>2
<1>4. CASE m = i
  <2> DEFINE q == [j \in i..m |-> start]
  <2>1. \A j \in i..m : j = i
    BY <1>3, <1>4
  <2>2. RowOf(q, i, m, start, tm, ta)
    BY <2>1 DEF RowOf
  <2> QED
    BY <1>3, <2>2
<1>5. CASE m # i
  <2>1. m - 1 \in Nat /\ i <= m - 1 /\ m - 1 \notin bad
    BY <1>2, <1>3, <1>5
  <2>2. PICK p : RowOf(p, i, m - 1, start, tm, ta)
    BY <2>1
  <2> DEFINE q == [j \in i..m |-> IF j = m THEN RowStep(i, m, p[m - 1], tm, ta) ELSE p[j]]
  <2>3. \A j \in i..m : j # m => j \in i..(m - 1)
    BY <1>3
  <2>4. \A j \in i..(m - 1) : q[j] = p[j] /\ p[j] = IF j = i THEN start ELSE RowStep(i, j, p[j - 1], tm, ta)
    BY <1>3, <2>2 DEF RowOf
  <2>5. \A j \in i..m : j # i => j - 1 \in i..(m - 1)
    BY <1>3
  <2>6. q[m] = RowStep(i, m, p[m - 1], tm, ta)
    BY <1>3
  <2> HIDE DEF q
  <2>7. \A j \in i..m : q[j] = IF j = i THEN start ELSE RowStep(i, j, q[j - 1], tm, ta)
    BY <1>5, <2>3, <2>4, <2>5, <2>6
  <2>8. q = [j \in i..m |-> q[j]]
    BY DEF q
  <2>9. RowOf(q, i, m, start, tm, ta)
    BY <2>7, <2>8 DEF RowOf
  <2> QED
    BY <1>3, <2>9
<1> QED
  BY <1>4, <1>5

LEMMA AllExists ==
    ASSUME NEW n \in Nat, NEW tm, NEW ta
    PROVE  \E q : AllOf(q, n, tm, ta)
<1> DEFINE first == [k \in 1..n |-> k]
           Upto(q, m) == q = [i \in 0..m |-> IF i = 0 THEN first ELSE JoinRow(i, q[i - 1], tm, ta)]
           bad == {m \in Nat : ~ \E q : Upto(q, m)}
<1>1. bad = {}
  <2>1. SUFFICES ASSUME bad # {} PROVE FALSE
    OBVIOUS
  <2>2. PICK m \in bad : \A l \in bad : m <= l
    BY <2>1, NatHasMin
  <2>3. m \in Nat /\ ~ \E q : Upto(q, m)
    BY <2>2
  <2> HIDE DEF first
  <2>4. CASE m = 0
    <3> DEFINE q == [i \in 0..m |-> first]
    <3>1. \A i \in 0..m : i = 0
      BY <2>4
    <3>2. Upto(q, m)
      BY <3>1
    <3> QED
      BY <2>3, <3>2
  <2>5. CASE m # 0
    <3>0. m - 1 \in Nat /\ ~(m <= m - 1)
      BY <2>3, <2>5
    <3>1. m - 1 \in Nat /\ m - 1 \notin bad
      <4> HIDE DEF bad
      <4> QED
        BY <2>2, <3>0
    <3>2. PICK p : Upto(p, m - 1)
      BY <3>1
    <3> DEFINE q == [i \in 0..m |-> IF i = m THEN JoinRow(m, p[m - 1], tm, ta) ELSE p[i]]
    <3>3. \A i \in 0..m : i # m => i \in 0..(m - 1)
      BY <2>3
    <3>4. \A i \in 0..(m - 1) : q[i] = p[i] /\ p[i] = IF i = 0 THEN first ELSE JoinRow(i, p[i - 1], tm, ta)
      BY <2>3, <3>2
    <3>5. \A i \in 0..m : i # 0 => i - 1 \in 0..(m - 1)
      BY <2>3
    <3>6. q[m] = JoinRow(m, p[m - 1], tm, ta)
      BY <2>3
    <3> HIDE DEF q
    <3>7. \A i \in 0..m : q[i] = IF i = 0 THEN first ELSE JoinRow(i, q[i - 1], tm, ta)
      BY <2>5, <3>3, <3>4, <3>5, <3>6
    <3>8. q = [i \in 0..m |-> q[i]]
      BY DEF q
    <3>9. Upto(q, m)
      BY <3>7, <3>8
    <3> QED
      BY <2>3, <3>9
  <2> QED
    BY <2>4, <2>5
<1>2. \E q : Upto(q, n)
  BY <1>1
<1> QED
  BY <1>2 DEF AllOf

\* R relates indices with a common futex and everything they are connected to
Equivalence(R, n) ==
    /\ \A x \in 1..n : <<x, x>> \in R
    /\ \A x, y \in 1..n : <<x, y>> \in R => <<y, x>> \in R
    /\ \A x, y, z \in 1..n : <<x, y>> \in R /\ <<y, z>> \in R => <<x, z>> \in R

\* After the pairs up to (i, j), roots are common only within R, and for those pairs that
\* have a common futex
Good(array, i, j, n, tm, ta, R) ==
    \E r, h : /\ Tree(n, array, r, h)
              /\ \A x, y \in 1..n : r[x] = r[y] => <<x, y>> \in R
              /\ \A x, y \in 1..n : x < y /\ (x < i \/ (x = i /\ y <= j)) /\ Edge(x, y, tm, ta)
                                      => r[x] = r[y]

LEMMA StepGood ==
    ASSUME NEW n \in Nat, NEW tm, NEW ta, NEW R, Equivalence(R, n),
           NEW i \in 1..n, NEW j \in 1..n, i < j, NEW array, Good(array, i, j - 1, n, tm, ta, R),
           Edge(i, j, tm, ta) => <<i, j>> \in R
    PROVE  Good(RowStep(i, j, array, tm, ta), i, j, n, tm, ta, R)
<1>1. PICK r, h : /\ Tree(n, array, r, h)
                  /\ \A x, y \in 1..n : r[x] = r[y] => <<x, y>> \in R
                  /\ \A x, y \in 1..n : x < y /\ (x < i \/ (x = i /\ y <= j - 1)) /\ Edge(x, y, tm, ta)
                                          => r[x] = r[y]
  BY DEF Good
<1>2. \A x, y \in 1..n : (x < i \/ (x = i /\ y <= j)) => (x < i \/ (x = i /\ y <= j - 1)) \/ (x = i /\ y = j)
  OBVIOUS
<1>3. CASE ~Edge(i, j, tm, ta)
  <2>1. \A x, y \in 1..n : x < y /\ (x < i \/ (x = i /\ y <= j)) /\ Edge(x, y, tm, ta) => r[x] = r[y]
    BY <1>1, <1>2, <1>3
  <2>2. RowStep(i, j, array, tm, ta) = array
    BY <1>3 DEF RowStep
  <2> QED
    BY <1>1, <2>1, <2>2 DEF Good
<1>4. CASE Edge(i, j, tm, ta)
  <2> DEFINE s == [x \in 1..n |-> IF r[x] = r[i] THEN r[j] ELSE r[x]]
             new == Union(i, j, array)
  <2>1. PICK g : Tree(n, new, s, g)
    BY <1>1, UnionJoins
  <2>2. \A x \in 1..n : s[x] = IF r[x] = r[i] THEN r[j] ELSE r[x]
    OBVIOUS
  <2> HIDE DEF s, new
  <2>3. ASSUME NEW x \in 1..n, NEW y \in 1..n, s[x] = s[y] PROVE <<x, y>> \in R
    <3>1. <<i, j>> \in R /\ <<j, i>> \in R
      BY <1>4 DEF Equivalence
    <3>2. CASE r[x] = r[y]
      BY <1>1, <3>2
    <3>3. CASE r[x] # r[y] /\ r[x] = r[i]
      <4>1. r[y] = r[j]
        BY <2>2, <2>3, <3>3
      <4>2. <<x, i>> \in R /\ <<j, y>> \in R
        BY <1>1, <3>3, <4>1
      <4> QED
        BY <3>1, <4>2 DEF Equivalence
    <3>4. CASE r[x] # r[y] /\ r[x] # r[i]
      <4>1. r[y] = r[i] /\ r[x] = r[j]
        BY <2>2, <2>3, <3>4
      <4>2. <<x, j>> \in R /\ <<i, y>> \in R
        BY <1>1, <4>1
      <4> QED
        BY <3>1, <4>2 DEF Equivalence
    <3> QED
      BY <3>2, <3>3, <3>4
  <2>4. s[i] = s[j]
    BY <2>2
  <2>5. \A x, y \in 1..n : r[x] = r[y] => s[x] = s[y]
    BY <2>2
  <2>6. \A x, y \in 1..n : x < y /\ (x < i \/ (x = i /\ y <= j)) /\ Edge(x, y, tm, ta) => s[x] = s[y]
    BY <1>1, <1>2, <2>4, <2>5
  <2>7. RowStep(i, j, array, tm, ta) = new
    BY <1>4 DEF RowStep, new
  <2> QED
    BY <2>1, <2>3, <2>6, <2>7 DEF Good
<1> QED
  BY <1>3, <1>4

LEMMA RowGood ==
    ASSUME NEW tm, NEW ta, NEW n \in Nat, n = Len(ta), NEW R, Equivalence(R, n), NEW i \in 1..n,
           NEW start, Good(start, i, i, n, tm, ta, R),
           \A x, y \in 1..n : Edge(x, y, tm, ta) => <<x, y>> \in R
    PROVE  Good(JoinRow(i, start, tm, ta), i, n, n, tm, ta, R)
<1> DEFINE q == CHOOSE q : RowOf(q, i, n, start, tm, ta)
<1>1. RowOf(q, i, n, start, tm, ta)
  BY RowExists
<1>2. JoinRow(i, start, tm, ta) = q[n]
  BY JoinRowIs
<1> HIDE DEF q
<1>3. \A j \in i..n : q[j] = IF j = i THEN start ELSE RowStep(i, j, q[j - 1], tm, ta)
  BY <1>1 DEF RowOf
<1> DEFINE bad == {j \in Nat : j \in i..n /\ ~Good(q[j], i, j, n, tm, ta, R)}
<1>4. bad = {}
  <2>1. SUFFICES ASSUME bad # {} PROVE FALSE
    OBVIOUS
  <2>2. PICK j \in bad : \A l \in bad : j <= l
    BY <2>1, NatHasMin
  <2>3. j \in i..n /\ ~Good(q[j], i, j, n, tm, ta, R)
    BY <2>2
  <2>4. j # i
    BY <1>3, <2>3
  <2>5. j - 1 \in i..n /\ j - 1 \in Nat /\ j \in 1..n /\ i < j
    BY <2>3, <2>4
  <2>6. j - 1 \notin bad
    BY <2>2, <2>5
  <2>7. Good(q[j - 1], i, j - 1, n, tm, ta, R)
    BY <2>5, <2>6
  <2>8. Good(RowStep(i, j, q[j - 1], tm, ta), i, j, n, tm, ta, R)
    BY <2>5, <2>7, StepGood
  <2> QED
    BY <1>3, <2>3, <2>4, <2>8
<1>5. n \in i..n /\ n \in Nat
  OBVIOUS
<1>6. Good(q[n], i, n, n, tm, ta, R)
  BY <1>4, <1>5
<1> QED
  BY <1>2, <1>6

\* All pairs: roots are common exactly to what must be together
LEMMA AllGood ==
    ASSUME NEW tm, NEW ta, NEW n \in Nat, n = Len(ta), NEW R, Equivalence(R, n),
           \A x, y \in 1..n : Edge(x, y, tm, ta) => <<x, y>> \in R
    PROVE  Good(JoinAll(tm, ta), n, n, n, tm, ta, R)
<1> DEFINE q == CHOOSE q : AllOf(q, n, tm, ta)
           first == [k \in 1..n |-> k]
<1>1. AllOf(q, n, tm, ta)
  BY AllExists
<1>2. JoinAll(tm, ta) = q[n]
  BY JoinAllIs
<1> HIDE DEF q
<1>3. \A i \in 0..n : q[i] = IF i = 0 THEN first ELSE JoinRow(i, q[i - 1], tm, ta)
  BY <1>1 DEF AllOf
<1>4. Good(first, 0, n, n, tm, ta, R)
  <2> DEFINE h == [k \in 1..n |-> 0]
  <2>1. Tree(n, first, first, h)
    BY DEF Tree
  <2>2. \A x, y \in 1..n : first[x] = first[y] => <<x, y>> \in R
    BY DEF Equivalence
  <2>3. \A x \in 1..n : ~(x < 0 \/ x = 0)
    OBVIOUS
  <2> HIDE DEF first, h
  <2> QED
    BY <2>1, <2>2, <2>3 DEF Good
<1> HIDE DEF first
<1> DEFINE bad == {i \in Nat : i \in 0..n /\ ~Good(q[i], i, n, n, tm, ta, R)}
<1>5. bad = {}
  <2>1. SUFFICES ASSUME bad # {} PROVE FALSE
    OBVIOUS
  <2>2. PICK i \in bad : \A l \in bad : i <= l
    BY <2>1, NatHasMin
  <2>3. i \in 0..n /\ ~Good(q[i], i, n, n, tm, ta, R)
    BY <2>2
  <2>4. i # 0
    BY <1>3, <1>4, <2>3
  <2>5. i - 1 \in 0..n /\ i - 1 \in Nat /\ i \in 1..n
    BY <2>3, <2>4
  <2>6. Good(q[i - 1], i - 1, n, n, tm, ta, R)
    BY <2>2, <2>5
  <2>7. Good(q[i - 1], i, i, n, tm, ta, R)
    <3>1. PICK r, h : /\ Tree(n, q[i - 1], r, h)
                      /\ \A x, y \in 1..n : r[x] = r[y] => <<x, y>> \in R
                      /\ \A x, y \in 1..n : x < y /\ (x < i - 1 \/ (x = i - 1 /\ y <= n)) /\ Edge(x, y, tm, ta)
                                              => r[x] = r[y]
      BY <2>6 DEF Good
    <3>2. \A x, y \in 1..n : x < y /\ (x < i \/ (x = i /\ y <= i)) => x < i - 1 \/ (x = i - 1 /\ y <= n)
      BY <2>5
    <3> QED
      BY <3>1, <3>2 DEF Good
  <2>8. Good(JoinRow(i, q[i - 1], tm, ta), i, n, n, tm, ta, R)
    BY <2>5, <2>7, RowGood
  <2> QED
    BY <1>3, <2>3, <2>4, <2>8
<1>6. Good(q[n], n, n, n, tm, ta, R)
  BY <1>5
<1> QED
  BY <1>2, <1>6

-----------------------------------------------------------------------------
(* The connected threads *)

Closed(t, S) ==
    t \in S /\ \A a \in S, b \in DOMAIN infos : infos[a] \cap infos[b] # {} => b \in S
Reach(t) == {b \in DOMAIN infos : \A S \in SUBSET DOMAIN infos : Closed(t, S) => b \in S}

LEMMA ReachClosed ==
    ASSUME NEW t \in DOMAIN infos
    PROVE  Closed(t, Reach(t)) /\ \A S \in SUBSET DOMAIN infos : Closed(t, S) => Reach(t) \subseteq S
<1>1. t \in Reach(t)
  BY DEF Reach, Closed
<1>2. ASSUME NEW a \in Reach(t), NEW b \in DOMAIN infos, infos[a] \cap infos[b] # {}
      PROVE  b \in Reach(t)
  <2>1. \A S \in SUBSET DOMAIN infos : Closed(t, S) => a \in S /\ b \in S
    BY <1>2 DEF Reach, Closed
  <2> QED
    BY <2>1 DEF Reach
<1> QED
  BY <1>1, <1>2 DEF Closed, Reach

LEMMA ComponentIs == \A t \in DOMAIN infos : Component(t) = Reach(t)
<1> TAKE t \in DOMAIN infos
<1> DEFINE Least(S) == Closed(t, S) /\ \A T \in SUBSET S : Closed(t, T) => T = S
<1>1. Component(t) = CHOOSE S \in SUBSET DOMAIN infos : Least(S)
  BY Zenon DEF Component, Closed
<1>2. Reach(t) \in SUBSET DOMAIN infos
  BY DEF Reach
<1>3. Least(Reach(t))
  <2>1. \A T \in SUBSET Reach(t) : Closed(t, T) => T = Reach(t)
    BY <1>2, ReachClosed
  <2> QED
    BY <2>1, ReachClosed
<1>4. \A S \in SUBSET DOMAIN infos : Least(S) => S = Reach(t)
  BY <1>3, ReachClosed
<1> HIDE DEF Least
<1> QED
  BY <1>1, <1>2, <1>3, <1>4, Zenon

LEMMA ReachSymmetric ==
    ASSUME NEW t \in DOMAIN infos, NEW b \in Reach(t)
    PROVE  t \in Reach(b)
<1> SUFFICES ASSUME t \notin Reach(b) PROVE FALSE
  OBVIOUS
<1>1. b \in DOMAIN infos
  BY DEF Reach
<1> DEFINE S == DOMAIN infos \ Reach(b)
<1>2. Closed(t, S)
  <2>1. ASSUME NEW a \in S, NEW c \in DOMAIN infos, infos[a] \cap infos[c] # {} PROVE c \in S
    <3>1. infos[c] \cap infos[a] # {}
      BY <2>1
    <3> QED
      BY <1>1, <3>1, ReachClosed DEF Closed
  <2> QED
    BY <2>1 DEF Closed
<1>3. b \in S
  BY <1>2 DEF Reach
<1>4. b \in Reach(b)
  BY <1>1, ReachClosed DEF Closed
<1> QED
  BY <1>3, <1>4

LEMMA ReachTransitive ==
    ASSUME NEW t \in DOMAIN infos, NEW b \in Reach(t), NEW c \in Reach(b)
    PROVE  c \in Reach(t)
<1>1. b \in DOMAIN infos /\ c \in DOMAIN infos
  BY DEF Reach
<1>2. Reach(t) \in SUBSET DOMAIN infos /\ Closed(b, Reach(t))
  BY ReachClosed DEF Closed, Reach
<1> QED
  BY <1>1, <1>2, ReachClosed

\* Union and find over all pairs: only connected threads come together, and all of them
\* when the map is the trace
LEMMA GroupsAreReach ==
    ASSUME NEW s, Listing(s, DOMAIN infos), NEW tm,
           \A t \in DOMAIN infos : tm[t] \in {infos[t], {}}
    PROVE  /\ \A g \in GroupTids(tm, s) : \A t \in g : g \subseteq Reach(t)
           /\ (\A t \in DOMAIN infos : tm[t] = infos[t]) =>
                GroupTids(tm, s) = {Reach(t) : t \in DOMAIN infos}
<1> DEFINE n == Len(s)
           array == JoinAll(tm, s)
           R == {e \in (1..n) \X (1..n) : s[e[2]] \in Reach(s[e[1]])}
<1>1. /\ n \in Nat /\ DOMAIN s = 1..n /\ \A i \in 1..n : s[i] \in DOMAIN infos
      /\ \A i, j \in 1..n : s[i] = s[j] => i = j
      /\ \A t \in DOMAIN infos : \E i \in 1..n : s[i] = t
  BY DEF Listing
<1>2. \A x, y \in 1..n : <<x, y>> \in R <=> s[y] \in Reach(s[x])
  OBVIOUS
<1> HIDE DEF R
<1>3. Equivalence(R, n)
  <2>1. \A x \in 1..n : <<x, x>> \in R
    BY <1>1, <1>2, ReachClosed DEF Closed
  <2>2. \A x, y \in 1..n : <<x, y>> \in R => <<y, x>> \in R
    BY <1>1, <1>2, ReachSymmetric
  <2>3. \A x, y, z \in 1..n : <<x, y>> \in R /\ <<y, z>> \in R => <<x, z>> \in R
    BY <1>1, <1>2, ReachTransitive
  <2> QED
    BY <2>1, <2>2, <2>3 DEF Equivalence
<1>4. ASSUME NEW x \in 1..n, NEW y \in 1..n, Edge(x, y, tm, s) PROVE <<x, y>> \in R
  <2>1. infos[s[x]] \cap infos[s[y]] # {}
    BY <1>1, <1>4 DEF Edge, MapConnect
  <2>2. s[x] \in Reach(s[x]) /\ s[y] \in Reach(s[x])
    BY <1>1, <2>1, ReachClosed DEF Closed
  <2> QED
    BY <1>2, <2>2
<1>5. Good(array, n, n, n, tm, s, R)
  BY <1>1, <1>3, <1>4, AllGood
<1>6. PICK r, h : /\ Tree(n, array, r, h)
                  /\ \A x, y \in 1..n : r[x] = r[y] => <<x, y>> \in R
                  /\ \A x, y \in 1..n : x < y /\ (x < n \/ (x = n /\ y <= n)) /\ Edge(x, y, tm, s)
                                          => r[x] = r[y]
  BY <1>5 DEF Good
<1> HIDE DEF n, array
<1>7. ASSUME NEW x \in 1..n, NEW y \in 1..n, x < y, Edge(x, y, tm, s) PROVE r[x] = r[y]
  <2>1. x < n \/ (x = n /\ y <= n)
    BY <1>1
  <2> QED
    BY <1>6, <1>7, <2>1
<1> DEFINE groupOf(i) == {s[j] : j \in {k \in DOMAIN s : FindRoot(k, array) = FindRoot(i, array)}}
<1>8. GroupTids(tm, s) = {groupOf(i) : i \in DOMAIN s}
  BY Zenon DEF GroupTids, array
<1>9. ASSUME NEW i \in 1..n PROVE \A t : t \in groupOf(i) <=> \E k \in 1..n : t = s[k] /\ r[k] = r[i]
  <2>1. \A k \in 1..n : FindRoot(k, array) = r[k]
    BY <1>1, <1>6, RootFound
  <2> QED
    BY <1>1, <2>1
<1> HIDE DEF groupOf
<1>10. ASSUME NEW i \in 1..n, NEW t \in groupOf(i), NEW u \in groupOf(i) PROVE u \in Reach(t)
  <2>1. PICK k \in 1..n : t = s[k] /\ r[k] = r[i]
    BY <1>9
  <2>2. PICK l \in 1..n : u = s[l] /\ r[l] = r[i]
    BY <1>9
  <2> QED
    BY <1>2, <1>6, <2>1, <2>2
<1>11. ASSUME \A t \in DOMAIN infos : tm[t] = infos[t], NEW i \in 1..n
       PROVE  groupOf(i) = Reach(s[i])
  <2>1. s[i] \in groupOf(i) /\ groupOf(i) \subseteq DOMAIN infos
    BY <1>1, <1>9
  <2>2. ASSUME NEW a \in groupOf(i), NEW b \in DOMAIN infos, infos[a] \cap infos[b] # {}
        PROVE  b \in groupOf(i)
    <3>1. PICK k \in 1..n : a = s[k] /\ r[k] = r[i]
      BY <1>9
    <3>2. PICK l \in 1..n : b = s[l]
      BY <1>1
    <3>3. Edge(k, l, tm, s) /\ Edge(l, k, tm, s)
      BY <1>1, <1>11, <2>2, <3>1, <3>2 DEF Edge, MapConnect
    <3>4. r[l] = r[k]
      <4>1. k = l \/ k < l \/ l < k
        BY <1>1
      <4> QED
        BY <1>7, <3>3, <4>1
    <3> QED
      BY <1>9, <3>1, <3>2, <3>4
  <2>3. Closed(s[i], groupOf(i))
    BY <2>1, <2>2 DEF Closed
  <2>4. Reach(s[i]) \subseteq groupOf(i)
    BY <1>1, <2>1, <2>3, ReachClosed
  <2>5. groupOf(i) \subseteq Reach(s[i])
    BY <1>10, <2>1
  <2> QED
    BY <2>4, <2>5
<1>12. \A g \in GroupTids(tm, s) : \A t \in g : g \subseteq Reach(t)
  BY <1>1, <1>8, <1>10
<1>13. ASSUME \A t \in DOMAIN infos : tm[t] = infos[t]
       PROVE  GroupTids(tm, s) = {Reach(t) : t \in DOMAIN infos}
  <2>1. \A i \in 1..n : groupOf(i) = Reach(s[i])
    BY <1>11, <1>13
  <2> QED
    BY <1>1, <1>8, <2>1
<1> QED
  BY <1>12, <1>13

-----------------------------------------------------------------------------
(* The map that is filled while a goroutine may replace it *)

\* What a thread has in the map is what the trace says or nothing, and the
\* former unless the map was replaced
Filled(t) == resultTidMap[t] \in {infos[t], {}} /\ (~wiped => resultTidMap[t] = infos[t])

MapInv ==
    /\ step = "insert" => \A i \in DOMAIN resultTidArray : Filled(resultTidArray[i])
    /\ step = "collect" => resultTidsSlice = {}

\* GroupsExact, over what a thread reaches
ReachExact ==
    step = "changed" =>
        /\ \A g \in resultTidsSlice : \A t \in g : g \subseteq Reach(t)
        /\ resultTidsSlice # {} /\ ~wiped => resultTidsSlice = {Reach(t) : t \in DOMAIN infos}

ExactInv == MapInv /\ ReachExact

LEMMA ExactStays ==
    ASSUME ExactInv, UNCHANGED <<infos, resultTidArray, resultTidMap, wiped, resultTidsSlice>>,
           step' = step \/ step' \notin {"changed", "collect", "insert"}
    PROVE  ExactInv'
<1>1. MapInv'
  BY DEF ExactInv, MapInv, Filled
<1>2. CASE step' # "changed"
  BY <1>1, <1>2 DEF ExactInv, ReachExact
<1>3. CASE step' = "changed"
  <2>1. step = "changed"
    BY <1>3
  <2>2. \A t : Reach(t)' = Reach(t)
    BY DEF Reach, Closed
  <2>3. ReachExact'
    BY <2>1, <2>2 DEF ExactInv, ReachExact
  <2> QED
    BY <1>1, <2>3 DEF ExactInv
<1> QED
  BY <1>2, <1>3

LEMMA StartGroupsExact == ExactInv /\ StartGroups => ExactInv'
BY DEF ExactInv, MapInv, ReachExact, StartGroups

LEMMA CollectExact == Inv /\ ExactInv /\ Collect => ExactInv'
<1> SUFFICES ASSUME Inv, ExactInv, Collect PROVE ExactInv'
  OBVIOUS
<1>1. resultTidsSlice = {} /\ resultTidsSlice' = {} /\ resultTidArray' = <<>>
  BY DEF Collect, ExactInv, MapInv, Inv, ListInv, result
<1>2. step' \in {"changed", "insert"}
  BY DEF Collect
<1> QED
  BY <1>1, <1>2 DEF ExactInv, MapInv, ReachExact

LEMMA InsertExact == Inv /\ ExactInv /\ Insert => ExactInv'
<1> SUFFICES ASSUME Inv, ExactInv, Insert PROVE ExactInv'
  OBVIOUS
<1> DEFINE h == Head(left)
<1>1. /\ step = "insert" /\ step' = "insert" /\ infos' = infos /\ wiped' = wiped
      /\ resultTidArray' = Append(resultTidArray, h)
      /\ resultTidMap' = [resultTidMap EXCEPT ![h] = infos[h]]
      /\ resultTidMap \in [Tids -> SUBSET Futexes]
      /\ resultTidArray \in Seq(DOMAIN infos) /\ left \in Seq(DOMAIN infos) /\ left # <<>>
      /\ DOMAIN infos \subseteq Tids
  BY DEF Insert, Inv, Types, ListInv
<1>2. h \in DOMAIN infos /\ h \in Tids
  BY <1>1
<1> HIDE DEF h
<1>3. \A t : t = h \/ Filled(t) => Filled(t)'
  BY <1>1, <1>2 DEF Filled
<1>4. ASSUME NEW i \in DOMAIN resultTidArray', NEW t, t = resultTidArray'[i] PROVE Filled(t)'
  <2>1. t = h \/ (i \in DOMAIN resultTidArray /\ t = resultTidArray[i])
    BY <1>1, <1>2, <1>4
  <2>2. t = h \/ Filled(t)
    BY <1>1, <2>1 DEF ExactInv, MapInv
  <2> QED
    BY <1>3, <2>2
<1>5. MapInv'
  BY <1>1, <1>4 DEF MapInv, Filled
<1>6. ReachExact'
  BY <1>1 DEF ReachExact
<1> QED
  BY <1>5, <1>6 DEF ExactInv

LEMMA GroupExact == Inv /\ ExactInv /\ Group => ExactInv'
<1> SUFFICES ASSUME Inv, ExactInv, Group PROVE ExactInv'
  OBVIOUS
<1>1. /\ step = "insert" /\ left = <<>> /\ step' = "changed" /\ infos' = infos /\ wiped' = wiped
      /\ resultTidsSlice' = GroupTids(resultTidMap, resultTidArray)
  BY DEF Group
<1>2. Listing(resultTidArray, DOMAIN infos)
  <2>1. resultTidArray \in Seq(DOMAIN infos) /\ Listing(resultTidArray \o left, DOMAIN infos)
    BY <1>1 DEF Inv, ListInv
  <2>2. resultTidArray \o left = resultTidArray
    BY <1>1, <2>1, ConcatEmptySeq
  <2> QED
    BY <2>1, <2>2
<1>3. \A t \in DOMAIN infos : Filled(t)
  BY <1>1, <1>2 DEF Listing, ExactInv, MapInv
<1>4. \A t \in DOMAIN infos : resultTidMap[t] \in {infos[t], {}}
  BY <1>3 DEF Filled
<1>5. ~wiped => \A t \in DOMAIN infos : resultTidMap[t] = infos[t]
  BY <1>3 DEF Filled
<1>6. /\ \A g \in GroupTids(resultTidMap, resultTidArray) : \A t \in g : g \subseteq Reach(t)
      /\ ~wiped => GroupTids(resultTidMap, resultTidArray) = {Reach(t) : t \in DOMAIN infos}
  BY <1>2, <1>4, <1>5, GroupsAreReach
<1>7. \A t : Reach(t)' = Reach(t)
  BY <1>1 DEF Reach, Closed
<1>8. ReachExact'
  BY <1>1, <1>6, <1>7 DEF ReachExact
<1> QED
  BY <1>1, <1>8 DEF ExactInv, MapInv

LEMMA PidChangedExact == ASSUME Inv, ExactInv, NEW i \in DOMAIN sends, PidChanged(i) PROVE ExactInv'
<1>1. /\ step' = step /\ UNCHANGED <<infos, resultTidArray, resultTidsSlice>>
      /\ wiped \in BOOLEAN /\ DOMAIN infos \subseteq Tids
      /\ step = "insert" => resultTidArray \in Seq(DOMAIN infos)
  BY DEF PidChanged, Inv, Types, ListInv, result
<1>2. CASE currentPid = sends[i].pid
  BY <1>1, <1>2, ExactStays DEF PidChanged
<1>3. CASE currentPid # sends[i].pid
  <2>1. resultTidMap' = [t \in Tids |-> {}] /\ wiped' = (wiped \/ step = "insert")
    BY <1>3 DEF PidChanged
  <2>2. MapInv'
    <3>1. ASSUME step = "insert", NEW k \in DOMAIN resultTidArray, NEW t, t = resultTidArray[k]
          PROVE  Filled(t)'
      <4>1. t \in Tids
        BY <1>1, <3>1
      <4> QED
        BY <2>1, <3>1, <4>1 DEF Filled
    <3> QED
      BY <1>1, <3>1 DEF ExactInv, MapInv, Filled
  <2>3. \A t : Reach(t)' = Reach(t)
    BY <1>1 DEF Reach, Closed
  <2>4. ReachExact'
    BY <1>1, <2>1, <2>3 DEF ExactInv, ReachExact
  <2> QED
    BY <2>2, <2>4 DEF ExactInv
<1> QED
  BY <1>2, <1>3

LEMMA NextExact == Inv /\ ExactInv /\ [Next]_vars => ExactInv'
<1> SUFFICES ASSUME Inv, ExactInv, [Next]_vars PROVE ExactInv'
  OBVIOUS
<1>1. CASE Tick \/ Take \/ PassEnd \/ Rebind \/ Same \/ Lookup \/ Environment \/ StopScan
  <2>1. UNCHANGED <<infos, resultTidArray, resultTidMap, wiped, resultTidsSlice>>
    BY <1>1 DEF Tick, Take, PassEnd, Rebind, Same, Lookup, Environment, StopScan, result
  <2>2. step' = step \/ step' \notin {"changed", "collect", "insert"}
    BY <1>1 DEF Tick, Take, PassEnd, Rebind, Same, Lookup, Environment, StopScan
  <2> QED
    BY <2>1, <2>2, ExactStays
<1>2. ASSUME NEW i \in DOMAIN sends, Send(i) PROVE ExactInv'
  BY <1>2, ExactStays DEF Send, result
<1>3. CASE UNCHANGED vars
  BY <1>3, ExactStays DEF vars, result
<1> QED
  BY <1>1, <1>2, <1>3, StartGroupsExact, CollectExact, InsertExact, GroupExact, PidChangedExact
     DEF Next, Scan, Goroutine

\* Threads are put into a group only when they are connected in the trace, even if a goroutine
\* replaces the map while it is filled; if none does, union and find over all pairs yields exactly
\* the connected sets
THEOREM GroupsExactHolds == Spec => []GroupsExact
<1>1. Init => ExactInv
  BY DEF Init, ExactInv, MapInv, ReachExact
<1>2. Inv /\ Inv' /\ ExactInv /\ [Next]_vars => ExactInv'
  BY NextExact
<1>3. ASSUME ExactInv PROVE GroupsExact
  <2> SUFFICES ASSUME step = "changed"
               PROVE  /\ \A g \in resultTidsSlice : \A t \in g : g \subseteq Component(t)
                      /\ resultTidsSlice # {} /\ ~wiped =>
                             resultTidsSlice = {Component(t) : t \in DOMAIN infos}
    BY DEF GroupsExact
  <2>1. ASSUME NEW g \in resultTidsSlice, NEW t \in g PROVE g \subseteq Component(t)
    <3>1. g \subseteq Reach(t)
      BY <1>3, <2>1 DEF ExactInv, ReachExact
    <3>2. t \in DOMAIN infos
      BY <2>1, <3>1 DEF Reach
    <3> QED
      BY <3>1, <3>2, ComponentIs
  <2>2. {Component(t) : t \in DOMAIN infos} = {Reach(t) : t \in DOMAIN infos}
    BY ComponentIs
  <2>3. resultTidsSlice # {} /\ ~wiped => resultTidsSlice = {Reach(t) : t \in DOMAIN infos}
    BY <1>3 DEF ExactInv, ReachExact
  <2> QED
    BY <2>1, <2>2, <2>3
<1> QED
  BY <1>1, <1>2, <1>3, InvHolds, PTL DEF Spec

=============================================================================
