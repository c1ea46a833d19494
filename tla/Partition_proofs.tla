-------------------------- MODULE Partition_proofs --------------------------
(***************************************************************************)
(* Dealing threads to groups of CPUs: for any number of threads, lists and *)
(* refusals, each thread goes to one group of its kind, and each group     *)
(* gets its part.                                                          *)
(***************************************************************************)
EXTENDS Partition, Sums_proofs, SequenceTheorems

CpuSet == {S \in SUBSET Nat : IsFiniteSet(S) /\ S # {}}
Group == [flag : Kinds, cpus : CpuSet]

\* The threads of the kind are on its groups, other than those left out
On(k, t) == \E i \in SetsOf(k) : party[i].cpus = affinity[t]
Placed(k, out) == SetsOf(k) # {} => \A t \in OfKind(k) \ out : On(k, t)

\* While a kind is dealt its threads are in hand or with a group already served
DealInv ==
    step = "dealing" =>
        /\ sets \subseteq SetsOf(kind) /\ hand \subseteq OfKind(kind)
        /\ sets = {} <=> hand = {}
        /\ DOMAIN share = SetsOf(kind)
        /\ \A i \in sets : share[i] = {}
        /\ UNION {share[i] : i \in SetsOf(kind)} = OfKind(kind) \ hand
        /\ \A i, j \in SetsOf(kind) : i # j => share[i] \cap share[j] = {}

\* What is known of the threads of each kind between the steps of a pass
KindInv ==
    /\ step = "none" => sets = {} /\ \A k \in Kinds : OfKind(k) = {}
    /\ step = "dealing" => Placed(kind, hand \cup refusals)
    /\ step = "net" => Placed("io", refusals)
    /\ step = "waiting" => Placed("net", refusals)
    /\ step = "waiting" \/ (step = "dealing" /\ kind = "net") =>
         Placed("io", OfKind("net") \cup refusals)

Inv == TypeOK /\ party \in Seq(Group) /\ DealInv /\ KindInv

LEMMA CpusIn ==
    ASSUME NEW item \in Items, Valid(item)
    PROVE  CPUs(item) \in CpuSet
<1>1. item.lo \in Nat /\ item.hi \in Nat
  BY PartitionAssumption
<1>2. CASE item.kind = "cpu"
  <2>1. CPUs(item) = {item.lo} /\ IsFiniteSet({item.lo})
    BY <1>2, FS_Singleton DEF CPUs
  <2> QED
    BY <1>1, <2>1 DEF CpuSet
<1>3. CASE item.kind # "cpu"
  <2>1. CPUs(item) = item.lo..item.hi /\ item.lo <= item.hi
    BY <1>3 DEF CPUs, Valid
  <2>2. IsFiniteSet(item.lo..item.hi)
    <3>1. \A a, b \in Nat : IsFiniteSet(a..b)
      BY FS_Interval
    <3> QED
      BY <1>1, <3>1
  <2> QED
    BY <1>1, <2>1, <2>2 DEF CpuSet
<1> QED
  BY <1>2, <1>3

LEMMA GroupsIn ==
    ASSUME NEW max \in Nat, NEW list \in Lists(max), AllValid(list), NEW flag \in Kinds
    PROVE  GroupsOf(list, flag) \in Seq(Group)
<1>1. PICK n \in Nat : list \in [1..n -> Items]
  BY DEF Lists
<1>2. ASSUME NEW i \in 1..n PROVE [flag |-> flag, cpus |-> CPUs(list[i])] \in Group
  BY <1>1, <1>2, CpusIn DEF AllValid, Group
<1> QED
  BY <1>1, <1>2 DEF GroupsOf

LEMMA PartyTyped == \A p \in Seq(Group) : p \in Seq([flag : Kinds, cpus : SUBSET Nat])
<1> TAKE p \in Seq(Group)
<1>1. \A g \in Group : g \in [flag : Kinds, cpus : SUBSET Nat]
  BY DEF Group, CpuSet
<1> DEFINE G == [flag : Kinds, cpus : SUBSET Nat]
<1>2. Group \subseteq G
  BY <1>1
<1> HIDE DEF G
<1>3. p \in Seq(G)
  BY <1>2
<1> QED
  BY <1>3 DEF G

LEMMA PartyFacts ==
    ASSUME party \in Seq(Group), NEW k \in Kinds
    PROVE  /\ party \in Seq([flag : Kinds, cpus : SUBSET Nat])
           /\ SetsOf(k) \subseteq DOMAIN party /\ DOMAIN party \subseteq Nat
           /\ IsFiniteSet(DOMAIN party) /\ IsFiniteSet(SetsOf(k))
           /\ \A i \in DOMAIN party : /\ party[i].cpus \in SUBSET Nat /\ Size[i] \in Nat
                                      /\ Size[i] > 0
<1>1. DOMAIN party = 1..Len(party) /\ Len(party) \in Nat
  OBVIOUS
<1>2. IsFiniteSet(DOMAIN party)
  BY <1>1, FS_Interval
<1>3. ASSUME NEW i \in DOMAIN party
      PROVE  party[i].cpus \in SUBSET Nat /\ Size[i] \in Nat /\ Size[i] > 0
  <2>1. party[i] \in Group
    BY <1>1
  <2>2. party[i].cpus \in SUBSET Nat /\ IsFiniteSet(party[i].cpus) /\ party[i].cpus # {}
    BY <2>1 DEF Group, CpuSet
  <2>3. Cardinality(party[i].cpus) \in Nat /\ Cardinality(party[i].cpus) # 0
    BY <2>2, FS_CardinalityType, FS_EmptySet
  <2>4. Size[i] = Cardinality(party[i].cpus)
    BY DEF Size
  <2> QED
    BY <2>2, <2>3, <2>4
<1>5. party \in Seq([flag : Kinds, cpus : SUBSET Nat])
  BY PartyTyped
<1>6. SetsOf(k) \subseteq DOMAIN party
  BY DEF SetsOf
<1> QED
  BY <1>1, <1>2, <1>3, <1>5, <1>6, FS_Subset

\* The sizes of groups add up to more than nothing, and to the first one's and the others'
LEMMA BaseFacts ==
    ASSUME party \in Seq(Group), NEW S, S \subseteq DOMAIN party
    PROVE  /\ Base(S) \in Nat /\ (Base(S) = 0 <=> S = {})
           /\ \A i \in S : Base(S) = Size[i] + Base(S \ {i}) /\ Size[i] <= Base(S)
<1>1. IsFiniteSet(DOMAIN party) /\ \A i \in DOMAIN party : Size[i] \in Nat /\ Size[i] > 0
  <2>1. "io" \in Kinds
    BY DEF Kinds
  <2> QED
    BY <2>1, PartyFacts
<1>2. \A T \in SUBSET DOMAIN party : IsFiniteSet(T) /\ SumOf(Size, T) \in Int
  <2>1. TAKE T \in SUBSET DOMAIN party
  <2>2. IsFiniteSet(T) /\ \A x \in T : Size[x] \in Int
    BY <1>1, <2>1, FS_Subset
  <2> QED
    BY <2>2, SumInt
<1>3. \A T \in SUBSET DOMAIN party : \A i \in T : SumOf(Size, T) = Size[i] + SumOf(Size, T \ {i})
  <2>1. TAKE T \in SUBSET DOMAIN party
  <2>2. IsFiniteSet(T) /\ \A x \in T : Size[x] \in Int
    BY <1>1, <1>2, <2>1
  <2> QED
    BY <2>2, SumLess
<1>4. SumOf(Size, {}) = 0
  BY SumSteps, FS_EmptySet
<1> DEFINE bad == {T \in SUBSET (DOMAIN party) : SumOf(Size, T) < 0}
<1>5. bad = {}
  <2>1. SUFFICES ASSUME bad # {} PROVE FALSE
    OBVIOUS
  <2>b. bad \in SUBSET SUBSET DOMAIN party
    OBVIOUS
  <2> DEFINE some == bad
  <2>d. some # {} /\ some \subseteq SUBSET DOMAIN party
    BY <2>1, <2>b
  <2> HIDE DEF some
  <2>e. \E T \in some : \A x \in T : T \ {x} \notin some
    BY <1>1, <2>d, SmallestSet
  <2>f. PICK T \in some : \A x \in T : T \ {x} \notin some
    BY <2>e
  <2>2. T \in bad /\ \A x \in T : T \ {x} \notin bad
    BY <2>f, Zenon DEF some
  <2>3. T # {}
    <3>1. SumOf(Size, T) # 0
      <4>1. SumOf(Size, T) < 0 /\ SumOf(Size, T) \in Int
        BY <1>2, <2>2
      <4> QED
        BY <4>1
    <3> QED
      BY <1>4, <3>1, Zenon
  <2>4. PICK x \in T : TRUE
    BY <2>3
  <2>5. SumOf(Size, T) = Size[x] + SumOf(Size, T \ {x}) /\ SumOf(Size, T \ {x}) >= 0
    BY <1>2, <1>3, <2>2, <2>4
  <2>6. SumOf(Size, T) \in Int /\ SumOf(Size, T \ {x}) \in Int /\ Size[x] \in Nat
    BY <1>1, <1>2, <2>2, <2>4
  <2> QED
    BY <2>2, <2>5, <2>6
<1>6. \A T \in SUBSET DOMAIN party : SumOf(Size, T) \in Nat
  BY <1>2, <1>5
<1> HIDE DEF bad
<1>7. ASSUME NEW i \in S
      PROVE  Base(S) = Size[i] + Base(S \ {i}) /\ Size[i] <= Base(S) /\ Base(S) # 0
  <2>1. Base(S) = Size[i] + Base(S \ {i}) /\ Size[i] \in Nat /\ Base(S \ {i}) \in Nat /\ Size[i] > 0
    BY <1>1, <1>3, <1>6 DEF Base
  <2> QED
    BY <2>1
<1>8. Base(S) \in Nat /\ Base({}) = 0
  BY <1>4, <1>6 DEF Base
<1> QED
  BY <1>7, <1>8

LEMMA FirstIn ==
    ASSUME party \in Seq(Group), sets \subseteq DOMAIN party, sets # {}
    PROVE  First \in sets /\ \A j \in sets : First <= j
<1>1. sets \subseteq Nat
  BY PartyFacts DEF Kinds
<1>2. \E i \in sets : \A j \in sets : i <= j
  BY <1>1, NatHasMin
<1> QED
  BY <1>2 DEF First

LEMMA HandFacts ==
    ASSUME NEW H \in SUBSET Threads
    PROVE  IsFiniteSet(H) /\ Cardinality(H) \in Nat /\ \A n : FirstOf(n, H) \subseteq H
<1>1. IsFiniteSet(Threads)
  BY PartitionAssumption, FS_Interval DEF Threads
<1> QED
  BY <1>1, FS_Subset, FS_CardinalityType DEF FirstOf

\* A slice as long as the list is the list
LEMMA FirstOfAll ==
    ASSUME NEW H \in SUBSET Threads, NEW n \in Int, Cardinality(H) <= n
    PROVE  FirstOf(n, H) = H
<1>1. IsFiniteSet(H) /\ Cardinality(H) \in Nat
  BY HandFacts
<1>2. ASSUME NEW t \in H PROVE Cardinality({u \in H : u < t}) < n
  <2>1. {u \in H : u < t} \subseteq H \ {t}
    BY PartitionAssumption DEF Threads
  <2>2. /\ IsFiniteSet(H \ {t}) /\ Cardinality(H \ {t}) = Cardinality(H) - 1
    BY <1>1, FS_RemoveElement
  <2>3. /\ Cardinality({u \in H : u < t}) <= Cardinality(H \ {t})
        /\ Cardinality({u \in H : u < t}) \in Nat
    BY <2>1, <2>2, FS_Subset, FS_CardinalityType
  <2> QED
    BY <1>1, <2>2, <2>3
<1> QED
  BY <1>2 DEF FirstOf

\* The quotient of the last group is all that are left
LEMMA LastTakesAll ==
    ASSUME TypeOK, party \in Seq(Group), sets = {First}
    PROVE  Taken = hand
<1>1. First \in DOMAIN party /\ Size[First] \in Nat /\ Size[First] > 0
  BY PartyFacts DEF TypeOK, Kinds
<1>2. Base(sets) = Size[First]
  <2>1. sets \subseteq DOMAIN party /\ First \in sets
    BY DEF TypeOK
  <2>2. Base(sets) = Size[First] + Base(sets \ {First})
    BY <2>1, BaseFacts
  <2>3. sets \ {First} = {}
    OBVIOUS
  <2>4. Base({}) = 0
    <3>1. {} \subseteq DOMAIN party
      OBVIOUS
    <3> QED
      BY <3>1, BaseFacts
  <2>5. Base(sets \ {First}) = 0
    BY <2>3, <2>4, Zenon
  <2> QED
    BY <1>1, <2>2, <2>5
<1>3. hand \in SUBSET Threads /\ Cardinality(hand) \in Nat
  BY HandFacts DEF TypeOK
<1> DEFINE h == Cardinality(hand)
           c == Size[First]
<1>4. Round(c, sets, h) = (h * c + c) \div c
  BY <1>2 DEF Round
<1>5. (h * c + c) \div c = h + 1
  <2>1. h \in Nat /\ c \in Nat /\ c > 0
    BY <1>1, <1>3
  <2> HIDE DEF h, c
  <2>2. h * c + c = (h + 1) * c
    BY <2>1
  <2>3. ((h + 1) * c) \div c = h + 1
    BY <2>1
  <2> QED
    BY <2>2, <2>3
<1> QED
  BY <1>3, <1>4, <1>5, FirstOfAll DEF Taken

-----------------------------------------------------------------------------
(* The steps *)

\* Where the groups, the counts and the masks stay, so does what is said of them
LEMMA SameKinds ==
    ASSUME infos' = infos, party' = party
    PROVE  \A k : OfKind(k)' = OfKind(k) /\ SetsOf(k)' = SetsOf(k)
BY DEF OfKind, SetsOf

LEMMA InitInv == Init => Inv
<1> SUFFICES ASSUME Init PROVE Inv
  OBVIOUS
<1>1. TypeOK /\ party \in Seq(Group)
  BY DEF Init, TypeOK, Kinds
<1> QED
  BY <1>1 DEF Inv, Init, DealInv, KindInv, OfKind, Kinds

\* The lists of groups that start a loop
LEMMA ListsInv ==
    ASSUME Inv, step = "none", step' = "waiting", party' \in Seq(Group), infos' = infos,
           UNCHANGED <<kind, sets, hand, share, affinity, refusals>>
    PROVE  Inv'
<1>1. TypeOK'
  <2>1. party' \in Seq([flag : Kinds, cpus : SUBSET Nat]) /\ sets' = {}
    BY PartyTyped DEF Inv, KindInv
  <2> QED
    BY <2>1 DEF Inv, TypeOK
<1>2. \A k \in Kinds : OfKind(k)' = {}
  BY DEF Inv, KindInv, OfKind
<1>3. KindInv'
  BY <1>2 DEF KindInv, Placed, Kinds
<1> QED
  BY <1>1, <1>3 DEF Inv, DealInv

LEMMA UserListsInv ==
    ASSUME Inv, NEW io \in Lists(MaxIO), NEW net \in Lists(MaxNet), UserLists(io, net)
    PROVE  Inv'
<1>1. party' \in Seq(Group)
  <2>1. GroupsOf(io, "io") \in Seq(Group) /\ GroupsOf(net, "net") \in Seq(Group)
    BY GroupsIn, PartitionAssumption DEF UserLists, Kinds
  <2> HIDE DEF GroupsOf
  <2> QED
    BY <2>1 DEF UserLists
<1>2. /\ step' = "waiting" /\ infos' = infos /\ UNCHANGED <<kind, sets, hand, share, affinity, refusals>>
      /\ step = "none"
  BY DEF UserLists
<1> QED
  BY <1>1, <1>2, ListsInv

LEMMA DefaultListsInv == Inv /\ DefaultLists => Inv'
<1> SUFFICES ASSUME Inv, DefaultLists PROVE Inv'
  OBVIOUS
<1>1. party' \in Seq(Group)
  <2>1. PICK order \in [1..Cardinality(NumaCpus) -> NumaCpus] :
               party' = [i \in DOMAIN order |-> [flag |-> "net", cpus |-> order[i]]]
    BY DEF DefaultLists
  <2>2. Cardinality(NumaCpus) \in Nat
    BY PartitionAssumption, FS_CardinalityType
  <2>3. ASSUME NEW i \in 1..Cardinality(NumaCpus)
        PROVE  [flag |-> "net", cpus |-> order[i]] \in Group
    BY <2>3, PartitionAssumption DEF Group, CpuSet, Kinds
  <2> QED
    BY <2>1, <2>2, <2>3
<1>2. /\ step' = "waiting" /\ infos' = infos /\ UNCHANGED <<kind, sets, hand, share, affinity, refusals>>
      /\ step = "none"
  BY DEF DefaultLists
<1> QED
  BY <1>1, <1>2, ListsInv

LEMMA CollectInv ==
    ASSUME Inv, NEW counts \in [Threads -> SUBSET Kinds], Collect(counts)
    PROVE  Inv'
<1> USE DEF Inv
<1>1. party' = party /\ step' = "io"
  BY DEF Collect
<1>2. TypeOK'
  BY DEF TypeOK, Collect
<1>3. DealInv' /\ KindInv'
  BY <1>1 DEF DealInv, KindInv
<1> QED
  BY <1>1, <1>2, <1>3

LEMMA DealStepInv == ASSUME Inv, NEW k \in Kinds, Deal(k) PROVE Inv'
<1> USE DEF Inv
<1>1. party' = party /\ infos' = infos /\ affinity' = affinity /\ refusals' = refusals
  BY DEF Deal
<1>2. TypeOK'
  <2>1. SetsOf(k) \subseteq DOMAIN party /\ OfKind(k) \subseteq Threads
    BY DEF SetsOf, OfKind
  <2>2. step' \in {"none", "waiting", "io", "net", "dealing", "panic"}
    BY DEF Deal, After
  <2> QED
    BY <2>1, <2>2 DEF TypeOK, Deal
<1>3. /\ OfKind(k)' = OfKind(k) /\ SetsOf(k)' = SetsOf(k)
      /\ OfKind("io")' = OfKind("io") /\ SetsOf("io")' = SetsOf("io")
      /\ OfKind("net")' = OfKind("net") /\ SetsOf("net")' = SetsOf("net")
  BY <1>1, SameKinds
<1>4. SetsOf(k) \subseteq DOMAIN party /\ (Base(SetsOf(k)) = 0 <=> SetsOf(k) = {})
  <2>1. SetsOf(k) \subseteq DOMAIN party
    BY DEF SetsOf
  <2> QED
    BY <2>1, BaseFacts
<1>5. step' = "dealing" => OfKind(k) # {} /\ SetsOf(k) # {}
  BY <1>4 DEF Deal, After, Kinds
<1>6. DealInv'
  <2>1. SUFFICES ASSUME step' = "dealing" PROVE DealInv'
    BY DEF DealInv
  <2>2. kind' = k /\ sets' = SetsOf(k) /\ hand' = OfKind(k) /\ share' = [i \in SetsOf(k) |-> {}]
    BY DEF Deal
  <2>3. sets' \subseteq SetsOf(k) /\ hand' \subseteq OfKind(k) /\ (sets' = {} <=> hand' = {})
    BY <1>5, <2>1, <2>2
  <2>4. DOMAIN share' = SetsOf(k) /\ \A i \in SetsOf(k) : share'[i] = {}
    BY <2>2
  <2>5. UNION {share'[i] : i \in SetsOf(k)} = {}
    BY <2>4
  <2> QED
    BY <1>3, <2>2, <2>3, <2>4, <2>5 DEF DealInv
<1>7. KindInv'
  <2>1. (step' = "dealing" => Placed(kind, hand \cup refusals)')
    BY <1>3 DEF Deal, Placed
  <2>2. step' # "none" /\ step = k
    BY DEF Deal, After
  <2>3. step' = "net" => k = "io" /\ (OfKind("io") = {} \/ SetsOf("io") = {})
    BY <1>4 DEF Deal, After, Kinds
  <2>4. step' = "net" => Placed("io", refusals)'
    BY <1>3, <2>3 DEF Placed
  <2>5. step' = "waiting" => k = "net" /\ (OfKind("net") = {} \/ SetsOf("net") = {})
    BY <1>4 DEF Deal, After, Kinds
  <2>6. step' = "waiting" => Placed("net", refusals)'
    BY <1>3, <2>5 DEF Placed
  <2>7. step' = "waiting" \/ (step' = "dealing" /\ kind' = "net") => step = "net"
    BY <2>2, <2>5 DEF Deal
  <2>8. step = "net" => Placed("io", OfKind("net") \cup refusals)'
    BY <1>1, <1>3 DEF Placed, KindInv, On
  <2> QED
    BY <2>1, <2>2, <2>4, <2>6, <2>7, <2>8 DEF KindInv
<1> QED
  BY <1>1, <1>2, <1>6, <1>7

LEMMA MaskPanicInv == Inv /\ MaskPanic => Inv'
<1> SUFFICES ASSUME Inv, MaskPanic PROVE Inv'
  OBVIOUS
<1> QED
  BY DEF Inv, MaskPanic, TypeOK, DealInv, KindInv

LEMMA DealtInv == Inv /\ Dealt => Inv'
<1> SUFFICES ASSUME Inv, Dealt PROVE Inv'
  OBVIOUS
<1> USE DEF Inv
<1>1. UNCHANGED <<party, infos, kind, sets, hand, share, affinity, refusals>> /\ step' = After(kind)
  BY DEF Dealt
<1>2. TypeOK' /\ step' \in {"net", "waiting"}
  BY DEF Dealt, TypeOK, After
<1>3. hand = {} /\ kind \in Kinds
  BY DEF DealInv, TypeOK, Dealt
<1>4. step' = "net" => Placed("io", refusals)
  BY <1>1, <1>3 DEF KindInv, Dealt, After, Kinds
<1>5. step' = "waiting" => Placed("net", refusals) /\ Placed("io", OfKind("net") \cup refusals)
  BY <1>1, <1>3 DEF KindInv, Dealt, After, Kinds
<1>6. KindInv'
  BY <1>1, <1>2, <1>4, <1>5 DEF KindInv, Placed, On, SetsOf, OfKind
<1> QED
  BY <1>1, <1>2, <1>6 DEF DealInv

\* What a group takes is in hand, and the last group leaves nothing
LEMMA TakenFacts ==
    ASSUME Inv, step = "dealing", sets # {}
    PROVE  /\ First \in sets /\ First \in SetsOf(kind) /\ First \in DOMAIN party
           /\ Taken \subseteq hand /\ hand \subseteq Threads /\ Taken \subseteq OfKind(kind)
           /\ sets \ {First} = {} => Taken = hand
<1> USE DEF Inv
<1>1. First \in sets /\ sets \subseteq DOMAIN party
  BY FirstIn DEF TypeOK
<1>2. Taken \subseteq hand
  BY HandFacts DEF TypeOK, Taken
<1>3. sets \ {First} = {} => sets = {First}
  BY <1>1
<1>4. sets \ {First} = {} => Taken = hand
  BY <1>3, LastTakesAll
<1> QED
  BY <1>1, <1>2, <1>4 DEF DealInv, TypeOK

LEMMA BindGroupInv == ASSUME Inv, NEW gone \in SUBSET Threads, BindGroup(gone) PROVE Inv'
<1> USE DEF Inv
<1>1. step = "dealing" /\ sets # {} /\ step' = "dealing" /\ UNCHANGED <<party, infos, kind>>
  BY DEF BindGroup
<1> DEFINE F == First
           T == Taken
<1>2. /\ F \in sets /\ F \in SetsOf(kind) /\ F \in DOMAIN party
      /\ T \subseteq hand /\ hand \subseteq Threads /\ T \subseteq OfKind(kind)
      /\ sets \ {F} = {} => T = hand
  BY <1>1, TakenFacts
<1>3. /\ gone \subseteq T
      /\ affinity' = [t \in Threads |-> IF t \in T \ gone THEN party[F].cpus ELSE affinity[t]]
      /\ refusals' = (refusals \ T) \cup gone
      /\ share' = [share EXCEPT ![F] = T]
      /\ hand' = hand \ T
      /\ sets' = IF T = hand THEN {} ELSE sets \ {F}
  BY DEF BindGroup
<1> HIDE DEF F, T
<1>4. \A k : OfKind(k)' = OfKind(k) /\ SetsOf(k)' = SetsOf(k)
  BY <1>1, SameKinds
<1>5. TypeOK'
  <2>1. party[F].cpus \in SUBSET Nat /\ affinity \in [Threads -> SUBSET Nat]
    BY <1>2, PartyFacts DEF TypeOK
  <2>2. affinity' \in [Threads -> SUBSET Nat]
    BY <1>3, <2>1
  <2> QED
    BY <1>1, <1>2, <1>3, <2>2 DEF TypeOK
<1>6. DealInv'
  <2>1. /\ sets \subseteq SetsOf(kind) /\ hand \subseteq OfKind(kind) /\ hand # {}
        /\ DOMAIN share = SetsOf(kind) /\ \A i \in sets : share[i] = {}
        /\ UNION {share[i] : i \in SetsOf(kind)} = OfKind(kind) \ hand
        /\ \A i, j \in SetsOf(kind) : i # j => share[i] \cap share[j] = {}
    BY <1>1 DEF DealInv
  <2>2. sets' = {} <=> hand' = {}
    <3>1. hand' = {} <=> T = hand
      BY <1>2, <1>3
    <3>2. sets' = {} <=> T = hand
      BY <1>2, <1>3, Zenon
    <3> QED
      BY <3>1, <3>2
  <2>3. DOMAIN share' = SetsOf(kind) /\ \A i \in SetsOf(kind) : share'[i] = IF i = F THEN T ELSE share[i]
    BY <1>2, <1>3, <2>1
  <2>4. \A i \in sets' : share'[i] = {}
    BY <1>3, <2>1, <2>3
  <2>5. UNION {share'[i] : i \in SetsOf(kind)} = OfKind(kind) \ hand'
    <3>1. \A t : (\E i \in SetsOf(kind) : t \in share'[i])
                   <=> t \in T \/ \E i \in SetsOf(kind) : t \in share[i]
      BY <1>2, <2>1, <2>3
    <3>2. \A t : (\E i \in SetsOf(kind) : t \in share[i]) <=> t \in OfKind(kind) /\ t \notin hand
      BY <2>1
    <3>3. \A t : (\E i \in SetsOf(kind) : t \in share'[i]) <=> t \in OfKind(kind) /\ t \notin hand'
      BY <1>2, <1>3, <3>1, <3>2
    <3> QED
      BY <3>3
  <2>6. ASSUME NEW i \in SetsOf(kind), NEW j \in SetsOf(kind), i # j
        PROVE  share'[i] \cap share'[j] = {}
    <3>1. \A k \in SetsOf(kind) : share[k] \cap T = {}
      BY <1>2, <2>1
    <3> QED
      BY <2>1, <2>3, <2>6, <3>1
  <2>7. sets' \subseteq SetsOf(kind) /\ hand' \subseteq OfKind(kind)
    BY <1>3, <2>1
  <2> QED
    BY <1>1, <1>4, <2>2, <2>3, <2>4, <2>5, <2>6, <2>7 DEF DealInv
<1>7. KindInv'
  <2>1. kind \in Kinds /\ affinity \in [Threads -> SUBSET Nat] /\ OfKind(kind) \subseteq Threads
        /\ OfKind("io") \subseteq Threads
    BY DEF TypeOK, OfKind
  <2>2. ASSUME NEW t \in OfKind(kind) \ (hand' \cup refusals')
        PROVE  \E i \in SetsOf(kind) : party[i].cpus = affinity'[t]
    <3>1. CASE t \in T
      BY <1>2, <1>3, <2>1, <3>1
    <3>2. CASE t \notin T
      <4>1. t \notin hand \cup refusals /\ affinity'[t] = affinity[t]
        BY <1>3, <2>1, <2>2, <3>2
      <4> QED
        BY <1>1, <1>2, <4>1 DEF KindInv, Placed, On
    <3> QED
      BY <3>1, <3>2
  <2>3. ASSUME kind = "net", SetsOf("io") # {},
               NEW t \in OfKind("io") \ (OfKind("net") \cup refusals')
        PROVE  \E i \in SetsOf("io") : party[i].cpus = affinity'[t]
    <3>1. t \notin T /\ t \notin refusals /\ affinity'[t] = affinity[t]
      BY <1>2, <1>3, <2>1, <2>3
    <3> QED
      BY <1>1, <2>3, <3>1 DEF KindInv, Placed, On
  <2> QED
    BY <1>1, <1>4, <2>2, <2>3 DEF KindInv, Placed, On
<1> QED
  BY <1>1, <1>5, <1>6, <1>7

LEMMA Stuttering == Inv /\ UNCHANGED vars => Inv'
BY DEF Inv, vars, TypeOK, DealInv, KindInv, Placed, On, OfKind, SetsOf

\* The inductive invariant of the passes: what is dealt, in hand and on which CPUs
THEOREM InvHolds == Spec => []Inv
<1>1. Init => Inv
  BY InitInv
<1>2. Inv /\ [Next]_vars => Inv'
  BY UserListsInv, DefaultListsInv, CollectInv, DealStepInv, BindGroupInv, MaskPanicInv,
     DealtInv, Stuttering DEF Next
<1> QED
  BY <1>1, <1>2, PTL DEF Spec

\* Every thread of a kind is dealt, to one group only, for lists of any length:
\* the last group left takes all that are left
THEOREM AllDealtHolds == Spec => []AllDealt
<1>1. Inv => AllDealt
  BY DEF Inv, DealInv, AllDealt
<1> QED
  BY <1>1, InvHolds, PTL

\* After a pass each thread is on a group of its kind, unless its last mask was
\* refused; what the io groups were given is overruled for net threads alone
THEOREM OnOwnKindHolds == Spec => []OnOwnKind
<1>1. ASSUME Inv, step = "waiting", NEW t \in Threads \ refusals
      PROVE  /\ "net" \in infos[t] /\ SetsOf("net") # {} => On("net", t)
             /\ "net" \notin infos[t] /\ "io" \in infos[t] /\ SetsOf("io") # {} => On("io", t)
  <2>1. Placed("net", refusals) /\ Placed("io", OfKind("net") \cup refusals)
    BY <1>1 DEF Inv, KindInv
  <2>2. \A k \in Kinds : k \in infos[t] <=> t \in OfKind(k)
    BY DEF OfKind
  <2>3. t \notin refusals
    OBVIOUS
  <2> QED
    BY <2>1, <2>2, <2>3 DEF Placed, Kinds
<1>2. Inv => OnOwnKind
  BY <1>1 DEF On, OnOwnKind
<1> QED
  BY <1>2, InvHolds, PTL

\* The groups, masks and threads in hand are what their names say
THEOREM TypeCorrect == Spec => []TypeOK
<1>1. Inv => TypeOK
  BY DEF Inv
<1> QED
  BY <1>1, InvHolds, PTL

-----------------------------------------------------------------------------
(* How many threads each group gets *)

Below(t, H) == {u \in H : u < t}

LEMMA RankGrows ==
    ASSUME NEW H \in SUBSET Threads
    PROVE  /\ \A t : Cardinality(Below(t, H)) \in Nat
           /\ \A r, t \in H : r < t => Cardinality(Below(r, H)) < Cardinality(Below(t, H))
<1>1. IsFiniteSet(H) /\ H \subseteq Nat
  BY HandFacts, PartitionAssumption DEF Threads
<1>2. \A t : IsFiniteSet(Below(t, H)) /\ Cardinality(Below(t, H)) \in Nat
  <2>1. \A t : Below(t, H) \subseteq H
    BY DEF Below
  <2> QED
    BY <1>1, <2>1, FS_Subset, FS_CardinalityType
<1>3. ASSUME NEW r \in H, NEW t \in H, r < t
      PROVE  Cardinality(Below(r, H)) < Cardinality(Below(t, H))
  <2>1. r \in Below(t, H)
    BY <1>3 DEF Below
  <2>2. Below(r, H) \subseteq Below(t, H) \ {r}
    <3>1. r \in Nat /\ t \in Nat
      BY <1>1
    <3>2. \A u \in H : u < r => u < t /\ u # r
      BY <1>1, <1>3, <3>1
    <3> QED
      BY <3>2 DEF Below
  <2>3. Cardinality(Below(t, H) \ {r}) = Cardinality(Below(t, H)) - 1 /\ IsFiniteSet(Below(t, H) \ {r})
    BY <1>2, <2>1, FS_RemoveElement
  <2>4. Cardinality(Below(r, H)) <= Cardinality(Below(t, H) \ {r})
    BY <2>2, <2>3, FS_Subset
  <2> QED
    BY <1>2, <2>3, <2>4
<1> QED
  BY <1>2, <1>3

\* A slice has as many elements as it is asked for
LEMMA FirstOfCount ==
    ASSUME NEW H \in SUBSET Threads
    PROVE  \A n \in Nat : n <= Cardinality(H) => Cardinality(FirstOf(n, H)) = n
<1> DEFINE bad == {n \in Nat : n <= Cardinality(H) /\ Cardinality(FirstOf(n, H)) # n}
<1>1. SUFFICES ASSUME bad # {} PROVE FALSE
  OBVIOUS
<1>2. PICK n \in bad : \A k \in bad : n <= k
  BY <1>1, NatHasMin
<1>3. IsFiniteSet(H) /\ Cardinality(H) \in Nat /\ H \subseteq Nat
  BY HandFacts, PartitionAssumption DEF Threads
<1>4. \A t : Cardinality(Below(t, H)) \in Nat
  BY RankGrows
<1>5. n # 0
  <2>1. SUFFICES ASSUME n = 0 PROVE FALSE
    OBVIOUS
  <2>2. \A t \in H : ~(Cardinality(Below(t, H)) < 0)
    BY <1>4
  <2>3. FirstOf(0, H) = {}
    BY <2>2 DEF FirstOf, Below
  <2> QED
    BY <1>2, <2>1, <2>3, FS_EmptySet
<1>6. n - 1 \in Nat /\ n \in Nat /\ n <= Cardinality(H)
  BY <1>2, <1>5
<1> DEFINE F == FirstOf(n - 1, H)
<1>7. F \subseteq H /\ IsFiniteSet(F) /\ Cardinality(F) = n - 1
  <2>1. F \subseteq H /\ n - 1 \notin bad
    BY <1>2, <1>6, HandFacts
  <2> QED
    BY <1>3, <1>6, <2>1, FS_Subset
<1>8. PICK x \in H \ F : \A y \in H \ F : x <= y
  <2>1. H \ F # {}
    BY <1>3, <1>6, <1>7
  <2> QED
    BY <1>3, <2>1, NatHasMin
<1>9. \A t \in H : t \in F <=> Cardinality(Below(t, H)) < n - 1
  BY DEF FirstOf, Below
<1>10. \A r, t \in H : r < t => Cardinality(Below(r, H)) < Cardinality(Below(t, H))
  BY RankGrows
<1>11. Below(x, H) = F
  <2>1. ASSUME NEW u \in H, u < x PROVE u \in F
    <3>1. x \in Nat /\ u \in Nat
      BY <1>3, <1>8
    <3> QED
      BY <1>8, <2>1, <3>1
  <2>2. ASSUME NEW u \in F PROVE u < x
    <3>1. x \in Nat /\ u \in Nat /\ u # x
      BY <1>3, <1>7, <1>8
    <3>2. ~(x < u)
      <4>1. Cardinality(Below(u, H)) < n - 1 /\ ~(Cardinality(Below(x, H)) < n - 1)
        BY <1>7, <1>8, <1>9
      <4>2. x < u => Cardinality(Below(x, H)) < Cardinality(Below(u, H))
        BY <1>7, <1>8, <1>10
      <4> QED
        BY <1>4, <1>6, <4>1, <4>2
    <3> QED
      BY <3>1, <3>2
  <2> QED
    BY <1>7, <2>1, <2>2 DEF Below
<1>12. FirstOf(n, H) = F \cup {x}
  <2>1. \A t \in H : t \in FirstOf(n, H) <=> Cardinality(Below(t, H)) < n
    BY DEF FirstOf, Below
  <2>2. Cardinality(Below(x, H)) = n - 1
    BY <1>7, <1>11
  <2>3. ASSUME NEW t \in F PROVE t \in FirstOf(n, H)
    <3>1. Cardinality(Below(t, H)) < n - 1 /\ t \in H
      BY <1>7, <1>9
    <3> QED
      BY <1>4, <1>6, <2>1, <3>1
  <2>4. ASSUME NEW t \in H \ F, t # x PROVE t \notin FirstOf(n, H)
    <3>1. x < t
      BY <1>3, <1>8, <2>4
    <3>2. Cardinality(Below(x, H)) < Cardinality(Below(t, H))
      BY <1>8, <1>10, <3>1
    <3>3. ~(Cardinality(Below(t, H)) < n)
      BY <1>4, <1>6, <2>2, <3>2
    <3> QED
      BY <2>1, <3>3
  <2>5. x \in FirstOf(n, H)
    BY <1>6, <1>8, <2>1, <2>2
  <2>6. FirstOf(n, H) \subseteq H
    BY DEF FirstOf
  <2> HIDE DEF F
  <2>7. \A t \in H : t \in FirstOf(n, H) <=> t \in F \cup {x}
    BY <2>3, <2>4, <2>5
  <2> QED
    BY <1>7, <1>8, <2>6, <2>7
<1>13. Cardinality(F \cup {x}) = n
  <2> HIDE DEF F
  <2>1. Cardinality(F \cup {x}) = Cardinality(F) + 1
    BY <1>7, <1>8, FS_AddElement
  <2> QED
    BY <1>6, <1>7, <2>1
<1> QED
  BY <1>2, <1>12, <1>13

-----------------------------------------------------------------------------
(* Arithmetic of the quotients *)

LEMMA Quotient ==
    ASSUME NEW a \in Nat, NEW b \in Nat, b > 0
    PROVE  a \div b \in Nat /\ (a \div b) * b <= a /\ a < (a \div b + 1) * b
<1>1. a = b * (a \div b) + (a % b) /\ a % b \in 0..(b - 1) /\ a \div b \in Int
  OBVIOUS
<1> DEFINE q == a \div b
<1>2. q >= 0
  OBVIOUS
<1> HIDE DEF q
<1>3. q * b <= a /\ a < (q + 1) * b
  <2>1. (q + 1) * b = b * q + b /\ q * b = b * q
    BY <1>1 DEF q
  <2> QED
    BY <1>1, <2>1 DEF q
<1> QED
  BY <1>1, <1>2, <1>3 DEF q

LEMMA Cancel ==
    ASSUME NEW x \in Int, NEW y \in Int, NEW b \in Nat, b > 0
    PROVE  (x * b >= y * b => x >= y) /\ (x * b > y * b => x > y)
OBVIOUS

LEMMA Scale ==
    ASSUME NEW x \in Int, NEW y \in Int, NEW b \in Nat
    PROVE  (x >= y => x * b >= y * b) /\ (x > y /\ b > 0 => x * b > y * b)
OBVIOUS

\* h threads and one are left for groups of b CPUs, and n threads and one were
\* there for all t CPUs: a group of c CPUs that is served leaves as good a part
LEMMA PartLeft ==
    ASSUME NEW h \in Nat, NEW t \in Nat, NEW n \in Nat, NEW b \in Nat, b > 0,
           NEW c \in Nat, c <= b, NEW g \in Nat,
           h * t >= n * b, g * b <= h * c
    PROVE  (h - g) * t >= n * (b - c)
<1>1. (h - g) * b >= h * (b - c)
  OBVIOUS
<1>2. ((h - g) * b) * t >= (h * (b - c)) * t
  BY <1>1, Scale
<1>3. (h * t) * (b - c) >= (n * b) * (b - c)
  BY Scale
<1>4. (h * (b - c)) * t = (h * t) * (b - c)
  OBVIOUS
<1>5. (n * b) * (b - c) = (n * (b - c)) * b
  OBVIOUS
<1>6. ((h - g) * b) * t = ((h - g) * t) * b
  OBVIOUS
<1>7. ((h - g) * t) * b >= (n * (b - c)) * b
  BY <1>2, <1>3, <1>4, <1>5, <1>6
<1> QED
  BY <1>7, Cancel

LEMMA PartTaken ==
    ASSUME NEW h \in Nat, NEW t \in Nat, t > 0, NEW n \in Nat, NEW b \in Nat, b > 0,
           NEW c \in Nat, NEW g \in Nat,
           h * t >= n * b, h * c < (g + 1) * b
    PROVE  (g + 1) * t > c * n
<1>1. ((g + 1) * b) * t > (h * c) * t
  BY Scale
<1>2. (h * t) * c >= (n * b) * c
  BY Scale
<1>3. (h * c) * t = (h * t) * c
  OBVIOUS
<1>4. (n * b) * c = (c * n) * b
  OBVIOUS
<1>5. ((g + 1) * b) * t = ((g + 1) * t) * b
  OBVIOUS
<1>6. ((g + 1) * t) * b > (c * n) * b
  BY <1>1, <1>2, <1>3, <1>4, <1>5
<1> QED
  BY <1>6, Cancel

\* Groups of one size: the quotient of h threads and one by m groups
LEMMA EvenQuotient ==
    ASSUME NEW h \in Nat, NEW m \in Nat, m > 0, NEW c \in Nat, c > 0, NEW q \in Nat, NEW g \in Nat,
           g * (m * c) <= h * c, h * c < (g + 1) * (m * c),
           q * m <= h, h <= (q + 1) * m
    PROVE  g = IF h < (q + 1) * m THEN q ELSE q + 1
<1>1. g * (m * c) = (g * m) * c /\ (g + 1) * (m * c) = ((g + 1) * m) * c
  OBVIOUS
<1>2. g * m <= h /\ h < (g + 1) * m
  <2> DEFINE x == g * m
             y == (g + 1) * m
  <2>1. x \in Nat /\ y \in Nat /\ x * c <= h * c /\ h * c < y * c
    BY <1>1
  <2> HIDE DEF x, y
  <2>2. x <= h /\ h < y
    BY <2>1, Cancel
  <2> QED
    BY <2>2 DEF x, y
<1>3. g * m < (q + 1) * m + 1 /\ q * m < (g + 1) * m
  BY <1>2
<1>4. q < g + 1
  BY <1>3, Cancel
<1>5. CASE h < (q + 1) * m
  <2>1. g * m < (q + 1) * m
    BY <1>2, <1>5
  <2>2. g < q + 1
    BY <2>1, Cancel
  <2> QED
    BY <1>4, <1>5, <2>2
<1>6. CASE h = (q + 1) * m
  <2>1. (q + 1) * m < (g + 1) * m
    BY <1>2, <1>6
  <2>2. q + 1 < g + 1
    BY <2>1, Cancel
  <2>3. g * m < (q + 2) * m
    <3>1. (q + 2) * m = (q + 1) * m + m
      OBVIOUS
    <3> QED
      BY <1>3, <3>1
  <2>4. g < q + 2
    BY <2>3, Cancel
  <2> QED
    BY <1>6, <2>2, <2>4
<1> QED
  BY <1>5, <1>6

LEMMA EvenLeft ==
    ASSUME NEW h \in Nat, NEW m \in Nat, m > 0, NEW q \in Nat, q * m <= h, h <= (q + 1) * m
    PROVE  LET g == IF h < (q + 1) * m THEN q ELSE q + 1
           IN /\ q * (m - 1) <= h - g /\ h - g <= (q + 1) * (m - 1)
              /\ h = (q + 1) * m => h - g = (q + 1) * (m - 1)
<1>1. q * (m - 1) = q * m - q /\ (q + 1) * (m - 1) = (q + 1) * m - (q + 1)
  OBVIOUS
<1>2. (q + 1) * m = q * m + m
  OBVIOUS
<1> QED
  BY <1>1, <1>2

\* A group that takes the last h - 1 threads leaves none for a group that would get more than one
LEMMA EvenLast ==
    ASSUME NEW h \in Nat, NEW m \in Nat, m > 1, NEW q \in Nat, q * m <= h, h <= (q + 1) * m,
           h - 1 <= IF h < (q + 1) * m THEN q ELSE q + 1
    PROVE  h <= 2 /\ q <= 1 /\ (q = 1 => h < (q + 1) * m)
<1>1. (q + 1) * m = q * m + m /\ q * m \in Nat
  OBVIOUS
<1>2. q * m >= q * 2
  OBVIOUS
<1>3. CASE h < (q + 1) * m
  BY <1>1, <1>2, <1>3
<1>4. CASE h = (q + 1) * m
  BY <1>1, <1>2, <1>4
<1> QED
  BY <1>3, <1>4

-----------------------------------------------------------------------------
(* The parts *)

Got(i) == Cardinality(share[i])
Left == Cardinality(hand) + 1
All == Cardinality(OfKind(kind)) + 1
Served == SetsOf(kind) \ sets
EvenSizes == \A i, j \in SetsOf(kind) : Size[i] = Size[j]

\* Each group that was served has its part, and those left will get theirs: of the threads
\* left, each CPU has no smaller part than it had of all
PartInv ==
    step = "dealing" =>
        /\ \A i \in Served :
             (Got(i) + 1) * Base(SetsOf(kind)) > Size[i] * Cardinality(OfKind(kind))
        /\ sets # {} => Left * Base(SetsOf(kind)) >= All * Base(sets)

\* With m groups of one size left, the quotients are q up to where the rest is a multiple of m,
\* and q + 1 from there on
EvenAt(q) ==
    /\ \A i \in Served : Got(i) \in {q, q + 1}
    /\ sets # {} =>
         LET m == Cardinality(sets)
         IN /\ q * m <= Left /\ Left <= (q + 1) * m
            /\ Left < (q + 1) * m => \A i \in Served : Got(i) = q
EvenInv == step = "dealing" /\ EvenSizes => \E q \in Nat : EvenAt(q)

LEMMA KindFinite ==
    ASSUME Inv
    PROVE  /\ kind \in Kinds
           /\ IsFiniteSet(SetsOf(kind)) /\ SetsOf(kind) \subseteq DOMAIN party
           /\ Base(SetsOf(kind)) \in Nat
           /\ OfKind(kind) \in SUBSET Threads
           /\ Cardinality(OfKind(kind)) \in Nat /\ All \in Nat /\ Left \in Nat
           /\ IsFiniteSet(hand) /\ Cardinality(hand) \in Nat
           /\ IsFiniteSet(sets) /\ Cardinality(sets) \in Nat
           /\ \A i \in DOMAIN party : Size[i] \in Nat /\ Size[i] > 0
<1> USE DEF Inv
<1>1. kind \in Kinds /\ hand \in SUBSET Threads /\ sets \subseteq DOMAIN party
  BY DEF TypeOK
<1>2. OfKind(kind) \in SUBSET Threads
  BY DEF OfKind
<1>3. /\ IsFiniteSet(SetsOf(kind)) /\ SetsOf(kind) \subseteq DOMAIN party
      /\ IsFiniteSet(DOMAIN party)
      /\ \A i \in DOMAIN party : Size[i] \in Nat /\ Size[i] > 0
  BY <1>1, PartyFacts
<1>4. Base(SetsOf(kind)) \in Nat
  BY <1>3, BaseFacts
<1>5. Cardinality(OfKind(kind)) \in Nat /\ Cardinality(hand) \in Nat /\ IsFiniteSet(hand)
  BY <1>1, <1>2, HandFacts
<1>6. IsFiniteSet(sets) /\ Cardinality(sets) \in Nat
  BY <1>1, <1>3, FS_Subset, FS_CardinalityType
<1> QED
  BY <1>1, <1>2, <1>3, <1>4, <1>5, <1>6 DEF All, Left

\* A group takes the quotient, or all if there are no more
LEMMA TakenCount ==
    ASSUME Inv, step = "dealing", sets # {},
           NEW q, q = Round(Size[First], sets, Cardinality(hand))
    PROVE  /\ q \in Nat /\ Base(sets) \in Nat /\ Base(sets) > 0
           /\ q * Base(sets) <= Left * Size[First] /\ Left * Size[First] < (q + 1) * Base(sets)
           /\ Size[First] <= Base(sets) /\ Base(sets \ {First}) = Base(sets) - Size[First]
           /\ Cardinality(Taken) \in Nat /\ IsFiniteSet(Taken)
           /\ Taken # hand => Cardinality(Taken) = q /\ Cardinality(hand \ Taken) = Cardinality(hand) - q
           /\ Taken # hand => q < Cardinality(hand)
           /\ Taken = hand => Cardinality(hand) <= q
<1>1. /\ First \in sets /\ First \in DOMAIN party /\ sets \subseteq DOMAIN party
      /\ hand \in SUBSET Threads /\ Taken \subseteq hand
  BY TakenFacts DEF Inv, TypeOK
<1>2. /\ Base(sets) \in Nat /\ Base(sets) # 0 /\ Size[First] <= Base(sets)
      /\ Base(sets) = Size[First] + Base(sets \ {First})
  BY <1>1, BaseFacts DEF Inv
<1>3. Base(sets \ {First}) \in Nat
  <2>1. sets \ {First} \subseteq DOMAIN party
    BY <1>1
  <2> QED
    BY <2>1, BaseFacts DEF Inv
<1>4. /\ Size[First] \in Nat /\ Size[First] > 0 /\ Cardinality(hand) \in Nat /\ Left \in Nat
      /\ IsFiniteSet(hand)
  BY <1>1, KindFinite
<1>5. Cardinality(hand) * Size[First] + Size[First] = Left * Size[First] /\ Left * Size[First] \in Nat
  BY <1>4 DEF Left
<1>6. q = (Left * Size[First]) \div Base(sets)
  BY <1>5 DEF Round
<1>7. /\ q \in Nat /\ q * Base(sets) <= Left * Size[First]
      /\ Left * Size[First] < (q + 1) * Base(sets)
  BY <1>2, <1>5, <1>6, Quotient
<1>8. Taken = FirstOf(q, hand)
  BY DEF Taken
<1>9. Taken # hand => q < Cardinality(hand)
  BY <1>1, <1>4, <1>7, <1>8, FirstOfAll
<1>10. q <= Cardinality(hand) => Cardinality(Taken) = q
  BY <1>1, <1>7, <1>8, FirstOfCount
<1>11. Taken = hand => Cardinality(hand) <= q
  BY <1>4, <1>7, <1>10
<1>12. IsFiniteSet(Taken) /\ Cardinality(Taken) \in Nat
  BY <1>1, <1>4, FS_Subset, FS_CardinalityType
<1>13. Cardinality(hand \ Taken) = Cardinality(hand) - Cardinality(Taken)
  <2>1. hand \cap Taken = Taken
    BY <1>1
  <2> QED
    BY <1>4, <2>1, FS_Difference
<1> QED
  BY <1>2, <1>3, <1>4, <1>7, <1>9, <1>10, <1>11, <1>12, <1>13

\* What a served group is dealt stays, and so do the sums
LEMMA ServedFacts ==
    ASSUME Inv, Inv', NEW gone \in SUBSET Threads, BindGroup(gone)
    PROVE  /\ step = "dealing" /\ sets # {} /\ step' = "dealing" /\ kind' = kind
           /\ SetsOf(kind)' = SetsOf(kind) /\ OfKind(kind)' = OfKind(kind) /\ Size' = Size
           /\ Base(SetsOf(kind))' = Base(SetsOf(kind)) /\ Base(sets)' = SumOf(Size, sets')
           /\ (EvenSizes <=> EvenSizes') /\ All' = All
           /\ First \in sets /\ First \in SetsOf(kind) /\ sets \subseteq SetsOf(kind)
           /\ Cardinality(share'[First]) = Cardinality(Taken)
           /\ \A i \in Served : i # First /\ Got(i)' = Got(i)
           /\ Taken # hand => /\ sets' = sets \ {First} /\ hand' = hand \ Taken
                              /\ Served' = Served \cup {First}
           /\ Taken = hand => /\ sets' = {} /\ Served' = SetsOf(kind)
                              /\ \A i \in sets \ {First} : Got(i)' = 0
<1>1. step = "dealing" /\ sets # {} /\ step' = "dealing" /\ UNCHANGED <<party, infos, kind>>
  BY DEF BindGroup
<1> DEFINE F == First
           T == Taken
<1>2. F \in sets /\ F \in SetsOf(kind) /\ sets \subseteq SetsOf(kind)
  BY <1>1, TakenFacts DEF Inv, DealInv
<1>3. /\ share' = [share EXCEPT ![F] = T] /\ hand' = hand \ T
      /\ sets' = IF T = hand THEN {} ELSE sets \ {F}
  BY DEF BindGroup
<1> HIDE DEF F, T
<1>4. SetsOf(kind)' = SetsOf(kind) /\ OfKind(kind)' = OfKind(kind)
  BY <1>1 DEF SetsOf, OfKind
<1>5. Size' = Size
  BY <1>1 DEF Size
<1>6. Base(SetsOf(kind))' = Base(SetsOf(kind)) /\ Base(sets)' = SumOf(Size, sets')
  BY <1>4, <1>5 DEF Base
<1>7. (EvenSizes <=> EvenSizes') /\ All' = All
  BY <1>4, <1>5 DEF EvenSizes, All
<1>8. DOMAIN share = SetsOf(kind) /\ \A i \in sets : share[i] = {}
  BY <1>1 DEF Inv, DealInv
<1>9. share'[F] = T /\ \A i \in SetsOf(kind) : i # F => share'[i] = share[i]
  BY <1>2, <1>3, <1>8
<1>10. Cardinality(share'[F]) = Cardinality(T)
  BY <1>9
<1>11. ASSUME NEW i \in Served PROVE i # F /\ Got(i)' = Got(i)
  <2>1. i \in SetsOf(kind) /\ i # F
    BY <1>2 DEF Served
  <2> QED
    BY <1>9, <2>1 DEF Got
<1>12. ASSUME NEW i \in sets \ {F} PROVE Got(i)' = 0
  <2>1. share'[i] = {}
    BY <1>2, <1>8, <1>9
  <2> QED
    BY <2>1, FS_EmptySet DEF Got
<1>13. T # hand => Served' = Served \cup {F}
  BY <1>1, <1>2, <1>3, <1>4 DEF Served
<1>14. T = hand => Served' = SetsOf(kind)
  BY <1>3, <1>4 DEF Served
<1> QED
  BY <1>1, <1>2, <1>3, <1>4, <1>5, <1>6, <1>7, <1>10, <1>11, <1>12, <1>13, <1>14 DEF F, T

LEMMA PartBind ==
    ASSUME Inv, Inv', NEW gone \in SUBSET Threads, BindGroup(gone), PartInv
    PROVE  PartInv'
<1> DEFINE q == Round(Size[First], sets, Cardinality(hand))
           n == Cardinality(OfKind(kind))
           t == Base(SetsOf(kind))
           b == Base(sets)
           c == Size[First]
           h == Cardinality(hand)
<1>1. /\ step = "dealing" /\ sets # {} /\ kind' = kind /\ sets \subseteq SetsOf(kind)
      /\ SetsOf(kind)' = SetsOf(kind) /\ OfKind(kind)' = OfKind(kind) /\ Size' = Size
      /\ Base(SetsOf(kind))' = t /\ Base(sets)' = SumOf(Size, sets') /\ All' = All
      /\ First \in sets /\ First \in SetsOf(kind)
      /\ Cardinality(share'[First]) = Cardinality(Taken)
      /\ \A i \in Served : i # First /\ Got(i)' = Got(i)
  BY ServedFacts
<1>2. /\ q \in Nat /\ b \in Nat /\ b > 0 /\ q * b <= Left * c /\ Left * c < (q + 1) * b
      /\ c <= b /\ Base(sets \ {First}) = b - c
      /\ Taken # hand => Cardinality(Taken) = q /\ Cardinality(hand \ Taken) = h - q /\ q < h
      /\ Taken = hand => h <= q
  BY <1>1, TakenCount
<1>3. /\ n \in Nat /\ t \in Nat /\ h \in Nat /\ Left \in Nat /\ All \in Nat
      /\ Left = h + 1 /\ All = n + 1
      /\ \A i \in SetsOf(kind) : Size[i] \in Nat /\ Size[i] > 0
  BY KindFinite DEF Left, All
<1>4. c \in Nat /\ c > 0
  BY <1>1, <1>3
<1>5. Left * t >= All * b
  BY <1>1 DEF PartInv
<1>6. \A i \in Served : (Got(i)' + 1) * t > Size[i] * n
  BY <1>1 DEF PartInv
<1>7. t > 0
  <2>1. t # 0
    <3>1. SetsOf(kind) \subseteq DOMAIN party
      BY KindFinite
    <3> QED
      BY <1>1, <3>1, BaseFacts DEF Inv
  <2> QED
    BY <1>3, <2>1
<1> HIDE DEF q, n, t, b, c, h
<1>9. ASSUME NEW x \in Nat, NEW y \in Nat, y * t > x * All PROVE y * t > x * n
  <2>1. x * All = x * n + x /\ x * n \in Nat /\ y * t \in Nat
    BY <1>3
  <2> QED
    BY <1>9, <2>1
<1>10. CASE Taken # hand
  <2>1. (q + 1) * t > c * n
    <3>1. (q + 1) * t > c * All
      BY <1>2, <1>3, <1>4, <1>5, <1>7, PartTaken
    <3> QED
      BY <1>2, <1>4, <1>9, <3>1
  <2>2. Left' = Left - q
    <3>1. hand' = hand \ Taken
      BY <1>10, ServedFacts
    <3>2. Left' = Cardinality(hand \ Taken) + 1
      BY <3>1 DEF Left
    <3> QED
      BY <1>2, <1>3, <1>10, <3>2
  <2>3. (Left - q) * t >= All * (b - c)
    BY <1>2, <1>3, <1>4, <1>5, PartLeft
  <2>4. Base(sets)' = b - c /\ Served' = Served \cup {First}
    BY <1>1, <1>2, <1>10, ServedFacts DEF Base
  <2>5. (Cardinality(share'[First]) + 1) * t > Size[First] * n
    BY <1>1, <1>2, <1>10, <2>1 DEF c
  <2>6. \A i \in Served' : (Got(i)' + 1) * t > Size[i] * n
    BY <1>6, <2>4, <2>5 DEF Got
  <2> QED
    BY <1>1, <2>2, <2>3, <2>4, <2>6 DEF PartInv, n, t
<1>11. CASE Taken = hand
  <2>1. Cardinality(share'[First]) = h
    BY <1>1, <1>11 DEF h
  <2>2. Left * t > c * n
    <3>1. All * b >= All * c /\ All * c = c * n + c /\ All * b \in Nat /\ Left * t \in Nat /\ c * n \in Nat
      BY <1>2, <1>3, <1>4
    <3> QED
      BY <1>4, <1>5, <3>1
  <2>3. 1 * t >= All * (b - c)
    <3>1. h * b <= q * b
      BY <1>2, <1>3, <1>11
    <3>2. h * b <= Left * c
      BY <1>2, <1>3, <1>4, <3>1
    <3>3. (Left - h) * t >= All * (b - c)
      BY <1>2, <1>3, <1>4, <1>5, <3>2, PartLeft
    <3> QED
      BY <1>3, <3>3
  <2>4. ASSUME NEW i \in sets \ {First} PROVE (Got(i)' + 1) * t > Size[i] * n
    <3>1. Size[i] <= b - c /\ Size[i] \in Nat /\ Size[i] > 0
      <4>1. sets \ {First} \subseteq DOMAIN party
        BY <1>1, KindFinite
      <4>2. Size[i] <= Base(sets \ {First})
        BY <4>1, BaseFacts DEF Inv
      <4> QED
        BY <1>1, <1>2, <1>3, <4>2
    <3>2. Got(i)' = 0
      BY <1>11, ServedFacts
    <3>3. All * (b - c) >= All * Size[i]
      BY <1>2, <1>3, <1>4, <3>1
    <3>4. All * Size[i] = Size[i] * n + Size[i] /\ Size[i] * n \in Nat
      BY <1>3, <3>1
    <3> QED
      BY <1>2, <1>3, <1>4, <2>3, <3>1, <3>2, <3>3, <3>4
  <2>5. sets' = {} /\ Served' = SetsOf(kind)
    BY <1>11, ServedFacts
  <2>6. \A i \in SetsOf(kind) : i \in Served \/ i = First \/ i \in sets \ {First}
    BY DEF Served
  <2>7. (Cardinality(share'[First]) + 1) * t > Size[First] * n
    BY <1>3, <2>1, <2>2 DEF c
  <2>8. \A i \in Served' : (Got(i)' + 1) * t > Size[i] * n
    BY <1>6, <2>4, <2>5, <2>6, <2>7 DEF Got
  <2> QED
    BY <1>1, <2>5, <2>8 DEF PartInv, n, t
<1> QED
  BY <1>10, <1>11

\* The CPUs of groups of one size
LEMMA EvenBase ==
    ASSUME Inv, EvenSizes, sets # {}, First \in sets, sets \subseteq SetsOf(kind)
    PROVE  Base(sets) = Cardinality(sets) * Size[First]
<1>1. /\ IsFiniteSet(sets) /\ Cardinality(sets) \in Nat
      /\ \A i \in sets : Size[i] \in Nat /\ Size[i] = Size[First]
  BY KindFinite DEF EvenSizes
<1>2. SumOf(Size, sets) = Size[First] * Cardinality(sets \cap sets)
  <2>1. Size[First] \in Int /\ \A i \in sets : Size[i] = IF i \in sets THEN Size[First] ELSE 0
    BY <1>1
  <2> QED
    BY <1>1, <2>1, SumOn
<1>3. sets \cap sets = sets
  OBVIOUS
<1> QED
  BY <1>1, <1>2, <1>3 DEF Base

LEMMA EvenBind ==
    ASSUME Inv, Inv', NEW gone \in SUBSET Threads, BindGroup(gone), EvenInv
    PROVE  EvenInv'
<1>1. SUFFICES ASSUME EvenSizes PROVE \E q \in Nat : EvenAt(q)'
  BY ServedFacts DEF EvenInv
<1> DEFINE g == Round(Size[First], sets, Cardinality(hand))
           m == Cardinality(sets)
           c == Size[First]
           h == Cardinality(hand)
<1>2. /\ step = "dealing" /\ sets # {} /\ kind' = kind /\ sets \subseteq SetsOf(kind)
      /\ First \in sets /\ First \in SetsOf(kind)
      /\ Cardinality(share'[First]) = Cardinality(Taken)
      /\ \A i \in Served : i # First /\ Cardinality(share'[i]) = Got(i)
  BY ServedFacts DEF Got
<1>3. PICK q \in Nat : EvenAt(q)
  BY <1>1, <1>2 DEF EvenInv
<1>4. /\ h \in Nat /\ Left \in Nat /\ Left = h + 1 /\ m \in Nat /\ m > 0
      /\ c \in Nat /\ c > 0
  <2>1. m # 0
    BY <1>2, KindFinite, FS_EmptySet
  <2>2. First \in DOMAIN party
    BY <1>2, KindFinite
  <2> QED
    BY <2>1, <2>2, KindFinite DEF Left
<1>5. /\ g \in Nat /\ g * Base(sets) <= Left * c /\ Left * c < (g + 1) * Base(sets)
      /\ Taken # hand => Cardinality(Taken) = g /\ Cardinality(hand \ Taken) = h - g /\ g < h
      /\ Taken = hand => h <= g
  BY <1>2, TakenCount
<1>6. Base(sets) = m * c
  BY <1>1, <1>2, EvenBase
<1>7. /\ \A i \in Served : Got(i) \in {q, q + 1}
      /\ q * m <= Left /\ Left <= (q + 1) * m
      /\ Left < (q + 1) * m => \A i \in Served : Got(i) = q
  BY <1>2, <1>3 DEF EvenAt
<1> HIDE DEF g, m, c, h
<1>8. g = IF Left < (q + 1) * m THEN q ELSE q + 1
  BY <1>4, <1>5, <1>6, <1>7, EvenQuotient
<1>9. CASE Taken # hand
  <2>1. sets' = sets \ {First} /\ hand' = hand \ Taken /\ Served' = Served \cup {First}
    BY <1>9, ServedFacts
  <2>2. Cardinality(sets') = m - 1
    BY <1>2, <2>1, KindFinite, FS_RemoveElement DEF m
  <2>3. Left' = Left - g
    <3>1. Left' = Cardinality(hand \ Taken) + 1
      BY <2>1 DEF Left
    <3> QED
      BY <1>4, <1>5, <1>9, <3>1
  <2>4. /\ q * (m - 1) <= Left - g /\ Left - g <= (q + 1) * (m - 1)
        /\ Left = (q + 1) * m => Left - g = (q + 1) * (m - 1)
    BY <1>4, <1>7, <1>8, EvenLeft
  <2>5. \A i \in Served' : Cardinality(share'[i]) \in {q, q + 1}
    BY <1>2, <1>5, <1>7, <1>8, <1>9, <2>1
  <2>6. ASSUME Left - g < (q + 1) * (m - 1) PROVE \A i \in Served' : Cardinality(share'[i]) = q
    <3>1. Left < (q + 1) * m
      <4>1. (q + 1) * m \in Nat /\ Left # (q + 1) * m
        BY <1>4, <2>4, <2>6
      <4> QED
        BY <1>4, <1>7, <4>1
    <3> QED
      BY <1>2, <1>5, <1>7, <1>8, <1>9, <2>1, <3>1
  <2>7. EvenAt(q)'
    BY <2>2, <2>3, <2>4, <2>5, <2>6 DEF EvenAt, Got
  <2> QED
    BY <2>7
<1>10. CASE Taken = hand
  <2>1. /\ sets' = {} /\ Served' = SetsOf(kind)
        /\ \A i \in sets \ {First} : Cardinality(share'[i]) = 0
    BY <1>10, ServedFacts DEF Got
  <2>2. Cardinality(share'[First]) = h /\ h <= g
    BY <1>2, <1>5, <1>10 DEF h
  <2>3. \A i \in Served' : i \in Served \/ i = First \/ i \in sets \ {First}
    BY <2>1 DEF Served
  <2>4. ASSUME NEW p \in Nat, h \in {p, p + 1}, \A i \in Served : Got(i) \in {p, p + 1},
               p = 0 \/ sets \ {First} = {}
        PROVE  EvenAt(p)'
    <3>1. \A i \in sets \ {First} : Cardinality(share'[i]) \in {p, p + 1}
      BY <2>1, <2>4
    <3>2. \A i \in Served' : Cardinality(share'[i]) \in {p, p + 1}
      BY <1>2, <2>2, <2>3, <2>4, <3>1
    <3> QED
      BY <2>1, <3>2 DEF EvenAt, Got
  <2>5. CASE m > 1
    <3>1. Left <= 2 /\ q <= 1 /\ (q = 1 => Left < (q + 1) * m)
      BY <1>4, <1>7, <1>8, <2>2, <2>5, EvenLast
    <3>2. h \in {0, 1}
      BY <1>4, <3>1
    <3>3. \A i \in Served : Got(i) \in {0, 1}
      <4>1. CASE q = 0
        BY <1>7, <4>1
      <4>2. CASE q = 1
        BY <1>7, <3>1, <4>2
      <4> QED
        BY <3>1, <4>1, <4>2
    <3> QED
      BY <2>4, <3>2, <3>3
  <2>6. CASE m = 1
    <3>1. sets \ {First} = {}
      <4>1. Cardinality(sets \ {First}) = 0 /\ IsFiniteSet(sets \ {First})
        BY <1>2, <2>6, KindFinite, FS_RemoveElement DEF m
      <4> QED
        BY <4>1, FS_EmptySet
    <3>2. q <= Left /\ Left <= q + 1 /\ (Left < q + 1 => \A i \in Served : Got(i) = q)
      BY <1>4, <1>7, <2>6
    <3>3. CASE Left = q + 1
      <4>1. h = q
        BY <1>4, <3>3
      <4> QED
        BY <1>7, <2>4, <3>1, <4>1
    <3>4. CASE Left = q
      <4>1. q - 1 \in Nat /\ h = q - 1 /\ \A i \in Served : Got(i) = (q - 1) + 1
        BY <1>4, <3>2, <3>4
      <4> QED
        BY <2>4, <3>1, <4>1
    <3> QED
      BY <1>4, <3>2, <3>3, <3>4
  <2> QED
    BY <1>4, <2>5, <2>6
<1> QED
  BY <1>9, <1>10

PartsInv == PartInv /\ EvenInv

LEMMA PartsDeal == ASSUME Inv, Inv', NEW k \in Kinds, Deal(k) PROVE PartsInv'
<1>1. SUFFICES ASSUME step' = "dealing" PROVE PartsInv'
  BY DEF PartsInv, PartInv, EvenInv
<1>2. /\ kind' = k /\ sets' = SetsOf(k) /\ hand' = OfKind(k)
      /\ SetsOf(k)' = SetsOf(k) /\ OfKind(k)' = OfKind(k)
  BY SameKinds DEF Deal
<1>3. SetsOf(k) # {}
  <2>1. SetsOf(k) \subseteq DOMAIN party
    BY DEF SetsOf
  <2>2. Base(SetsOf(k)) # 0
    BY <1>1 DEF Deal, After, Kinds
  <2> QED
    BY <2>1, <2>2, BaseFacts DEF Inv
<1>4. SetsOf(kind)' = sets' /\ OfKind(kind)' = hand'
  BY <1>2 DEF SetsOf, OfKind
<1>5. Served' = {} /\ Left' = All' /\ Base(SetsOf(kind))' = Base(sets)'
  BY <1>4 DEF Served, Left, All, Base
<1>6. /\ Left' \in Nat /\ Base(sets)' \in Nat /\ Cardinality(sets') \in Nat /\ Cardinality(sets') > 0
  <2>1. Left' \in Nat /\ Base(sets)' \in Nat /\ IsFiniteSet(sets') /\ Cardinality(sets') \in Nat
    <3>1. OfKind(k) \in SUBSET Threads
      BY DEF OfKind
    <3>2. Cardinality(OfKind(k)) \in Nat
      BY <3>1, HandFacts
    <3>3. IsFiniteSet(SetsOf(k)) /\ SetsOf(k) \subseteq DOMAIN party
      BY PartyFacts DEF Inv
    <3>4. Base(SetsOf(k)) \in Nat
      BY <3>3, BaseFacts DEF Inv
    <3>5. Base(sets)' = Base(SetsOf(k))
      <4>1. Size' = Size
        BY DEF Deal, Size
      <4> QED
        BY <1>2, <4>1 DEF Base
    <3> QED
      BY <1>2, <3>2, <3>3, <3>4, <3>5, FS_CardinalityType DEF Left
  <2>2. Cardinality(sets') # 0
    BY <1>2, <1>3, <2>1, FS_EmptySet
  <2> QED
    BY <1>5, <2>1, <2>2
<1>7. PartInv'
  BY <1>5, <1>6 DEF PartInv
<1>8. EvenInv'
  <2>1. PICK q \in Nat : /\ q * Cardinality(sets') <= Left'
                         /\ Left' < (q + 1) * Cardinality(sets')
    BY <1>6, Quotient
  <2>2. EvenAt(q)'
    BY <1>5, <1>6, <2>1 DEF EvenAt
  <2> QED
    BY <2>1, <2>2 DEF EvenInv
<1> QED
  BY <1>7, <1>8 DEF PartsInv

LEMMA PartsStuttering == ASSUME PartsInv, UNCHANGED vars PROVE PartsInv'
<1>1. /\ SetsOf(kind)' = SetsOf(kind) /\ OfKind(kind)' = OfKind(kind) /\ Size' = Size
      /\ UNCHANGED <<step, sets, hand, share, kind>>
  BY DEF vars, SetsOf, OfKind, Size
<1>2. /\ Base(SetsOf(kind))' = Base(SetsOf(kind)) /\ Base(sets)' = Base(sets)
      /\ Served' = Served /\ Left' = Left /\ All' = All /\ (EvenSizes' <=> EvenSizes)
  BY <1>1 DEF Base, Served, Left, All, EvenSizes
<1>3. PartInv'
  BY <1>1, <1>2 DEF PartsInv, PartInv, Got
<1>4. \A q \in Nat : EvenAt(q) => EvenAt(q)'
  BY <1>1, <1>2 DEF EvenAt, Got
<1>5. EvenInv'
  BY <1>1, <1>2, <1>4 DEF PartsInv, EvenInv
<1> QED
  BY <1>3, <1>5 DEF PartsInv

LEMMA PartsStep == Inv /\ Inv' /\ PartsInv /\ [Next]_vars => PartsInv'
<1> SUFFICES ASSUME Inv, Inv', PartsInv, [Next]_vars PROVE PartsInv'
  OBVIOUS
<1>1. ASSUME step' # "dealing" PROVE PartsInv'
  BY <1>1 DEF PartsInv, PartInv, EvenInv
<1>2. ASSUME NEW io \in Lists(MaxIO), NEW net \in Lists(MaxNet), UserLists(io, net) PROVE PartsInv'
  BY <1>1, <1>2 DEF UserLists
<1>3. ASSUME DefaultLists PROVE PartsInv'
  BY <1>1, <1>3 DEF DefaultLists
<1>4. ASSUME NEW counts \in [Threads -> SUBSET Kinds], Collect(counts) PROVE PartsInv'
  BY <1>1, <1>4 DEF Collect
<1>5. ASSUME NEW k \in Kinds, Deal(k) PROVE PartsInv'
  BY <1>5, PartsDeal
<1>6. ASSUME NEW gone \in SUBSET Threads, BindGroup(gone) PROVE PartsInv'
  BY <1>6, PartBind, EvenBind DEF PartsInv
<1>7. ASSUME MaskPanic PROVE PartsInv'
  BY <1>1, <1>7 DEF MaskPanic
<1>8. ASSUME Dealt PROVE PartsInv'
  BY <1>1, <1>8 DEF Dealt, After
<1>9. ASSUME UNCHANGED vars PROVE PartsInv'
  BY <1>9, PartsStuttering
<1> QED
  BY <1>2, <1>3, <1>4, <1>5, <1>6, <1>7, <1>8, <1>9 DEF Next

\* However many groups and threads there are, no group is short of its part by a whole
\* thread, and groups of one size differ by one thread at most
THEOREM ProportionalHolds == Spec => []Proportional
<1>1. Init => PartsInv
  BY DEF Init, PartsInv, PartInv, EvenInv
<1>2. Inv /\ PartsInv => Proportional
  <2> SUFFICES ASSUME Inv, PartsInv, step = "dealing", sets = {}
               PROVE  /\ \A i \in SetsOf(kind) : (Cardinality(share[i]) + 1) * Base(SetsOf(kind))
                                                   > Size[i] * Cardinality(OfKind(kind))
                      /\ (\A i, j \in SetsOf(kind) : Size[i] = Size[j]) =>
                           \A i, j \in SetsOf(kind) : Cardinality(share[i]) <= Cardinality(share[j]) + 1
    BY DEF Proportional
  <2>1. Served = SetsOf(kind)
    BY DEF Served
  <2>2. \A i \in SetsOf(kind) : (Cardinality(share[i]) + 1) * Base(SetsOf(kind))
                                  > Size[i] * Cardinality(OfKind(kind))
    BY <2>1 DEF PartsInv, PartInv, Got
  <2>3. ASSUME EvenSizes, NEW i \in SetsOf(kind), NEW j \in SetsOf(kind)
        PROVE  Cardinality(share[i]) <= Cardinality(share[j]) + 1
    <3>1. PICK q \in Nat : EvenAt(q)
      BY <2>3 DEF PartsInv, EvenInv
    <3>2. Cardinality(share[i]) \in {q, q + 1} /\ Cardinality(share[j]) \in {q, q + 1}
      BY <2>1, <3>1 DEF EvenAt, Got
    <3> QED
      BY <3>2
  <2> QED
    BY <2>2, <2>3 DEF EvenSizes
<1>3. Inv /\ [Next]_vars => Inv'
  BY UserListsInv, DefaultListsInv, CollectInv, DealStepInv, BindGroupInv, MaskPanicInv,
     DealtInv, Stuttering DEF Next
<1> QED
  BY <1>1, <1>2, <1>3, InitInv, PartsStep, PTL DEF Spec

=============================================================================
