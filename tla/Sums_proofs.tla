---------------------------- MODULE Sums_proofs -----------------------------
(***************************************************************************)
(* Least elements and sums over finite sets.  An induction over the        *)
(* subsets of a set is the search for a least counterexample.              *)
(***************************************************************************)
EXTENDS Sums, FiniteSetTheorems, WellFoundedInduction, TLAPS

\* A non-empty set of numbers has a least one
LEMMA NatHasMin ==
    ASSUME NEW T, T \subseteq Nat, T # {}
    PROVE  \E x \in T : \A y \in T : x <= y
<1> DEFINE R == OpToRel(<, Nat)
<1>1. \E x \in T : \A y \in T : <<y, x>> \notin R
  <2>1. IsWellFoundedOn(R, Nat)
    BY NatLessThanWellFounded
  <2> HIDE DEF R
  <2> QED
    BY <2>1, WFMin
<1>2. \A x, y \in Nat : y < x => <<y, x>> \in R
  BY DEF OpToRel
<1> HIDE DEF R
<1>3. PICK x \in T : \A y \in T : <<y, x>> \notin R
  BY <1>1
<1>4. ASSUME NEW y \in T PROVE x <= y
  <2>1. x \in Nat /\ y \in Nat
    OBVIOUS
  <2>2. ~(y < x)
    BY <1>2, <1>3, <2>1, Zenon
  <2> QED
    BY <2>1, <2>2
<1> QED
  BY <1>3, <1>4

\* Among sets of elements of a finite set there is one that no other is one smaller
LEMMA SmallestSet ==
    ASSUME NEW S, IsFiniteSet(S), NEW B, B \subseteq SUBSET S, B # {}
    PROVE  \E T \in B : \A x \in T : T \ {x} \notin B
<1> DEFINE sizes == {Cardinality(T) : T \in B}
<1>1. \A T \in B : IsFiniteSet(T) /\ Cardinality(T) \in Nat
  BY FS_Subset, FS_CardinalityType
<1>2. sizes \subseteq Nat /\ sizes # {}
  BY <1>1
<1>3. PICK n \in sizes : \A m \in sizes : n <= m
  BY <1>2, NatHasMin
<1>4. PICK T \in B : Cardinality(T) = n
  OBVIOUS
<1>5. ASSUME NEW x \in T, T \ {x} \in B PROVE FALSE
  <2>1. Cardinality(T \ {x}) = n - 1
    BY <1>1, <1>4, FS_RemoveElement
  <2>2. n <= Cardinality(T \ {x}) /\ n \in Nat
    BY <1>1, <1>3, <1>4, <1>5
  <2> QED
    BY <2>1, <2>2
<1> QED
  BY <1>4, <1>5

\* A function to the integers has a least value on a set
LEMMA HasLeast ==
    ASSUME NEW S, IsFiniteSet(S), S # {}, NEW f, \A x \in S : f[x] \in Int
    PROVE  \E m \in S : \A k \in S : f[m] <= f[k]
<1> DEFINE Least(T) == {m \in T : \A k \in T : f[m] <= f[k]}
           bad == {T \in SUBSET S : T # {} /\ Least(T) = {}}
<1>1. SUFFICES ASSUME bad # {} PROVE FALSE
  OBVIOUS
<1>2. PICK T \in bad : \A x \in T : T \ {x} \notin bad
  <2>1. bad \subseteq SUBSET S
    OBVIOUS
  <2> HIDE DEF bad
  <2> QED
    BY <1>1, <2>1, SmallestSet
<1>3. PICK x \in T : TRUE
  BY <1>2
<1>4. CASE T \ {x} = {}
  <2>1. x \in Least(T)
    BY <1>2, <1>3, <1>4
  <2> QED
    BY <1>2, <2>1
<1>5. CASE T \ {x} # {}
  <2>1. PICK y \in Least(T \ {x}) : TRUE
    BY <1>2, <1>3, <1>5
  <2>2. f[x] \in Int /\ f[y] \in Int /\ \A k \in T \ {x} : f[k] \in Int /\ f[y] <= f[k]
    BY <1>2, <1>3, <2>1
  <2>3. IF f[x] <= f[y] THEN x \in Least(T) ELSE y \in Least(T)
    BY <1>2, <1>3, <2>1, <2>2
  <2> QED
    BY <1>2, <2>3
<1> QED
  BY <1>4, <1>5

-----------------------------------------------------------------------------
(* Sums *)

\* The member that the fold takes next
Pick(T) == CHOOSE x \in T : TRUE

LEMMA PickIn == \A T : T # {} => Pick(T) \in T
BY DEF Pick

\* r is the fold's table over the subsets of S
Sums(r, f, S) ==
    r = [T \in SUBSET S |-> IF T = {} THEN 0 ELSE f[Pick(T)] + r[T \ {Pick(T)}]]

LEMMA SumOfTable == \A f, S : SumOf(f, S) = (CHOOSE r : Sums(r, f, S))[S]
BY Zenon DEF SumOf, MapThenFoldSet, Sums, Pick

\* r is the table as far as the sets of at most n elements
SumsTo(r, f, S, n) ==
    \A T \in SUBSET S : Cardinality(T) <= n =>
        r[T] = IF T = {} THEN 0 ELSE f[Pick(T)] + r[T \ {Pick(T)}]

\* A table for n elements is extended by those with one more
LEMMA TableGrows ==
    ASSUME NEW S, IsFiniteSet(S), NEW f, NEW n \in Nat, NEW r, SumsTo(r, f, S, n)
    PROVE  \E q : SumsTo(q, f, S, n + 1)
<1> DEFINE q == [T \in SUBSET S |-> IF Cardinality(T) <= n THEN r[T]
                                    ELSE f[Pick(T)] + r[T \ {Pick(T)}]]
<1>1. ASSUME NEW T \in SUBSET S, Cardinality(T) <= n + 1
      PROVE  q[T] = IF T = {} THEN 0 ELSE f[Pick(T)] + q[T \ {Pick(T)}]
  <2>1. IsFiniteSet(T) /\ Cardinality(T) \in Nat
    BY FS_Subset, FS_CardinalityType
  <2>2. CASE T = {}
    <3>1. Cardinality(T) <= n
      BY <2>2, FS_EmptySet
    <3> QED
      BY <2>2, <3>1 DEF SumsTo
  <2>3. CASE T # {}
    <3> DEFINE c == Pick(T)
    <3>0. c \in T
      BY <2>3, PickIn
    <3> HIDE DEF c
    <3>1. Cardinality(T \ {c}) <= n
      <4>1. Cardinality(T \ {c}) = Cardinality(T) - 1
        BY <2>1, <3>0, FS_RemoveElement
      <4> QED
        BY <1>1, <2>1, <4>1
    <3> USE DEF c
    <3>2. q[T \ {Pick(T)}] = r[T \ {Pick(T)}]
      BY <3>1
    <3>3. q[T] = f[Pick(T)] + r[T \ {Pick(T)}]
      BY <2>3 DEF SumsTo
    <3> QED
      BY <2>3, <3>2, <3>3
  <2> QED
    BY <2>2, <2>3
<1> HIDE DEF q
<1>2. SumsTo(q, f, S, n + 1)
  BY <1>1 DEF SumsTo
<1> QED
  BY <1>2

LEMMA TableExists ==
    ASSUME NEW S, IsFiniteSet(S), NEW f
    PROVE  \E r : Sums(r, f, S)
<1> DEFINE none == {n \in Nat : ~ \E r : SumsTo(r, f, S, n)}
<1>1. none = {}
  <2>1. SUFFICES ASSUME none # {} PROVE FALSE
    OBVIOUS
  <2>2. PICK n \in none : \A m \in none : n <= m
    BY <2>1, NatHasMin
  <2>3. CASE n = 0
    <3> DEFINE r == [T \in SUBSET S |-> 0]
    <3>1. \A T \in SUBSET S : Cardinality(T) <= 0 => T = {}
      BY FS_Subset, FS_CardinalityType, FS_EmptySet
    <3>2. SumsTo(r, f, S, 0)
      BY <3>1 DEF SumsTo
    <3> QED
      BY <2>3, <3>2
  <2>4. CASE n # 0
    <3>1. n - 1 \in Nat /\ n - 1 \notin none
      BY <2>2, <2>4
    <3>2. PICK r : SumsTo(r, f, S, n - 1)
      BY <3>1
    <3>3. \E q : SumsTo(q, f, S, (n - 1) + 1)
      BY <3>1, <3>2, TableGrows
    <3> QED
      BY <2>2, <3>3
  <2> QED
    BY <2>3, <2>4
<1>2. Cardinality(S) \in Nat
  BY FS_CardinalityType
<1>3. PICK r : SumsTo(r, f, S, Cardinality(S))
  BY <1>1, <1>2
<1> DEFINE q == [T \in SUBSET S |-> r[T]]
<1>4. \A T \in SUBSET S : Cardinality(T) <= Cardinality(S)
  BY FS_Subset
<1>5. \A T \in SUBSET S :
          q[T] = IF T = {} THEN 0 ELSE f[Pick(T)] + q[T \ {Pick(T)}]
  BY <1>3, <1>4 DEF SumsTo
<1>6. Sums(q, f, S)
  BY <1>5 DEF Sums
<1> QED
  BY <1>6

\* Two tables agree where both have an entry
LEMMA TablesAgree ==
    ASSUME NEW S, IsFiniteSet(S), NEW R \in SUBSET S, NEW f, NEW r, NEW q,
           Sums(r, f, S), Sums(q, f, R)
    PROVE  r[R] = q[R]
<1> DEFINE bad == {T \in SUBSET R : r[T] # q[T]}
<1>1. SUFFICES ASSUME bad # {} PROVE FALSE
  OBVIOUS
<1>2. IsFiniteSet(R)
  BY FS_Subset
<1>3. PICK T \in bad : \A x \in T : T \ {x} \notin bad
  BY <1>1, <1>2, SmallestSet
<1>4. T # {} => r[T \ {Pick(T)}] = q[T \ {Pick(T)}]
  BY <1>3, PickIn
<1>5. r[T] = IF T = {} THEN 0 ELSE f[Pick(T)] + r[T \ {Pick(T)}]
  <2>1. \A U \in SUBSET S : r[U] = IF U = {} THEN 0 ELSE f[Pick(U)] + r[U \ {Pick(U)}]
    BY Zenon DEF Sums
  <2> QED
    BY <2>1
<1>6. q[T] = IF T = {} THEN 0 ELSE f[Pick(T)] + q[T \ {Pick(T)}]
  <2>1. \A U \in SUBSET R : q[U] = IF U = {} THEN 0 ELSE f[Pick(U)] + q[U \ {Pick(U)}]
    BY Zenon DEF Sums
  <2> QED
    BY <2>1
<1> QED
  BY <1>3, <1>4, <1>5, <1>6

\* The sum of no elements, and the sum less the element the fold takes first
LEMMA SumSteps ==
    ASSUME NEW S, IsFiniteSet(S), NEW f
    PROVE  SumOf(f, S) = IF S = {} THEN 0 ELSE f[Pick(S)] + SumOf(f, S \ {Pick(S)})
<1> DEFINE r == CHOOSE r : Sums(r, f, S)
           q == CHOOSE q : Sums(q, f, S \ {Pick(S)})
<1>1. Sums(r, f, S)
  BY TableExists
<1>2. Sums(q, f, S \ {Pick(S)})
  BY TableExists, FS_RemoveElement
<1> HIDE DEF r, q
<1>3. r[S \ {Pick(S)}] = q[S \ {Pick(S)}]
  BY <1>1, <1>2, TablesAgree
<1>4. r[S] = IF S = {} THEN 0 ELSE f[Pick(S)] + r[S \ {Pick(S)}]
  <2>1. \A T \in SUBSET S : r[T] = IF T = {} THEN 0 ELSE f[Pick(T)] + r[T \ {Pick(T)}]
    BY <1>1, Zenon DEF Sums
  <2> QED
    BY <2>1
<1>5. SumOf(f, S) = r[S] /\ SumOf(f, S \ {Pick(S)}) = q[S \ {Pick(S)}]
  BY SumOfTable DEF r, q
<1> QED
  BY <1>3, <1>4, <1>5

\* A sum of integers is an integer
LEMMA SumInt ==
    ASSUME NEW S, IsFiniteSet(S), NEW f, \A x \in S : f[x] \in Int
    PROVE  SumOf(f, S) \in Int
<1> DEFINE bad == {T \in SUBSET S : SumOf(f, T) \notin Int}
<1>1. SUFFICES ASSUME bad # {} PROVE FALSE
  OBVIOUS
<1>2. PICK T \in bad : \A x \in T : T \ {x} \notin bad
  BY <1>1, SmallestSet
<1>3. IsFiniteSet(T)
  BY FS_Subset
<1>4. CASE T = {}
  BY <1>2, <1>3, <1>4, SumSteps
<1>5. CASE T # {}
  <2>1. Pick(T) \in T
    BY <1>5, PickIn
  <2>2. SumOf(f, T \ {Pick(T)}) \in Int /\ f[Pick(T)] \in Int
    BY <1>2, <2>1
  <2> QED
    BY <1>2, <1>3, <1>5, <2>2, SumSteps
<1> QED
  BY <1>4, <1>5

\* Whichever element is taken out, the sum is less by it
LEMMA SumLess ==
    ASSUME NEW S, IsFiniteSet(S), NEW f, \A x \in S : f[x] \in Int, NEW y \in S
    PROVE  SumOf(f, S) = f[y] + SumOf(f, S \ {y})
<1> DEFINE Good(T) == \A x \in T : SumOf(f, T) = f[x] + SumOf(f, T \ {x})
           bad == {T \in SUBSET S : ~Good(T)}
<1>1. SUFFICES ASSUME bad # {} PROVE FALSE
  <2>1. Good(S)
    BY <1>1
  <2> QED
    BY <2>1
<1>2. PICK T \in bad : \A x \in T : T \ {x} \notin bad
  BY <1>1, SmallestSet
<1>3. IsFiniteSet(T)
  BY FS_Subset
<1>4. PICK x \in T : SumOf(f, T) # f[x] + SumOf(f, T \ {x})
  BY <1>2
<1> DEFINE c == Pick(T)
<1>5. c \in T
  BY <1>4, PickIn
<1>6. SumOf(f, T) = f[c] + SumOf(f, T \ {c})
  BY <1>3, <1>5, SumSteps
<1>7. c # x
  BY <1>4, <1>6
<1> HIDE DEF c
<1>8. SumOf(f, T \ {c}) = f[x] + SumOf(f, (T \ {c}) \ {x})
  BY <1>2, <1>4, <1>5, <1>7
<1>9. SumOf(f, T \ {x}) = f[c] + SumOf(f, (T \ {x}) \ {c})
  BY <1>2, <1>4, <1>5, <1>7
<1>10. (T \ {c}) \ {x} = (T \ {x}) \ {c}
  OBVIOUS
<1>11. SumOf(f, (T \ {x}) \ {c}) \in Int /\ f[x] \in Int /\ f[c] \in Int
  <2>1. IsFiniteSet((T \ {x}) \ {c})
    BY <1>3, FS_RemoveElement
  <2> QED
    BY <2>1, <1>4, <1>5, SumInt
<1>12. SumOf(f, (T \ {c}) \ {x}) = SumOf(f, (T \ {x}) \ {c})
  BY <1>10
<1>13. SumOf(f, T) = f[x] + SumOf(f, T \ {x})
  BY <1>6, <1>8, <1>9, <1>11, <1>12
<1> QED
  BY <1>4, <1>13

\* The sum of a sum of two functions
LEMMA SumAdds ==
    ASSUME NEW S, IsFiniteSet(S), NEW f, NEW g, NEW h,
           \A x \in S : f[x] \in Int /\ g[x] \in Int /\ h[x] = f[x] + g[x]
    PROVE  SumOf(h, S) = SumOf(f, S) + SumOf(g, S)
<1> DEFINE bad == {T \in SUBSET S : SumOf(h, T) # SumOf(f, T) + SumOf(g, T)}
<1>1. SUFFICES ASSUME bad # {} PROVE FALSE
  OBVIOUS
<1>2. PICK T \in bad : \A x \in T : T \ {x} \notin bad
  BY <1>1, SmallestSet
<1>3. IsFiniteSet(T)
  BY FS_Subset
<1>4. CASE T = {}
  <2>1. SumOf(f, T) = 0 /\ SumOf(g, T) = 0 /\ SumOf(h, T) = 0
    BY <1>3, <1>4, SumSteps
  <2> QED
    BY <1>2, <2>1
<1>5. CASE T # {}
  <2> DEFINE c == Pick(T)
  <2>1. c \in T
    BY <1>5, PickIn
  <2> HIDE DEF c
  <2>2. IsFiniteSet(T \ {c})
    BY <1>3, FS_RemoveElement
  <2>3. SumOf(h, T \ {c}) = SumOf(f, T \ {c}) + SumOf(g, T \ {c})
    BY <1>2, <2>1
  <2>4. SumOf(f, T \ {c}) \in Int /\ SumOf(g, T \ {c}) \in Int
    BY <2>2, SumInt
  <2>5. SumOf(f, T) = f[c] + SumOf(f, T \ {c}) /\ SumOf(g, T) = g[c] + SumOf(g, T \ {c})
    BY <1>3, <2>1, SumLess
  <2>6. SumOf(h, T) = h[c] + SumOf(h, T \ {c})
    <3>1. \A x \in T : h[x] \in Int
      OBVIOUS
    <3> QED
      BY <1>3, <2>1, <3>1, SumLess
  <2> QED
    BY <1>2, <2>1, <2>3, <2>4, <2>5, <2>6
<1> QED
  BY <1>4, <1>5

\* A function that is s on K and 0 elsewhere
LEMMA SumOn ==
    ASSUME NEW S, IsFiniteSet(S), NEW K, NEW s \in Int, NEW f,
           \A x \in S : f[x] = IF x \in K THEN s ELSE 0
    PROVE  SumOf(f, S) = s * Cardinality(K \cap S)
<1> DEFINE bad == {T \in SUBSET S : SumOf(f, T) # s * Cardinality(K \cap T)}
<1>1. SUFFICES ASSUME bad # {} PROVE FALSE
  OBVIOUS
<1>2. PICK T \in bad : \A x \in T : T \ {x} \notin bad
  BY <1>1, SmallestSet
<1>3. IsFiniteSet(T) /\ IsFiniteSet(K \cap T)
  BY FS_Subset
<1>4. CASE T = {}
  <2>1. K \cap T = {} /\ Cardinality({}) = 0
    BY <1>4, FS_EmptySet
  <2> QED
    BY <1>2, <1>3, <1>4, <2>1, SumSteps
<1>5. CASE T # {}
  <2> DEFINE c == Pick(T)
  <2>1. c \in T
    BY <1>5, PickIn
  <2>2. SumOf(f, T) = f[c] + SumOf(f, T \ {c})
    BY <1>3, <1>5, SumSteps
  <2> HIDE DEF c
  <2>3. SumOf(f, T \ {c}) = s * Cardinality(K \cap (T \ {c}))
    BY <1>2, <2>1
  <2>4. Cardinality(K \cap T) \in Nat
    BY <1>3, FS_CardinalityType
  <2>5. CASE c \in K
    <3>1. K \cap (T \ {c}) = (K \cap T) \ {c} /\ c \in K \cap T
      BY <2>1, <2>5
    <3>0. ASSUME NEW X, IsFiniteSet(X), c \in X PROVE Cardinality(X \ {c}) = Cardinality(X) - 1
      BY <3>0, FS_RemoveElement
    <3>2. Cardinality(K \cap (T \ {c})) = Cardinality(K \cap T) - 1
      BY <1>3, <3>0, <3>1
    <3>3. f[c] = s
      BY <2>1, <2>5
    <3>4. s + s * (Cardinality(K \cap T) - 1) = s * Cardinality(K \cap T)
      BY <2>4
    <3> QED
      BY <1>2, <2>2, <2>3, <3>2, <3>3, <3>4
  <2>6. CASE c \notin K
    <3>1. K \cap (T \ {c}) = K \cap T
      BY <2>6
    <3>2. f[c] = 0
      BY <2>1, <2>6
    <3>3. s * Cardinality(K \cap T) \in Int
      BY <2>4
    <3>4. SumOf(f, T \ {c}) = s * Cardinality(K \cap T)
      BY <2>3, <3>1
    <3>5. SumOf(f, T) = s * Cardinality(K \cap T)
      BY <2>2, <3>2, <3>3, <3>4
    <3> QED
      BY <1>2, <3>5
  <2> QED
    BY <2>5, <2>6
<1> QED
  BY <1>4, <1>5

=============================================================================
