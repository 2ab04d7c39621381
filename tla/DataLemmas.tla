------------------------------ MODULE DataLemmas ------------------------------
(***************************************************************************)
(* Sums of a function over a finite set, as SumFunctionOnSet computes      *)
(* them: of nothing, of a set with one more or one less member, of two     *)
(* functions that agree, of a function changed at one point.               *)
(* Lists of ids: what filtering one leaves, appending to one, pages in     *)
(* order when one of them is replaced, opened, lengthened or compacted.    *)
(*                                                                         *)
(* A fold is defined by choosing a function that unfolds one member at a   *)
(* time.  That such a function exists, and every fact that a textbook      *)
(* proves by induction on the size of the set, is proved here by taking    *)
(* the smallest counterexample and removing a member of it.                *)
(***************************************************************************)
EXTENDS IdLists, Integers, FiniteSets, Sequences, Functions, FiniteSetTheorems, SequenceTheorems,
        WellFoundedInduction, TLAPS

LEMMA LeastNat ==
  ASSUME NEW S, S \subseteq Nat, S # {}
  PROVE  \E x \in S : \A y \in S : x <= y
<1>1. PICK x \in S : \A y \in S : <<y, x>> \notin OpToRel(<, Nat)
  BY NatLessThanWellFounded, WFMin
<1>2. ASSUME NEW y \in S PROVE x <= y
  <2>1. ~(y < x)
    BY <1>1 DEF OpToRel
  <2>2. QED
    BY <2>1
<1>3. QED
  BY <1>2

(* Induction on the natural numbers, for a set of them.                     *)
LEMMA NatSetInduction ==
  ASSUME NEW G, 0 \in G, \A n \in Nat : n \in G => n + 1 \in G
  PROVE  Nat \subseteq G
<1>1. SUFFICES ASSUME Nat \ G # {} PROVE FALSE
  OBVIOUS
<1>2. PICK k \in Nat \ G : \A j \in Nat \ G : k <= j
  BY <1>1, LeastNat
<1>3. k - 1 \in Nat /\ k - 1 \in G
  <2>1. k # 0 /\ k \in Nat
    BY <1>2
  <2>2. k - 1 \in Nat /\ ~(k <= k - 1)
    BY <2>1
  <2>3. QED
    BY <1>2, <2>2
<1>4. QED
  BY <1>2, <1>3

(* Induction on a finite set, by the least counterexample.                  *)
LEMMA MinimalSet ==
  ASSUME NEW S, IsFiniteSet(S), NEW B, B \subseteq SUBSET S, B # {}
  PROVE  \E T \in B : /\ IsFiniteSet(T)
                      /\ \A U \in SUBSET T : U # T => U \notin B
<1> DEFINE Sizes == {Cardinality(T) : T \in B}
<1>1. \A T \in B : IsFiniteSet(T) /\ Cardinality(T) \in Nat
  BY FS_Subset, FS_CardinalityType
<1>2. Sizes \subseteq Nat /\ Sizes # {}
  BY <1>1
<1>3. PICK n \in Sizes : \A m \in Sizes : n <= m
  BY <1>2, LeastNat
<1>4. PICK T \in B : Cardinality(T) = n
  BY <1>3
<1>5. ASSUME NEW U \in SUBSET T, U # T PROVE U \notin B
  <2>1. Cardinality(U) \in Nat /\ n \in Nat
    BY <1>1, <1>4, <1>5, FS_Subset, FS_CardinalityType
  <2>2. Cardinality(U) < n
    BY <2>1, <1>1, <1>4, <1>5, FS_Subset
  <2>3. Cardinality(U) \notin Sizes
    BY <2>1, <2>2, <1>3
  <2>4. QED
    BY <2>3
<1>6. QED
  BY <1>1, <1>4, <1>5

-----------------------------------------------------------------------------
(* Sums over finite sets: the recursive function inside the fold exists,    *)
(* and what it computes does not depend on the order of the elements.       *)

First(S) == CHOOSE x \in S : TRUE

IsIter(f, S, g) ==
  g = [s \in SUBSET S |-> IF s = {} THEN 0 ELSE f[First(s)] + g[s \ {First(s)}]]

Iter(f, S) == CHOOSE g : IsIter(f, S, g)

LEMMA FirstIn ==
  ASSUME NEW S, S # {}
  PROVE  First(S) \in S
BY DEF First

LEMMA SumIsIter ==
  ASSUME NEW f, NEW S
  PROVE  SumFunctionOnSet(f, S) = Iter(f, S)[S]
BY Zenon DEF SumFunctionOnSet, FoldFunctionOnSet, MapThenFoldSet, Iter, IsIter, First

(* What a sum is taken for: its own recursion equation.                     *)
Unfolds(f, S) ==
  SumFunctionOnSet(f, S) =
    IF S = {} THEN 0 ELSE f[First(S)] + SumFunctionOnSet(f, S \ {First(S)})

LEMMA IterAgrees ==
  ASSUME NEW f, NEW S, IsFiniteSet(S), NEW g, IsIter(f, S, g),
         \A T \in SUBSET S : T # S => Unfolds(f, T)
  PROVE  \A T \in SUBSET S : T # S => g[T] = SumFunctionOnSet(f, T)
<1> DEFINE Bad == {T \in SUBSET S : T # S /\ g[T] # SumFunctionOnSet(f, T)}
<1>1. SUFFICES ASSUME Bad # {} PROVE FALSE
  OBVIOUS
<1>2. PICK U \in Bad : \A V \in SUBSET U : V # U => V \notin Bad
  <2>1. Bad \subseteq SUBSET S
    OBVIOUS
  <2> HIDE DEF Bad
  <2>2. QED
    BY <2>1, <1>1, MinimalSet
<1>3. Unfolds(f, U)
  BY <1>2
<1>4. g[U] = IF U = {} THEN 0 ELSE f[First(U)] + g[U \ {First(U)}]
  BY DEF IsIter
<1>5. U # {}
  BY <1>2, <1>3, <1>4 DEF Unfolds
<1> DEFINE V == U \ {First(U)}
<1>6. V \in SUBSET U /\ V # U /\ V \in SUBSET S /\ V # S
  BY <1>5, FirstIn
<1>7. g[V] # SumFunctionOnSet(f, V)
  BY <1>2, <1>3, <1>4, <1>5 DEF Unfolds
<1>8. V \in Bad
  BY <1>6, <1>7
<1>9. QED
  BY <1>2, <1>6, <1>8

LEMMA SumUnfolds ==
  ASSUME NEW f, NEW S, IsFiniteSet(S)
  PROVE  Unfolds(f, S)
<1> DEFINE Bad == {T \in SUBSET S : ~Unfolds(f, T)}
<1>1. SUFFICES ASSUME Bad # {} PROVE FALSE
  OBVIOUS
<1>2. PICK T \in Bad : IsFiniteSet(T) /\ \A U \in SUBSET T : U # T => U \notin Bad
  <2>1. Bad \subseteq SUBSET S
    OBVIOUS
  <2> HIDE DEF Bad
  <2>2. QED
    BY <2>1, <1>1, MinimalSet
<1>3. \A U \in SUBSET T : U # T => Unfolds(f, U)
  BY <1>2
<1> DEFINE h == [s \in SUBSET T |->
                   IF s = {} THEN 0 ELSE f[First(s)] + SumFunctionOnSet(f, s \ {First(s)})]
<1>4. ASSUME NEW s \in SUBSET T, s # {}
      PROVE  h[s \ {First(s)}] = SumFunctionOnSet(f, s \ {First(s)})
  <2>1. First(s) \in s /\ s \ {First(s)} \in SUBSET T /\ s \ {First(s)} # T
    BY <1>4, FirstIn
  <2>2. Unfolds(f, s \ {First(s)})
    BY <2>1, <1>3
  <2>3. QED
    BY <2>1, <2>2 DEF Unfolds
<1>5. IsIter(f, T, h)
  BY <1>4 DEF IsIter
<1>6. IsIter(f, T, Iter(f, T))
  <2> HIDE DEF h
  <2>1. \E g : IsIter(f, T, g)
    BY <1>5
  <2>2. QED
    BY <2>1, Zenon DEF Iter
<1>7. Iter(f, T)[T] = IF T = {} THEN 0 ELSE f[First(T)] + Iter(f, T)[T \ {First(T)}]
  BY <1>6, Zenon DEF IsIter
<1>8. SumFunctionOnSet(f, T) = Iter(f, T)[T]
  BY SumIsIter
<1>9. CASE T = {}
  BY <1>2, <1>7, <1>8, <1>9 DEF Unfolds
<1>10. CASE T # {}
  <2>1. T \ {First(T)} \in SUBSET T /\ T \ {First(T)} # T
    BY <1>10, FirstIn
  <2>2. \A U \in SUBSET T : U # T => Iter(f, T)[U] = SumFunctionOnSet(f, U)
    BY <1>2, <1>3, <1>6, IterAgrees
  <2>3. Iter(f, T)[T \ {First(T)}] = SumFunctionOnSet(f, T \ {First(T)})
    BY <2>1, <2>2
  <2>4. QED
    BY <1>2, <1>7, <1>8, <1>10, <2>3 DEF Unfolds
<1>11. QED
  BY <1>9, <1>10

LEMMA SumEmpty == \A f : SumFunctionOnSet(f, {}) = 0
BY SumUnfolds, FS_EmptySet DEF Unfolds

LEMMA SumFirst ==
  ASSUME NEW f, NEW T, IsFiniteSet(T), First(T) \in T
  PROVE  SumFunctionOnSet(f, T) = f[First(T)] + SumFunctionOnSet(f, T \ {First(T)})
BY SumUnfolds DEF Unfolds

(* The induction of the lemmas below.                                       *)
LEMMA LeastBad ==
  ASSUME NEW S, IsFiniteSet(S), NEW Bad, Bad \subseteq SUBSET S, Bad # {}, {} \notin Bad
  PROVE  \E T \in Bad : /\ IsFiniteSet(T) /\ First(T) \in T
                        /\ \A U \in SUBSET T : U # T => U \notin Bad
<1>1. PICK T \in Bad : IsFiniteSet(T) /\ \A U \in SUBSET T : U # T => U \notin Bad
  BY MinimalSet
<1>2. T # {}
  OBVIOUS
<1>3. First(T) \in T
  BY <1>2, FirstIn
<1>4. QED
  BY <1>1, <1>3

LEMMA SumInt ==
  ASSUME NEW f, NEW S, IsFiniteSet(S), \A x \in S : f[x] \in Int
  PROVE  SumFunctionOnSet(f, S) \in Int
<1> DEFINE Bad == {T \in SUBSET S : SumFunctionOnSet(f, T) \notin Int}
<1>1. SUFFICES ASSUME Bad # {} PROVE FALSE
  OBVIOUS
<1>2. {} \notin Bad
  BY SumEmpty
<1>3. PICK T \in Bad :
        /\ IsFiniteSet(T) /\ First(T) \in T
        /\ \A U \in SUBSET T : U # T => U \notin Bad
  <2>1. Bad \subseteq SUBSET S
    OBVIOUS
  <2> HIDE DEF Bad
  <2>2. QED
    BY <2>1, <1>1, <1>2, LeastBad
<1>4. SumFunctionOnSet(f, T \ {First(T)}) \in Int
  BY <1>3
<1>5. QED
  BY <1>3, <1>4, SumFirst

LEMMA SumNat ==
  ASSUME NEW f, NEW S, IsFiniteSet(S), \A x \in S : f[x] \in Nat
  PROVE  SumFunctionOnSet(f, S) \in Nat
<1> DEFINE Bad == {T \in SUBSET S : SumFunctionOnSet(f, T) \notin Nat}
<1>1. SUFFICES ASSUME Bad # {} PROVE FALSE
  OBVIOUS
<1>2. {} \notin Bad
  BY SumEmpty
<1>3. PICK T \in Bad :
        /\ IsFiniteSet(T) /\ First(T) \in T
        /\ \A U \in SUBSET T : U # T => U \notin Bad
  <2>1. Bad \subseteq SUBSET S
    OBVIOUS
  <2> HIDE DEF Bad
  <2>2. QED
    BY <2>1, <1>1, <1>2, LeastBad
<1>4. SumFunctionOnSet(f, T \ {First(T)}) \in Nat
  BY <1>3
<1>5. QED
  BY <1>3, <1>4, SumFirst

(* A sum depends on the values at its indices only.                         *)
LEMMA SumAgree ==
  ASSUME NEW f, NEW g, NEW S, IsFiniteSet(S), \A x \in S : f[x] = g[x]
  PROVE  SumFunctionOnSet(f, S) = SumFunctionOnSet(g, S)
<1> DEFINE Bad == {T \in SUBSET S : SumFunctionOnSet(f, T) # SumFunctionOnSet(g, T)}
<1>1. SUFFICES ASSUME Bad # {} PROVE FALSE
  OBVIOUS
<1>2. {} \notin Bad
  BY SumEmpty
<1>3. PICK T \in Bad :
        /\ IsFiniteSet(T) /\ First(T) \in T
        /\ \A U \in SUBSET T : U # T => U \notin Bad
  <2>1. Bad \subseteq SUBSET S
    OBVIOUS
  <2> HIDE DEF Bad
  <2>2. QED
    BY <2>1, <1>1, <1>2, LeastBad
<1>4. SumFunctionOnSet(f, T \ {First(T)}) = SumFunctionOnSet(g, T \ {First(T)})
  BY <1>3
<1>5. SumFunctionOnSet(g, T) = g[First(T)] + SumFunctionOnSet(g, T \ {First(T)})
  BY <1>3, SumUnfolds DEF Unfolds
<1>6. f[First(T)] = g[First(T)]
  BY <1>3
<1>7. QED
  BY <1>3, <1>4, <1>5, <1>6, SumFirst

(* Any element can be taken out of a sum, whichever the fold takes first.   *)
LEMMA SumRemove ==
  ASSUME NEW f, NEW S, IsFiniteSet(S), \A x \in S : f[x] \in Int, NEW y \in S
  PROVE  SumFunctionOnSet(f, S) = f[y] + SumFunctionOnSet(f, S \ {y})
<1> DEFINE Sum(T) == SumFunctionOnSet(f, T)
           Splits(T) == \A x \in T : Sum(T) = f[x] + Sum(T \ {x})
           Bad == {T \in SUBSET S : ~Splits(T)}
<1>1. SUFFICES ASSUME Bad # {} PROVE FALSE
  OBVIOUS
<1>2. {} \notin Bad
  OBVIOUS
<1>3. PICK T \in Bad :
        /\ IsFiniteSet(T) /\ First(T) \in T
        /\ \A U \in SUBSET T : U # T => U \notin Bad
  <2>1. Bad \subseteq SUBSET S
    OBVIOUS
  <2> HIDE DEF Bad
  <2>2. QED
    BY <2>1, <1>1, <1>2, LeastBad
<1>4. \A x \in T : Splits(T \ {x})
  BY <1>3
<1>5. PICK x \in T : Sum(T) # f[x] + Sum(T \ {x})
  BY <1>3
<1> DEFINE c == First(T)
<1>6. c \in T /\ c # x
  BY <1>3, <1>5, SumFirst
<1>7. Sum(T \ {c}) = f[x] + Sum((T \ {c}) \ {x})
  <2>1. x \in T \ {c}
    BY <1>6
  <2>2. QED
    BY <2>1, <1>4, <1>6
<1>8. Sum(T \ {x}) = f[c] + Sum((T \ {x}) \ {c})
  <2>1. c \in T \ {x}
    BY <1>6
  <2>2. QED
    BY <2>1, <1>4
<1>9. Sum((T \ {x}) \ {c}) = Sum((T \ {c}) \ {x})
  <2>1. (T \ {x}) \ {c} = (T \ {c}) \ {x}
    OBVIOUS
  <2>2. QED
    BY <2>1, Zenon
<1>10. Sum((T \ {c}) \ {x}) \in Int /\ f[c] \in Int /\ f[x] \in Int
  <2>1. IsFiniteSet((T \ {c}) \ {x}) /\ (T \ {c}) \ {x} \subseteq S
    BY <1>3, FS_Subset
  <2>2. QED
    BY <2>1, <1>6, SumInt
<1>11. Sum(T) = f[c] + Sum(T \ {c})
  BY <1>3, SumFirst
<1> HIDE DEF c, Sum
<1>12. Sum(T) = f[x] + Sum(T \ {x})
  BY <1>7, <1>8, <1>9, <1>10, <1>11
<1>13. QED
  BY <1>5, <1>12

LEMMA SumAdd ==
  ASSUME NEW f, NEW S, IsFiniteSet(S), NEW y, y \notin S,
         \A x \in S \cup {y} : f[x] \in Int
  PROVE  SumFunctionOnSet(f, S \cup {y}) = SumFunctionOnSet(f, S) + f[y]
<1> DEFINE T == S \cup {y}
<1>1. IsFiniteSet(T) /\ y \in T /\ \A x \in T : f[x] \in Int
  BY FS_AddElement
<1>2. T \ {y} = S
  OBVIOUS
<1> HIDE DEF T
<1>3. SumFunctionOnSet(f, T) = f[y] + SumFunctionOnSet(f, T \ {y})
  BY <1>1, SumRemove
<1>4. SumFunctionOnSet(f, S) \in Int /\ f[y] \in Int
  BY SumInt
<1>5. SumFunctionOnSet(f, T \ {y}) = SumFunctionOnSet(f, S)
  BY <1>2, Zenon
<1>6. SumFunctionOnSet(f, T) = SumFunctionOnSet(f, S) + f[y]
  BY <1>3, <1>4, <1>5
<1>7. QED
  BY <1>6 DEF T

(* A part of a sum of natural numbers never exceeds it.                     *)
LEMMA SumMember ==
  ASSUME NEW f, NEW S, IsFiniteSet(S), \A x \in S : f[x] \in Nat, NEW y \in S
  PROVE  /\ SumFunctionOnSet(f, S) = f[y] + SumFunctionOnSet(f, S \ {y})
         /\ SumFunctionOnSet(f, S \ {y}) \in Nat /\ SumFunctionOnSet(f, S) \in Nat
         /\ f[y] <= SumFunctionOnSet(f, S)
<1>1. IsFiniteSet(S \ {y})
  BY FS_RemoveElement
<1>2. SumFunctionOnSet(f, S \ {y}) \in Nat /\ SumFunctionOnSet(f, S) \in Nat
  BY <1>1, SumNat
<1>3. SumFunctionOnSet(f, S) = f[y] + SumFunctionOnSet(f, S \ {y})
  BY SumRemove
<1>4. QED
  BY <1>2, <1>3

(* One value changes.                                                       *)
LEMMA SumChange ==
  ASSUME NEW f, NEW g, NEW S, IsFiniteSet(S), NEW y \in S,
         \A x \in S : f[x] \in Int /\ g[x] \in Int,
         \A x \in S \ {y} : g[x] = f[x]
  PROVE  SumFunctionOnSet(g, S) = SumFunctionOnSet(f, S) + (g[y] - f[y])
<1>1. IsFiniteSet(S \ {y})
  BY FS_RemoveElement
<1>2. SumFunctionOnSet(g, S \ {y}) = SumFunctionOnSet(f, S \ {y})
  BY <1>1, SumAgree
<1>3. /\ SumFunctionOnSet(f, S) = f[y] + SumFunctionOnSet(f, S \ {y})
      /\ SumFunctionOnSet(g, S) = g[y] + SumFunctionOnSet(g, S \ {y})
  BY SumRemove
<1>4. SumFunctionOnSet(f, S \ {y}) \in Int /\ f[y] \in Int /\ g[y] \in Int
  BY <1>1, SumInt
<1>5. QED
  BY <1>2, <1>3, <1>4

(* Nothing but zeros.                                                       *)
LEMMA SumZero ==
  ASSUME NEW f, NEW S, IsFiniteSet(S), \A x \in S : f[x] = 0
  PROVE  SumFunctionOnSet(f, S) = 0
<1> DEFINE Bad == {T \in SUBSET S : SumFunctionOnSet(f, T) # 0}
<1>1. SUFFICES ASSUME Bad # {} PROVE FALSE
  OBVIOUS
<1>2. {} \notin Bad
  BY SumEmpty
<1>3. PICK T \in Bad :
        /\ IsFiniteSet(T) /\ First(T) \in T
        /\ \A U \in SUBSET T : U # T => U \notin Bad
  <2>1. Bad \subseteq SUBSET S
    OBVIOUS
  <2> HIDE DEF Bad
  <2>2. QED
    BY <2>1, <1>1, <1>2, LeastBad
<1>4. SumFunctionOnSet(f, T \ {First(T)}) = 0 /\ f[First(T)] = 0
  BY <1>3
<1>5. QED
  BY <1>3, <1>4, SumFirst

-----------------------------------------------------------------------------
(* Sums and counts by class.                                                *)

InClass(S, g, d) == {x \in S : g[x] = d}
ClassSums(f, S, g, D) == [d \in D |-> SumFunctionOnSet(f, InClass(S, g, d))]

(* Adding up by class and then over the classes is adding up.               *)
LEMMA SumPartition ==
  ASSUME NEW f, NEW S, IsFiniteSet(S), \A x \in S : f[x] \in Int,
         NEW g, NEW D, IsFiniteSet(D), \A x \in S : g[x] \in D
  PROVE  SumFunctionOnSet(ClassSums(f, S, g, D), D) = SumFunctionOnSet(f, S)
<1> DEFINE Bad == {T \in SUBSET S :
                     SumFunctionOnSet(ClassSums(f, T, g, D), D) # SumFunctionOnSet(f, T)}
<1>1. SUFFICES ASSUME Bad # {} PROVE FALSE
  OBVIOUS
<1>2. {} \notin Bad
  <2>1. ASSUME NEW d \in D PROVE ClassSums(f, {}, g, D)[d] = 0
    <3>1. InClass({}, g, d) = {} BY DEF InClass
    <3>2. ClassSums(f, {}, g, D)[d] = SumFunctionOnSet(f, InClass({}, g, d)) BY DEF ClassSums
    <3> QED BY <3>1, <3>2, SumEmpty
  <2>2. SumFunctionOnSet(ClassSums(f, {}, g, D), D) = 0 BY <2>1, SumZero
  <2> QED BY <2>2, SumEmpty
<1>3. PICK T \in Bad :
        /\ IsFiniteSet(T) /\ First(T) \in T
        /\ \A U \in SUBSET T : U # T => U \notin Bad
  <2>1. Bad \subseteq SUBSET S
    OBVIOUS
  <2> HIDE DEF Bad
  <2>2. QED
    BY <2>1, <1>1, <1>2, LeastBad
<1> DEFINE y == First(T)
           U == T \ {y}
           P == ClassSums(f, U, g, D)
           Q == ClassSums(f, T, g, D)
<1>4. /\ y \in T /\ T \subseteq S /\ U \subseteq T /\ U # T /\ IsFiniteSet(U) /\ g[y] \in D
      /\ f[y] \in Int /\ IsFiniteSet(T)
  BY <1>3, FS_RemoveElement
<1>5. SumFunctionOnSet(P, D) = SumFunctionOnSet(f, U)
  <2>1. U \in SUBSET T /\ U \in SUBSET S /\ U \notin Bad BY <1>3, <1>4
  <2> QED BY <2>1
<1>6. SumFunctionOnSet(f, T) = f[y] + SumFunctionOnSet(f, U) BY <1>3, SumFirst
<1> HIDE DEF y, U
<1>7. \A d \in D : P[d] = SumFunctionOnSet(f, InClass(U, g, d))
                   /\ Q[d] = SumFunctionOnSet(f, InClass(T, g, d))
  BY DEF ClassSums
<1> HIDE DEF P, Q
<1>8. ASSUME NEW d \in D PROVE P[d] \in Int /\ Q[d] \in Int
  <2>1. /\ IsFiniteSet(InClass(U, g, d)) /\ IsFiniteSet(InClass(T, g, d))
        /\ \A x \in InClass(U, g, d) : f[x] \in Int
        /\ \A x \in InClass(T, g, d) : f[x] \in Int
    BY <1>4, FS_Subset DEF InClass
  <2> QED BY <2>1, <1>7, SumInt
<1>9. ASSUME NEW d \in D \ {g[y]} PROVE Q[d] = P[d]
  <2>1. InClass(T, g, d) = InClass(U, g, d) BY <1>4 DEF InClass, U
  <2> QED BY <1>7, <2>1
<1>10. Q[g[y]] = f[y] + P[g[y]]
  <2> DEFINE C == InClass(T, g, g[y])
  <2>1. IsFiniteSet(C) /\ (\A x \in C : f[x] \in Int) /\ y \in C /\ C \ {y} = InClass(U, g, g[y])
    BY <1>4, FS_Subset DEF InClass, U
  <2>2. SumFunctionOnSet(f, C) = f[y] + SumFunctionOnSet(f, C \ {y}) BY <2>1, SumRemove
  <2> QED BY <1>4, <1>7, <2>1, <2>2
<1>11. SumFunctionOnSet(Q, D) = SumFunctionOnSet(P, D) + (Q[g[y]] - P[g[y]])
  BY <1>4, <1>8, <1>9, SumChange
<1>12. SumFunctionOnSet(Q, D) = SumFunctionOnSet(f, T)
  <2>1. P[g[y]] \in Int /\ Q[g[y]] \in Int /\ f[y] \in Int BY <1>4, <1>8
  <2>2. SumFunctionOnSet(f, U) \in Int BY <1>4, SumInt
  <2> QED BY <1>5, <1>6, <1>10, <1>11, <2>1, <2>2
<1> QED BY <1>3, <1>12 DEF Q

(* A count is a sum of ones.                                                *)
LEMMA SumOnes ==
  ASSUME NEW f, NEW S, IsFiniteSet(S), \A x \in S : f[x] = 1
  PROVE  SumFunctionOnSet(f, S) = Cardinality(S)
<1> DEFINE Bad == {T \in SUBSET S : SumFunctionOnSet(f, T) # Cardinality(T)}
<1>1. SUFFICES ASSUME Bad # {} PROVE FALSE
  OBVIOUS
<1>2. {} \notin Bad
  BY SumEmpty, FS_EmptySet
<1>3. PICK T \in Bad :
        /\ IsFiniteSet(T) /\ First(T) \in T
        /\ \A U \in SUBSET T : U # T => U \notin Bad
  <2>1. Bad \subseteq SUBSET S
    OBVIOUS
  <2> HIDE DEF Bad
  <2>2. QED
    BY <2>1, <1>1, <1>2, LeastBad
<1>4. SumFunctionOnSet(f, T \ {First(T)}) = Cardinality(T \ {First(T)}) /\ f[First(T)] = 1
  BY <1>3
<1>5. Cardinality(T \ {First(T)}) = Cardinality(T) - 1 /\ Cardinality(T) \in Nat
  BY <1>3, FS_RemoveElement, FS_CardinalityType
<1> QED BY <1>3, <1>4, <1>5, SumFirst

LEMMA CountPartition ==
  ASSUME NEW S, IsFiniteSet(S), NEW g, NEW D, IsFiniteSet(D), \A x \in S : g[x] \in D
  PROVE  SumFunctionOnSet([d \in D |-> Cardinality(InClass(S, g, d))], D) = Cardinality(S)
<1> DEFINE f == [x \in S |-> 1]
           h == [d \in D |-> Cardinality(InClass(S, g, d))]
<1>1. \A x \in S : f[x] = 1 /\ f[x] \in Int OBVIOUS
<1> HIDE DEF f
<1>2. SumFunctionOnSet(f, S) = Cardinality(S) BY <1>1, SumOnes
<1>3. ASSUME NEW d \in D PROVE h[d] = ClassSums(f, S, g, D)[d]
  <2>1. IsFiniteSet(InClass(S, g, d)) /\ \A x \in InClass(S, g, d) : f[x] = 1
    BY <1>1, FS_Subset DEF InClass
  <2>2. SumFunctionOnSet(f, InClass(S, g, d)) = Cardinality(InClass(S, g, d)) BY <2>1, SumOnes
  <2> QED BY <2>2 DEF ClassSums
<1> HIDE DEF h
<1>4. SumFunctionOnSet(h, D) = SumFunctionOnSet(ClassSums(f, S, g, D), D)
  BY <1>3, SumAgree
<1> QED BY <1>1, <1>2, <1>4, SumPartition DEF h

-----------------------------------------------------------------------------
(* Filtering a list of ids.                                                 *)

IsFilter(ids, gone, n, g) ==
  g = [i \in 0 .. n |-> IF i = 0 THEN << >>
                        ELSE IF ids[i] \in gone THEN g[i - 1]
                        ELSE Append(g[i - 1], ids[i])]

LEMMA FilterExists ==
  ASSUME NEW ids, NEW gone, NEW n \in Nat
  PROVE  \E g : IsFilter(ids, gone, n, g)
<1> DEFINE Bad == {k \in Nat : ~\E g : IsFilter(ids, gone, k, g)}
<1>1. SUFFICES ASSUME Bad # {} PROVE FALSE
  OBVIOUS
<1>2. PICK k \in Bad : \A j \in Bad : k <= j
  <2>1. Bad \subseteq Nat
    OBVIOUS
  <2> HIDE DEF Bad
  <2>2. QED
    BY <2>1, <1>1, LeastNat
<1>3. k # 0
  <2>1. IsFilter(ids, gone, 0, [i \in 0 .. 0 |-> << >>])
    BY DEF IsFilter
  <2>2. QED
    BY <2>1
<1>4. k - 1 \in Nat /\ k - 1 \notin Bad
  BY <1>2, <1>3
<1>5. PICK g : IsFilter(ids, gone, k - 1, g)
  BY <1>4
<1> DEFINE h == [i \in 0 .. k |->
                   IF i < k THEN g[i]
                   ELSE IF ids[k] \in gone THEN g[k - 1]
                   ELSE Append(g[k - 1], ids[k])]
<1>6. \A i \in 0 .. k : h[i] = IF i = 0 THEN << >>
                               ELSE IF ids[i] \in gone THEN h[i - 1]
                               ELSE Append(h[i - 1], ids[i])
  <2>1. ASSUME NEW i \in 0 .. k, i < k
        PROVE  h[i] = IF i = 0 THEN << >>
                      ELSE IF ids[i] \in gone THEN h[i - 1]
                      ELSE Append(h[i - 1], ids[i])
    <3>1. i \in 0 .. (k - 1) /\ h[i] = g[i]
      BY <2>1
    <3>2. g[i] = IF i = 0 THEN << >>
                 ELSE IF ids[i] \in gone THEN g[i - 1]
                 ELSE Append(g[i - 1], ids[i])
      BY <3>1, <1>5 DEF IsFilter
    <3>3. i # 0 => i - 1 \in 0 .. k /\ i - 1 < k
      BY <2>1
    <3>4. i # 0 => h[i - 1] = g[i - 1]
      BY <3>3
    <3>5. QED
      BY <3>1, <3>2, <3>4
  <2>2. ASSUME NEW i \in 0 .. k, ~(i < k)
        PROVE  h[i] = IF i = 0 THEN << >>
                      ELSE IF ids[i] \in gone THEN h[i - 1]
                      ELSE Append(h[i - 1], ids[i])
    <3>1. i = k /\ k - 1 \in 0 .. k /\ k - 1 < k
      BY <2>2, <1>4
    <3>2. h[k - 1] = g[k - 1]
      BY <3>1
    <3>3. QED
      BY <3>1, <3>2, <1>3
  <2>3. QED
    BY <2>1, <2>2
<1>7. IsFilter(ids, gone, k, h)
  BY <1>6 DEF IsFilter
<1>8. QED
  BY <1>2, <1>7

LEMMA WithoutIsFilter ==
  ASSUME NEW ids, NEW gone, Len(ids) \in Nat
  PROVE  \E g : IsFilter(ids, gone, Len(ids), g) /\ Without(ids, gone) = g[Len(ids)]
<1> DEFINE g == CHOOSE f : IsFilter(ids, gone, Len(ids), f)
<1>1. IsFilter(ids, gone, Len(ids), g)
  BY FilterExists, Zenon
<1>2. Without(ids, gone) = g[Len(ids)]
  BY Zenon DEF Without, IsFilter
<1>3. QED
  BY <1>1, <1>2

(* What is copied: the ids that stay and no others, in their order, into a  *)
(* list that is no longer than the one it came from.                        *)
LEMMA WithoutKeeps ==
  ASSUME NEW T, T \subseteq Nat, NEW ids \in Seq(T), NEW gone
  PROVE  LET kept == Without(ids, gone) IN
         /\ kept \in Seq(T) /\ Len(kept) <= Len(ids)
         /\ IdsOf(kept) = IdsOf(ids) \ gone
         /\ Ascending(ids) => Ascending(kept)
<1> DEFINE n == Len(ids)
           kept == Without(ids, gone)
<1>1. n \in Nat /\ DOMAIN ids = 1 .. n /\ \A i \in 1 .. n : ids[i] \in T
  BY LenProperties, ElementOfSeq
<1>2. PICK g : IsFilter(ids, gone, n, g) /\ kept = g[n]
  BY <1>1, WithoutIsFilter
<1>3. /\ g[0] = << >>
      /\ \A i \in 1 .. n : g[i] = IF ids[i] \in gone THEN g[i - 1]
                                  ELSE Append(g[i - 1], ids[i])
  <2>1. \A i \in 0 .. n : g[i] = IF i = 0 THEN << >>
                                 ELSE IF ids[i] \in gone THEN g[i - 1]
                                 ELSE Append(g[i - 1], ids[i])
    BY <1>2, Zenon DEF IsFilter
  <2>2. 0 \in 0 .. n /\ \A i \in 1 .. n : i \in 0 .. n /\ i # 0
    BY <1>1
  <2>3. QED
    BY <2>1, <2>2
<1> HIDE DEF kept
<1> DEFINE Copied(i) == {ids[j] : j \in 1 .. i} \ gone
           Good(i) == /\ g[i] \in Seq(T) /\ Len(g[i]) <= i
                      /\ IdsOf(g[i]) = Copied(i)
                      /\ Ascending(ids) => Ascending(g[i])
           Bad == {i \in 0 .. n : ~Good(i)}
<1>4. Good(0)
  BY <1>3 DEF IdsOf, Ascending
<1>5. ASSUME NEW i \in 1 .. n, Good(i - 1) PROVE Good(i)
  <2> DEFINE s == g[i - 1]
             x == ids[i]
  <2>1. i - 1 \in Nat /\ i \in Nat /\ (1 .. i) = (1 .. (i - 1)) \cup {i}
    BY <1>1
  <2>2. {ids[j] : j \in 1 .. i} = {ids[j] : j \in 1 .. (i - 1)} \cup {x}
    BY <2>1
  <2>3. CASE x \in gone
    <3>1. g[i] = s
      BY <2>3, <1>3
    <3>2. Copied(i) = Copied(i - 1)
      BY <2>2, <2>3
    <3>3. Len(s) \in Nat /\ Len(s) <= i
      BY <1>5, <2>1
    <3>4. IdsOf(g[i]) = Copied(i)
      BY <1>5, <3>1, <3>2
    <3>5. QED
      BY <1>5, <3>1, <3>3, <3>4
  <2>4. CASE x \notin gone
    <3>1. g[i] = Append(s, x) /\ x \in T
      BY <2>4, <1>1, <1>3
    <3>2. /\ s \in Seq(T) /\ Len(s) \in Nat /\ Len(s) <= i - 1
          /\ g[i] \in Seq(T) /\ Len(g[i]) = Len(s) + 1
          /\ DOMAIN s = 1 .. Len(s) /\ DOMAIN g[i] = 1 .. (Len(s) + 1)
          /\ \A j \in 1 .. Len(s) : g[i][j] = s[j]
          /\ g[i][Len(s) + 1] = x
      BY <1>5, <3>1, AppendProperties, LenProperties
    <3>3. Copied(i) = Copied(i - 1) \cup {x}
      BY <2>2, <2>4
    <3>4. IdsOf(g[i]) = IdsOf(s) \cup {x}
      <4>1. \A j \in 1 .. (Len(s) + 1) : j \in 1 .. Len(s) \/ j = Len(s) + 1
        BY <3>2
      <4>2. 1 .. Len(s) \subseteq 1 .. (Len(s) + 1) /\ Len(s) + 1 \in 1 .. (Len(s) + 1)
        BY <3>2
      <4>3. QED
        BY <4>1, <4>2, <3>2 DEF IdsOf
    <3>5. IdsOf(g[i]) = Copied(i)
      BY <1>5, <3>3, <3>4
    <3>6. ASSUME Ascending(ids) PROVE Ascending(g[i])
      <4>1. \A j \in 1 .. Len(s) : s[j] \in Copied(i - 1)
        BY <1>5, <3>2 DEF IdsOf
      <4>2. \A j \in 1 .. (i - 1) : ids[j] < x
        BY <1>1, <2>1, <3>6 DEF Ascending
      <4>3. \A j \in 1 .. Len(s) : s[j] < x
        BY <4>1, <4>2
      <4>4. Ascending(s)
        BY <1>5, <3>6
      <4>5. ASSUME NEW j \in 1 .. (Len(s) + 1), NEW k \in 1 .. (Len(s) + 1), j < k
            PROVE  g[i][j] < g[i][k]
        <5>1. j \in 1 .. Len(s) /\ g[i][j] = s[j]
          BY <3>2, <4>5
        <5>2. CASE k = Len(s) + 1
          BY <5>1, <5>2, <3>2, <4>3
        <5>3. CASE k # Len(s) + 1
          <6>1. k \in 1 .. Len(s) /\ g[i][k] = s[k]
            BY <3>2, <5>3
          <6>2. s[j] < s[k]
            BY <5>1, <6>1, <4>4, <4>5 DEF Ascending
          <6>3. QED
            BY <5>1, <6>1, <6>2
        <5>4. QED
          BY <5>2, <5>3
      <4>6. QED
        BY <3>2, <4>5 DEF Ascending
    <3>7. QED
      BY <2>1, <3>2, <3>5, <3>6
  <2>5. QED
    BY <2>3, <2>4
<1> HIDE DEF Good
<1>6. Bad = {}
  <2>1. SUFFICES ASSUME Bad # {} PROVE FALSE
    OBVIOUS
  <2>2. PICK i \in Bad : \A j \in Bad : i <= j
    <3>1. Bad \subseteq Nat
      BY <1>1
    <3> HIDE DEF Bad
    <3>2. QED
      BY <3>1, <2>1, LeastNat
  <2>3. i # 0 /\ i \in 0 .. n
    BY <1>4, <2>2
  <2>4. i \in 1 .. n /\ i - 1 \in 0 .. n /\ i - 1 < i
    BY <1>1, <2>3
  <2>5. Good(i - 1)
    BY <1>1, <2>2, <2>4
  <2>6. QED
    BY <1>5, <2>2, <2>4, <2>5
<1>7. Good(n)
  BY <1>1, <1>6
<1>8. Copied(n) = IdsOf(ids) \ gone
  BY <1>1 DEF IdsOf
<1>9. QED
  BY <1>2, <1>7, <1>8 DEF Good, kept


-----------------------------------------------------------------------------
LEMMA Appended ==
  ASSUME NEW S, NEW s \in Seq(S), NEW x \in S, NEW t, t = Append(s, x)
  PROVE  /\ t \in Seq(S) /\ Len(s) \in Nat /\ Len(t) = Len(s) + 1
         /\ DOMAIN s = 1 .. Len(s) /\ DOMAIN t = DOMAIN s \cup {Len(s) + 1}
         /\ Len(s) + 1 \notin DOMAIN s
         /\ t[Len(s) + 1] = x /\ \A j \in DOMAIN s : t[j] = s[j]
<1>1. /\ t \in Seq(S) /\ Len(s) \in Nat /\ Len(t) = Len(s) + 1
      /\ DOMAIN s = 1 .. Len(s) /\ DOMAIN t = 1 .. (Len(s) + 1)
      /\ t[Len(s) + 1] = x /\ \A j \in 1 .. Len(s) : t[j] = s[j]
  BY AppendProperties, LenProperties
<1>2. 1 .. (Len(s) + 1) = (1 .. Len(s)) \cup {Len(s) + 1}
  BY <1>1
<1>3. QED
  BY <1>1, <1>2

(* Appending an id larger than all the others.                              *)
LEMMA AppendAscending ==
  ASSUME NEW T, T \subseteq Nat, NEW s \in Seq(T), NEW x \in T,
         Ascending(s), \A y \in IdsOf(s) : y < x
  PROVE  /\ Append(s, x) \in Seq(T) /\ IdsOf(Append(s, x)) = IdsOf(s) \cup {x}
         /\ Ascending(Append(s, x))
<1> DEFINE t == Append(s, x)
           n == Len(s) + 1
<1>1. /\ t \in Seq(T) /\ DOMAIN s = 1 .. Len(s) /\ DOMAIN t = DOMAIN s \cup {n}
      /\ Len(s) \in Nat /\ t[n] = x /\ \A j \in DOMAIN s : t[j] = s[j]
  BY Appended
<1> HIDE DEF t
<1>2. IdsOf(t) = IdsOf(s) \cup {x}
  BY <1>1 DEF IdsOf
<1>3. ASSUME NEW j \in DOMAIN t, NEW k \in DOMAIN t, j < k PROVE t[j] < t[k]
  <2>1. j \in DOMAIN s
    BY <1>1, <1>3
  <2>2. s[j] \in IdsOf(s)
    BY <2>1 DEF IdsOf
  <2>3. CASE k = n
    BY <1>1, <2>1, <2>2, <2>3
  <2>4. CASE k \in DOMAIN s
    BY <1>1, <1>3, <2>1, <2>4 DEF Ascending
  <2>5. QED
    BY <1>1, <2>3, <2>4
<1>4. Ascending(t)
  BY <1>3 DEF Ascending
<1>5. QED
  BY <1>1, <1>2, <1>4 DEF t

-----------------------------------------------------------------------------
(* An index of ids in pages: each page ascending, of at most size ids, and  *)
(* before the ids of the pages after it.                                    *)

OrderedPages(index, size) ==
  /\ \A n \in DOMAIN index : Ascending(index[n]) /\ Len(index[n]) <= size
  /\ \A m, n \in DOMAIN index : m < n =>
       \A i \in IdsOf(index[m]), j \in IdsOf(index[n]) : i < j

LEMMA InIndex ==
  ASSUME NEW index
  PROVE  \A x : x \in IndexedIds(index) <=> \E n \in DOMAIN index : x \in IdsOf(index[n])
BY DEF IndexedIds

(* Replacing one page by another whose ids lie between its neighbours'.     *)
LEMMA PageReplaced ==
  ASSUME NEW T, T \subseteq Nat, NEW size, NEW index \in Seq(Seq(T)), OrderedPages(index, size),
         NEW n \in DOMAIN index, NEW page \in Seq(T),
         Ascending(page), Len(page) <= size,
         \A m \in DOMAIN index : m < n =>
           \A i \in IdsOf(index[m]), j \in IdsOf(page) : i < j,
         \A m \in DOMAIN index : n < m =>
           \A i \in IdsOf(page), j \in IdsOf(index[m]) : i < j
  PROVE  LET new == [index EXCEPT ![n] = page] IN
         /\ new \in Seq(Seq(T)) /\ OrderedPages(new, size)
         /\ \A x : x \in IndexedIds(new) <=>
                     x \in IdsOf(page) \/ \E m \in DOMAIN index \ {n} : x \in IdsOf(index[m])
<1> DEFINE new == [index EXCEPT ![n] = page]
<1>1. /\ new \in Seq(Seq(T)) /\ DOMAIN new = DOMAIN index /\ new[n] = page
      /\ \A m \in DOMAIN index \ {n} : new[m] = index[m]
      /\ \A m \in DOMAIN index : m \in Nat
  BY ExceptSeq, LenProperties
<1> HIDE DEF new
<1>2. ASSUME NEW m \in DOMAIN new
      PROVE  Ascending(new[m]) /\ Len(new[m]) <= size
  BY <1>1 DEF OrderedPages
<1>3. ASSUME NEW m \in DOMAIN new, NEW k \in DOMAIN new, m < k,
             NEW i \in IdsOf(new[m]), NEW j \in IdsOf(new[k])
      PROVE  i < j
  <2>1. CASE m = n
    <3>1. new[m] = page /\ k \in DOMAIN index \ {n} /\ new[k] = index[k] /\ n < k
      BY <1>1, <1>3, <2>1
    <3>2. i \in IdsOf(page) /\ j \in IdsOf(index[k])
      BY <3>1, <1>3
    <3>3. QED
      BY <3>1, <3>2
  <2>2. CASE k = n
    <3>1. new[k] = page /\ m \in DOMAIN index \ {n} /\ new[m] = index[m] /\ m < n
      BY <1>1, <1>3, <2>2
    <3>2. i \in IdsOf(index[m]) /\ j \in IdsOf(page)
      BY <3>1, <1>3
    <3>3. QED
      BY <3>1, <3>2
  <2>3. CASE m # n /\ k # n
    BY <1>1, <1>3, <2>3 DEF OrderedPages
  <2>4. QED
    BY <2>1, <2>2, <2>3
<1>4. OrderedPages(new, size)
  BY <1>2, <1>3 DEF OrderedPages
<1>5. \A x : x \in IndexedIds(new) <=>
               x \in IdsOf(page) \/ \E m \in DOMAIN index \ {n} : x \in IdsOf(index[m])
  BY <1>1, InIndex
<1>6. QED
  BY <1>1, <1>4, <1>5 DEF new

(* That much is an index of ids in T.                                       *)
IsIndex(index, T, size) ==
  T \subseteq Nat /\ index \in Seq(Seq(T)) /\ OrderedPages(index, size)

(* A new id, larger than every indexed one.                                 *)
NewId(index, T, size, id) ==
  /\ IsIndex(index, T, size) /\ size \in Nat /\ 1 <= size
  /\ id \in T /\ \A i \in IndexedIds(index) : i < id

OnNewPage(index, id) == Append(index, <<id>>)
OnLastPage(index, id) == [index EXCEPT ![Len(index)] = Append(@, id)]

(* It can open a page of its own.                                           *)
LEMMA PageOpened ==
  ASSUME NEW index, NEW T, NEW size, NEW id, NewId(index, T, size, id)
  PROVE  /\ IsIndex(OnNewPage(index, id), T, size)
         /\ IndexedIds(OnNewPage(index, id)) = IndexedIds(index) \cup {id}
<1> DEFINE new == OnNewPage(index, id)
           last == Len(index)
<1>1. /\ T \subseteq Nat /\ index \in Seq(Seq(T)) /\ OrderedPages(index, size)
      /\ size \in Nat /\ 1 <= size /\ id \in T
  BY DEF NewId, IsIndex
<1>2. last \in Nat /\ DOMAIN index = 1 .. last
  BY <1>1, LenProperties
<1>3. \A n \in DOMAIN index : \A i \in IdsOf(index[n]) : i < id
  BY DEF IndexedIds, NewId
<1>4. /\ <<id>> \in Seq(T) /\ Len(<<id>>) = 1 /\ IdsOf(<<id>>) = {id}
      /\ Ascending(<<id>>)
  BY <1>1 DEF IdsOf, Ascending
<1>5. /\ new \in Seq(Seq(T)) /\ DOMAIN new = DOMAIN index \cup {last + 1}
      /\ new[last + 1] = <<id>> /\ \A n \in DOMAIN index : new[n] = index[n]
  BY <1>1, <1>4, Appended DEF OnNewPage
<1> HIDE DEF new
<1>6. IndexedIds(new) = IndexedIds(index) \cup {id}
  BY <1>2, <1>4, <1>5 DEF IndexedIds
<1>7. ASSUME NEW n \in DOMAIN new PROVE Ascending(new[n]) /\ Len(new[n]) <= size
  BY <1>1, <1>2, <1>4, <1>5 DEF OrderedPages
<1>8. ASSUME NEW m \in DOMAIN new, NEW n \in DOMAIN new, m < n,
             NEW i \in IdsOf(new[m]), NEW j \in IdsOf(new[n])
      PROVE  i < j
  <2>1. m \in DOMAIN index
    BY <1>2, <1>5, <1>8
  <2>2. CASE n \in DOMAIN index
    BY <1>1, <1>5, <1>8, <2>1, <2>2 DEF OrderedPages
  <2>3. CASE n = last + 1
    BY <1>3, <1>4, <1>5, <1>8, <2>1, <2>3
  <2>4. QED
    BY <1>5, <1>8, <2>2, <2>3
<1>9. OrderedPages(new, size)
  BY <1>7, <1>8 DEF OrderedPages
<1>10. QED
  BY <1>1, <1>5, <1>6, <1>9 DEF new, IsIndex

(* ... or go to the end of the last page, while there is room.              *)
LEMMA LastPageGrows ==
  ASSUME NEW index, NEW T, NEW size, NEW id, NewId(index, T, size, id),
         index # << >>, Len(index[Len(index)]) < size
  PROVE  /\ IsIndex(OnLastPage(index, id), T, size)
         /\ IndexedIds(OnLastPage(index, id)) = IndexedIds(index) \cup {id}
<1> DEFINE last == Len(index)
           ids == index[last]
           page == Append(ids, id)
           new == [index EXCEPT ![last] = page]
<1>1. /\ T \subseteq Nat /\ index \in Seq(Seq(T)) /\ OrderedPages(index, size)
      /\ size \in Nat /\ id \in T
  BY DEF NewId, IsIndex
<1>2. /\ last \in Nat /\ DOMAIN index = 1 .. last
      /\ \A n \in DOMAIN index : index[n] \in Seq(T) /\ Len(index[n]) \in Nat
  BY <1>1, LenProperties, ElementOfSeq
<1>3. \A n \in DOMAIN index : \A i \in IdsOf(index[n]) : i < id
  BY DEF IndexedIds, NewId
<1>4. last \in DOMAIN index
  BY <1>1, <1>2, EmptySeq
<1>5. ids \in Seq(T) /\ Ascending(ids) /\ Len(ids) < size /\ \A i \in IdsOf(ids) : i < id
  BY <1>1, <1>2, <1>3, <1>4 DEF OrderedPages
<1>6. OnLastPage(index, id) = new
  BY DEF OnLastPage
<1> HIDE DEF ids
<1>7. page \in Seq(T) /\ Len(page) = Len(ids) + 1 /\ Len(ids) \in Nat
  BY <1>1, <1>5, Appended
<1>8. IdsOf(page) = IdsOf(ids) \cup {id} /\ Ascending(page)
  <2>1. T \subseteq Nat /\ id \in T /\ ids \in Seq(T) /\ Ascending(ids)
        /\ \A y \in IdsOf(ids) : y < id
    BY <1>1, <1>5
  <2>2. /\ Append(ids, id) \in Seq(T) /\ IdsOf(Append(ids, id)) = IdsOf(ids) \cup {id}
        /\ Ascending(Append(ids, id))
    BY <2>1, AppendAscending
  <2>3. QED
    BY <2>2
<1> HIDE DEF page
<1>9. Len(page) <= size
  BY <1>1, <1>5, <1>7
<1>10. ASSUME NEW m \in DOMAIN index, m < last,
              NEW i \in IdsOf(index[m]), NEW j \in IdsOf(page)
       PROVE  i < j
  <2>1. \A k \in IdsOf(ids) : i < k
    BY <1>1, <1>4, <1>10 DEF OrderedPages, ids
  <2>2. QED
    BY <1>3, <1>8, <1>10, <2>1
<1>11. \A m \in DOMAIN index : last < m =>
         \A i \in IdsOf(page), j \in IdsOf(index[m]) : i < j
  BY <1>2
<1>12. /\ new \in Seq(Seq(T)) /\ OrderedPages(new, size)
       /\ \A x : x \in IndexedIds(new) <=>
                   x \in IdsOf(page) \/ \E m \in DOMAIN index \ {last} : x \in IdsOf(index[m])
  BY <1>1, <1>4, <1>7, <1>8, <1>9, <1>10, <1>11, PageReplaced
<1> HIDE DEF new
<1>13. \A x : x \in IndexedIds(new) <=> x \in IndexedIds(index) \/ x = id
  BY <1>4, <1>8, <1>12, InIndex DEF ids
<1>14. IndexedIds(new) = IndexedIds(index) \cup {id}
  BY <1>13
<1>15. QED
  BY <1>1, <1>6, <1>12, <1>14 DEF IsIndex

(* A page is rewritten without the ids that are not live: no live id leaves *)
(* the index, and none enters it.                                           *)
CompactedAt(index, n, live) == [index EXCEPT ![n] = Compacted(index[n], live)]

LEMMA PageCompacted ==
  ASSUME NEW index, NEW T, NEW size \in Nat, IsIndex(index, T, size),
         NEW n \in DOMAIN index, NEW live
  PROVE  /\ IsIndex(CompactedAt(index, n, live), T, size)
         /\ IndexedIds(CompactedAt(index, n, live)) \subseteq IndexedIds(index)
         /\ IndexedIds(index) \cap live \subseteq IndexedIds(CompactedAt(index, n, live))
<1> DEFINE kept == Compacted(index[n], live)
           page == index[n]
<1>1. T \subseteq Nat /\ index \in Seq(Seq(T)) /\ OrderedPages(index, size)
  BY DEF IsIndex
<1>2. page \in Seq(T) /\ n \in Nat
  BY <1>1, ElementOfSeq, LenProperties
<1>3. /\ kept \in Seq(T) /\ Len(kept) <= Len(page)
      /\ IdsOf(kept) = IdsOf(page) \ (IdsOf(page) \ live)
      /\ Ascending(page) => Ascending(kept)
  BY <1>1, <1>2, WithoutKeeps DEF Compacted
<1>4. /\ Ascending(kept) /\ IdsOf(kept) = IdsOf(page) \cap live
      /\ Len(kept) <= size
  <2>1. Len(kept) \in Nat /\ Len(page) \in Nat
    BY <1>2, <1>3, LenProperties
  <2>2. Len(page) <= size /\ Ascending(page)
    BY <1>1 DEF OrderedPages
  <2>3. QED
    BY <1>3, <2>1, <2>2
<1> HIDE DEF kept
<1>5. /\ \A m \in DOMAIN index : m < n =>
           \A i \in IdsOf(index[m]), j \in IdsOf(kept) : i < j
      /\ \A m \in DOMAIN index : n < m =>
           \A i \in IdsOf(kept), j \in IdsOf(index[m]) : i < j
  BY <1>1, <1>4 DEF OrderedPages
<1> DEFINE new == [index EXCEPT ![n] = kept]
<1>6. /\ new \in Seq(Seq(T)) /\ OrderedPages(new, size)
      /\ \A x : x \in IndexedIds(new) <=>
                  x \in IdsOf(kept) \/ \E m \in DOMAIN index \ {n} : x \in IdsOf(index[m])
  BY <1>1, <1>2, <1>3, <1>4, <1>5, PageReplaced
<1>7. CompactedAt(index, n, live) = new
  BY DEF CompactedAt, kept
<1> HIDE DEF new
<1>8. IndexedIds(new) \subseteq IndexedIds(index) /\ IndexedIds(index) \cap live \subseteq IndexedIds(new)
  BY <1>4, <1>6, InIndex
<1>9. QED
  BY <1>1, <1>6, <1>7, <1>8 DEF IsIndex
=============================================================================
