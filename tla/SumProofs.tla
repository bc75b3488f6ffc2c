------------------------------ MODULE SumProofs ------------------------------
(***************************************************************************)
(* Sums over finite sets: what SumFunctionOnSet, a fold that takes the     *)
(* elements one by one in an order the library does not say, adds up to,   *)
(* for every finite set.                                                   *)
(*                                                                         *)
(* The induction is over subsets: a set of subsets of a finite set that is *)
(* not empty has a smallest element (FS_StrictSubsetOrderingWellFounded,   *)
(* WFMin), so the counterexamples to a claim, if any, have one too.        *)
(***************************************************************************)
EXTENDS Integers, FiniteSets, Functions, FiniteSetTheorems, TLAPS

\* The element that the fold takes first.
AnElement(T) == CHOOSE x \in T : TRUE

\* g holds the partial sums of f over the subsets of S, as the fold has them.
PartialSums(f, S, g) ==
    g = [T \in SUBSET S |->
            IF T = {} THEN 0 ELSE f[AnElement(T)] + g[T \ {AnElement(T)}]]

TheSums(f, S) == CHOOSE g : PartialSums(f, S, g)

\* The partial sums of f over the subsets of S with at most n elements.
Small(S, n) == {T \in SUBSET S : Cardinality(T) <= n}

SmallSums(f, S, n, g) ==
    g = [T \in Small(S, n) |->
            IF T = {} THEN 0 ELSE f[AnElement(T)] + g[T \ {AnElement(T)}]]

-----------------------------------------------------------------------------
(* Induction. *)

\* Sets of subsets of a finite set have smallest elements.
LEMMA SmallestSubset ==
    ASSUME NEW S, IsFiniteSet(S), NEW F, F \subseteq SUBSET S, F # {}
    PROVE  \E T \in F : \A U \in F : ~ (U \subseteq T /\ U # T)
  <1>1. IsWellFoundedOn(StrictSubsetOrdering(S), SUBSET S)
    BY FS_StrictSubsetOrderingWellFounded, FS_FiniteSubsetsOfFinite
  <1>2. PICK T \in F : \A U \in F : ~ (<<U, T>> \in StrictSubsetOrdering(S))
    BY <1>1, WFMin
  <1> QED
    BY <1>2 DEF StrictSubsetOrdering

\* Induction over the natural numbers, for a set instead of a predicate.
LEMMA NatSetInduction ==
    ASSUME NEW N, 0 \in N, \A n \in Nat : n \in N => n + 1 \in N
    PROVE  Nat \subseteq N
  <1> SUFFICES ASSUME Nat \ N # {} PROVE FALSE
    OBVIOUS
  <1>1. IsWellFoundedOn(OpToRel(<, Nat), Nat)
    BY NatLessThanWellFounded
  <1>2. PICK n \in Nat \ N :
            \A m \in Nat \ N : ~ (<<m, n>> \in OpToRel(<, Nat))
    <2> HIDE DEF OpToRel
    <2> QED
      BY <1>1, WFMin
  <1>3. \A m \in Nat \ N : ~ (m < n)
    BY <1>2 DEF OpToRel
  <1> QED
    BY <1>3

-----------------------------------------------------------------------------
(* The fold. *)

\* The element the fold takes is one.
LEMMA AnElementIsIn == ASSUME NEW T, T # {} PROVE AnElement(T) \in T
  BY DEF AnElement

\* Partial sums exist: those over at most n + 1 elements are put together
\* from those over at most n.
LEMMA SmallSumsExist ==
    ASSUME NEW f, NEW S, IsFiniteSet(S)
    PROVE  \A n \in Nat : \E g : SmallSums(f, S, n, g)
  <1> DEFINE N == {n \in Nat : \E g : SmallSums(f, S, n, g)}
  <1>0. \A T \in SUBSET S :
            Cardinality(T) \in Nat /\ (Cardinality(T) = 0 <=> T = {})
    BY FS_Subset, FS_CardinalityType, FS_EmptySet
  <1>r. \A T \in SUBSET S :
            T # {} => /\ T \ {AnElement(T)} \in SUBSET S
                      /\ Cardinality(T \ {AnElement(T)}) = Cardinality(T) - 1
    BY FS_Subset, FS_RemoveElement, AnElementIsIn
  <1>1. 0 \in N
    <2> DEFINE g == [T \in Small(S, 0) |-> 0]
    <2>1. \A T \in Small(S, 0) : T = {}
      BY <1>0 DEF Small
    <2>2. SmallSums(f, S, 0, g)
      BY <2>1 DEF SmallSums
    <2> QED
      BY <2>2
  <1>2. ASSUME NEW n \in Nat, n \in N PROVE n + 1 \in N
    <2>1. PICK g : SmallSums(f, S, n, g)
      BY <1>2
    <2> DEFINE h == [T \in Small(S, n + 1) |->
                       IF T = {} THEN 0 ELSE f[AnElement(T)] + g[T \ {AnElement(T)}]]
    <2>2. \A T \in Small(S, n + 1) :
              T # {} => T \ {AnElement(T)} \in Small(S, n)
      BY <1>0, <1>r DEF Small
    <2>3. \A T \in Small(S, n) : T \in Small(S, n + 1)
      BY <1>0 DEF Small
    <2>4. \A T \in Small(S, n) : h[T] = g[T]
      BY <2>1, <2>3 DEF SmallSums
    <2>5. SmallSums(f, S, n + 1, h)
      BY <2>2, <2>4 DEF SmallSums
    <2> HIDE DEF h
    <2> QED
      BY <2>5
  <1>3. Nat \subseteq N
    <2> HIDE DEF N
    <2> QED
      BY <1>1, <1>2, NatSetInduction
  <1> QED
    BY <1>3

\* The partial sums over a finite set exist.
LEMMA TheSumsExist ==
    ASSUME NEW f, NEW S, IsFiniteSet(S)
    PROVE  PartialSums(f, S, TheSums(f, S))
  <1>1. PICK g : SmallSums(f, S, Cardinality(S), g)
    BY SmallSumsExist, FS_CardinalityType
  <1>2. Small(S, Cardinality(S)) = SUBSET S
    BY FS_Subset DEF Small
  <1>3. PartialSums(f, S, g)
    BY <1>1, <1>2 DEF SmallSums, PartialSums
  <1> QED
    BY <1>3 DEF TheSums

\* SumFunctionOnSet is what the library's fold computes.
LEMMA SumIsFold ==
    ASSUME NEW f, NEW S
    PROVE  SumFunctionOnSet(f, S) = TheSums(f, S)[S]
  BY DEF SumFunctionOnSet, FoldFunctionOnSet, MapThenFoldSet, TheSums,
         PartialSums, AnElement

\* The partial sums over a set do not depend on the larger set it is part of.
LEMMA SumsAgree ==
    ASSUME NEW f, NEW S, IsFiniteSet(S), NEW T \in SUBSET S
    PROVE  TheSums(f, S)[T] = TheSums(f, T)[T]
  <1> DEFINE F == {U \in SUBSET T : TheSums(f, S)[U] # TheSums(f, T)[U]}
  <1> SUFFICES F = {}
    OBVIOUS
  <1> SUFFICES ASSUME F # {} PROVE FALSE
    OBVIOUS
  <1>1. IsFiniteSet(T)
    BY FS_Subset
  <1>2. PICK U \in F : \A V \in F : ~ (V \subseteq U /\ V # U)
    <2>1. F \subseteq SUBSET T
      OBVIOUS
    <2> HIDE DEF F
    <2> QED
      BY <1>1, <2>1, SmallestSubset
  <1>3. PartialSums(f, S, TheSums(f, S)) /\ PartialSums(f, T, TheSums(f, T))
    BY <1>1, TheSumsExist
  <1>4. CASE U = {}
    <2>1. {} \in SUBSET S /\ {} \in SUBSET T
      OBVIOUS
    <2>2. TheSums(f, S)[{}] = 0 /\ TheSums(f, T)[{}] = 0
      BY <1>3, <2>1 DEF PartialSums
    <2> QED
      BY <1>4, <2>2, <1>2
  <1>5. CASE U # {}
    <2> DEFINE V == U \ {AnElement(U)}
    <2>1. V \in SUBSET T /\ V \in SUBSET S /\ V \subseteq U /\ V # U
      BY <1>5, AnElementIsIn
    <2>2. TheSums(f, S)[V] = TheSums(f, T)[V]
      BY <1>2, <2>1
    <2>3. U \in SUBSET S /\ U \in SUBSET T
      OBVIOUS
    <2>4. TheSums(f, S)[U] = f[AnElement(U)] + TheSums(f, S)[V]
      BY <1>3, <1>5, <2>3 DEF PartialSums
    <2>5. TheSums(f, T)[U] = f[AnElement(U)] + TheSums(f, T)[V]
      BY <1>3, <1>5, <2>3 DEF PartialSums
    <2> QED
      BY <2>2, <2>4, <2>5, <1>2
  <1> QED
    BY <1>4, <1>5

-----------------------------------------------------------------------------
(* Sums. *)

\* The sum over no elements.
LEMMA SumOfNone == ASSUME NEW f PROVE SumFunctionOnSet(f, {}) = 0
  <1>1. PartialSums(f, {}, TheSums(f, {})) /\ {} \in SUBSET {}
    BY TheSumsExist, FS_EmptySet
  <1>2. TheSums(f, {})[{}] = 0
    BY <1>1 DEF PartialSums
  <1> QED
    BY <1>2, SumIsFold

\* The sum over a set, by the element the fold takes first.
LEMMA SumOfFirst ==
    ASSUME NEW f, NEW S, IsFiniteSet(S), S # {}
    PROVE  SumFunctionOnSet(f, S)
             = f[AnElement(S)] + SumFunctionOnSet(f, S \ {AnElement(S)})
  <1>1. PartialSums(f, S, TheSums(f, S)) /\ S \in SUBSET S
    BY TheSumsExist
  <1>2. TheSums(f, S)[S] = f[AnElement(S)] + TheSums(f, S)[S \ {AnElement(S)}]
    BY <1>1 DEF PartialSums
  <1>3. S \ {AnElement(S)} \in SUBSET S
    OBVIOUS
  <1> QED
    BY <1>2, <1>3, SumsAgree, SumIsFold

\* A sum of integers is an integer.
LEMMA SumType ==
    ASSUME NEW f, NEW S, IsFiniteSet(S), \A x \in S : f[x] \in Int
    PROVE  SumFunctionOnSet(f, S) \in Int
  <1> DEFINE F == {T \in SUBSET S : SumFunctionOnSet(f, T) \notin Int}
  <1> SUFFICES ASSUME F # {} PROVE FALSE
    OBVIOUS
  <1>1. PICK T \in F : \A U \in F : ~ (U \subseteq T /\ U # T)
    <2>1. F \subseteq SUBSET S
      OBVIOUS
    <2> HIDE DEF F
    <2> QED
      BY <2>1, SmallestSubset
  <1>2. T # {}
    BY SumOfNone
  <1>3. T \ {AnElement(T)} \in SUBSET S /\ T \ {AnElement(T)} # T /\ AnElement(T) \in S
    BY <1>2, AnElementIsIn
  <1>4. SumFunctionOnSet(f, T \ {AnElement(T)}) \in Int
    BY <1>1, <1>3
  <1>5. SumFunctionOnSet(f, T) \in Int
    BY <1>2, <1>3, <1>4, SumOfFirst, FS_Subset
  <1> QED
    BY <1>5

\* Multiples of m add up to a multiple of m, and so do their differences.
LEMMA SmallMultiple ==
    ASSUME NEW m \in Nat \ {0}, NEW k \in Int, -m < m * k, m * k < m
    PROVE  k = 0
  <1>1. ASSUME k >= 1 PROVE FALSE
    <2>1. m * k >= m
      BY <1>1
    <2> QED
      BY <2>1
  <1>2. ASSUME k <= -1 PROVE FALSE
    <2>1. m * k <= -m
      BY <1>2
    <2> QED
      BY <2>1
  <1> QED
    BY <1>1, <1>2

LEMMA MultipleIs ==
    ASSUME NEW m \in Nat \ {0}, NEW a \in Int
    PROVE  /\ a % m = 0 => \E k \in Int : a = m * k
           /\ \A k \in Int : a = m * k => a % m = 0
  <1>1. a = (m * (a \div m)) + (a % m) /\ a \div m \in Int /\ a % m \in 0..(m - 1)
    <2>1. a \div m \in Int
      OBVIOUS
    <2>2. a % m \in 0..(m - 1)
      OBVIOUS
    <2>3. a = (m * (a \div m)) + (a % m)
      OBVIOUS
    <2> QED
      BY <2>1, <2>2, <2>3
  <1> DEFINE q == a \div m
             r == a % m
  <1>2. a = (m * q) + r /\ q \in Int /\ r \in 0..(m - 1)
    BY <1>1
  <1> HIDE DEF q, r
  <1>3. r = 0 => a = m * q
    BY <1>2
  <1>4. ASSUME NEW k \in Int, a = m * k PROVE r = 0
    <2>1. k - q \in Int /\ m * (k - q) = r
      <3>1. m * (k - q) = (m * k) - (m * q)
        BY <1>2
      <3> QED
        BY <1>2, <1>4, <3>1
    <2>2. -m < m * (k - q) /\ m * (k - q) < m
      BY <1>2, <2>1
    <2>3. k - q = 0
      BY <2>1, <2>2, SmallMultiple
    <2>4. m * (k - q) = 0
      BY <2>3
    <2> QED
      BY <2>1, <2>4
  <1> QED
    BY <1>2, <1>3, <1>4 DEF r

LEMMA MultiplesAdd ==
    ASSUME NEW m \in Nat \ {0}, NEW a \in Int, NEW b \in Int, a % m = 0, b % m = 0
    PROVE  (a + b) % m = 0 /\ (a - b) % m = 0
  <1>1. PICK k \in Int : a = m * k
    BY MultipleIs
  <1>2. PICK l \in Int : b = m * l
    BY MultipleIs
  <1>3. /\ k + l \in Int /\ a + b = m * (k + l) /\ a + b \in Int
        /\ k - l \in Int /\ a - b = m * (k - l) /\ a - b \in Int
    BY <1>1, <1>2
  <1>4. (a + b) % m = 0
    BY <1>3, MultipleIs
  <1>5. (a - b) % m = 0
    BY <1>3, MultipleIs
  <1> QED
    BY <1>4, <1>5

\* A multiple of m that is smaller than m is zero.
LEMMA NoSmallMultiple ==
    ASSUME NEW m \in Nat \ {0}, NEW a \in Int, a % m = 0, -m < a, a < m
    PROVE  a = 0
  <1>1. PICK k \in Int : a = m * k
    BY MultipleIs
  <1>2. k = 0
    BY <1>1, SmallMultiple
  <1> QED
    BY <1>1, <1>2

LEMMA SumOfMultiples ==
    ASSUME NEW m \in Nat \ {0}, NEW f, NEW S, IsFiniteSet(S),
           \A x \in S : f[x] \in Int /\ f[x] % m = 0
    PROVE  SumFunctionOnSet(f, S) % m = 0
  <1> DEFINE F == {T \in SUBSET S : ~ (SumFunctionOnSet(f, T) % m = 0)}
  <1> SUFFICES ASSUME F # {} PROVE FALSE
    OBVIOUS
  <1>1. PICK T \in F : \A U \in F : ~ (U \subseteq T /\ U # T)
    <2>1. F \subseteq SUBSET S
      OBVIOUS
    <2> HIDE DEF F
    <2> QED
      BY <2>1, SmallestSubset
  <1>2. T # {}
    <2>1. 0 % m = 0
      OBVIOUS
    <2> QED
      BY <2>1, SumOfNone
  <1> DEFINE e == AnElement(T)
             U == T \ {AnElement(T)}
  <1>3. U \in SUBSET S /\ U # T /\ U \subseteq T /\ e \in S /\ T \in SUBSET S
    BY <1>2, AnElementIsIn
  <1>4. SumFunctionOnSet(f, U) % m = 0
    BY <1>1, <1>3
  <1>5. SumFunctionOnSet(f, T) = f[e] + SumFunctionOnSet(f, U)
    BY <1>2, <1>3, SumOfFirst, FS_Subset
  <1>6. SumFunctionOnSet(f, U) \in Int
    <2>1. IsFiniteSet(U) /\ \A x \in U : f[x] \in Int
      BY <1>3, FS_Subset
    <2> HIDE DEF U
    <2> QED
      BY <2>1, SumType
  <1>7. f[e] \in Int /\ f[e] % m = 0
    BY <1>3
  <1> HIDE DEF e, U
  <1>8. (f[e] + SumFunctionOnSet(f, U)) % m = 0
    BY <1>4, <1>6, <1>7, MultiplesAdd
  <1> QED
    BY <1>1, <1>5, <1>8

\* A sum depends on the values on the set alone.
LEMMA SumOfSame ==
    ASSUME NEW f, NEW g, NEW S, IsFiniteSet(S), \A x \in S : f[x] = g[x]
    PROVE  SumFunctionOnSet(f, S) = SumFunctionOnSet(g, S)
  <1> DEFINE F == {T \in SUBSET S :
                     SumFunctionOnSet(f, T) # SumFunctionOnSet(g, T)}
  <1> SUFFICES ASSUME F # {} PROVE FALSE
    OBVIOUS
  <1>1. PICK T \in F : \A U \in F : ~ (U \subseteq T /\ U # T)
    <2>1. F \subseteq SUBSET S
      OBVIOUS
    <2> HIDE DEF F
    <2> QED
      BY <2>1, SmallestSubset
  <1>2. T # {}
    BY SumOfNone
  <1>3. T \ {AnElement(T)} \in SUBSET S /\ T \ {AnElement(T)} # T /\ AnElement(T) \in S
    BY <1>2, AnElementIsIn
  <1>4. SumFunctionOnSet(f, T \ {AnElement(T)}) = SumFunctionOnSet(g, T \ {AnElement(T)})
    BY <1>1, <1>3
  <1>5. SumFunctionOnSet(f, T) = SumFunctionOnSet(g, T)
    BY <1>2, <1>3, <1>4, SumOfFirst, FS_Subset
  <1> QED
    BY <1>5

\* Whichever element is taken first, the sum is the same.
LEMMA SumOfRest ==
    ASSUME NEW f, NEW S, IsFiniteSet(S), \A x \in S : f[x] \in Int,
           NEW e \in S
    PROVE  SumFunctionOnSet(f, S) = f[e] + SumFunctionOnSet(f, S \ {e})
  <1> DEFINE F == {T \in SUBSET S : \E x \in T :
                     SumFunctionOnSet(f, T)
                       # f[x] + SumFunctionOnSet(f, T \ {x})}
  <1> SUFFICES ASSUME F # {} PROVE FALSE
    OBVIOUS
  <1>1. PICK T \in F : \A U \in F : ~ (U \subseteq T /\ U # T)
    <2>1. F \subseteq SUBSET S
      OBVIOUS
    <2> HIDE DEF F
    <2> QED
      BY <2>1, SmallestSubset
  <1>2. PICK x \in T : SumFunctionOnSet(f, T)
                         # f[x] + SumFunctionOnSet(f, T \ {x})
    OBVIOUS
  <1> DEFINE a == AnElement(T)
             U == T \ {a}
             V == U \ {x}
  <1>3. a \in T /\ IsFiniteSet(T) /\ T \in SUBSET S
    BY AnElementIsIn, FS_Subset
  <1>4. SumFunctionOnSet(f, T) = f[a] + SumFunctionOnSet(f, U)
    BY <1>3, SumOfFirst
  <1>5. x # a
    BY <1>2, <1>4
  <1>6. SumFunctionOnSet(f, U) = f[x] + SumFunctionOnSet(f, V)
    <2>1. U \in SUBSET S /\ U # T /\ U \subseteq T /\ x \in U
      BY <1>3, <1>5
    <2>2. U \notin F
      BY <1>1, <2>1
    <2> QED
      BY <2>1, <2>2
  <1>7. SumFunctionOnSet(f, T \ {x}) = f[a] + SumFunctionOnSet(f, V)
    <2>1. T \ {x} \in SUBSET S /\ T \ {x} # T /\ a \in T \ {x}
      BY <1>3, <1>5
    <2>2. (T \ {x}) \ {a} = V
      OBVIOUS
    <2> QED
      BY <1>1, <2>1, <2>2
  <1>8. /\ f[a] \in Int /\ f[x] \in Int
        /\ SumFunctionOnSet(f, V) \in Int
    BY <1>3, SumType, FS_Subset
  <1> HIDE DEF a, U, V
  <1> QED
    BY <1>2, <1>4, <1>6, <1>7, <1>8

\* One more element adds its value to the sum.
LEMMA SumOfMore ==
    ASSUME NEW f, NEW S, IsFiniteSet(S), \A x \in S : f[x] \in Int,
           NEW e, e \notin S, f[e] \in Int
    PROVE  SumFunctionOnSet(f, S \cup {e}) = SumFunctionOnSet(f, S) + f[e]
  <1>1. IsFiniteSet(S \cup {e}) /\ (S \cup {e}) \ {e} = S
    BY FS_AddElement
  <1>2. SumFunctionOnSet(f, S \cup {e}) = f[e] + SumFunctionOnSet(f, S)
    BY <1>1, SumOfRest
  <1> QED
    BY <1>2, SumType

\* Leaving out elements with values that are not negative cannot raise a sum.
LEMMA SumOfSubset ==
    ASSUME NEW f, NEW S, IsFiniteSet(S), \A x \in S : f[x] \in Nat,
           NEW T \in SUBSET S
    PROVE  SumFunctionOnSet(f, T) <= SumFunctionOnSet(f, S)
  <1> DEFINE F == {U \in SUBSET S : /\ T \subseteq U
                                    /\ ~ (SumFunctionOnSet(f, T)
                                            <= SumFunctionOnSet(f, U))}
  <1> SUFFICES ASSUME F # {} PROVE FALSE
    OBVIOUS
  <1>1. PICK U \in F : \A V \in F : ~ (V \subseteq U /\ V # U)
    <2>1. F \subseteq SUBSET S
      OBVIOUS
    <2> HIDE DEF F
    <2> QED
      BY <2>1, SmallestSubset
  <1>2. /\ \A V \in SUBSET S : SumFunctionOnSet(f, V) \in Int
        /\ IsFiniteSet(U)
    BY SumType, FS_Subset
  <1>3. U # T
    BY <1>2
  <1>4. PICK e \in U : e \notin T
    BY <1>3
  <1>5. /\ U \ {e} \in SUBSET S /\ U \ {e} # U /\ T \subseteq U \ {e}
    BY <1>4
  <1>6. SumFunctionOnSet(f, T) <= SumFunctionOnSet(f, U \ {e})
    BY <1>1, <1>5
  <1>7. SumFunctionOnSet(f, U) = f[e] + SumFunctionOnSet(f, U \ {e})
    BY <1>2, SumOfRest
  <1>8. SumFunctionOnSet(f, T) <= SumFunctionOnSet(f, U)
    <2>1. /\ f[e] \in Nat /\ SumFunctionOnSet(f, U \ {e}) \in Int
          /\ SumFunctionOnSet(f, T) \in Int
      BY <1>2, <1>5
    <2> QED
      BY <1>6, <1>7, <2>1
  <1> QED
    BY <1>8

\* A sum splits into that over a subset and that over the rest.
LEMMA SumOfSplit ==
    ASSUME NEW f, NEW S, IsFiniteSet(S), \A x \in S : f[x] \in Int,
           NEW T \in SUBSET S
    PROVE  SumFunctionOnSet(f, S)
             = SumFunctionOnSet(f, T) + SumFunctionOnSet(f, S \ T)
  <1> DEFINE F == {U \in SUBSET S : /\ T \subseteq U
                                    /\ SumFunctionOnSet(f, U)
                                         # SumFunctionOnSet(f, T)
                                             + SumFunctionOnSet(f, U \ T)}
  <1> SUFFICES ASSUME F # {} PROVE FALSE
    OBVIOUS
  <1>1. PICK U \in F : \A V \in F : ~ (V \subseteq U /\ V # U)
    <2>1. F \subseteq SUBSET S
      OBVIOUS
    <2> HIDE DEF F
    <2> QED
      BY <2>1, SmallestSubset
  <1>2. /\ \A V \in SUBSET S : SumFunctionOnSet(f, V) \in Int
        /\ IsFiniteSet(U) /\ IsFiniteSet(U \ T)
    BY SumType, FS_Subset
  <1>3. U # T
    <2>1. T \ T = {} /\ SumFunctionOnSet(f, T) \in Int
      BY <1>2
    <2>2. SumFunctionOnSet(f, {}) = 0
      BY SumOfNone
    <2>3. SumFunctionOnSet(f, T \ T) = 0
      BY <2>1, <2>2, Zenon
    <2>4. SumFunctionOnSet(f, T) = SumFunctionOnSet(f, T) + SumFunctionOnSet(f, T \ T)
      BY <2>1, <2>3
    <2> QED
      BY <2>4
  <1>4. PICK e \in U : e \notin T
    BY <1>3
  <1>5. /\ U \ {e} \in SUBSET S /\ U \ {e} # U /\ T \subseteq U \ {e}
        /\ (U \ {e}) \ T = (U \ T) \ {e} /\ e \in U \ T
    BY <1>4
  <1>6. SumFunctionOnSet(f, U \ {e})
          = SumFunctionOnSet(f, T) + SumFunctionOnSet(f, (U \ T) \ {e})
    BY <1>1, <1>5
  <1>7. /\ SumFunctionOnSet(f, U) = f[e] + SumFunctionOnSet(f, U \ {e})
        /\ SumFunctionOnSet(f, U \ T) = f[e] + SumFunctionOnSet(f, (U \ T) \ {e})
    BY <1>2, <1>5, SumOfRest
  <1>8. /\ f[e] \in Int /\ SumFunctionOnSet(f, T) \in Int
        /\ SumFunctionOnSet(f, (U \ T) \ {e}) \in Int
    BY <1>2, <1>5
  <1>9. SumFunctionOnSet(f, U) = SumFunctionOnSet(f, T) + SumFunctionOnSet(f, U \ T)
    BY <1>6, <1>7, <1>8
  <1> QED
    BY <1>9
=============================================================================
