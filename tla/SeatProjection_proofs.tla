----------------------- MODULE SeatProjection_proofs ------------------------
(***************************************************************************)
(* What readers of the maps are promised, for any number of events, seats, *)
(* workers, reconcilers and late writes: no seat goes back to an older row, *)
(* an ETag names one map, a delta catches up with the map, and a seat that *)
(* is behind event_seats has been asked for.                               *)
(***************************************************************************)
EXTENDS SeatRequests_proofs, FiniteSetTheorems, WellFoundedInduction

-----------------------------------------------------------------------------
(***************************************************************************)
(* Sums.  The induction is by least counterexample: a set of numbers has a *)
(* least element, so a set of subsets of a finite set has one from which   *)
(* no element can be taken.                                                *)
(***************************************************************************)

\* Every nonempty set of natural numbers has a least element.
LEMMA LeastNumber ==
  ASSUME NEW T \in SUBSET Nat, T # {}
  PROVE  \E n \in T : \A k \in T : n <= k
<1> DEFINE R == OpToRel(<, Nat)
<1>1. IsWellFoundedOn(R, Nat)
  BY NatLessThanWellFounded
<1>2. \A k, n \in Nat : <<k, n>> \in R <=> k < n
  BY DEF OpToRel
<1> HIDE DEF R
<1>3. \E n \in T : \A k \in T : ~ (<<k, n>> \in R)
  BY <1>1, WFMin
<1>4. PICK n \in T : \A k \in T : ~ (<<k, n>> \in R)
  BY <1>3
<1>5. ASSUME NEW k \in T PROVE n <= k
  <2>1. n \in Nat /\ k \in Nat
    OBVIOUS
  <2>2. ~ (k < n)
    BY <1>2, <1>4, <2>1
  <2> QED
    BY <2>1, <2>2
<1> QED
  BY <1>5

Pick(T) == CHOOSE x \in T : TRUE

\* g adds up f over the sets in A, one picked element after the other.
IsSumOn(g, f, A) ==
  g = [T \in A |-> IF T = {} THEN 0 ELSE f[Pick(T)] + g[T \ {Pick(T)}]]

UpTo(D, n) == {T \in SUBSET D : Cardinality(T) <= n}

\* A sum over the subsets of up to n elements extends to those of n + 1.
LEMMA SumExtends ==
  ASSUME NEW f, NEW D, IsFiniteSet(D), NEW n \in Nat,
         NEW h, IsSumOn(h, f, UpTo(D, n))
  PROVE  \E g : IsSumOn(g, f, UpTo(D, n + 1))
<1> DEFINE A == {T \in SUBSET D : Cardinality(T) <= n}
           B == {T \in SUBSET D : Cardinality(T) <= n + 1}
           g == [T \in B |-> IF T = {} THEN 0 ELSE f[Pick(T)] + h[T \ {Pick(T)}]]
<1>1. ASSUME NEW T \in B, T # {} PROVE T \ {Pick(T)} \in A /\ T \ {Pick(T)} \in B
  <2>1. Pick(T) \in T
    BY <1>1 DEF Pick
  <2>2. IsFiniteSet(T)
    BY FS_Subset
  <2>3. Cardinality(T \ {Pick(T)}) = Cardinality(T) - 1 /\ Cardinality(T) \in Nat
    BY <2>1, <2>2, FS_RemoveElement, FS_CardinalityType
  <2> QED
    BY <2>3
<1>2. ASSUME NEW T \in A PROVE g[T] = h[T]
  <2>1. T \in B
    <3>1. Cardinality(T) \in Nat
      BY FS_Subset, FS_CardinalityType
    <3> QED
      BY <3>1
  <2>2. h[T] = IF T = {} THEN 0 ELSE f[Pick(T)] + h[T \ {Pick(T)}]
    BY DEF IsSumOn, UpTo
  <2> QED
    BY <2>1, <2>2
<1>3. \A T \in B : g[T] = IF T = {} THEN 0 ELSE f[Pick(T)] + g[T \ {Pick(T)}]
  BY <1>1, <1>2
<1>4. g = [T \in B |-> IF T = {} THEN 0 ELSE f[Pick(T)] + g[T \ {Pick(T)}]]
  <2> DEFINE k == [T \in B |-> IF T = {} THEN 0 ELSE f[Pick(T)] + g[T \ {Pick(T)}]]
  <2>1. DOMAIN g = B /\ DOMAIN k = B /\ \A T \in B : g[T] = k[T]
    BY <1>3
  <2> QED
    BY <2>1
<1> HIDE DEF A, B, g
<1>5. IsSumOn(g, f, B)
  BY <1>4 DEF IsSumOn
<1> QED
  BY <1>5 DEF B, UpTo

LEMMA SumExists ==
  ASSUME NEW f, NEW D, IsFiniteSet(D)
  PROVE  \E g : IsSumOn(g, f, SUBSET D)
<1>0. ASSUME NEW m \in Nat, \E h : IsSumOn(h, f, UpTo(D, m))
      PROVE  \E g : IsSumOn(g, f, UpTo(D, m + 1))
  BY <1>0, SumExtends
<1> DEFINE Bad == {n \in Nat : ~ \E g : IsSumOn(g, f, UpTo(D, n))}
<1>1. ASSUME Bad # {} PROVE FALSE
  <2>1. PICK n \in Bad : \A k \in Bad : n <= k
    BY <1>1, LeastNumber
  <2>2. CASE n = 0
    <3>1. \A T \in UpTo(D, 0) : T = {}
      <4> SUFFICES ASSUME NEW T \in UpTo(D, 0) PROVE T = {}
        OBVIOUS
      <4>1. IsFiniteSet(T) /\ Cardinality(T) \in Nat /\ Cardinality(T) <= 0
        BY FS_Subset, FS_CardinalityType DEF UpTo
      <4> QED
        BY <4>1, FS_EmptySet
    <3>2. IsSumOn([T \in UpTo(D, 0) |-> 0], f, UpTo(D, 0))
      BY <3>1 DEF IsSumOn
    <3> QED
      BY <2>2, <3>2
  <2>3. CASE n # 0
    <3>1. n \in Nat
      OBVIOUS
    <3>2. PICK m \in Nat : m + 1 = n
      <4>1. n - 1 \in Nat /\ (n - 1) + 1 = n
        BY <2>3, <3>1
      <4> QED
        BY <4>1
    <3>3. ~ (n <= m)
      BY <3>2
    <3>4. m \notin Bad
      BY <2>1, <3>3
    <3>5. \E g : IsSumOn(g, f, UpTo(D, m + 1))
      BY <1>0, <3>4
    <3> QED
      BY <3>2, <3>5
  <2> QED
    BY <2>2, <2>3
<1>2. Cardinality(D) \in Nat
  BY FS_CardinalityType
<1>3. UpTo(D, Cardinality(D)) = SUBSET D
  BY FS_Subset DEF UpTo
<1>4. \E g : IsSumOn(g, f, UpTo(D, Cardinality(D)))
  BY <1>1, <1>2
<1> QED
  BY <1>3, <1>4

\* Induction over the subsets of a finite set.
LEMMA SubsetInduction ==
  ASSUME NEW D, IsFiniteSet(D), NEW Q, {} \in Q,
         \A T \in SUBSET D : T # {} /\ (\A x \in T : T \ {x} \in Q) => T \in Q
  PROVE  \A T \in SUBSET D : T \in Q
<1> DEFINE B == {T \in SUBSET D : T \notin Q}
           N == {Cardinality(T) : T \in B}
<1>1. \A T \in SUBSET D : IsFiniteSet(T) /\ Cardinality(T) \in Nat
  BY FS_Subset, FS_CardinalityType
<1>2. ASSUME B # {} PROVE FALSE
  <2>1. N \in SUBSET Nat /\ N # {}
    BY <1>1, <1>2
  <2>2. PICK n : n \in N /\ \A k \in N : n <= k
    BY <2>1, LeastNumber
  <2>3. PICK T : T \in B /\ n = Cardinality(T)
    BY <2>2
  <2>4. T \in SUBSET D /\ T \notin Q
    BY <2>3
  <2>5. ASSUME NEW x \in T PROVE T \ {x} \in Q
    <3>1. Cardinality(T \ {x}) = Cardinality(T) - 1
      BY <1>1, <2>4, FS_RemoveElement
    <3>2. Cardinality(T) \in Nat
      BY <1>1, <2>4
    <3>3. ~ (Cardinality(T) <= Cardinality(T \ {x}))
      BY <3>1, <3>2
    <3>4. Cardinality(T \ {x}) \notin N
      BY <2>2, <2>3, <3>3
    <3>5. T \ {x} \notin B
      BY <3>4
    <3>6. T \ {x} \in SUBSET D
      BY <2>4
    <3> QED
      BY <3>5, <3>6
  <2> HIDE DEF B, N
  <2>6. T # {}
    BY <2>4
  <2> QED
    BY <2>4, <2>5, <2>6
<1> QED
  BY <1>2

\* g adds up f over every subset of D, in any order.
Additive(g, f, D) ==
  /\ g \in [SUBSET D -> Int] /\ g[{}] = 0
  /\ \A T \in SUBSET D : \A x \in T : g[T] = f[x] + g[T \ {x}]

LEMMA AdditiveStep ==
  ASSUME NEW g, NEW f, NEW D, Additive(g, f, D)
  PROVE  \A T \in SUBSET D : \A x \in T : g[T] = f[x] + g[T \ {x}] /\ g[T \ {x}] \in Int
BY DEF Additive

LEMMA SumIsAdditive ==
  ASSUME NEW f, NEW D, IsFiniteSet(D), \A x \in D : f[x] \in Int,
         NEW g, IsSumOn(g, f, SUBSET D)
  PROVE  Additive(g, f, D)
<1>1. /\ DOMAIN g = SUBSET D /\ g[{}] = 0
      /\ \A T \in SUBSET D : T # {} => g[T] = f[Pick(T)] + g[T \ {Pick(T)}]
  BY DEF IsSumOn
<1>2. \A T \in SUBSET D : T # {} => Pick(T) \in T
  BY DEF Pick
<1>3. \A T \in SUBSET D : g[T] \in Int
  <2> DEFINE Q == {T \in SUBSET D : g[T] \in Int}
  <2>1. {} \in Q
    BY <1>1
  <2>2. ASSUME NEW T \in SUBSET D, T # {}, \A x \in T : T \ {x} \in Q
        PROVE  T \in Q
    <3>1. Pick(T) \in T /\ f[Pick(T)] \in Int
      BY <1>2, <2>2
    <3>2. g[T \ {Pick(T)}] \in Int
      BY <2>2, <3>1
    <3>3. g[T] = f[Pick(T)] + g[T \ {Pick(T)}]
      BY <1>1, <2>2
    <3>4. g[T] \in Int
      BY <3>1, <3>2, <3>3
    <3> QED
      BY <3>4
  <2> HIDE DEF Q
  <2>3. \A T \in SUBSET D : T \in Q
    BY <2>1, <2>2, SubsetInduction
  <2> QED
    BY <2>3 DEF Q
<1>4. \A T \in SUBSET D : \A x \in T : g[T] = f[x] + g[T \ {x}]
  <2> DEFINE P(T) == \A x \in T : g[T] = f[x] + g[T \ {x}]
             Q == {T \in SUBSET D : P(T)}
  <2>1. {} \in Q
    OBVIOUS
  <2>2. ASSUME NEW T \in SUBSET D, T # {}, \A x \in T : P(T \ {x}), NEW x \in T
        PROVE  g[T] = f[x] + g[T \ {x}]
    <3> DEFINE c == Pick(T)
    <3>1. c \in T /\ g[T] = f[c] + g[T \ {c}]
      BY <1>1, <1>2, <2>2
    <3> HIDE DEF c
    <3>2. CASE c = x
      BY <3>1, <3>2
    <3>3. CASE c # x
      <4> DEFINE R == (T \ {c}) \ {x}
      <4>1. g[T \ {c}] = f[x] + g[R]
        BY <2>2, <3>1, <3>3
      <4>2. (T \ {x}) \ {c} = R /\ R \in SUBSET D
        OBVIOUS
      <4>3. g[T \ {x}] = f[c] + g[R]
        BY <2>2, <3>1, <3>3, <4>2
      <4>4. g[R] \in Int /\ f[x] \in Int /\ f[c] \in Int
        BY <1>3, <3>1, <4>2
      <4> HIDE DEF R
      <4>5. f[c] + (f[x] + g[R]) = f[x] + (f[c] + g[R])
        BY <4>4
      <4> QED
        BY <3>1, <4>1, <4>3, <4>5
    <3> QED
      BY <3>2, <3>3
  <2>3. ASSUME NEW T \in SUBSET D, T # {}, \A x \in T : T \ {x} \in Q
        PROVE  T \in Q
    <3>1. \A x \in T : P(T \ {x})
      BY <2>3
    <3> QED
      BY <2>2, <2>3, <3>1
  <2> HIDE DEF Q
  <2>4. \A T \in SUBSET D : T \in Q
    BY <2>1, <2>3, SubsetInduction
  <2> QED
    BY <2>4 DEF Q
<1>5. g \in [SUBSET D -> Int]
  BY <1>1, <1>3 DEF IsSumOn
<1> QED
  BY <1>1, <1>4, <1>5 DEF Additive

\* SumFunction adds up a function with a finite domain.
LEMMA SumFunctionAdds ==
  ASSUME NEW f, IsFiniteSet(DOMAIN f), \A x \in DOMAIN f : f[x] \in Int
  PROVE  \E g : Additive(g, f, DOMAIN f) /\ SumFunction(f) = g[DOMAIN f]
<1> DEFINE g == CHOOSE h : IsSumOn(h, f, SUBSET (DOMAIN f))
<1>1. SumFunction(f) = g[DOMAIN f]
  BY DEF SumFunction, SumFunctionOnSet, FoldFunctionOnSet, MapThenFoldSet, IsSumOn, Pick
<1>2. \E h : IsSumOn(h, f, SUBSET (DOMAIN f))
  BY SumExists
<1>3. IsSumOn(g, f, SUBSET (DOMAIN f))
  BY <1>2
<1> HIDE DEF g
<1>4. Additive(g, f, DOMAIN f)
  BY <1>3, SumIsAdditive
<1> QED
  BY <1>1, <1>4
\* Of two functions with the larger values comes the larger sum, and the same
\* sum only from the same values.
LEMMA SumsCompare ==
  ASSUME NEW D, IsFiniteSet(D), NEW f, NEW k,
         \A x \in D : f[x] \in Int /\ k[x] \in Int /\ f[x] <= k[x],
         NEW g, Additive(g, f, D), NEW h, Additive(h, k, D)
  PROVE  g[D] <= h[D] /\ (g[D] = h[D] => \A x \in D : f[x] = k[x])
<1>a. \A T \in SUBSET D : \A c \in T : g[T] = f[c] + g[T \ {c}] /\ g[T \ {c}] \in Int
  BY AdditiveStep
<1>b. \A T \in SUBSET D : \A c \in T : h[T] = k[c] + h[T \ {c}] /\ h[T \ {c}] \in Int
  BY AdditiveStep
<1> DEFINE P(T) == g[T] <= h[T] /\ (g[T] = h[T] => \A x \in T : f[x] = k[x])
           Q == {T \in SUBSET D : P(T)}
<1>1. {} \in Q
  BY DEF Additive
<1>2. ASSUME NEW T \in SUBSET D, NEW c \in T, P(T \ {c}) PROVE P(T)
  <2> DEFINE U == T \ {c}
  <2>1. g[T] = f[c] + g[U] /\ g[U] \in Int
    BY <1>a
  <2>2. h[T] = k[c] + h[U] /\ h[U] \in Int
    BY <1>b
  <2>3. f[c] \in Int /\ k[c] \in Int /\ f[c] <= k[c]
    OBVIOUS
  <2>4. \A x \in T : x = c \/ x \in U
    OBVIOUS
  <2>5. P(U)
    BY <1>2
  <2> HIDE DEF U
  <2>6. g[T] <= h[T] /\ (g[T] = h[T] => f[c] = k[c] /\ g[U] = h[U])
    BY <2>1, <2>2, <2>3, <2>5
  <2> QED
    BY <2>4, <2>5, <2>6
<1>3. ASSUME NEW T \in SUBSET D, T # {}, \A x \in T : T \ {x} \in Q
      PROVE  T \in Q
  BY <1>2, <1>3
<1> HIDE DEF Q
<1>4. \A T \in SUBSET D : T \in Q
  BY <1>1, <1>3, SubsetInduction
<1> QED
  BY <1>4 DEF Q

\* What some of the values gained is what the sum gained.
LEMMA SumsDiffer ==
  ASSUME NEW D, IsFiniteSet(D), NEW E \in SUBSET D, NEW f, NEW k, NEW d,
         \A x \in D : f[x] \in Int /\ k[x] \in Int,
         \A x \in E : d[x] = k[x] - f[x],
         \A x \in D \ E : k[x] = f[x],
         NEW g, Additive(g, f, D), NEW h, Additive(h, k, D), NEW q, Additive(q, d, E)
  PROVE  h[D] = g[D] + q[E]
<1>a. \A T \in SUBSET D : \A c \in T : g[T] = f[c] + g[T \ {c}] /\ g[T \ {c}] \in Int
  BY AdditiveStep
<1>b. \A T \in SUBSET D : \A c \in T : h[T] = k[c] + h[T \ {c}] /\ h[T \ {c}] \in Int
  BY AdditiveStep
<1>c. \A T \in SUBSET E : \A c \in T : q[T] = d[c] + q[T \ {c}] /\ q[T \ {c}] \in Int
  BY AdditiveStep
<1> DEFINE P(T) == h[T] = g[T] + q[T \cap E]
           Q == {T \in SUBSET D : P(T)}
<1>1. {} \in Q
  <2>1. {} \cap E = {}
    OBVIOUS
  <2>2. g[{}] = 0 /\ h[{}] = 0 /\ q[{}] = 0
    BY DEF Additive
  <2> QED
    BY <2>1, <2>2
<1>2. ASSUME NEW T \in SUBSET D, NEW c \in T, P(T \ {c}) PROVE P(T)
  <2> DEFINE U == T \ {c}
             V == U \cap E
  <2>1. g[T] = f[c] + g[U] /\ g[U] \in Int
    BY <1>a
  <2>2. h[T] = k[c] + h[U] /\ h[U] \in Int
    BY <1>b
  <2>3. f[c] \in Int /\ k[c] \in Int
    OBVIOUS
  <2>4. h[U] = g[U] + q[V]
    BY <1>2
  <2>5. q[V] \in Int
    <3>1. V \in SUBSET E
      OBVIOUS
    <3> HIDE DEF V
    <3> QED
      BY <3>1 DEF Additive
  <2>6. CASE c \in E
    <3>1. c \in T \cap E /\ T \cap E \in SUBSET E
      BY <2>6
    <3>2. (T \cap E) \ {c} = V
      OBVIOUS
    <3>3. q[T \cap E] = d[c] + q[(T \cap E) \ {c}]
      BY <1>c, <3>1
    <3>4. q[T \cap E] = (k[c] - f[c]) + q[V]
      BY <2>6, <3>2, <3>3
    <3> HIDE DEF U, V
    <3>5. k[c] + h[U] = (f[c] + g[U]) + ((k[c] - f[c]) + q[V])
      BY <2>1, <2>2, <2>3, <2>4, <2>5
    <3> QED
      BY <2>1, <2>2, <3>4, <3>5
  <2>7. CASE c \notin E
    <3>1. q[T \cap E] = q[V]
      <4>1. T \cap E = V
        BY <2>7
      <4> QED
        BY <4>1
    <3>2. k[c] = f[c]
      BY <2>7
    <3> HIDE DEF U, V
    <3>3. k[c] + h[U] = (f[c] + g[U]) + q[V]
      BY <2>1, <2>2, <2>3, <2>4, <2>5, <3>2
    <3> QED
      BY <2>1, <2>2, <3>1, <3>3
  <2> QED
    BY <2>6, <2>7
<1>3. ASSUME NEW T \in SUBSET D, T # {}, \A x \in T : T \ {x} \in Q
      PROVE  T \in Q
  <2>1. PICK c : c \in T
    BY <1>3
  <2>2. P(T \ {c})
    BY <1>3, <2>1
  <2> HIDE DEF P
  <2>3. P(T)
    BY <1>2, <2>1, <2>2
  <2> QED
    BY <2>3
<1> HIDE DEF Q
<1>4. \A T \in SUBSET D : T \in Q
  BY <1>1, <1>3, SubsetInduction
<1>5. D \in Q
  BY <1>4
<1>6. D \cap E = E
  OBVIOUS
<1> QED
  BY <1>5, <1>6 DEF Q

\* SumFunction is monotone, and strictly so.
LEMMA SumOrder ==
  ASSUME NEW D, IsFiniteSet(D), NEW f \in [D -> Int], NEW k \in [D -> Int],
         \A x \in D : f[x] <= k[x]
  PROVE  /\ SumFunction(f) \in Int /\ SumFunction(k) \in Int
         /\ SumFunction(f) <= SumFunction(k)
         /\ SumFunction(f) = SumFunction(k) => f = k
<1>1. DOMAIN f = D /\ DOMAIN k = D /\ \A x \in D : f[x] \in Int /\ k[x] \in Int
  OBVIOUS
<1>2. PICK g : Additive(g, f, D) /\ SumFunction(f) = g[D]
  BY <1>1, SumFunctionAdds
<1>3. PICK h : Additive(h, k, D) /\ SumFunction(k) = h[D]
  BY <1>1, SumFunctionAdds
<1>4. D \in SUBSET D
  OBVIOUS
<1>5. g[D] \in Int /\ h[D] \in Int
  BY <1>2, <1>3, <1>4 DEF Additive
<1>6. g[D] <= h[D] /\ (g[D] = h[D] => \A x \in D : f[x] = k[x])
  BY <1>1, <1>2, <1>3, SumsCompare
<1>7. (\A x \in D : f[x] = k[x]) => f = k
  OBVIOUS
<1> QED
  BY <1>2, <1>3, <1>5, <1>6, <1>7

\* A sum after some of the values have changed.
LEMMA SumPatched ==
  ASSUME NEW D, IsFiniteSet(D), NEW f \in [D -> Int], NEW k \in [D -> Int],
         NEW d, DOMAIN d \subseteq D,
         \A x \in DOMAIN d : d[x] = k[x] - f[x],
         \A x \in D \ DOMAIN d : k[x] = f[x]
  PROVE  SumFunction(k) = SumFunction(f) + SumFunction(d)
<1> DEFINE E == DOMAIN d
<1>1. DOMAIN f = D /\ DOMAIN k = D /\ \A x \in D : f[x] \in Int /\ k[x] \in Int
  OBVIOUS
<1>2. IsFiniteSet(E)
  BY FS_Subset
<1>3. \A x \in E : d[x] \in Int
  BY <1>1
<1>4. PICK g : Additive(g, f, D) /\ SumFunction(f) = g[D]
  BY <1>1, SumFunctionAdds
<1>5. PICK h : Additive(h, k, D) /\ SumFunction(k) = h[D]
  BY <1>1, SumFunctionAdds
<1>6. PICK q : Additive(q, d, E) /\ SumFunction(d) = q[E]
  BY <1>2, <1>3, SumFunctionAdds
<1>7. h[D] = g[D] + q[E]
  BY <1>1, <1>4, <1>5, <1>6, SumsDiffer
<1> QED
  BY <1>4, <1>5, <1>6, <1>7
-----------------------------------------------------------------------------
(***************************************************************************)
(* The script PUT, as a function of the hash.                              *)
(***************************************************************************)
\* The map version after a write that ends adds up the rows it leaves.
LEMMA PutVersionAddsUp ==
  ASSUME NEW m, IsMap(m), Sound(m), NEW l, IsRead(l), l.mode \in Modes, ~Rejected(m, l.mode)
  PROVE  /\ PutVersion(m, l.mode, l.source) = SumFunction(Source(m, l.source, ChangedSeats(m, l.source)))
         /\ l.mode = "full" => \A s \in Seats : Source(m, l.source, ChangedSeats(m, l.source))[s] # None
         /\ l.mode = "patch" => m.incarnation # None
<1> DEFINE f == Source(m, l.source, ChangedSeats(m, l.source))
<1>1. \A s \in DOMAIN l.source : s \in Seats /\ f[s] = Selected(m, l.source, s)
  BY DEF IsRead, Source, ChangedSeats, Selected
<1>2. \A s \in Seats \ DOMAIN l.source : f[s] = m.source[s]
  BY DEF Source, ChangedSeats
<1>3. DOMAIN f = Seats
  BY DEF Source
<1>4. \A s \in DOMAIN l.source : Selected(m, l.source, s) \in Nat
  <2> SUFFICES ASSUME NEW s \in DOMAIN l.source PROVE Selected(m, l.source, s) \in Nat
    OBVIOUS
  <2>1. l.source[s] \in Nat /\ m.source[s] \in Nat \cup {None}
    BY DEF IsRead, IsMap
  <2> QED
    BY <2>1 DEF Selected, Newer
<1>5. f = [s \in Seats |-> f[s]]
  BY DEF Source
<1> HIDE DEF f
<1>6. CASE l.mode = "full"
  <2>1. DOMAIN l.source = Seats
    BY <1>6 DEF IsRead
  <2>2. [s \in DOMAIN l.source |-> Selected(m, l.source, s)] = f
    BY <1>1, <1>3, <1>5, <2>1
  <2>3. PutVersion(m, l.mode, l.source) = SumFunction(f)
    BY <1>6, <2>2 DEF PutVersion
  <2>4. \A s \in Seats : f[s] # None
    BY <1>1, <1>4, <2>1, NoneAssumption
  <2> QED
    BY <1>6, <2>3, <2>4 DEF f
<1>7. CASE l.mode = "patch"
  <2>1. m.version # None /\ ~m.updating
    BY <1>7 DEF Rejected
  <2>2. m.incarnation # None /\ m.version = SumFunction(m.source)
    BY <2>1 DEF Sound, Readable
  <2>3. \A s \in Seats : m.source[s] # None
    BY <2>2 DEF Sound
  <2>4. m.source \in [Seats -> Int] /\ \A s \in Seats : m.source[s] \in Nat
    BY <2>3 DEF IsMap
  <2>5. f \in [Seats -> Int]
    BY <1>1, <1>2, <1>4, <1>5, <2>4
  <2> DEFINE d == [s \in DOMAIN l.source |-> Selected(m, l.source, s) - OldSource(m, s)]
  <2>6. DOMAIN d \subseteq Seats
    BY DEF IsRead
  <2>7. \A s \in DOMAIN d : d[s] = f[s] - m.source[s]
    BY <1>1, <2>3 DEF OldSource
  <2>8. \A s \in Seats \ DOMAIN d : f[s] = m.source[s]
    BY <1>2
  <2>9. PutVersion(m, l.mode, l.source) = m.version + SumFunction(d)
    BY <1>7 DEF PutVersion
  <2> HIDE DEF d
  <2>10. SumFunction(f) = SumFunction(m.source) + SumFunction(d)
    BY <2>4, <2>5, <2>6, <2>7, <2>8, SumPatched, SeatsAssumption
  <2> QED
    BY <1>7, <2>2, <2>9, <2>10 DEF f
<1> QED
  BY <1>6, <1>7 DEF Modes

\* The whole script, and the script stopped part way.
LEMMA PutGrown ==
  ASSUME NEW m, IsMap(m), Sound(m), NEW l, IsRead(l), l.mode \in Modes, ~Rejected(m, l.mode),
         NEW id, id # None
  PROVE  /\ Grown(m, PUT(m, l.mode, l.source, id), id)
         /\ \A n \in InterruptedPut(m, l.mode, l.source, id) : Grown(m, n, id)
<1> DEFINE v == PutVersion(m, l.mode, l.source)
           C == ChangedSeats(m, l.source)
           W(part) == WriteSeats(m, l.source, part, v)
           P == PUT(m, l.mode, l.source, id)
<1>1. C \in SUBSET (DOMAIN l.source)
  BY DEF ChangedSeats
<1>2. ASSUME NEW part \in SUBSET C
      PROVE  Written(m, l.source, part, v, W(part))
  <2>1. part \in SUBSET (DOMAIN l.source)
    BY <1>1
  <2> HIDE DEF v, C
  <2> QED
    BY <2>1, WriteSeatsForward
<1>3. /\ v = SumFunction(Source(m, l.source, C))
      /\ l.mode = "full" => \A s \in Seats : Source(m, l.source, C)[s] # None
      /\ l.mode = "patch" => m.incarnation # None
  BY PutVersionAddsUp
<1>4. \A s \in Seats \ C : ~m.updating /\ Source(m, l.source, C)[s] = m.source[s]
  <2>1. m.updating => l.mode = "full"
    BY DEF Rejected, Modes
  <2>2. m.updating => C = Seats
    BY <2>1 DEF IsRead, ChangedSeats
  <2> HIDE DEF C
  <2> QED
    BY <2>2 DEF Source
<1>5. P = [W(C) EXCEPT !.version = v, !.incarnation = Incarnation(m, l.mode, id), !.updating = FALSE]
  BY DEF PUT
<1>6. InterruptedPut(m, l.mode, l.source, id) =
        {[W(part) EXCEPT !.updating = TRUE] : part \in SUBSET C}
        \cup {[P EXCEPT !.updating = TRUE, !.incarnation = m.incarnation], [P EXCEPT !.updating = TRUE]}
  BY DEF InterruptedPut
<1> HIDE DEF v, C, W, P
<1>7. /\ IsMap(P) /\ Forward(m, P) /\ P.source = Source(m, l.source, C) /\ P.version = v
      /\ P.incarnation = Incarnation(m, l.mode, id) /\ P.stamp = W(C).stamp /\ ~P.updating
  <2>1. IsMap(W(C)) /\ Forward(m, W(C)) /\ W(C).source = Source(m, l.source, C)
    BY <1>2 DEF Written
  <2>2. /\ DOMAIN P = Fields /\ P.source = W(C).source /\ P.version = v
        /\ P.incarnation = Incarnation(m, l.mode, id) /\ P.stamp = W(C).stamp /\ ~P.updating
    BY <1>5, <2>1 DEF IsMap, Fields
  <2> QED
    BY <2>1, <2>2 DEF IsMap, Forward
<1>8. /\ P.incarnation # None
      /\ P.incarnation = m.incarnation \/ (m.incarnation = None /\ P.incarnation = id)
  BY <1>3, <1>7 DEF Incarnation, Modes
<1>9. \A s \in Seats : P.source[s] # None
  <2>1. CASE l.mode = "full"
    BY <1>3, <1>7, <2>1
  <2>2. CASE l.mode = "patch"
    <3>1. \A s \in Seats : m.source[s] # None
      BY <1>3, <2>2 DEF Sound
    <3> QED
      BY <1>2, <1>7, <3>1 DEF Written
  <2> QED
    BY <2>1, <2>2 DEF Modes
<1>10. P.version # None /\ P.version = SumFunction(P.source)
  <2>1. P.source \in [Seats -> Int]
    BY <1>7, <1>9 DEF IsMap
  <2>2. SumFunction(P.source) \in Int
    BY <2>1, SumOrder, SeatsAssumption
  <2> QED
    BY <1>3, <1>7, <2>2, NoneAssumption
<1>11. \A s \in Seats : \/ P.stamp[s] = P.version
                        \/ ~m.updating /\ P.stamp[s] = m.stamp[s] /\ P.source[s] = m.source[s]
  BY <1>2, <1>4, <1>7 DEF Written
<1>12. Grown(m, P, id)
  BY <1>7, <1>8, <1>9, <1>10, <1>11 DEF Grown, Sound, Readable
<1>13. ASSUME NEW n, \/ n = [P EXCEPT !.updating = TRUE, !.incarnation = m.incarnation]
                     \/ n = [P EXCEPT !.updating = TRUE]
       PROVE  Grown(m, n, id)
  <2>1. /\ DOMAIN n = Fields /\ n.source = P.source /\ n.version = P.version
        /\ n.incarnation = m.incarnation \/ n.incarnation = P.incarnation
        /\ n.updating
    <3>1. DOMAIN P = Fields
      BY <1>7 DEF IsMap
    <3>2. CASE n = [P EXCEPT !.updating = TRUE, !.incarnation = m.incarnation]
      BY <3>1, <3>2 DEF Fields
    <3>3. CASE n = [P EXCEPT !.updating = TRUE]
      BY <3>1, <3>3 DEF Fields
    <3> QED
      BY <1>13, <3>2, <3>3
  <2>2. n.incarnation = m.incarnation \/ (m.incarnation = None /\ n.incarnation = id)
    BY <1>8, <2>1
  <2>3. IsMap(n) /\ Forward(m, n)
    BY <1>7, <2>1 DEF IsMap, Forward
  <2>4. Sound(n)
    BY <1>9, <2>1 DEF Sound, Readable
  <2> QED
    BY <2>1, <2>2, <2>3, <2>4 DEF Grown
<1>14. ASSUME NEW part \in SUBSET C, NEW n, n = [W(part) EXCEPT !.updating = TRUE]
       PROVE  Grown(m, n, id)
  <2>1. /\ IsMap(W(part)) /\ Forward(m, W(part))
        /\ W(part).version = m.version /\ W(part).incarnation = m.incarnation
        /\ \A s \in Seats : m.source[s] # None => W(part).source[s] # None
    BY <1>2 DEF Written
  <2>2. /\ DOMAIN n = Fields /\ n.source = W(part).source /\ n.version = W(part).version
        /\ n.incarnation = W(part).incarnation /\ n.updating
    BY <1>14, <2>1 DEF IsMap, Fields
  <2>3. Sound(n)
    BY <2>1, <2>2 DEF Sound, Readable
  <2> QED
    BY <2>1, <2>2, <2>3 DEF Grown, IsMap, Forward
<1>15. ASSUME NEW n \in InterruptedPut(m, l.mode, l.source, id) PROVE Grown(m, n, id)
  BY <1>6, <1>13, <1>14
<1> QED
  BY <1>12, <1>15 DEF P
-----------------------------------------------------------------------------
(***************************************************************************)
(* The maps and what readers have seen of them.                            *)
(***************************************************************************)
\* A map that is brought forward catches up every reader of its incarnation.
LEMMA GrownCatchesUp ==
  ASSUME NEW m, IsMap(m), Sound(m), NEW n, NEW id, Grown(m, n, id),
         m.incarnation # None, NEW a, IsView(a), CatchesUp(a, m)
  PROVE  CatchesUp(a, n)
<1>1. m.source \in [Seats -> Nat]
  BY DEF Sound, IsMap
<1>2. n.source \in [Seats -> Nat]
  BY DEF Grown, Sound, IsMap
<1>3. Below(a.source, n.source)
  <2> SUFFICES ASSUME NEW s \in Seats PROVE a.source[s] <= n.source[s]
    BY DEF Below
  <2>1. a.source[s] \in Nat /\ m.source[s] \in Nat /\ n.source[s] \in Nat /\ m.source[s] # None
    BY <1>1, <1>2, NoneAssumption DEF IsView
  <2>2. a.source[s] <= m.source[s]
    BY DEF CatchesUp, Below
  <2>3. n.source[s] = m.source[s] \/ n.source[s] > m.source[s]
    BY <2>1 DEF Grown, Forward
  <2> QED
    BY <2>1, <2>2, <2>3
<1>4. ASSUME ~n.updating, NEW s \in Seats, n.stamp[s] = n.version, n.source[s] # a.source[s]
      PROVE  n.stamp[s] > a.version
  <2>1. n.version = SumFunction(n.source) /\ a.version = SumFunction(a.source)
    BY <1>4 DEF Grown, Sound, Readable, IsView
  <2>2. a.source \in [Seats -> Int] /\ n.source \in [Seats -> Int]
    BY <1>2 DEF IsView
  <2>3. /\ SumFunction(a.source) \in Int /\ SumFunction(n.source) \in Int
        /\ SumFunction(a.source) <= SumFunction(n.source)
        /\ SumFunction(a.source) = SumFunction(n.source) => a.source = n.source
    BY <1>3, <2>2, SumOrder, SeatsAssumption DEF Below
  <2>4. SumFunction(a.source) # SumFunction(n.source)
    BY <1>4, <2>3
  <2>5. SumFunction(a.source) < SumFunction(n.source)
    BY <2>3, <2>4
  <2> QED
    BY <1>4, <2>1, <2>5
<1>5. ASSUME ~n.updating, NEW s \in Seats
      PROVE  n.source[s] = a.source[s] \/ n.stamp[s] > a.version
  <2>1. CASE n.stamp[s] = n.version
    BY <1>4, <1>5, <2>1
  <2>2. CASE ~m.updating /\ n.stamp[s] = m.stamp[s] /\ n.source[s] = m.source[s]
    BY <2>2 DEF CatchesUp
  <2> QED
    BY <1>5, <2>1, <2>2 DEF Grown
<1> QED
  BY <1>3, <1>5 DEF CatchesUp

\* Such a step keeps the shape of the maps and takes no seat back.
LEMMA MapsStepForward ==
  ASSUME MapsInv, MapsStep
  PROVE  /\ MapsInv'
         /\ \A e \in Events, s \in Seats :
              seatmap[e].source[s] # None /\ seatmap'[e].source[s] # seatmap[e].source[s]
                => seatmap'[e] = NoMap \/ seatmap'[e].source[s] > seatmap[e].source[s]
<1>1. CASE UNCHANGED <<seatmap, maps, seen>>
  BY <1>1 DEF MapsInv
<1>2. ASSUME NEW d \in Events, NEW n, Grown(seatmap[d], n, maps + 1), Store(d, n)
      PROVE  /\ MapsInv'
             /\ \A e \in Events, s \in Seats :
                  seatmap[e].source[s] # None /\ seatmap'[e].source[s] # seatmap[e].source[s]
                    => seatmap'[e] = NoMap \/ seatmap'[e].source[s] > seatmap[e].source[s]
  <2>1. /\ DOMAIN seatmap' = Events /\ DOMAIN seen' = Events
        /\ \A e \in Events : seatmap'[e] = IF e = d THEN n ELSE seatmap[e]
    BY <1>2 DEF Store, MapsInv
  <2>2. maps \in Nat /\ maps' = IF n.incarnation # None /\ seatmap[d].incarnation = None THEN maps + 1 ELSE maps
    BY <1>2 DEF Store, MapsInv
  <2>3. maps' \in Nat /\ maps <= maps'
    BY <2>2
  <2>4. n.incarnation \in (1..maps') \cup {None}
    <3>1. seatmap[d].incarnation \in (1..maps) \cup {None}
      BY DEF MapsInv
    <3>2. n.incarnation = seatmap[d].incarnation \/ (seatmap[d].incarnation = None /\ n.incarnation = maps + 1)
      BY <1>2 DEF Grown
    <3>3. maps + 1 # None
      BY <2>2, NoneAssumption
    <3> QED
      BY <2>2, <2>3, <3>1, <3>2, <3>3
  <2>5. \A e \in Events : seatmap[e].incarnation \in (1..maps') \cup {None}
    BY <2>2, <2>3 DEF MapsInv
  <2>6. MapsInv'
    BY <1>2, <2>1, <2>3, <2>4, <2>5 DEF MapsInv, Grown, IsMap, Sound, Readable
  <2> QED
    BY <1>2, <2>1, <2>6 DEF Grown, Forward
<1>3. ASSUME NEW d \in Events, Lost(d)
      PROVE  /\ MapsInv'
             /\ \A e \in Events, s \in Seats :
                  seatmap[e].source[s] # None /\ seatmap'[e].source[s] # seatmap[e].source[s]
                    => seatmap'[e] = NoMap \/ seatmap'[e].source[s] > seatmap[e].source[s]
  <2>1. /\ DOMAIN seatmap' = Events /\ DOMAIN seen' = Events /\ maps' = maps
        /\ \A e \in Events : seatmap'[e] = IF e = d THEN NoMap ELSE seatmap[e]
    BY <1>3 DEF Lost, MapsInv
  <2> QED
    BY <2>1, NoMapIsSound DEF MapsInv, IsMap, Sound, Readable
<1> QED
  BY <1>1, <1>2, <1>3 DEF MapsStep, Replaced

\* The views of one event and its map, after the map became n.
LEMMA SeenGrows ==
  ASSUME MapsInv, SeenInv, NEW d \in Events, NEW n, Grown(seatmap[d], n, maps + 1), Store(d, n)
  PROVE  /\ \A a \in seen'[d] : /\ IsView(a) /\ a.incarnation \in 1..maps'
                                /\ a.incarnation = n.incarnation => CatchesUp(a, n)
         /\ \A a, b \in seen'[d] : a.incarnation = b.incarnation =>
              Below(a.source, b.source) \/ Below(b.source, a.source)
<1> DEFINE m == seatmap[d]
<1>1. maps \in Nat /\ IsMap(m) /\ Sound(m) /\ m.incarnation \in (1..maps) \cup {None}
  BY DEF MapsInv
<1>2. maps' = IF n.incarnation # None /\ m.incarnation = None THEN maps + 1 ELSE maps
  BY DEF Store
<1>3. seen'[d] = seen[d] \cup (IF Readable(n) THEN {View(n)} ELSE {})
  BY DEF Store, MapsInv
<1>4. n.incarnation = m.incarnation \/ (m.incarnation = None /\ n.incarnation = maps + 1)
  BY DEF Grown
<1>5. maps + 1 # None /\ maps + 1 \notin 1..maps /\ None \notin 1..maps
  BY <1>1, NoneAssumption
<1>6. ASSUME NEW a \in seen[d]
      PROVE  /\ IsView(a) /\ a.incarnation \in 1..maps'
             /\ a.incarnation = n.incarnation => CatchesUp(a, n)
  <2>1. IsView(a) /\ a.incarnation \in 1..maps /\ (a.incarnation = m.incarnation => CatchesUp(a, m))
    BY DEF SeenInv
  <2>2. a.incarnation \in 1..maps'
    BY <1>1, <1>2, <2>1
  <2>3. ASSUME a.incarnation = n.incarnation PROVE CatchesUp(a, n)
    <3>1. a.incarnation = m.incarnation /\ m.incarnation # None
      BY <1>4, <1>5, <2>1, <2>3
    <3>2. CatchesUp(a, m)
      BY <2>1, <3>1
    <3> HIDE DEF m
    <3> QED
      BY <1>1, <2>1, <3>1, <3>2, GrownCatchesUp DEF m
  <2> QED
    BY <2>1, <2>2, <2>3
<1>7. ASSUME Readable(n)
      PROVE  /\ IsView(View(n)) /\ View(n).incarnation \in 1..maps' /\ CatchesUp(View(n), n)
             /\ View(n).incarnation = n.incarnation /\ View(n).source = n.source
  <2>1. View(n).incarnation = n.incarnation /\ View(n).source = n.source /\ View(n).version = n.version
    BY DEF View
  <2>2. n.incarnation # None
    BY <1>7 DEF Grown, Sound, Readable
  <2>3. n.source \in [Seats -> Nat] /\ n.version = SumFunction(n.source)
    BY <1>7, <2>2 DEF Grown, Sound, IsMap
  <2>4. n.incarnation \in 1..maps'
    BY <1>1, <1>2, <1>4, <1>5, <2>2
  <2>5. Below(n.source, n.source)
    BY <2>3 DEF Below
  <2> QED
    BY <2>1, <2>3, <2>4, <2>5 DEF IsView, CatchesUp
<1>8. ASSUME NEW a \in seen'[d]
      PROVE  /\ IsView(a) /\ a.incarnation \in 1..maps'
             /\ a.incarnation = n.incarnation => CatchesUp(a, n)
  <2>1. CASE a \in seen[d]
    BY <1>6, <2>1
  <2>2. CASE Readable(n) /\ a = View(n)
    BY <1>7, <2>2
  <2> QED
    BY <1>3, <2>1, <2>2
<1>9. ASSUME NEW a \in seen'[d], NEW b \in seen'[d], a.incarnation = b.incarnation
      PROVE  Below(a.source, b.source) \/ Below(b.source, a.source)
  <2>1. CASE a \in seen[d] /\ b \in seen[d]
    BY <1>9, <2>1 DEF SeenInv
  <2>2. CASE Readable(n) /\ a = View(n)
    BY <1>7, <1>8, <1>9, <2>2 DEF CatchesUp
  <2>3. CASE Readable(n) /\ b = View(n)
    BY <1>7, <1>8, <1>9, <2>3 DEF CatchesUp
  <2> QED
    BY <1>3, <2>1, <2>2, <2>3
<1> QED
  BY <1>8, <1>9

\* What readers have been shown stays a chain that the map catches up.
LEMMA SeenStep ==
  ASSUME MapsInv, SeenInv, MapsStep
  PROVE  SeenInv'
<1>1. CASE UNCHANGED <<seatmap, maps, seen>>
  BY <1>1 DEF SeenInv, CatchesUp, IsView, Below
<1>2. ASSUME NEW d \in Events, NEW n, Grown(seatmap[d], n, maps + 1), Store(d, n)
      PROVE  SeenInv'
  <2>1. /\ \A e \in Events : seatmap'[e] = IF e = d THEN n ELSE seatmap[e]
        /\ \A e \in Events \ {d} : seen'[e] = seen[e]
    BY <1>2 DEF Store, MapsInv
  <2>2. maps \in Nat /\ maps' \in Nat /\ maps <= maps'
    BY <1>2 DEF Store, MapsInv
  <2>3. \A i \in 1..maps : i \in 1..maps'
    BY <2>2
  <2>4. ASSUME NEW e \in Events, e # d, NEW a \in seen'[e]
        PROVE  /\ IsView(a) /\ a.incarnation \in 1..maps'
               /\ a.incarnation = seatmap'[e].incarnation => CatchesUp(a, seatmap'[e])
    BY <2>1, <2>3, <2>4 DEF SeenInv
  <2>5. ASSUME NEW e \in Events, e # d, NEW a \in seen'[e], NEW b \in seen'[e],
               a.incarnation = b.incarnation
        PROVE  Below(a.source, b.source) \/ Below(b.source, a.source)
    BY <2>1, <2>5 DEF SeenInv
  <2>6. /\ \A a \in seen'[d] : /\ IsView(a) /\ a.incarnation \in 1..maps'
                               /\ a.incarnation = seatmap'[d].incarnation => CatchesUp(a, seatmap'[d])
        /\ \A a, b \in seen'[d] : a.incarnation = b.incarnation =>
              Below(a.source, b.source) \/ Below(b.source, a.source)
    BY <1>2, <2>1, SeenGrows
  <2> QED
    BY <2>4, <2>5, <2>6 DEF SeenInv, CatchesUp, IsView, Below
<1>3. ASSUME NEW d \in Events, Lost(d)
      PROVE  SeenInv'
  <2>1. \A e \in Events : seatmap'[e] = IF e = d THEN NoMap ELSE seatmap[e]
    BY <1>3 DEF Lost, MapsInv
  <2>2. seen' = seen /\ maps' = maps
    BY <1>3 DEF Lost
  <2>3. None \notin 1..maps
    BY NoneAssumption DEF MapsInv
  <2>4. ASSUME NEW e \in Events, NEW a \in seen[e]
        PROVE  /\ IsView(a) /\ a.incarnation \in 1..maps
               /\ a.incarnation = seatmap'[e].incarnation => CatchesUp(a, seatmap'[e])
    BY <2>1, <2>3, NoMapIsSound DEF SeenInv
  <2>5. ASSUME NEW e \in Events, NEW a \in seen[e], NEW b \in seen[e], a.incarnation = b.incarnation
        PROVE  Below(a.source, b.source) \/ Below(b.source, a.source)
    BY <2>5 DEF SeenInv
  <2> QED
    BY <2>2, <2>4, <2>5 DEF SeenInv, CatchesUp, IsView, Below
<1> QED
  BY <1>1, <1>2, <1>3 DEF MapsStep, Replaced

\* One version of one incarnation names one map.
LEMMA SeenTags == SeenInv => TagNamesOneMap
<1> SUFFICES ASSUME SeenInv, NEW e \in Events, NEW a \in seen[e], NEW b \in seen[e],
                    a.incarnation = b.incarnation, a.version = b.version
             PROVE  a.source = b.source
  BY DEF TagNamesOneMap
<1>1. a.source \in [Seats -> Int] /\ b.source \in [Seats -> Int]
  BY DEF SeenInv, IsView
<1>2. SumFunction(a.source) = SumFunction(b.source)
  BY DEF SeenInv, IsView
<1>3. ASSUME Below(a.source, b.source) PROVE a.source = b.source
  BY <1>1, <1>2, <1>3, SumOrder, SeatsAssumption DEF Below
<1>4. ASSUME Below(b.source, a.source) PROVE a.source = b.source
  BY <1>1, <1>2, <1>4, SumOrder, SeatsAssumption DEF Below
<1> QED
  BY <1>3, <1>4 DEF SeenInv

\* A delta since any view of the living map gives the map.
LEMMA SeenDeltas == SeenInv => DeltasCatchUp
BY DEF SeenInv, CatchesUp, DeltasCatchUp, Delta, Readable

-----------------------------------------------------------------------------
(***************************************************************************)
(* The steps that write a map.                                             *)
(***************************************************************************)
\* A write, whole or cut off, of rows that some process has read.
LEMMA StoreStep ==
  ASSUME MapsInv, NEW l, IsRead(l), l.mode \in Modes, ~Rejected(seatmap[l.event], l.mode),
         NEW m, Store(l.event, m),
         \/ m = PUT(seatmap[l.event], l.mode, l.source, maps + 1)
         \/ m \in InterruptedPut(seatmap[l.event], l.mode, l.source, maps + 1)
  PROVE  MapsStep
<1>1. l.event \in Events /\ IsMap(seatmap[l.event]) /\ Sound(seatmap[l.event])
  BY DEF MapsInv, IsRead
<1>2. maps + 1 # None
  BY NoneAssumption DEF MapsInv
<1>3. Grown(seatmap[l.event], m, maps + 1)
  BY <1>1, <1>2, PutGrown
<1> QED
  BY <1>1, <1>3 DEF MapsStep, Replaced

\* PUT, answered.
LEMMA WriteStep ==
  ASSUME ProjectionInv, NEW p \in Processes, Write(p)
  PROVE  Typed /\ MapsStep
<1>1. work[p] # None /\ IsRead(work[p]) /\ work[p].mode \in Modes
  BY DEF Write, ProjectionInv, ReadsInv
<1>2. SameRequests /\ UNCHANGED <<version, late>>
  BY DEF Write, requestVars, SameRequests
<1>3. CASE Rejected(seatmap[work[p].event], work[p].mode)
  <2> DEFINE l == [work[p] EXCEPT !.mode = "rejected"]
  <2>1. /\ work' = [work EXCEPT ![p].mode = "rejected"]
        /\ UNCHANGED <<rows, completed, seatmap, maps, seen>>
    BY <1>3 DEF Write
  <2>2. work' = [work EXCEPT ![p] = l]
    BY <2>1
  <2>3. IsRead(l) /\ l.event = work[p].event
    BY <1>1 DEF IsRead
  <2>4. p \in Workers => \E r \in rows[p] : r.event = l.event
    BY <1>1, <2>3 DEF ProjectionInv, ReadsInv, HasRow
  <2> HIDE DEF l
  <2>5. ReadsInv'
    BY <1>2, <2>1, <2>2, <2>3, <2>4, BegunReads DEF ProjectionInv
  <2> QED
    BY <1>2, <2>1, <2>5, KeptRequests DEF ProjectionInv, Typed, MapsStep
<1>4. CASE ~Rejected(seatmap[work[p].event], work[p].mode)
  <2>1. /\ Store(work[p].event,
                 PUT(seatmap[work[p].event], work[p].mode, work[p].source, maps + 1))
        /\ Projected(p, work[p].event)
    BY <1>4 DEF Write
  <2>2. MapsStep
    BY <1>1, <1>4, <2>1, StoreStep DEF ProjectionInv
  <2>3. /\ rows' \in [Workers -> SUBSET Row] /\ completed' \in [Workers -> SUBSET Row]
        /\ \A w \in Workers \ {p} : rows'[w] = rows[w]
    BY <1>1, <2>1, RowsMove DEF Projected, ProjectionInv
  <2>4. work' = [work EXCEPT ![p] = None]
    BY <2>1 DEF Projected
  <2>5. \A l \in late' : IsRead(l) /\ l.mode \in Modes
    BY <1>2 DEF ProjectionInv, ReadsInv
  <2>6. ReadsInv'
    BY <1>2, <2>3, <2>4, <2>5, EndedReads DEF ProjectionInv
  <2> QED
    BY <1>2, <2>2, <2>6, KeptRequests DEF ProjectionInv, Typed
<1> QED
  BY <1>3, <1>4

\* A row fails: nothing is written, the script stops, or the write comes late.
LEMMA FailRowStep ==
  ASSUME ProjectionInv, NEW p \in Processes, FailRow(p)
  PROVE  Typed /\ MapsStep
<1>1. work[p] # None /\ IsRead(work[p])
  BY DEF FailRow, ProjectionInv, ReadsInv
<1>2. work' = [work EXCEPT ![p] = None] /\ UNCHANGED version /\ SameRequests
  BY DEF FailRow, RowFailed, requestVars, SameRequests
<1>3. /\ rows' \in [Workers -> SUBSET Row] /\ completed' \in [Workers -> SUBSET Row]
      /\ \A w \in Workers \ {p} : rows'[w] = rows[w]
  BY <1>1, RowsMove DEF FailRow, RowFailed, ProjectionInv
<1>4. late' = late \/ (work[p].mode \in Modes /\ late' = late \cup {work[p]})
  BY DEF FailRow, mapVars
<1>5. \A l \in late' : IsRead(l) /\ l.mode \in Modes
  BY <1>1, <1>4 DEF ProjectionInv, ReadsInv
<1>6. ReadsInv'
  BY <1>2, <1>3, <1>5, EndedReads DEF ProjectionInv
<1>7. MapsStep
  <2>1. CASE UNCHANGED <<seatmap, maps, seen>>
    BY <2>1 DEF MapsStep
  <2>2. CASE /\ work[p].mode \in Modes /\ ~Rejected(seatmap[work[p].event], work[p].mode)
             /\ \E m \in InterruptedPut(seatmap[work[p].event], work[p].mode,
                                        work[p].source, maps + 1) : Store(work[p].event, m)
    BY <1>1, <2>2, StoreStep DEF ProjectionInv
  <2> QED
    BY <2>1, <2>2 DEF FailRow, mapVars
<1> QED
  BY <1>2, <1>6, <1>7, KeptRequests DEF ProjectionInv, Typed

\* A write whose caller is gone.
LEMMA LateWriteStep ==
  ASSUME ProjectionInv, NEW l \in late, LateWrite(l)
  PROVE  Typed /\ MapsStep
<1>1. IsRead(l) /\ l.mode \in Modes
  BY DEF ProjectionInv, ReadsInv
<1>2. UNCHANGED <<version, rows, completed, work>> /\ late' \subseteq late /\ SameRequests
  BY DEF LateWrite, workerVars, requestVars, SameRequests
<1>3. ReadsInv'
  BY <1>2, KeptReads DEF ProjectionInv, ReadsInv
<1>4. MapsStep
  <2>1. CASE UNCHANGED <<seatmap, maps, seen>>
    BY <2>1 DEF MapsStep
  <2>2. CASE /\ ~Rejected(seatmap[l.event], l.mode)
             /\ Store(l.event, PUT(seatmap[l.event], l.mode, l.source, maps + 1))
    BY <1>1, <2>2, StoreStep DEF ProjectionInv
  <2> QED
    BY <2>1, <2>2 DEF LateWrite
<1> QED
  BY <1>2, <1>3, <1>4, KeptRequests DEF ProjectionInv, Typed

\* Every step keeps what was read and requested, and brings the maps forward.
LEMMA NextProjection == ProjectionInv /\ [Next]_vars => Typed /\ MapsStep
<1> SUFFICES ASSUME ProjectionInv, [Next]_vars PROVE Typed /\ MapsStep
  OBVIOUS
<1>1. ASSUME NEW e \in Events, LeaseLapse(e)
      PROVE  Typed /\ MapsStep
  <2>1. SameRequests /\ UNCHANGED <<version, rows, completed, work, late, seatmap, maps, seen>>
    BY <1>1 DEF LeaseLapse, workerVars, mapVars, SameRequests
  <2> QED
    BY <2>1, QuietStep DEF MapsStep
<1>2. ASSUME NEW e \in Events, MapLost(e)
      PROVE  Typed /\ MapsStep
  <2>1. SameRequests /\ UNCHANGED <<version, rows, completed, work, late>> /\ Lost(e)
    BY <1>2 DEF MapLost, workerVars, requestVars, SameRequests, Lost
  <2> QED
    BY <2>1, QuietStep DEF MapsStep
<1>3. CASE UNCHANGED vars
  <2>1. SameRequests /\ UNCHANGED <<version, rows, completed, work, late, seatmap, maps, seen>>
    BY <1>3 DEF vars, workerVars, mapVars, requestVars, SameRequests
  <2> QED
    BY <2>1, QuietStep DEF MapsStep
<1> QED
  BY <1>1, <1>2, <1>3, CommitStep, ConsumeStep, ClaimStep, ReadRowStep, ReadAllStep,
     WriteStep, FailRowStep, LateWriteStep, CompleteStep, CrashStep DEF Next

\* The invariant holds at the start and every step keeps it.
LEMMA ProjectionInductive ==
  /\ Init => ProjectionInv /\ SeenInv
  /\ ProjectionInv /\ [Next]_vars => ProjectionInv' /\ MapsStep
<1>1. ASSUME Init PROVE ProjectionInv /\ SeenInv
  <2>1. MapsInv /\ SeenInv
    BY <1>1, NoMapIsSound DEF Init, MapsInv, SeenInv
  <2>2. RequestsInv
    BY <1>1 DEF Init, RequestsInv
  <2>3. ReadsInv
    BY <1>1 DEF Init, ReadsInv, HasRow, Processes
  <2> QED
    BY <2>1, <2>2, <2>3 DEF ProjectionInv
<1>2. ASSUME ProjectionInv, [Next]_vars PROVE ProjectionInv' /\ MapsStep
  <2>1. Typed /\ MapsStep
    BY <1>2, NextProjection
  <2>2. MapsInv'
    BY <1>2, <2>1, MapsStepForward DEF ProjectionInv
  <2> QED
    BY <2>1, <2>2 DEF ProjectionInv, Typed
<1> QED
  BY <1>1, <1>2

\* What is in Redis, in the hands of a process or on its way is always a
\* complete hash and rows that event_seats once had, and the version of a
\* readable map adds up its rows.
THEOREM ProjectionInvariant == Spec => [](ProjectionInv /\ SeenInv)
<1>1. ProjectionInv /\ SeenInv /\ [Next]_vars => ProjectionInv' /\ SeenInv'
  BY ProjectionInductive, SeenStep DEF ProjectionInv
<1> QED
  BY <1>1, ProjectionInductive, PTL DEF Spec

\* While a map lives no write takes one of its seats back to an older row:
\* not a snapshot read long ago, not a patch that overtook another, not the
\* part of an interrupted script, not a PUT that arrives after its caller
\* gave up (the source_version comparison of PUT).
THEOREM SeatsOnlyMoveForward == Spec => SeatNeverGoesBack
<1>1. ProjectionInv /\ [Next]_vars =>
        [\A e \in Events, s \in Seats :
           seatmap[e].source[s] # None /\ seatmap'[e].source[s] # seatmap[e].source[s]
             => seatmap'[e] = NoMap \/ seatmap'[e].source[s] > seatmap[e].source[s]]_vars
  BY ProjectionInductive, MapsStepForward DEF ProjectionInv
<1> QED
  BY <1>1, ProjectionInvariant, PTL DEF Spec, SeatNeverGoesBack

\* An availability ETag is never given to two different maps: within one
\* incarnation the version is the sum of row versions that only grow, so two
\* maps with the same sum are the same map.
THEOREM TagsAreUnique == Spec => []TagNamesOneMap
BY ProjectionInvariant, SeenTags, PTL

\* A client that holds any earlier view of the living map and applies the
\* seats stamped above its version holds the map: a seat that changed since
\* was stamped with a sum that is larger than the client's.
THEOREM DeltasAreComplete == Spec => []DeltasCatchUp
BY ProjectionInvariant, SeenDeltas, PTL

\* Until Redis first loses a map no reader is left with a seat that is behind
\* event_seats unless a notification or a request will bring the newer row:
\* complete_refresh ends a request only for the generation it claimed, under
\* the lease it claimed it with, and then the map has what was asked for.
THEOREM StaleSeatsAreRequested == Spec => []StaleSeatIsRequested
<1>1. Init => RequestedInv
  BY InitRequested
<1>2. ProjectionInv /\ RequestedInv /\ [Next]_vars => RequestedInv'
  BY ProjectionInductive, NextRequested
<1>3. ProjectionInv /\ RequestedInv => StaleSeatIsRequested
  BY StaleIsRequested DEF ProjectionInv, RequestedInv
<1> QED
  BY <1>1, <1>2, <1>3, ProjectionInvariant, PTL DEF Spec
=============================================================================
