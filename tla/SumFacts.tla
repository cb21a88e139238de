------------------------------ MODULE SumFacts ------------------------------
(***************************************************************************)
(* Sums over finite sets.  Total(F, S) is the sum of the values a function *)
(* has on a set, by the fold of FiniteSetsExt, which takes the elements in *)
(* an order of its own; the facts below do not depend on it.  Inductions   *)
(* are over subsets, as minimal counterexamples: a least subset of those a *)
(* claim fails for has none that it fails for.                             *)
(***************************************************************************)
EXTENDS Integers, FiniteSets, FiniteSetsExt, FiniteSetTheorems,
        WellFoundedInduction, TLAPS

Pick(T) == CHOOSE x \in T : TRUE

(* The recursion a sum is made of, over all subsets of a set. *)
IsSum(F, S, h) ==
  h = [T \in SUBSET S |-> IF T = {} THEN 0 ELSE F[Pick(T)] + h[T \ {Pick(T)}]]

Total(F, S) == MapThenSumSet(LAMBDA x : F[x], S)

-----------------------------------------------------------------------------
(* A set of numbers has a least one. *)
LEMMA LeastNumber ==
  ASSUME NEW P \in SUBSET Nat, P # {}
  PROVE  \E n \in P : \A m \in P : n <= m
<1>1. PICK n \in P : \A m \in P : ~(<<m, n>> \in OpToRel(<, Nat))
  BY NatLessThanWellFounded, WFMin, Zenon
<1>2. \A m \in P : ~(m < n)
  <2> SUFFICES ASSUME NEW m \in P, m < n PROVE FALSE
    OBVIOUS
  <2>1. n \in Nat /\ m \in Nat
    OBVIOUS
  <2>2. <<m, n>> \in OpToRel(<, Nat)
    BY <2>1, Zenon DEF OpToRel
  <2> QED BY <1>1, <2>2
<1> QED BY <1>2

(* Induction along a range of numbers. *)
LEMMA UpTo ==
  ASSUME NEW M \in Nat, NEW P, 0 \in P, \A t \in 1..M : t - 1 \in P => t \in P
  PROVE  0..M \subseteq P
<1> DEFINE Bad == {t \in 0..M : t \notin P}
<1>1. ASSUME Bad # {} PROVE FALSE
  <2>1. Bad \in SUBSET Nat
    OBVIOUS
  <2>2. PICK t \in Bad : \A u \in Bad : t <= u
    <3> HIDE DEF Bad
    <3> QED BY <1>1, <2>1, LeastNumber
  <2>3. t \in 1..M /\ t \notin P
    BY <2>2
  <2>4. t - 1 \notin Bad
    BY <2>2, <2>3
  <2>5. t - 1 \in P
    BY <2>3, <2>4
  <2> QED BY <2>3, <2>5
<1> QED BY <1>1

(* Of subsets of a finite set one is least: none of its own is another.    *)
LEMMA LeastSubset ==
  ASSUME NEW S, IsFiniteSet(S), NEW D, D \subseteq SUBSET S, D # {}
  PROVE  \E T \in D : \A U \in D : U \subseteq T => U = T
<1> DEFINE P == {Cardinality(T) : T \in D}
<1>1. \A T \in D : IsFiniteSet(T) /\ Cardinality(T) \in Nat
  BY FS_Subset, FS_CardinalityType
<1>2. P \in SUBSET Nat /\ P # {}
  BY <1>1
<1>3. PICK n \in P : \A m \in P : n <= m
  <2> HIDE DEF P
  <2> QED BY <1>2, LeastNumber
<1>4. PICK T \in D : Cardinality(T) = n
  BY <1>3
<1>5. ASSUME NEW U \in D, U \subseteq T
      PROVE  U = T
  <2>1. Cardinality(T) <= Cardinality(U) /\ IsFiniteSet(T)
    BY <1>1, <1>3, <1>4
  <2>2. Cardinality(U) <= Cardinality(T) /\ (Cardinality(T) = Cardinality(U) => T = U)
    BY <1>5, <2>1, FS_Subset
  <2> QED BY <1>1, <2>1, <2>2
<1> QED BY <1>5

LEMMA PickIsIn == \A T : T # {} => Pick(T) \in T
  BY DEF Pick

-----------------------------------------------------------------------------
(* The recursion has one solution, and only one                            *)

LEMMA SumUnique ==
  ASSUME NEW S, IsFiniteSet(S), NEW F, NEW g, NEW h, IsSum(F, S, g), IsSum(F, S, h)
  PROVE  g = h
<1> DEFINE D == {T \in SUBSET S : g[T] # h[T]}
<1>1. CASE D # {}
  <2>1. PICK T \in D : \A U \in D : U \subseteq T => U = T
    <3>1. D \subseteq SUBSET S
      OBVIOUS
    <3> HIDE DEF D
    <3> QED BY <1>1, <3>1, LeastSubset
  <2>2. \A U \in SUBSET S :
          /\ g[U] = IF U = {} THEN 0 ELSE F[Pick(U)] + g[U \ {Pick(U)}]
          /\ h[U] = IF U = {} THEN 0 ELSE F[Pick(U)] + h[U \ {Pick(U)}]
    BY DEF IsSum
  <2>3. T # {} /\ T \in SUBSET S /\ g[T] # h[T]
    BY <2>1, <2>2
  <2>4. T \ {Pick(T)} \in SUBSET S /\ T \ {Pick(T)} # T /\ T \ {Pick(T)} \subseteq T
    BY <2>3, PickIsIn
  <2>5. T \ {Pick(T)} \notin D
    BY <2>1, <2>4
  <2>6. g[T \ {Pick(T)}] = h[T \ {Pick(T)}]
    BY <2>4, <2>5
  <2> QED BY <2>2, <2>3, <2>6
<1>2. CASE D = {}
  <2>1. \A T \in SUBSET S : g[T] = h[T]
    BY <1>2
  <2>2. /\ g = [T \in SUBSET S |-> g[T]]
        /\ h = [T \in SUBSET S |-> h[T]]
    BY DEF IsSum
  <2> QED BY <2>1, <2>2
<1> QED BY <1>1, <1>2

(* A solution for a set is one for its subsets. *)
LEMMA SumRestricted ==
  ASSUME NEW S, NEW F, NEW h, IsSum(F, S, h), NEW T \in SUBSET S
  PROVE  IsSum(F, T, [U \in SUBSET T |-> h[U]])
<1> DEFINE k == [U \in SUBSET T |-> h[U]]
<1>1. \A U \in SUBSET T : h[U] = IF U = {} THEN 0 ELSE F[Pick(U)] + h[U \ {Pick(U)}]
  BY DEF IsSum
<1>2. \A U \in SUBSET T : U # {} => k[U \ {Pick(U)}] = h[U \ {Pick(U)}]
  OBVIOUS
<1>3. k = [U \in SUBSET T |-> IF U = {} THEN 0 ELSE F[Pick(U)] + k[U \ {Pick(U)}]]
  BY <1>1, <1>2
<1> QED BY <1>3 DEF IsSum

LEMMA SumExists ==
  ASSUME NEW S, IsFiniteSet(S), NEW F
  PROVE  \E h : IsSum(F, S, h)
<1> DEFINE D == {T \in SUBSET S : ~ \E h : IsSum(F, T, h)}
<1>1. ASSUME D # {} PROVE FALSE
  <2>1. PICK T \in D : \A U \in D : U \subseteq T => U = T
    <3>1. D \subseteq SUBSET S
      OBVIOUS
    <3> HIDE DEF D
    <3> QED BY <1>1, <3>1, LeastSubset
  <2>2. T \in SUBSET S /\ ~ \E h : IsSum(F, T, h)
    BY <2>1
  <2>3. \A U \in SUBSET T : U # T => \E h : IsSum(F, U, h)
    BY <2>1, <2>2
  <2> DEFINE H(U) == CHOOSE h : IsSum(F, U, h)
             k == [U \in SUBSET T |->
                     IF U = {} THEN 0 ELSE F[Pick(U)] + H(U \ {Pick(U)})[U \ {Pick(U)}]]
  <2>4. \A U \in SUBSET T : U # T => IsSum(F, U, H(U))
    BY <2>3
  <2>5. ASSUME NEW V \in SUBSET T, V # T
        PROVE  k[V] = H(V)[V]
    <3>1. IsSum(F, V, H(V))
      BY <2>4, <2>5
    <3> HIDE DEF H
    <3>2. H(V)[V] = IF V = {} THEN 0 ELSE F[Pick(V)] + H(V)[V \ {Pick(V)}]
      BY <3>1 DEF IsSum
    <3>3. k[V] = IF V = {} THEN 0 ELSE F[Pick(V)] + H(V \ {Pick(V)})[V \ {Pick(V)}]
      OBVIOUS
    <3>4. CASE V # {}
      <4> DEFINE W == V \ {Pick(V)}
      <4>1. W \in SUBSET V /\ W \in SUBSET T /\ W # T /\ IsFiniteSet(W)
        <5>1. W \in SUBSET S /\ W \in SUBSET V /\ W \in SUBSET T
          BY <2>2
        <5>2. W # T
          BY <3>4, PickIsIn
        <5> QED BY <5>1, <5>2, FS_Subset
      <4>2. IsSum(F, W, H(W))
        BY <2>4, <4>1
      <4>3. IsSum(F, W, [U \in SUBSET W |-> H(V)[U]])
        <5> HIDE DEF W
        <5> QED BY <3>1, <4>1, SumRestricted
      <4>4. H(W) = [U \in SUBSET W |-> H(V)[U]]
        <5> HIDE DEF W
        <5> QED BY <4>1, <4>2, <4>3, SumUnique
      <4>5. H(W)[W] = H(V)[W]
        BY <4>4
      <4> QED BY <3>2, <3>3, <3>4, <4>5
    <3> QED BY <3>2, <3>3, <3>4
  <2>6. \A U \in SUBSET T : U # {} =>
          k[U \ {Pick(U)}] = H(U \ {Pick(U)})[U \ {Pick(U)}]
    <3> HIDE DEF k, H
    <3> SUFFICES ASSUME NEW U \in SUBSET T, U # {}
                 PROVE  k[U \ {Pick(U)}] = H(U \ {Pick(U)})[U \ {Pick(U)}]
      OBVIOUS
    <3>1. U \ {Pick(U)} \in SUBSET T /\ U \ {Pick(U)} # T
      BY PickIsIn
    <3> QED BY <2>5, <3>1
  <2>7. k = [U \in SUBSET T |-> IF U = {} THEN 0 ELSE F[Pick(U)] + k[U \ {Pick(U)}]]
    <3>1. \A U \in SUBSET T :
            k[U] = IF U = {} THEN 0 ELSE F[Pick(U)] + k[U \ {Pick(U)}]
      <4>1. \A U \in SUBSET T :
              k[U] = IF U = {} THEN 0 ELSE F[Pick(U)] + H(U \ {Pick(U)})[U \ {Pick(U)}]
        OBVIOUS
      <4> HIDE DEF k, H
      <4> QED BY <2>6, <4>1
    <3>2. k = [U \in SUBSET T |-> k[U]]
      OBVIOUS
    <3> HIDE DEF k
    <3> QED BY <3>1, <3>2
  <2>8. IsSum(F, T, k)
    <3> HIDE DEF k
    <3> QED BY <2>7 DEF IsSum
  <2> QED BY <2>2, <2>8
<1>2. S \in SUBSET S
  OBVIOUS
<1> QED BY <1>1, <1>2

-----------------------------------------------------------------------------
(* Facts of sums                                                           *)

(* The sum is what the recursion gives for the whole set. *)
LEMMA TotalIs ==
  ASSUME NEW S, IsFiniteSet(S), NEW F, NEW h, IsSum(F, S, h)
  PROVE  Total(F, S) = h[S]
<1> DEFINE R(g) == [s \in SUBSET S |->
                      IF s = {} THEN 0
                      ELSE LET y == CHOOSE e \in s : TRUE IN F[y] + g[s \ {y}]]
<1>1. PICK g : g = CHOOSE k : k = R(k)
  OBVIOUS
<1>2. h = R(h)
  BY DEF IsSum, Pick
<1>3. g = R(g)
  BY <1>1, <1>2
<1>4. IsSum(F, S, g)
  BY <1>3 DEF IsSum, Pick
<1>5. g = h
  BY <1>4, SumUnique
<1>6. Total(F, S) = g[S]
  BY <1>1 DEF Total, MapThenSumSet, MapThenFoldSet
<1> QED BY <1>5, <1>6

(* Every subset of a finite set has its sum, by the recursion. *)
LEMMA TotalRecursion ==
  ASSUME NEW S, IsFiniteSet(S), NEW F
  PROVE  /\ Total(F, {}) = 0
         /\ \A T \in SUBSET S : T # {} =>
              Total(F, T) = F[Pick(T)] + Total(F, T \ {Pick(T)})
<1>1. PICK h : IsSum(F, S, h)
  BY SumExists
<1>2. ASSUME NEW T \in SUBSET S
      PROVE  Total(F, T) = h[T]
  <2> DEFINE k == [U \in SUBSET T |-> h[U]]
  <2>1. IsSum(F, T, k)
    BY <1>1, SumRestricted
  <2>2. IsFiniteSet(T)
    BY FS_Subset
  <2>3. k[T] = h[T]
    OBVIOUS
  <2> HIDE DEF k
  <2> QED BY <2>1, <2>2, <2>3, TotalIs
<1>3. \A T \in SUBSET S : h[T] = IF T = {} THEN 0 ELSE F[Pick(T)] + h[T \ {Pick(T)}]
  BY <1>1 DEF IsSum
<1>4. Total(F, {}) = 0
  BY <1>2, <1>3
<1>5. ASSUME NEW T \in SUBSET S, T # {}
      PROVE  Total(F, T) = F[Pick(T)] + Total(F, T \ {Pick(T)})
  <2>1. T \ {Pick(T)} \in SUBSET S
    OBVIOUS
  <2> QED BY <1>2, <1>3, <1>5, <2>1
<1> QED BY <1>4, <1>5

(* Functions that agree on a set have the same sum over it. *)
LEMMA TotalSame ==
  ASSUME NEW S, IsFiniteSet(S), NEW F, NEW G, \A x \in S : F[x] = G[x]
  PROVE  Total(F, S) = Total(G, S)
<1>1. PICK h : IsSum(F, S, h)
  BY SumExists
<1>2. \A T \in SUBSET S : T # {} => F[Pick(T)] = G[Pick(T)]
  BY PickIsIn
<1>3. IsSum(G, S, h)
  BY <1>1, <1>2 DEF IsSum
<1> QED BY <1>1, <1>3, TotalIs

(* Sums of integers are integers. *)
LEMMA TotalType ==
  ASSUME NEW S, IsFiniteSet(S), NEW F, \A x \in S : F[x] \in Int
  PROVE  Total(F, S) \in Int
<1> DEFINE D == {T \in SUBSET S : Total(F, T) \notin Int}
<1>1. ASSUME D # {} PROVE FALSE
  <2>1. PICK T \in D : \A U \in D : U \subseteq T => U = T
    <3>1. D \subseteq SUBSET S
      OBVIOUS
    <3> HIDE DEF D
    <3> QED BY <1>1, <3>1, LeastSubset
  <2>2. T \in SUBSET S /\ Total(F, T) \notin Int
    BY <2>1
  <2>3. T # {}
    BY <2>2, TotalRecursion
  <2>4. /\ Pick(T) \in T /\ F[Pick(T)] \in Int
        /\ T \ {Pick(T)} \in SUBSET S /\ T \ {Pick(T)} # T /\ T \ {Pick(T)} \subseteq T
    BY <2>2, <2>3, PickIsIn
  <2>5. Total(F, T \ {Pick(T)}) \in Int
    BY <2>1, <2>4
  <2>6. Total(F, T) = F[Pick(T)] + Total(F, T \ {Pick(T)})
    BY <2>2, <2>3, TotalRecursion
  <2> QED BY <2>2, <2>4, <2>5, <2>6
<1>2. S \in SUBSET S
  OBVIOUS
<1> QED BY <1>1, <1>2

(* Any element may be taken out of a sum. *)
LEMMA TotalTake ==
  ASSUME NEW S, IsFiniteSet(S), NEW F, \A x \in S : F[x] \in Int, NEW a \in S
  PROVE  Total(F, S) = F[a] + Total(F, S \ {a})
<1> DEFINE Bad(T) == \E x \in T : Total(F, T) # F[x] + Total(F, T \ {x})
           D == {T \in SUBSET S : Bad(T)}
<1>1. ASSUME D # {} PROVE FALSE
  <2>1. PICK T \in D : \A U \in D : U \subseteq T => U = T
    <3>1. D \subseteq SUBSET S
      OBVIOUS
    <3> HIDE DEF D
    <3> QED BY <1>1, <3>1, LeastSubset
  <2>2. T \in SUBSET S
    BY <2>1
  <2>3. PICK x \in T : Total(F, T) # F[x] + Total(F, T \ {x})
    BY <2>1
  <2>4. ASSUME NEW U \in SUBSET T, U # T, NEW y \in U
        PROVE  Total(F, U) = F[y] + Total(F, U \ {y})
    <3>1. U \in SUBSET S /\ U \notin D
      BY <2>1, <2>2, <2>4
    <3> QED BY <3>1
  <2> HIDE DEF D
  <2> DEFINE p == Pick(T)
  <2>5. p \in T
    BY <2>3, PickIsIn
  <2>6. Total(F, T) = F[p] + Total(F, T \ {p})
    BY <2>2, <2>3, TotalRecursion
  <2> HIDE DEF p
  <2>7. p # x
    BY <2>3, <2>6
  <2>8. Total(F, T \ {p}) = F[x] + Total(F, (T \ {p}) \ {x})
    <3>1. T \ {p} \in SUBSET T /\ T \ {p} # T /\ x \in T \ {p}
      BY <2>5, <2>7
    <3> QED BY <2>4, <3>1
  <2>9. Total(F, T \ {x}) = F[p] + Total(F, (T \ {x}) \ {p})
    <3>1. T \ {x} \in SUBSET T /\ T \ {x} # T /\ p \in T \ {x}
      BY <2>5, <2>7
    <3> QED BY <2>4, <3>1
  <2>10. (T \ {x}) \ {p} = (T \ {p}) \ {x}
    OBVIOUS
  <2>11. F[x] \in Int /\ F[p] \in Int /\ Total(F, (T \ {x}) \ {p}) \in Int
    <3>1. (T \ {x}) \ {p} \in SUBSET S
      BY <2>2
    <3>2. IsFiniteSet((T \ {x}) \ {p})
      BY <3>1, FS_Subset
    <3> QED BY <2>2, <2>5, <3>1, <3>2, TotalType
  <2>12. Total(F, T) = F[p] + (F[x] + Total(F, (T \ {x}) \ {p}))
    BY <2>6, <2>8, <2>10
  <2>13. F[x] + Total(F, T \ {x}) = F[x] + (F[p] + Total(F, (T \ {x}) \ {p}))
    BY <2>9
  <2>14. \A u, v, w \in Int : u + (v + w) = v + (u + w)
    OBVIOUS
  <2>15. Total(F, T) = F[x] + Total(F, T \ {x})
    BY <2>11, <2>12, <2>13, <2>14
  <2> QED BY <2>3, <2>15
<1>2. S \in SUBSET S
  OBVIOUS
<1> QED BY <1>1, <1>2

(* One element more. *)
LEMMA TotalAdd ==
  ASSUME NEW S, IsFiniteSet(S), NEW a, a \notin S, NEW F, \A x \in S \cup {a} : F[x] \in Int
  PROVE  Total(F, S \cup {a}) = Total(F, S) + F[a]
<1>1. IsFiniteSet(S \cup {a}) /\ a \in S \cup {a} /\ (S \cup {a}) \ {a} = S
  BY FS_AddElement
<1>2. Total(F, S \cup {a}) = F[a] + Total(F, S)
  BY <1>1, TotalTake
<1>3. F[a] \in Int /\ Total(F, S) \in Int
  BY TotalType
<1> QED BY <1>2, <1>3

(* A function that differs at one element. *)
LEMMA TotalExcept ==
  ASSUME NEW S, IsFiniteSet(S), NEW a \in S, NEW F, NEW G,
         \A x \in S : F[x] \in Int /\ G[x] \in Int,
         \A x \in S \ {a} : F[x] = G[x]
  PROVE  Total(G, S) = Total(F, S) + G[a] - F[a]
<1>1. IsFiniteSet(S \ {a})
  BY FS_RemoveElement
<1>2. Total(F, S) = F[a] + Total(F, S \ {a}) /\ Total(G, S) = G[a] + Total(G, S \ {a})
  BY TotalTake
<1>3. Total(F, S \ {a}) = Total(G, S \ {a}) /\ Total(F, S \ {a}) \in Int
  BY <1>1, TotalSame, TotalType
<1> QED BY <1>2, <1>3

(* Sums of larger values are larger, of natural numbers natural. *)
LEMMA TotalLeq ==
  ASSUME NEW S, IsFiniteSet(S), NEW F, NEW G,
         \A x \in S : F[x] \in Int /\ G[x] \in Int /\ F[x] <= G[x]
  PROVE  Total(F, S) <= Total(G, S)
<1> DEFINE D == {T \in SUBSET S : ~(Total(F, T) <= Total(G, T))}
<1>1. ASSUME D # {} PROVE FALSE
  <2>1. PICK T \in D : \A U \in D : U \subseteq T => U = T
    <3>1. D \subseteq SUBSET S
      OBVIOUS
    <3> HIDE DEF D
    <3> QED BY <1>1, <3>1, LeastSubset
  <2>2. T \in SUBSET S /\ ~(Total(F, T) <= Total(G, T))
    BY <2>1
  <2>3. T # {}
    <3>1. Total(F, {}) = 0 /\ Total(G, {}) = 0
      BY FS_EmptySet, TotalRecursion
    <3>2. 0 <= 0
      OBVIOUS
    <3> QED BY <2>2, <3>1, <3>2
  <2> DEFINE p == Pick(T)
  <2>4. /\ p \in T /\ F[p] \in Int /\ G[p] \in Int /\ F[p] <= G[p]
        /\ T \ {p} \in SUBSET S /\ T \ {p} # T /\ T \ {p} \subseteq T
    BY <2>2, <2>3, PickIsIn
  <2>5. Total(F, T) = F[p] + Total(F, T \ {p}) /\ Total(G, T) = G[p] + Total(G, T \ {p})
    BY <2>2, <2>3, TotalRecursion
  <2> HIDE DEF p
  <2>6. Total(F, T \ {p}) <= Total(G, T \ {p})
    BY <2>1, <2>4
  <2>7. Total(F, T \ {p}) \in Int /\ Total(G, T \ {p}) \in Int
    BY <2>4, FS_Subset, TotalType
  <2> QED BY <2>2, <2>4, <2>5, <2>6, <2>7
<1>2. S \in SUBSET S
  OBVIOUS
<1> QED BY <1>1, <1>2

(* A sum of natural numbers is one, and no less than one over a part. *)
LEMMA TotalNat ==
  ASSUME NEW S, IsFiniteSet(S), NEW F, \A x \in S : F[x] \in Nat
  PROVE  Total(F, S) \in Nat
<1> DEFINE Z == [x \in S |-> 0]
<1>1. \A x \in S : Z[x] \in Int /\ F[x] \in Int /\ Z[x] <= F[x]
  OBVIOUS
<1>2. Total(Z, S) <= Total(F, S)
  <2> HIDE DEF Z
  <2> QED BY <1>1, TotalLeq
<1>3. Total(Z, S) = 0
  <2> DEFINE D == {T \in SUBSET S : Total(Z, T) # 0}
  <2>1. ASSUME D # {} PROVE FALSE
    <3>1. PICK T \in D : \A U \in D : U \subseteq T => U = T
      <4>1. D \subseteq SUBSET S
        OBVIOUS
      <4> HIDE DEF D
      <4> QED BY <2>1, <4>1, LeastSubset
    <3>2. T \in SUBSET S /\ Total(Z, T) # 0
      BY <3>1
    <3> HIDE DEF Z
    <3>3. T # {}
      BY <3>2, TotalRecursion
    <3> DEFINE p == Pick(T)
    <3>4. p \in S /\ T \ {p} \in SUBSET S /\ T \ {p} # T /\ T \ {p} \subseteq T
      BY <3>2, <3>3, PickIsIn
    <3>5. Total(Z, T) = Z[p] + Total(Z, T \ {p})
      BY <3>2, <3>3, TotalRecursion
    <3>6. Z[p] = 0
      BY <3>4 DEF Z
    <3>7. Total(Z, T \ {p}) = 0
      BY <3>1, <3>4
    <3> QED BY <3>2, <3>5, <3>6, <3>7
  <2>2. S \in SUBSET S
    OBVIOUS
  <2> QED BY <2>1, <2>2
<1>4. Total(F, S) \in Int
  BY <1>1, TotalType
<1> QED BY <1>2, <1>3, <1>4

(* A finite set of numbers has a greatest one. *)
LEMMA GreatestNumber ==
  ASSUME NEW S, IsFiniteSet(S)
  PROVE  S \subseteq Nat /\ S # {} => \E n \in S : \A m \in S : m <= n
<1> DEFINE HasGreatest(A) == \E n \in A : \A m \in A : m <= n
           D == {T \in SUBSET S : T \subseteq Nat /\ T # {} /\ ~HasGreatest(T)}
<1>1. ASSUME D # {} PROVE FALSE
  <2>1. PICK T \in D : \A U \in D : U \subseteq T => U = T
    <3>1. D \subseteq SUBSET S /\ D # {}
      BY <1>1
    <3> HIDE DEF D
    <3> QED BY <3>1, LeastSubset
  <2>2. T \in SUBSET S /\ T \subseteq Nat /\ T # {} /\ ~HasGreatest(T)
    BY <2>1
  <2>3. PICK x \in T : TRUE
    BY <2>2
  <2>4. T \ {x} # {} /\ T \ {x} \in SUBSET S /\ T \ {x} \subseteq T /\ T \ {x} # T
    BY <2>2, <2>3
  <2>5. PICK n \in T \ {x} : \A m \in T \ {x} : m <= n
    <3>1. T \ {x} \notin D
      <4> HIDE DEF D
      <4> QED BY <2>1, <2>4
    <3> QED BY <2>2, <2>4, <3>1
  <2>6. CASE x <= n
    BY <2>2, <2>5, <2>6
  <2>7. CASE n <= x
    BY <2>2, <2>5, <2>7
  <2> QED BY <2>2, <2>5, <2>6, <2>7
<1> QED BY <1>1

(* The values of a function on a finite set. *)
LEMMA ImageFinite ==
  ASSUME NEW S, IsFiniteSet(S), NEW F
  PROVE  IsFiniteSet({F[x] : x \in S})
<1> DEFINE T == {F[x] : x \in S}
           G == [x \in S |-> F[x]]
<1>1. G \in Surjection(S, T)
  BY DEF Surjection
<1> HIDE DEF T, G
<1>2. IsFiniteSet(T)
  BY <1>1, FS_Surjection
<1> QED BY <1>2 DEF T

-----------------------------------------------------------------------------
(* Two parts, one part, parts of a product, parts of many kinds            *)

LEMMA TotalUnion ==
  ASSUME NEW S, IsFiniteSet(S), NEW T, IsFiniteSet(T), S \cap T = {},
         NEW F, \A x \in S \cup T : F[x] \in Int
  PROVE  Total(F, S \cup T) = Total(F, S) + Total(F, T)
<1> DEFINE D == {U \in SUBSET T : Total(F, S \cup U) # Total(F, S) + Total(F, U)}
<1>1. ASSUME D # {} PROVE FALSE
  <2>1. PICK U \in D : \A V \in D : V \subseteq U => V = U
    <3>1. D \subseteq SUBSET T
      OBVIOUS
    <3> HIDE DEF D
    <3> QED BY <1>1, <3>1, LeastSubset
  <2>2. U \in SUBSET T /\ Total(F, S \cup U) # Total(F, S) + Total(F, U)
    BY <2>1
  <2>3. Total(F, S) \in Int
    BY TotalType
  <2>4. U # {}
    <3>1. S \cup {} = S /\ Total(F, {}) = 0
      BY TotalRecursion
    <3>2. Total(F, S) = Total(F, S) + 0
      BY <2>3
    <3> QED BY <2>2, <3>1, <3>2
  <2>5. PICK a \in U : TRUE
    BY <2>4
  <2>6. U \ {a} \in SUBSET T /\ U \ {a} # U /\ U \ {a} \subseteq U
    BY <2>2, <2>5
  <2>7. Total(F, S \cup (U \ {a})) = Total(F, S) + Total(F, U \ {a})
    <3>1. U \ {a} \notin D
      <4> HIDE DEF D
      <4> QED BY <2>1, <2>6
    <3> QED BY <2>6, <3>1
  <2> HIDE DEF D
  <2>8. IsFiniteSet(U) /\ IsFiniteSet(S \cup U) /\ IsFiniteSet(U \ {a})
    BY <2>2, <2>6, FS_Subset, FS_Union
  <2>9. Total(F, U) = F[a] + Total(F, U \ {a})
    BY <2>2, <2>5, <2>8, TotalTake
  <2>10. Total(F, S \cup U) = F[a] + Total(F, S \cup (U \ {a}))
    <3>1. (S \cup U) \ {a} = S \cup (U \ {a}) /\ a \in S \cup U
      BY <2>2, <2>5
    <3>2. \A x \in S \cup U : F[x] \in Int
      BY <2>2
    <3> QED BY <2>8, <3>1, <3>2, TotalTake
  <2>11. F[a] \in Int /\ Total(F, U \ {a}) \in Int
    BY <2>2, <2>5, <2>8, TotalType
  <2> QED BY <2>2, <2>3, <2>7, <2>9, <2>10, <2>11
<1>2. T \in SUBSET T
  OBVIOUS
<1> QED BY <1>1, <1>2

LEMMA TotalPart ==
  ASSUME NEW S, IsFiniteSet(S), NEW T \in SUBSET S, NEW F, \A x \in S : F[x] \in Nat
  PROVE  Total(F, T) <= Total(F, S)
<1>1. IsFiniteSet(T) /\ IsFiniteSet(S \ T) /\ T \cap (S \ T) = {} /\ T \cup (S \ T) = S
  BY FS_Subset
<1>2. Total(F, S) = Total(F, T) + Total(F, S \ T)
  <2>1. \A x \in T \cup (S \ T) : F[x] \in Int
    OBVIOUS
  <2> QED BY <1>1, <2>1, TotalUnion
<1>3. Total(F, T) \in Nat /\ Total(F, S \ T) \in Nat
  BY <1>1, TotalNat
<1> QED BY <1>2, <1>3

LEMMA ProductOfSum ==
  ASSUME NEW a \in Int, NEW b \in Int, NEW c \in Int
  PROVE  (a + b) * c = a * c + b * c /\ c * (a + b) = c * a + c * b
  OBVIOUS

(* Money that moves between cash, profit and what is invested. *)
LEMMA ProductInt == \A m, n \in Int : m * n \in Int
  OBVIOUS

(* What holds of the products at each element holds of the sums. *)
LEMMA TotalProduct ==
  ASSUME NEW S, IsFiniteSet(S), NEW F, NEW G, NEW d \in Int, NEW k \in Int,
         \A x \in S : F[x] \in Int /\ G[x] \in Int /\ F[x] * d <= k * G[x]
  PROVE  Total(F, S) * d <= k * Total(G, S)
<1> DEFINE D == {T \in SUBSET S : ~(Total(F, T) * d <= k * Total(G, T))}
<1>1. ASSUME D # {} PROVE FALSE
  <2>1. PICK T \in D : \A U \in D : U \subseteq T => U = T
    <3>1. D \subseteq SUBSET S
      OBVIOUS
    <3> HIDE DEF D
    <3> QED BY <1>1, <3>1, LeastSubset
  <2>2. T \in SUBSET S /\ ~(Total(F, T) * d <= k * Total(G, T))
    BY <2>1
  <2>3. T # {}
    <3>1. Total(F, {}) = 0 /\ Total(G, {}) = 0
      BY FS_EmptySet, TotalRecursion
    <3>2. 0 * d <= k * 0
      OBVIOUS
    <3> QED BY <2>2, <3>1, <3>2
  <2> DEFINE p == Pick(T)
             R == T \ {p}
  <2>4. /\ p \in T /\ F[p] \in Int /\ G[p] \in Int /\ F[p] * d <= k * G[p]
        /\ R \in SUBSET S /\ R # T /\ R \subseteq T
    BY <2>2, <2>3, PickIsIn
  <2>5. Total(F, T) = F[p] + Total(F, R) /\ Total(G, T) = G[p] + Total(G, R)
    BY <2>2, <2>3, TotalRecursion
  <2>6. Total(F, R) * d <= k * Total(G, R)
    BY <2>1, <2>4
  <2>7. Total(F, R) \in Int /\ Total(G, R) \in Int
    BY <2>4, FS_Subset, TotalType
  <2>8. /\ Total(F, T) * d = F[p] * d + Total(F, R) * d
        /\ k * Total(G, T) = k * G[p] + k * Total(G, R)
    BY <2>4, <2>5, <2>7, ProductOfSum
  <2>9. /\ F[p] * d \in Int /\ Total(F, R) * d \in Int
        /\ k * G[p] \in Int /\ k * Total(G, R) \in Int
    BY <2>4, <2>7, ProductInt
  <2>10. \A u, v, w, z \in Int : u <= w /\ v <= z => u + v <= w + z
    OBVIOUS
  <2>11. Total(F, T) * d <= k * Total(G, T)
    <3> HIDE DEF p, R
    <3> QED BY <2>4, <2>6, <2>8, <2>9, <2>10
  <2> QED BY <2>2, <2>11
<1>2. S \in SUBSET S
  OBVIOUS
<1> QED BY <1>1, <1>2

(* Values that are larger by a little at most. *)
LEMMA TotalSlack ==
  ASSUME NEW S, IsFiniteSet(S), NEW F, NEW G, NEW k \in Nat,
         \A x \in S : F[x] \in Int /\ G[x] \in Int /\ F[x] <= G[x] + k
  PROVE  Total(F, S) <= Total(G, S) + k * Cardinality(S)
<1> DEFINE D == {T \in SUBSET S : ~(Total(F, T) <= Total(G, T) + k * Cardinality(T))}
<1>1. ASSUME D # {} PROVE FALSE
  <2>1. PICK T \in D : \A U \in D : U \subseteq T => U = T
    <3>1. D \subseteq SUBSET S
      OBVIOUS
    <3> HIDE DEF D
    <3> QED BY <1>1, <3>1, LeastSubset
  <2>2. T \in SUBSET S /\ ~(Total(F, T) <= Total(G, T) + k * Cardinality(T))
    BY <2>1
  <2>3. T # {}
    <3>1. Total(F, {}) = 0 /\ Total(G, {}) = 0 /\ Cardinality({}) = 0
      BY FS_EmptySet, TotalRecursion
    <3>2. 0 <= 0 + k * 0
      OBVIOUS
    <3> QED BY <2>2, <3>1, <3>2
  <2> DEFINE p == Pick(T)
             R == T \ {p}
  <2>4. /\ p \in T /\ F[p] \in Int /\ G[p] \in Int /\ F[p] <= G[p] + k
        /\ R \in SUBSET S /\ R # T /\ R \subseteq T
    BY <2>2, <2>3, PickIsIn
  <2>5. Total(F, T) = F[p] + Total(F, R) /\ Total(G, T) = G[p] + Total(G, R)
    BY <2>2, <2>3, TotalRecursion
  <2>6. Total(F, R) <= Total(G, R) + k * Cardinality(R)
    BY <2>1, <2>4
  <2>7. IsFiniteSet(R) /\ IsFiniteSet(T)
    BY <2>2, <2>4, FS_Subset
  <2>8. Total(F, R) \in Int /\ Total(G, R) \in Int
    BY <2>4, <2>7, TotalType
  <2>9. Cardinality(T) = Cardinality(R) + 1 /\ Cardinality(R) \in Nat
    <3>1. Cardinality(R) = Cardinality(T) - 1 /\ Cardinality(T) \in Nat /\ Cardinality(R) \in Nat
      BY <2>4, <2>7, FS_RemoveElement, FS_CardinalityType
    <3> QED BY <3>1
  <2>10. k * Cardinality(T) = k * Cardinality(R) + k
    <3> HIDE DEF R
    <3>1. \A n \in Nat : k * (n + 1) = k * n + k
      OBVIOUS
    <3> QED BY <2>9, <3>1
  <2>11. k * Cardinality(R) \in Int
    <3> HIDE DEF R
    <3> QED BY <2>9, ProductInt
  <2>12. Total(F, T) <= Total(G, T) + k * Cardinality(T)
    <3> HIDE DEF p, R
    <3> QED BY <2>4, <2>5, <2>6, <2>8, <2>10, <2>11
  <2> QED BY <2>2, <2>12
<1>2. S \in SUBSET S
  OBVIOUS
<1> QED BY <1>1, <1>2

LEMMA TotalZero ==
  ASSUME NEW S, IsFiniteSet(S), NEW F, \A x \in S : F[x] = 0
  PROVE  Total(F, S) = 0
<1>1. Total(F, S) * 1 <= 0 * Total(F, S)
  <2>1. \A x \in S : F[x] \in Int /\ F[x] * 1 <= 0 * F[x]
    OBVIOUS
  <2> QED BY <2>1, TotalProduct
<1>2. Total(F, S) \in Nat
  BY TotalNat
<1> QED BY <1>1, <1>2

(* Sums of sums: value by value, part by part, under other names. *)
LEMMA TotalOne ==
  ASSUME NEW a, NEW F, F[a] \in Int
  PROVE  Total(F, {a}) = F[a]
<1>1. IsFiniteSet({a}) /\ {a} \ {a} = {} /\ \A x \in {a} : F[x] \in Int
  BY FS_Singleton
<1>2. Total(F, {a}) = F[a] + Total(F, {a} \ {a})
  BY <1>1, TotalTake
<1>3. Total(F, {}) = 0
  BY <1>1, TotalRecursion
<1> QED BY <1>1, <1>2, <1>3

LEMMA TotalPlus ==
  ASSUME NEW S, IsFiniteSet(S), NEW F, NEW G, NEW H,
         \A x \in S : F[x] \in Int /\ G[x] \in Int /\ H[x] = F[x] + G[x]
  PROVE  Total(H, S) = Total(F, S) + Total(G, S)
<1> DEFINE D == {T \in SUBSET S : Total(H, T) # Total(F, T) + Total(G, T)}
<1>1. ASSUME D # {} PROVE FALSE
  <2>1. PICK T \in D : \A U \in D : U \subseteq T => U = T
    <3>1. D \subseteq SUBSET S
      OBVIOUS
    <3> HIDE DEF D
    <3> QED BY <1>1, <3>1, LeastSubset
  <2>2. T \in SUBSET S /\ Total(H, T) # Total(F, T) + Total(G, T)
    BY <2>1
  <2>3. T # {}
    <3>1. Total(F, {}) = 0 /\ Total(G, {}) = 0 /\ Total(H, {}) = 0
      BY FS_EmptySet, TotalRecursion
    <3>2. 0 = 0 + 0
      OBVIOUS
    <3> HIDE DEF D
    <3> QED BY <2>2, <3>1, <3>2, Zenon
  <2> DEFINE p == Pick(T)
             R == T \ {p}
  <2>4. /\ p \in T /\ F[p] \in Int /\ G[p] \in Int /\ H[p] = F[p] + G[p]
        /\ R \in SUBSET S /\ R # T /\ R \subseteq T
    BY <2>2, <2>3, PickIsIn
  <2>5. /\ Total(F, T) = F[p] + Total(F, R) /\ Total(G, T) = G[p] + Total(G, R)
        /\ Total(H, T) = H[p] + Total(H, R)
    BY <2>2, <2>3, TotalRecursion
  <2>6. Total(H, R) = Total(F, R) + Total(G, R)
    BY <2>1, <2>4
  <2>7. Total(F, R) \in Int /\ Total(G, R) \in Int
    BY <2>4, FS_Subset, TotalType
  <2> HIDE DEF p, R
  <2> QED BY <2>2, <2>4, <2>5, <2>6, <2>7
<1>2. S \in SUBSET S
  OBVIOUS
<1> QED BY <1>1, <1>2

LEMMA TotalParts ==
  ASSUME NEW I, IsFiniteSet(I), NEW S, IsFiniteSet(S), NEW F, \A x \in S : F[x] \in Int,
         NEW part, \A i \in I : part[i] \in SUBSET S,
         \A x \in S : \E i \in I : x \in part[i],
         \A i, j \in I : i # j => part[i] \cap part[j] = {},
         NEW G, \A i \in I : G[i] = Total(F, part[i])
  PROVE  Total(G, I) = Total(F, S)
<1> DEFINE All(J) == {x \in S : \E i \in J : x \in part[i]}
           D == {J \in SUBSET I : Total(G, J) # Total(F, All(J))}
<1>0. \A i \in I : IsFiniteSet(part[i]) /\ G[i] \in Int
  <2> TAKE i \in I
  <2>1. part[i] \in SUBSET S /\ G[i] = Total(F, part[i])
    OBVIOUS
  <2>2. IsFiniteSet(part[i])
    BY <2>1, FS_Subset
  <2>3. Total(F, part[i]) \in Int
    BY <2>1, <2>2, TotalType
  <2> QED BY <2>1, <2>2, <2>3
<1>1. ASSUME D # {} PROVE FALSE
  <2>1. PICK J \in D : \A U \in D : U \subseteq J => U = J
    <3>1. D \subseteq SUBSET I
      OBVIOUS
    <3> HIDE DEF D
    <3> QED BY <1>1, <3>1, LeastSubset
  <2>2. J \in SUBSET I /\ Total(G, J) # Total(F, All(J))
    BY <2>1
  <2>3. J # {}
    <3>1. All({}) = {}
      OBVIOUS
    <3>2. Total(F, {}) = 0 /\ Total(G, {}) = 0
      BY FS_EmptySet, TotalRecursion
    <3> QED BY <2>2, <3>1, <3>2
  <2> DEFINE p == Pick(J)
             R == J \ {p}
  <2>4. /\ p \in J /\ p \in I /\ R \in SUBSET I /\ R # J /\ R \subseteq J /\ p \notin R
    BY <2>2, <2>3, PickIsIn
  <2>5. Total(G, J) = G[p] + Total(G, R)
    BY <2>2, <2>3, TotalRecursion
  <2>6. Total(G, R) = Total(F, All(R))
    BY <2>1, <2>4
  <2> HIDE DEF p, D
  <2>7. /\ All(J) = All(R) \cup part[p] /\ All(R) \cap part[p] = {}
        /\ All(R) \in SUBSET S /\ part[p] \in SUBSET S
    <3>1. part[p] \in SUBSET S
      BY <2>4
    <3>2. \A i \in R : i \in I /\ i # p
      BY <2>4
    <3>3. All(R) \cap part[p] = {}
      BY <2>4, <3>2
    <3>4. J = R \cup {p}
      BY <2>4
    <3>5. All(J) = All(R) \cup part[p]
      <4> HIDE DEF R
      <4> QED BY <3>1, <3>4
    <3> QED BY <3>1, <3>3, <3>5
  <2> HIDE DEF All
  <2>8. Total(F, All(J)) = Total(F, All(R)) + Total(F, part[p])
    <3>1. IsFiniteSet(All(R)) /\ IsFiniteSet(part[p])
      BY <2>7, FS_Subset
    <3> DEFINE A == All(R)
               B == part[p]
    <3>2. \A x \in A \cup B : F[x] \in Int
      BY <2>7
    <3>3. A \cap B = {} /\ IsFiniteSet(A) /\ IsFiniteSet(B) /\ All(J) = A \cup B
      BY <2>7, <3>1
    <3> HIDE DEF A, B
    <3>4. Total(F, A \cup B) = Total(F, A) + Total(F, B)
      BY <3>2, <3>3, TotalUnion
    <3> QED BY <3>3, <3>4 DEF A, B
  <2>9. G[p] = Total(F, part[p]) /\ G[p] \in Int
    BY <1>0, <2>4
  <2>10. Total(G, R) \in Int
    <3>1. IsFiniteSet(R) /\ \A i \in R : G[i] \in Int
      BY <1>0, <2>4, FS_Subset
    <3> QED BY <3>1, TotalType
  <2> QED BY <2>2, <2>5, <2>6, <2>8, <2>9, <2>10
<1>2. I \in SUBSET I /\ All(I) = S
  OBVIOUS
<1>3. I \notin D
  BY <1>1
<1> QED
  <2> HIDE DEF All
  <2> QED BY <1>2, <1>3

LEMMA TotalRenamed ==
  ASSUME NEW I, IsFiniteSet(I), NEW h, \A i, j \in I : h[i] = h[j] => i = j,
         NEW F, NEW G, \A i \in I : G[i] = F[h[i]] /\ G[i] \in Int
  PROVE  Total(F, {h[i] : i \in I}) = Total(G, I)
<1> DEFINE S == {h[i] : i \in I}
           part == [i \in I |-> {h[i]}]
<1>1. IsFiniteSet(S)
  BY ImageFinite
<1>2. /\ \A x \in S : F[x] \in Int
      /\ \A i \in I : part[i] \in SUBSET S
      /\ \A x \in S : \E i \in I : x \in part[i]
      /\ \A i, j \in I : i # j => part[i] \cap part[j] = {}
  OBVIOUS
<1>3. ASSUME NEW i \in I PROVE G[i] = Total(F, part[i])
  <2>1. part[i] = {h[i]} /\ F[h[i]] \in Int
    OBVIOUS
  <2> QED BY <2>1, TotalOne
<1>4. Total(G, I) = Total(F, S)
  <2> HIDE DEF S, part
  <2> QED BY <1>1, <1>2, <1>3, TotalParts
<1> QED BY <1>4

(* A part that leaves out zeros only. *)
LEMMA TotalRest ==
  ASSUME NEW S, IsFiniteSet(S), NEW T \in SUBSET S, NEW F, \A x \in S : F[x] \in Int,
         \A x \in S \ T : F[x] = 0
  PROVE  Total(F, T) = Total(F, S)
<1>1. IsFiniteSet(T) /\ IsFiniteSet(S \ T) /\ T \cap (S \ T) = {} /\ T \cup (S \ T) = S
  BY FS_Subset
<1>2. Total(F, S) = Total(F, T) + Total(F, S \ T)
  <2>1. \A x \in T \cup (S \ T) : F[x] \in Int
    OBVIOUS
  <2> QED BY <1>1, <2>1, TotalUnion
<1>3. Total(F, S \ T) = 0 /\ Total(F, T) \in Int
  BY <1>1, TotalZero, TotalType
<1> QED BY <1>2, <1>3
=============================================================================
