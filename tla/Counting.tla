-------------------------------- MODULE Counting -------------------------------
(***************************************************************************)
(* Cardinalities that a step changes: of a set that one member enters or   *)
(* leaves, and of a family of sets, one for each thread, of which one      *)
(* changes.  The sum of the family is the cardinality of its pool.         *)
(***************************************************************************)
EXTENDS Integers, FiniteSets, FiniteSetTheorems, FunctionTheorems, TLAPS

\* The members of a family of sets, each with the index of its set.
Pool(I, S) == UNION {{w} \X S[w] : w \in I}

\* One member enters or leaves a finite set.
LEMMA MemberChange ==
  ASSUME NEW S, NEW T, IsFiniteSet(S), NEW w, S \ {w} = T \ {w}
  PROVE  /\ IsFiniteSet(T) /\ Cardinality(T) \in Nat /\ Cardinality(S) \in Nat
         /\ w \in S /\ w \notin T => Cardinality(T) = Cardinality(S) - 1
         /\ w \notin S /\ w \in T => Cardinality(T) = Cardinality(S) + 1
         /\ (w \in S <=> w \in T) => Cardinality(T) = Cardinality(S)
<1> DEFINE R == S \ {w}
<1>1. /\ IsFiniteSet(R)
      /\ Cardinality(R) = IF w \in S THEN Cardinality(S) - 1 ELSE Cardinality(S)
  BY FS_RemoveElement
<1>2. IsFiniteSet(T) /\ (w \in T => Cardinality(T) = Cardinality(R) + 1)
      /\ (w \notin T => T = R)
  <2>1. CASE w \in T
    <3>1. T = R \cup {w} /\ w \notin R
      BY <2>1
    <3> HIDE DEF R
    <3> QED BY <1>1, <2>1, <3>1, FS_AddElement
  <2>2. CASE w \notin T
    <3>1. T = R
      BY <2>2
    <3> HIDE DEF R
    <3> QED BY <1>1, <2>2, <3>1
  <2> QED BY <2>1, <2>2
<1>3. Cardinality(S) \in Nat /\ Cardinality(T) \in Nat /\ Cardinality(R) \in Nat
  BY <1>1, <1>2, FS_CardinalityType
<1> HIDE DEF R
<1> QED BY <1>1, <1>2, <1>3

\* A family's pool is finite.
LEMMA PoolFinite ==
  ASSUME NEW I, IsFiniteSet(I), NEW S, \A w \in I : IsFiniteSet(S[w])
  PROVE  IsFiniteSet(Pool(I, S)) /\ Cardinality(Pool(I, S)) \in Nat
<1> DEFINE T == {{w} \X S[w] : w \in I}
           f == [w \in I |-> {w} \X S[w]]
<1>1. f \in Surjection(I, T)
  <2>1. f \in [I -> T] /\ \A t \in T : \E w \in I : f[w] = t
    OBVIOUS
  <2> HIDE DEF f, T
  <2> QED BY <2>1, Fun_IsSurj
<1>2. IsFiniteSet(T)
  <2>1. IsFiniteSet(I)
    OBVIOUS
  <2> HIDE DEF f, T
  <2> QED BY <1>1, <2>1, FS_Surjection
<1>3. \A t \in T : IsFiniteSet(t)
  <2> TAKE t \in T
  <2>1. PICK w \in I : t = {w} \X S[w]
    OBVIOUS
  <2>2. IsFiniteSet({w}) /\ IsFiniteSet(S[w])
    BY FS_Singleton
  <2> QED BY <2>1, <2>2, FS_Product
<1>4. IsFiniteSet(UNION T)
  <2> HIDE DEF T
  <2> QED BY <1>2, <1>3, FS_UNION
<1>5. Pool(I, S) = UNION T
  BY DEF Pool
<1> QED BY <1>4, <1>5, FS_CardinalityType

\* It counts one member's set by itself.
LEMMA PoolSplit ==
  ASSUME NEW I, IsFiniteSet(I), NEW S, \A v \in I : IsFiniteSet(S[v]), NEW w \in I
  PROVE  LET R == UNION {{v} \X S[v] : v \in I \ {w}}
         IN  /\ Cardinality(R) \in Nat /\ Cardinality(S[w]) \in Nat
             /\ Cardinality(Pool(I, S)) = Cardinality(R) + Cardinality(S[w])
<1> DEFINE R == UNION {{v} \X S[v] : v \in I \ {w}}
           P == {w} \X S[w]
<1>1. IsFiniteSet(Pool(I, S)) /\ R \subseteq Pool(I, S) /\ P \subseteq Pool(I, S)
  BY PoolFinite DEF Pool
<1>2. IsFiniteSet(R) /\ IsFiniteSet(P)
  <2> HIDE DEF R, P
  <2> QED BY <1>1, FS_Subset
<1>3. R \cap P = {}
  OBVIOUS
<1>4. Pool(I, S) = R \cup P
  BY DEF Pool
<1>5. Cardinality(S[w]) \in Nat /\ Cardinality(R) \in Nat /\ Cardinality(P) \in Nat
  BY <1>2, FS_CardinalityType
<1>6. Cardinality(P) = Cardinality(S[w])
  <2>1. IsFiniteSet({w}) /\ Cardinality({w}) = 1
    BY FS_Singleton
  <2>2. Cardinality(P) = Cardinality({w}) * Cardinality(S[w])
    BY <2>1, FS_Product
  <2> HIDE DEF P
  <2> QED BY <1>5, <2>1, <2>2
<1>7. Cardinality(R \cup P) = Cardinality(R) + Cardinality(P) - Cardinality(R \cap P)
  <2> HIDE DEF R, P
  <2> QED BY <1>2, FS_Union
<1>8. Cardinality(R \cap P) = 0
  BY <1>3, FS_EmptySet
<1>9. Cardinality(Pool(I, S)) = Cardinality(R) + Cardinality(S[w])
  <2> HIDE DEF R, P
  <2> QED BY <1>4, <1>5, <1>6, <1>7, <1>8
<1> QED BY <1>5, <1>9

\* When one member's set changes, the pool changes by as much.
OneChanges(I, S, T, w) ==
  /\ IsFiniteSet(I) /\ w \in I
  /\ \A v \in I : IsFiniteSet(S[v]) /\ IsFiniteSet(T[v])
  /\ \A v \in I \ {w} : T[v] = S[v]

PoolMoves(I, S, T, w) ==
  /\ Cardinality(Pool(I, S)) \in Nat /\ Cardinality(Pool(I, T)) \in Nat
  /\ Cardinality(S[w]) \in Nat /\ Cardinality(T[w]) \in Nat
  /\ Cardinality(S[w]) <= Cardinality(Pool(I, S))
  /\ Cardinality(Pool(I, T)) = Cardinality(Pool(I, S)) - Cardinality(S[w]) + Cardinality(T[w])

\* The pool after one of its sets has changed.
LEMMA PoolChange ==
  ASSUME NEW I, NEW S, NEW T, NEW w, OneChanges(I, S, T, w)
  PROVE  PoolMoves(I, S, T, w)
<1> USE DEF OneChanges
<1> DEFINE R == UNION {{v} \X S[v] : v \in I \ {w}}
           Q == UNION {{v} \X T[v] : v \in I \ {w}}
<1>1. R = Q
  <2>1. {{v} \X S[v] : v \in I \ {w}} = {{v} \X T[v] : v \in I \ {w}}
    OBVIOUS
  <2> QED BY <2>1
<1>2. /\ Cardinality(R) \in Nat /\ Cardinality(S[w]) \in Nat
      /\ Cardinality(Pool(I, S)) = Cardinality(R) + Cardinality(S[w])
  BY PoolSplit
<1>3. /\ Cardinality(Q) \in Nat /\ Cardinality(T[w]) \in Nat
      /\ Cardinality(Pool(I, T)) = Cardinality(Q) + Cardinality(T[w])
  BY PoolSplit
<1> HIDE DEF R, Q
<1> QED BY <1>1, <1>2, <1>3 DEF PoolMoves

\* A pool that counts nothing has only empty sets.
LEMMA PoolEmpty ==
  ASSUME NEW I, IsFiniteSet(I), NEW S, \A v \in I : IsFiniteSet(S[v]), Cardinality(Pool(I, S)) = 0
  PROVE  \A v \in I : S[v] = {}
<1>1. Pool(I, S) = {}
  BY PoolFinite, FS_EmptySet
<1>2. ASSUME NEW v \in I, NEW x \in S[v]
      PROVE  FALSE
  <2>1. <<v, x>> \in {v} \X S[v]
    OBVIOUS
  <2>2. <<v, x>> \in Pool(I, S)
    BY <2>1 DEF Pool
  <2> QED BY <1>1, <2>2
<1> QED BY <1>2

\* The interval that stands for n.
LEMMA IntervalSize ==
  ASSUME NEW n \in Nat
  PROVE  IsFiniteSet(1 .. n) /\ Cardinality(1 .. n) = n
<1>1. IsFiniteSet(1 .. n) /\ Cardinality(1 .. n) = IF 1 > n THEN 0 ELSE n - 1 + 1
  BY FS_Interval
<1> QED BY <1>1

================================================================================
