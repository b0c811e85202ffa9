----------------------------- MODULE DataProofs -----------------------------
(***************************************************************************)
(* Lemmas about data of any size: what is picked from a list keeps its     *)
(* order, what the Redis commands return and preserve, sums over finite    *)
(* sets and over the groups they are divided into, and counting.           *)
(***************************************************************************)
EXTENDS RedisList, Integers, FiniteSetsExt, FiniteSetTheorems, SequenceTheorems, TLAPS

-----------------------------------------------------------------------------
(* Lists *)

\* The ranks of the members of a finite set of numbers are a bijection onto
\* 1..n, so each has its place, and the order is theirs.
LEMMA NthProperties ==
  ASSUME NEW S \in SUBSET Nat, IsFiniteSet(S)
  PROVE  /\ Cardinality(S) \in Nat
         /\ \A r \in 1..Cardinality(S) : Nth(S, r) \in S
         /\ \A k \in S : \E r \in 1..Cardinality(S) : Nth(S, r) = k
         /\ \A q, r \in 1..Cardinality(S) : q < r => Nth(S, q) < Nth(S, r)
<1> DEFINE upTo(k) == {m \in S : m =< k}
           n == Cardinality(S)
           rank == [k \in S |-> Cardinality(upTo(k))]
<1>0. \A k \in S : k \in Nat
  OBVIOUS
<1>1. n \in Nat
  BY FS_CardinalityType
<1>2. ASSUME NEW k \in S
      PROVE  IsFiniteSet(upTo(k)) /\ Cardinality(upTo(k)) \in 1..n
  <2>1. IsFiniteSet(upTo(k)) /\ Cardinality(upTo(k)) =< n
    BY FS_Subset, upTo(k) \in SUBSET S
  <2>2. Cardinality(upTo(k)) # 0
    BY <2>1, FS_EmptySet, k \in upTo(k)
  <2> QED
    BY <1>1, <2>1, <2>2, FS_CardinalityType
<1>3. ASSUME NEW k \in S, NEW m \in S, k < m
      PROVE  Cardinality(upTo(k)) < Cardinality(upTo(m))
  <2>1. k \in Nat /\ m \in Nat
    BY <1>0
  <2>3. m \in upTo(m) /\ m \notin upTo(k)
    BY <1>3, <2>1
  <2>4. upTo(k) \in SUBSET upTo(m)
    <3>1. ASSUME NEW x \in Nat, x =< k PROVE x =< m
      BY <1>3, <2>1, <3>1
    <3> QED
      BY <1>0, <3>1
  <2>2. Cardinality(upTo(k)) =< Cardinality(upTo(m))
        /\ Cardinality(upTo(k)) # Cardinality(upTo(m))
    BY <1>2, <2>3, <2>4, FS_Subset
  <2> QED
    BY <1>2, <2>2
<1>4. ASSUME NEW k \in S, NEW m \in S, k # m
      PROVE  Cardinality(upTo(k)) # Cardinality(upTo(m))
  BY <1>0, <1>2, <1>3, <1>4, k < m \/ m < k
<1>5. Nth(S, 0) = Nth(S, 0) /\ \A r : Nth(S, r) = CHOOSE k \in S : Cardinality(upTo(k)) = r
  BY DEF Nth
<1> HIDE DEF upTo
<1>6. rank \in Injection(S, 1..n)
  BY <1>2, <1>4 DEF Injection, IsInjective
<1>7. rank \in Surjection(S, 1..n)
  <2>1. IsFiniteSet(1..n) /\ Cardinality(1..n) = n
    BY <1>1, FS_Interval
  <2> QED
    BY <1>6, <2>1, FS_Injection
<1>8. ASSUME NEW r \in 1..n
      PROVE  Nth(S, r) \in S /\ Cardinality(upTo(Nth(S, r))) = r
  <2>1. \E k \in S : Cardinality(upTo(k)) = r
    BY <1>7 DEF Surjection
  <2> QED
    BY <1>5, <2>1
<1>9. ASSUME NEW k \in S PROVE \E r \in 1..n : Nth(S, r) = k
  <2>1. Cardinality(upTo(k)) \in 1..n
    BY <1>2
  <2> QED
    BY <1>4, <1>8, <2>1
<1>10. ASSUME NEW q \in 1..n, NEW r \in 1..n, q < r
       PROVE  Nth(S, q) < Nth(S, r)
  <2>1. CASE Nth(S, r) < Nth(S, q)
    <3>1. Cardinality(upTo(Nth(S, r))) < Cardinality(upTo(Nth(S, q)))
      BY <1>3, <1>8, <2>1
    <3> QED
      BY <1>8, <1>10, <3>1
  <2>2. CASE Nth(S, r) = Nth(S, q)
    BY <1>8, <1>10, <2>2
  <2>3. Nth(S, q) \in Nat /\ Nth(S, r) \in Nat
    BY <1>0, <1>8
  <2> QED
    BY <2>1, <2>2, <2>3
<1> QED
  BY <1>1, <1>8, <1>9, <1>10

LEMMA PickedProperties ==
  ASSUME NEW T, NEW s \in Seq(T), NEW K \in SUBSET DOMAIN s
  PROVE  /\ Picked(s, K) \in Seq(T)
         /\ IsFiniteSet(K) /\ Cardinality(K) \in Nat
         /\ Len(Picked(s, K)) = Cardinality(K) /\ DOMAIN Picked(s, K) = 1..Cardinality(K)
         /\ \A n \in 1..Cardinality(K) : Nth(K, n) \in K /\ Picked(s, K)[n] = s[Nth(K, n)]
         /\ \A k \in K : \E n \in 1..Cardinality(K) : Picked(s, K)[n] = s[k]
<1>1. DOMAIN s = 1..Len(s) /\ Len(s) \in Nat /\ \A k \in 1..Len(s) : s[k] \in T
  BY LenProperties, ElementOfSeq
<1>2. K \in SUBSET Nat /\ IsFiniteSet(K)
  <2>1. IsFiniteSet(1..Len(s)) /\ K \subseteq 1..Len(s)
    BY <1>1, FS_Interval
  <2> QED
    BY <2>1, FS_Subset
<1> DEFINE n == Cardinality(K)
<1>3. n \in Nat /\ (\A r \in 1..n : Nth(K, r) \in K) /\ \A k \in K : \E r \in 1..n : Nth(K, r) = k
  BY <1>2, NthProperties
<1>4. Picked(s, K) = [r \in 1..n |-> s[Nth(K, r)]]
  BY DEF Picked
<1> HIDE DEF n
<1>5. Picked(s, K) \in [1..n -> T]
  BY <1>1, <1>3, <1>4
<1>6. Picked(s, K) \in Seq(T) /\ Len(Picked(s, K)) = n
  BY <1>3, <1>5
<1> QED
  BY <1>2, <1>3, <1>4, <1>6 DEF n

LEMMA FirstNumbers == \A n \in Nat : IsFiniteSet(1..n) /\ Cardinality(1..n) = n
BY FS_Interval

\* Nothing is picked, or all.
LEMMA PickedNone == \A s : Picked(s, {}) = <<>>
<1>1. Cardinality({}) = 0
  BY FS_EmptySet
<1> QED
  BY <1>1 DEF Picked

LEMMA PickedAll ==
  ASSUME NEW T, NEW s \in Seq(T)
  PROVE  Picked(s, DOMAIN s) = s
<1> DEFINE n == Len(s)
<1>1. n \in Nat /\ DOMAIN s = 1..n /\ s = [k \in 1..n |-> s[k]]
  BY LenProperties
<1> HIDE DEF n
<1>2. IsFiniteSet(1..n) /\ Cardinality(1..n) = n
  BY <1>1, FirstNumbers
<1>3. ASSUME NEW r \in 1..n PROVE Nth(1..n, r) = r
  <2> DEFINE upTo(k) == {m \in 1..n : m =< k}
  <2>1. ASSUME NEW k \in 1..n PROVE Cardinality(upTo(k)) = k
    <3>1. upTo(k) = 1..k
      BY <1>1
    <3>2. k \in Nat
      BY <1>1
    <3> QED
      BY <3>1, <3>2, FirstNumbers
  <2>2. Nth(1..n, r) = CHOOSE k \in 1..n : Cardinality(upTo(k)) = r
    BY DEF Nth
  <2> HIDE DEF upTo
  <2> QED
    BY <2>1, <2>2
<1> QED
  BY <1>1, <1>2, <1>3 DEF Picked

-----------------------------------------------------------------------------
(* The commands on a Redis list *)

LEMMA ElementsType ==
  ASSUME NEW S, NEW list \in Seq(S)
  PROVE  Elements(list) \subseteq S
BY DEF Elements

LEMMA LPushProperties ==
  ASSUME NEW S, NEW list \in Seq(S), NEW e \in S
  PROVE  /\ LPush(list, e) \in Seq(S)
         /\ Elements(LPush(list, e)) = Elements(list) \cup {e}
<1>1. LPush(list, e) \in Seq(S) /\ Len(LPush(list, e)) = Len(list) + 1
  BY DEF LPush
<1>2. \A k \in 1..Len(list) + 1 :
        LPush(list, e)[k] = IF k = 1 THEN e ELSE list[k - 1]
  BY DEF LPush
<1>3. ASSUME NEW x \in Elements(list) PROVE x \in Elements(LPush(list, e))
  <2>1. PICK k \in 1..Len(list) : x = list[k]
    BY DEF Elements
  <2>2. k + 1 \in 1..Len(list) + 1 /\ LPush(list, e)[k + 1] = list[k]
    BY <1>2, <2>1
  <2> QED
    BY <1>1, <2>1, <2>2 DEF Elements
<1>4. e \in Elements(LPush(list, e))
  BY <1>1, <1>2, 1 \in 1..Len(list) + 1 DEF Elements
<1>5. ASSUME NEW x \in Elements(LPush(list, e))
      PROVE  x \in Elements(list) \cup {e}
  <2>1. PICK k \in 1..Len(list) + 1 : x = LPush(list, e)[k]
    BY <1>1 DEF Elements
  <2>2. k # 1 => k - 1 \in 1..Len(list)
    OBVIOUS
  <2> QED
    BY <1>2, <2>1, <2>2 DEF Elements
<1> QED
  BY <1>1, <1>3, <1>4, <1>5

LEMMA RPushProperties ==
  ASSUME NEW S, NEW list \in Seq(S), NEW e \in S
  PROVE  /\ RPush(list, e) \in Seq(S)
         /\ Elements(RPush(list, e)) = Elements(list) \cup {e}
<1>1. /\ RPush(list, e) \in Seq(S)
      /\ Len(RPush(list, e)) = Len(list) + 1
      /\ \A k \in 1..Len(list) : RPush(list, e)[k] = list[k]
      /\ RPush(list, e)[Len(list) + 1] = e
  BY DEF RPush
<1>2. 1..Len(RPush(list, e)) = (1..Len(list)) \cup {Len(list) + 1}
  BY <1>1
<1> QED
  BY <1>1, <1>2 DEF Elements

LEMMA PopProperties ==
  ASSUME NEW S, NEW list \in Seq(S), list # <<>>
  PROVE  /\ Rightmost(list) \in S
         /\ ButRightmost(list) \in Seq(S)
         /\ Elements(list) = Elements(ButRightmost(list)) \cup {Rightmost(list)}
<1>1. Len(list) \in Nat /\ Len(list) # 0
  OBVIOUS
<1>2. /\ ButRightmost(list) \in Seq(S)
      /\ Len(ButRightmost(list)) = Len(list) - 1
      /\ \A k \in 1..Len(list) - 1 : ButRightmost(list)[k] = list[k]
  <2> DEFINE m == Len(list) - 1
  <2>1. m \in Nat /\ \A k \in 1..m : list[k] \in S
    BY <1>1
  <2> HIDE DEF m
  <2>2. /\ SubSeq(list, 1, m) \in Seq(S)
        /\ Len(SubSeq(list, 1, m)) = IF 1 =< m THEN m - 1 + 1 ELSE 0
        /\ \A k \in 1..m - 1 + 1 : SubSeq(list, 1, m)[k] = list[1 + k - 1]
    BY <2>1, SubSeqProperties
  <2>3. m - 1 + 1 = m /\ \A k \in 1..m : 1 + k - 1 = k
    BY <2>1
  <2>4. /\ Len(SubSeq(list, 1, m)) = m
        /\ \A k \in 1..m : SubSeq(list, 1, m)[k] = list[k]
    BY <2>1, <2>2, <2>3
  <2> QED
    BY <2>2, <2>4 DEF ButRightmost, m
<1>3. 1..Len(list) = (1..Len(list) - 1) \cup {Len(list)}
  BY <1>1
<1> QED
  BY <1>1, <1>2, <1>3 DEF Elements, Rightmost

\* LREM leaves exactly the other members.
LEMMA LRemProperties ==
  ASSUME NEW S, NEW list \in Seq(S), NEW e
  PROVE  /\ LRem(list, e) \in Seq(S)
         /\ Elements(LRem(list, e)) = Elements(list) \ {e}
<1> DEFINE keep == {k \in DOMAIN list : list[k] # e}
<1>1. LRem(list, e) = Picked(list, keep)
  BY DEF LRem, Those
<1>2. DOMAIN list = 1..Len(list)
  BY LenProperties
<1>3. keep \in SUBSET DOMAIN list /\ (\A k \in keep : list[k] # e)
      /\ \A k \in DOMAIN list \ keep : list[k] = e
  OBVIOUS
<1> HIDE DEF keep
<1>4. /\ Picked(list, keep) \in Seq(S)
      /\ Len(Picked(list, keep)) = Cardinality(keep)
      /\ \A n \in 1..Cardinality(keep) :
           Nth(keep, n) \in keep /\ Picked(list, keep)[n] = list[Nth(keep, n)]
      /\ \A k \in keep : \E n \in 1..Cardinality(keep) : Picked(list, keep)[n] = list[k]
  BY <1>3, PickedProperties
<1>5. ASSUME NEW x \in Elements(list), x # e PROVE x \in Elements(LRem(list, e))
  <2>1. PICK k \in DOMAIN list : x = list[k]
    BY <1>2 DEF Elements
  <2>2. k \in keep
    BY <1>3, <1>5, <2>1
  <2> QED
    BY <1>1, <1>4, <2>1, <2>2 DEF Elements
<1>6. ASSUME NEW x \in Elements(LRem(list, e)) PROVE x \in Elements(list) /\ x # e
  BY <1>1, <1>2, <1>3, <1>4 DEF Elements
<1> QED
  BY <1>1, <1>4, <1>5, <1>6

-----------------------------------------------------------------------------
(* Sums over a finite set.  FoldFunctionOnSet recurses over the subsets of  *)
(* its set, so the lemmas argue by a smallest subset that breaks them: there *)
(* is one, because strict inclusion is well-founded on finite sets.         *)

Element(s) == CHOOSE x \in s : TRUE

\* h is the fold that adds up the values of a function on each subset of S.
Adds(h, fun, S) ==
  h = [s \in SUBSET S |-> IF s = {} THEN 0 ELSE fun[Element(s)] + h[s \ {Element(s)}]]

LEMMA ElementIn == \A s : s # {} => Element(s) \in s
BY DEF Element

LEMMA Smallest ==
  ASSUME NEW S, IsFiniteSet(S), NEW B, B \subseteq SUBSET S, B # {}
  PROVE  \E T \in B : \A U \in B : U \subseteq T => U = T
<1>1. IsWellFoundedOn(StrictSubsetOrdering(S), SUBSET S)
  BY FS_StrictSubsetOrderingWellFounded, FS_FiniteSubsetsOfFinite
<1>2. PICK T \in B : \A U \in B : <<U, T>> \notin StrictSubsetOrdering(S)
  BY <1>1, WFMin
<1> QED
  BY <1>2 DEF StrictSubsetOrdering

LEMMA AddsAgree ==
  ASSUME NEW S, IsFiniteSet(S), NEW fun, NEW T, NEW U, T \subseteq S, U \subseteq S,
         NEW g, NEW h, Adds(g, fun, T), Adds(h, fun, U)
  PROVE  \A s \in SUBSET (T \cap U) : g[s] = h[s]
<1> DEFINE B == {s \in SUBSET (T \cap U) : g[s] # h[s]}
<1> SUFFICES ASSUME B # {} PROVE FALSE
  OBVIOUS
<1>1. PICK s \in B : \A u \in B : u \subseteq s => u = s
  <2>1. B \subseteq SUBSET S
    OBVIOUS
  <2> HIDE DEF B
  <2> QED
    BY <2>1, Smallest
<1>2. s # {}
  BY DEF Adds
<1>3. Element(s) \in s
  BY <1>2, ElementIn
<1>4. s \ {Element(s)} \notin B /\ s \ {Element(s)} \in SUBSET (T \cap U)
  BY <1>1, <1>3
<1>5. g[s \ {Element(s)}] = h[s \ {Element(s)}]
  BY <1>4
<1> QED
  BY <1>2, <1>5 DEF Adds

LEMMA AddsExists ==
  ASSUME NEW S, IsFiniteSet(S), NEW fun
  PROVE  \E h : Adds(h, fun, S)
<1> DEFINE Has(T) == \E h : Adds(h, fun, T)
           B == {T \in SUBSET S : ~Has(T)}
<1> SUFFICES ASSUME B # {} PROVE FALSE
  BY S \in SUBSET S
<1>1. PICK T \in B : \A U \in B : U \subseteq T => U = T
  <2>1. B \subseteq SUBSET S
    OBVIOUS
  <2> HIDE DEF B
  <2> QED
    BY <2>1, Smallest
<1> DEFINE G(U) == CHOOSE h : Adds(h, fun, U)
           last == fun[Element(T)] + G(T \ {Element(T)})[T \ {Element(T)}]
           g == [s \in SUBSET T |-> IF s = {} THEN 0 ELSE IF s = T THEN last ELSE G(s)[s]]
<1>2. \A U \in SUBSET T : U # T => Adds(G(U), fun, U)
  <2> SUFFICES ASSUME NEW U \in SUBSET T, U # T PROVE \E h : Adds(h, fun, U)
    OBVIOUS
  <2> QED
    BY <1>1
<1> HIDE DEF G
<1>3. ASSUME NEW s \in SUBSET T, s # {}
      PROVE  g[s] = fun[Element(s)] + g[s \ {Element(s)}]
  <2> DEFINE r == s \ {Element(s)}
  <2>1. Element(s) \in s /\ r \in SUBSET T /\ r # T /\ r \subseteq s
    BY <1>3, ElementIn
  <2>2. Adds(G(r), fun, r)
    BY <1>2, <2>1
  <2>3. g[r] = G(r)[r]
    <3>1. CASE r = {}
      <4>1. G(r)[r] = 0
        BY <2>2, <3>1 DEF Adds
      <4> QED
        BY <3>1, <2>1, <4>1
    <3>2. CASE r # {}
      BY <2>1, <3>2
    <3> QED
      BY <3>1, <3>2
  <2>4. CASE s = T
    BY <1>3, <2>3, <2>4
  <2>5. CASE s # T
    <3>1. Adds(G(s), fun, s)
      BY <1>2, <2>5
    <3>2. G(s)[s] = fun[Element(s)] + G(s)[r]
      BY <1>3, <3>1 DEF Adds
    <3>3. G(s)[r] = G(r)[r]
      <4>1. r \in SUBSET (s \cap r) /\ s \subseteq S /\ r \subseteq S
        BY <2>1
      <4> QED
        BY <2>2, <3>1, <4>1, AddsAgree
    <3>4. g[s] = G(s)[s]
      BY <1>3, <2>5
    <3> QED
      BY <2>3, <3>2, <3>3, <3>4
  <2> QED
    BY <2>4, <2>5
<1>4. g[{}] = 0
  OBVIOUS
<1>5. Adds(g, fun, T)
  <2>1. g = [s \in SUBSET T |-> g[s]]
    OBVIOUS
  <2> HIDE DEF g
  <2>2. \A s \in SUBSET T : g[s] = IF s = {} THEN 0 ELSE fun[Element(s)] + g[s \ {Element(s)}]
    BY <1>3, <1>4
  <2> QED
    BY <2>1, <2>2 DEF Adds
<1> QED
  BY <1>1, <1>5

LEMMA SumAdds ==
  ASSUME NEW S, IsFiniteSet(S), NEW fun
  PROVE  \E h : Adds(h, fun, S) /\ SumFunctionOnSet(fun, S) = h[S]
<1> DEFINE h == CHOOSE i : Adds(i, fun, S)
<1>1. Adds(h, fun, S)
  BY AddsExists
<1>2. SumFunctionOnSet(fun, S) = h[S]
  BY DEF SumFunctionOnSet, FoldFunctionOnSet, MapThenFoldSet, Adds, Element
<1> QED
  BY <1>1, <1>2

\* A sum of natural numbers is one.
LEMMA SumType ==
  ASSUME NEW S, IsFiniteSet(S), NEW fun, \A x \in S : fun[x] \in Nat
  PROVE  SumFunctionOnSet(fun, S) \in Nat
<1>1. PICK h : Adds(h, fun, S) /\ SumFunctionOnSet(fun, S) = h[S]
  BY SumAdds
<1> DEFINE B == {s \in SUBSET S : h[s] \notin Nat}
<1> SUFFICES ASSUME B # {} PROVE FALSE
  BY <1>1, S \in SUBSET S
<1>2. PICK s \in B : \A u \in B : u \subseteq s => u = s
  <2>1. B \subseteq SUBSET S
    OBVIOUS
  <2> HIDE DEF B
  <2> QED
    BY <2>1, Smallest
<1>3. s # {}
  BY <1>1 DEF Adds
<1>4. Element(s) \in s
  BY <1>3, ElementIn
<1>5. h[s \ {Element(s)}] \in Nat
  BY <1>2, <1>4
<1>6. h[s] = fun[Element(s)] + h[s \ {Element(s)}]
  BY <1>1, <1>3 DEF Adds
<1> QED
  BY <1>4, <1>5, <1>6

LEMMA SumIntType ==
  ASSUME NEW S, IsFiniteSet(S), NEW fun, \A x \in S : fun[x] \in Int
  PROVE  SumFunctionOnSet(fun, S) \in Int
<1>1. PICK h : Adds(h, fun, S) /\ SumFunctionOnSet(fun, S) = h[S]
  BY SumAdds
<1> DEFINE B == {s \in SUBSET S : h[s] \notin Int}
<1> SUFFICES ASSUME B # {} PROVE FALSE
  BY <1>1, S \in SUBSET S
<1>2. PICK s \in B : \A u \in B : u \subseteq s => u = s
  <2>1. B \subseteq SUBSET S
    OBVIOUS
  <2> HIDE DEF B
  <2> QED
    BY <2>1, Smallest
<1>3. s # {}
  BY <1>1 DEF Adds
<1>4. Element(s) \in s
  BY <1>3, ElementIn
<1>5. h[s \ {Element(s)}] \in Int
  BY <1>2, <1>4
<1>6. h[s] = fun[Element(s)] + h[s \ {Element(s)}]
  BY <1>1, <1>3 DEF Adds
<1> QED
  BY <1>4, <1>5, <1>6

\* One summand changes.
LEMMA SumChanges ==
  ASSUME NEW S, IsFiniteSet(S), NEW fun, NEW gun, NEW i \in S,
         \A x \in S : fun[x] \in Int /\ gun[x] \in Int,
         \A x \in S \ {i} : gun[x] = fun[x]
  PROVE  SumFunctionOnSet(gun, S) = SumFunctionOnSet(fun, S) + gun[i] - fun[i]
<1>1. PICK h : Adds(h, fun, S) /\ SumFunctionOnSet(fun, S) = h[S]
  BY SumAdds
<1>2. PICK g : Adds(g, gun, S) /\ SumFunctionOnSet(gun, S) = g[S]
  BY SumAdds
<1> DEFINE Differ(s) == IF i \in s THEN gun[i] - fun[i] ELSE 0
           B == {s \in SUBSET S : ~(h[s] \in Int /\ g[s] = h[s] + Differ(s))}
<1> SUFFICES ASSUME B # {} PROVE FALSE
  <2>1. h[S] \in Int /\ g[S] = h[S] + Differ(S)
    BY S \in SUBSET S
  <2> QED
    BY <1>1, <1>2, <2>1
<1>3. PICK s \in B : \A u \in B : u \subseteq s => u = s
  <2>1. B \subseteq SUBSET S
    OBVIOUS
  <2> HIDE DEF B
  <2> QED
    BY <2>1, Smallest
<1>4. s # {}
  BY <1>1, <1>2 DEF Adds
<1> DEFINE x == Element(s)
           r == s \ {x}
<1>5. x \in s /\ x \in S /\ r \in SUBSET S
  BY <1>4, ElementIn
<1>6. h[r] \in Int /\ g[r] = h[r] + Differ(r)
  BY <1>3, <1>5
<1>7. h[s] = fun[x] + h[r] /\ g[s] = gun[x] + g[r]
  BY <1>1, <1>2, <1>4 DEF Adds
<1> HIDE DEF x
<1>8. Differ(s) \in Int /\ gun[x] + Differ(r) = fun[x] + Differ(s) /\ Differ(r) \in Int
  BY <1>5
<1> QED
  BY <1>5, <1>6, <1>7, <1>8

\* Only zeros.
LEMMA SumZero ==
  ASSUME NEW S, IsFiniteSet(S), NEW fun, \A x \in S : fun[x] = 0
  PROVE  SumFunctionOnSet(fun, S) = 0
<1>1. PICK h : Adds(h, fun, S) /\ SumFunctionOnSet(fun, S) = h[S]
  BY SumAdds
<1> DEFINE B == {s \in SUBSET S : h[s] # 0}
<1> SUFFICES ASSUME B # {} PROVE FALSE
  BY <1>1, S \in SUBSET S
<1>2. PICK s \in B : \A u \in B : u \subseteq s => u = s
  <2>1. B \subseteq SUBSET S
    OBVIOUS
  <2> HIDE DEF B
  <2> QED
    BY <2>1, Smallest
<1>3. s # {}
  BY <1>1 DEF Adds
<1>4. Element(s) \in s
  BY <1>3, ElementIn
<1>5. h[s \ {Element(s)}] = 0
  BY <1>2, <1>4
<1>6. h[s] = fun[Element(s)] + h[s \ {Element(s)}]
  BY <1>1, <1>3 DEF Adds
<1> QED
  BY <1>4, <1>5, <1>6

\* Any member may be taken out of a sum first.
LEMMA SumStep ==
  ASSUME NEW S, IsFiniteSet(S), NEW fun, S # {}
  PROVE  SumFunctionOnSet(fun, S) =
           fun[Element(S)] + SumFunctionOnSet(fun, S \ {Element(S)})
<1> DEFINE R == S \ {Element(S)}
<1>1. IsFiniteSet(R) /\ R \in SUBSET S
  BY FS_Subset
<1>2. PICK h : Adds(h, fun, S) /\ SumFunctionOnSet(fun, S) = h[S]
  BY SumAdds
<1>3. PICK g : Adds(g, fun, R) /\ SumFunctionOnSet(fun, R) = g[R]
  BY <1>1, SumAdds
<1>4. R \in SUBSET (S \cap R) /\ S \subseteq S /\ R \subseteq S
  BY <1>1
<1> HIDE DEF R
<1>5. h[R] = g[R]
  BY <1>2, <1>3, <1>4, AddsAgree
<1>6. h[S] = fun[Element(S)] + h[R]
  BY <1>2 DEF Adds, R
<1> QED
  BY <1>2, <1>3, <1>5, <1>6 DEF R

LEMMA SumTakes ==
  ASSUME NEW S, IsFiniteSet(S), NEW fun, \A x \in S : fun[x] \in Int, NEW y \in S
  PROVE  SumFunctionOnSet(fun, S) = fun[y] + SumFunctionOnSet(fun, S \ {y})
<1> DEFINE Sum(s) == SumFunctionOnSet(fun, s)
           B == {s \in SUBSET S : \E x \in s : Sum(s) # fun[x] + Sum(s \ {x})}
<1>0. \A s \in SUBSET S : IsFiniteSet(s) /\ Sum(s) \in Int
  <2> SUFFICES ASSUME NEW s \in SUBSET S PROVE IsFiniteSet(s) /\ Sum(s) \in Int
    OBVIOUS
  <2>1. IsFiniteSet(s) /\ \A x \in s : fun[x] \in Int
    BY FS_Subset
  <2> QED
    BY <2>1, SumIntType
<1>1. \A s \in SUBSET S : s # {} => Sum(s) = fun[Element(s)] + Sum(s \ {Element(s)})
  BY <1>0, SumStep
<1> HIDE DEF Sum
<1>2. CASE B = {}
  BY <1>2, S \in SUBSET S DEF Sum
<1>3. CASE B # {}
  <2>1. PICK s \in B : \A u \in B : u \subseteq s => u = s
    <3>1. B \subseteq SUBSET S
      OBVIOUS
    <3> HIDE DEF B
    <3> QED
      BY <1>3, <3>1, Smallest
  <2>2. PICK x \in s : Sum(s) # fun[x] + Sum(s \ {x})
    OBVIOUS
  <2> DEFINE e == Element(s)
  <2>3. e \in s
    BY <2>2, ElementIn
  <2>4. Sum(s) = fun[e] + Sum(s \ {e}) /\ s \in SUBSET S
    BY <1>1, <2>2
  <2> HIDE DEF e
  <2>5. e # x
    BY <2>2, <2>4
  <2>6. s \ {e} \notin B /\ s \ {x} \notin B
    BY <2>1, <2>2, <2>3
  <2>7. Sum(s \ {e}) = fun[x] + Sum((s \ {e}) \ {x})
    BY <2>2, <2>4, <2>5, <2>6
  <2>8. Sum(s \ {x}) = fun[e] + Sum((s \ {x}) \ {e})
    BY <2>3, <2>4, <2>5, <2>6
  <2>9. (s \ {e}) \ {x} = (s \ {x}) \ {e} /\ (s \ {x}) \ {e} \in SUBSET S
    BY <2>4
  <2>10. Sum((s \ {x}) \ {e}) \in Int
    BY <1>0, <2>9
  <2>11. fun[x] \in Int /\ fun[e] \in Int
    BY <2>2, <2>3, <2>4
  <2>12. \A a, b, c \in Int : a + (b + c) = b + (a + c)
    OBVIOUS
  <2>13. Sum(s) = fun[e] + (fun[x] + Sum((s \ {x}) \ {e}))
    BY <2>4, <2>7, <2>9
  <2>14. Sum(s) = fun[x] + (fun[e] + Sum((s \ {x}) \ {e}))
    BY <2>10, <2>11, <2>12, <2>13
  <2> QED
    BY <2>2, <2>8, <2>14
<1> QED
  BY <1>2, <1>3

LEMMA SumEmpty == \A fun : SumFunctionOnSet(fun, {}) = 0
BY SumZero, FS_EmptySet

LEMMA SumOne ==
  ASSUME NEW fun, NEW x, fun[x] \in Int
  PROVE  SumFunctionOnSet(fun, {x}) = fun[x]
<1>1. IsFiniteSet({x})
  BY FS_Singleton
<1>2. SumFunctionOnSet(fun, {x}) = fun[x] + SumFunctionOnSet(fun, {x} \ {x})
  BY <1>1, SumTakes
<1>3. {x} \ {x} = {}
  OBVIOUS
<1> QED
  BY <1>2, <1>3, SumEmpty

\* A sum depends on its summands only.
LEMMA SumSame ==
  ASSUME NEW S, IsFiniteSet(S), NEW fun, NEW gun, \A x \in S : gun[x] = fun[x]
  PROVE  SumFunctionOnSet(gun, S) = SumFunctionOnSet(fun, S)
<1>1. PICK h : Adds(h, fun, S) /\ SumFunctionOnSet(fun, S) = h[S]
  BY SumAdds
<1>2. PICK g : Adds(g, gun, S) /\ SumFunctionOnSet(gun, S) = g[S]
  BY SumAdds
<1> DEFINE B == {s \in SUBSET S : g[s] # h[s]}
<1> SUFFICES ASSUME B # {} PROVE FALSE
  BY <1>1, <1>2, S \in SUBSET S
<1>3. PICK s \in B : \A u \in B : u \subseteq s => u = s
  <2>1. B \subseteq SUBSET S
    OBVIOUS
  <2> HIDE DEF B
  <2> QED
    BY <2>1, Smallest
<1>4. s # {}
  BY <1>1, <1>2 DEF Adds
<1>5. Element(s) \in s
  BY <1>4, ElementIn
<1>6. g[s \ {Element(s)}] = h[s \ {Element(s)}]
  BY <1>3, <1>5
<1>7. /\ h[s] = fun[Element(s)] + h[s \ {Element(s)}]
      /\ g[s] = gun[Element(s)] + g[s \ {Element(s)}]
  BY <1>1, <1>2, <1>4 DEF Adds
<1> QED
  BY <1>5, <1>6, <1>7

LEMMA SumMinus ==
  ASSUME NEW S, IsFiniteSet(S), NEW fun, NEW gun,
         \A x \in S : fun[x] \in Int /\ gun[x] = -fun[x]
  PROVE  SumFunctionOnSet(gun, S) = -SumFunctionOnSet(fun, S)
<1>1. PICK h : Adds(h, fun, S) /\ SumFunctionOnSet(fun, S) = h[S]
  BY SumAdds
<1>2. PICK g : Adds(g, gun, S) /\ SumFunctionOnSet(gun, S) = g[S]
  BY SumAdds
<1> DEFINE B == {s \in SUBSET S : ~(h[s] \in Int /\ g[s] = -h[s])}
<1> SUFFICES ASSUME B # {} PROVE FALSE
  BY <1>1, <1>2, S \in SUBSET S
<1>3. PICK s \in B : \A u \in B : u \subseteq s => u = s
  <2>1. B \subseteq SUBSET S
    OBVIOUS
  <2> HIDE DEF B
  <2> QED
    BY <2>1, Smallest
<1>4. s # {}
  BY <1>1, <1>2 DEF Adds
<1>5. Element(s) \in s
  BY <1>4, ElementIn
<1>6. h[s \ {Element(s)}] \in Int /\ g[s \ {Element(s)}] = -h[s \ {Element(s)}]
  BY <1>3, <1>5
<1>7. /\ h[s] = fun[Element(s)] + h[s \ {Element(s)}]
      /\ g[s] = gun[Element(s)] + g[s \ {Element(s)}]
  BY <1>1, <1>2, <1>4 DEF Adds
<1> QED
  BY <1>5, <1>6, <1>7

\* Two parts.
LEMMA SumUnion ==
  ASSUME NEW S, NEW T, IsFiniteSet(S), IsFiniteSet(T), S \cap T = {},
         NEW fun, \A x \in S \cup T : fun[x] \in Int
  PROVE  SumFunctionOnSet(fun, S \cup T)
           = SumFunctionOnSet(fun, S) + SumFunctionOnSet(fun, T)
<1> DEFINE Sum(s) == SumFunctionOnSet(fun, s)
           B == {s \in SUBSET T : Sum(S \cup s) # Sum(S) + Sum(s)}
<1>0. \A s \in SUBSET T : /\ IsFiniteSet(s) /\ Sum(s) \in Int
                          /\ IsFiniteSet(S \cup s) /\ Sum(S \cup s) \in Int
  <2> SUFFICES ASSUME NEW s \in SUBSET T
               PROVE  /\ IsFiniteSet(s) /\ Sum(s) \in Int
                      /\ IsFiniteSet(S \cup s) /\ Sum(S \cup s) \in Int
    OBVIOUS
  <2>1. IsFiniteSet(s)
    BY FS_Subset
  <2>2. IsFiniteSet(S \cup s)
    BY <2>1, FS_Union
  <2>3. Sum(s) \in Int
    BY <2>1, SumIntType
  <2>4. Sum(S \cup s) \in Int
    BY <2>2, SumIntType
  <2> QED
    BY <2>1, <2>2, <2>3, <2>4
<1>1. Sum(S) \in Int
  BY SumIntType
<1>2. CASE B = {}
  BY <1>2, T \in SUBSET T
<1>3. CASE B # {}
  <2>1. PICK s \in B : \A u \in B : u \subseteq s => u = s
    <3>1. B \subseteq SUBSET T
      OBVIOUS
    <3> HIDE DEF B
    <3> QED
      BY <1>3, <3>1, Smallest
  <2>2. s # {}
    <3>1. S \cup {} = S
      OBVIOUS
    <3>2. Sum(S \cup {}) = Sum(S)
      BY <3>1
    <3>3. Sum({}) = 0
      BY SumEmpty
    <3> HIDE DEF Sum
    <3>4. {} \notin B
      BY <1>1, <3>2, <3>3
    <3> QED
      BY <3>4
  <2> DEFINE e == Element(s)
             r == s \ {e}
  <2>3. e \in s /\ e \in T /\ r \in SUBSET T /\ fun[e] \in Int
    BY <2>2, ElementIn
  <2>4. r \notin B
    BY <2>1, <2>3
  <2>5. Sum(S \cup r) = Sum(S) + Sum(r)
    BY <2>3, <2>4
  <2>6. Sum(s) = fun[e] + Sum(r)
    BY <1>0, <2>3, SumTakes
  <2>7. Sum(S \cup s) = fun[e] + Sum(S \cup r)
    <3>1. (S \cup s) \ {e} = S \cup r /\ e \in S \cup s
      BY <2>3
    <3>2. IsFiniteSet(S \cup s) /\ \A x \in S \cup s : fun[x] \in Int
      BY <1>0
    <3>3. Sum(S \cup s) = fun[e] + Sum((S \cup s) \ {e})
      BY <3>1, <3>2, SumTakes
    <3> QED
      BY <3>1, <3>3
  <2>8. Sum(r) \in Int
    BY <1>0, <2>3
  <2> HIDE DEF Sum, e, r
  <2>9. Sum(S \cup s) = Sum(S) + Sum(s)
    BY <1>1, <2>3, <2>5, <2>6, <2>7, <2>8
  <2> QED
    BY <2>9
<1> QED
  BY <1>2, <1>3

\* GROUP BY: gun has the sum of fun over each of the groups into which key divides S.
Groups(S, key, C, fun, gun) ==
  \A c \in C : gun[c] = SumFunctionOnSet(fun, {x \in S : key[x] = c})

\* The sums of the groups add up to the sum of all.
LEMMA SumGroups ==
  ASSUME NEW S, NEW C, IsFiniteSet(S), IsFiniteSet(C), NEW key \in [S -> C],
         NEW fun, \A x \in S : fun[x] \in Int, NEW gun, Groups(S, key, C, fun, gun)
  PROVE  SumFunctionOnSet(gun, C) = SumFunctionOnSet(fun, S)
<1> DEFINE Of(D) == {x \in S : key[x] \in D}
           Only(c) == {x \in S : key[x] = c}
           B == {D \in SUBSET C : SumFunctionOnSet(gun, D) # SumFunctionOnSet(fun, Of(D))}
<1>0. \A c \in C : gun[c] = SumFunctionOnSet(fun, Only(c))
  BY DEF Groups
<1>1. Of(C) = S
  OBVIOUS
<1>2. CASE B = {}
  BY <1>1, <1>2, C \in SUBSET C
<1>3. CASE B # {}
  <2>1. PICK D \in B : \A U \in B : U \subseteq D => U = D
    <3>1. B \subseteq SUBSET C
      OBVIOUS
    <3> HIDE DEF B
    <3> QED
      BY <1>3, <3>1, Smallest
  <2>2. D # {}
    <3>1. Of({}) = {}
      OBVIOUS
    <3> QED
      BY <3>1, SumEmpty
  <2> DEFINE e == Element(D)
             E == D \ {e}
  <2>3. e \in D /\ e \in C /\ E \in SUBSET C
    BY <2>2, ElementIn
  <2>4. E \notin B
    BY <2>1, <2>3
  <2>5. SumFunctionOnSet(gun, E) = SumFunctionOnSet(fun, Of(E))
    BY <2>3, <2>4
  <2>6. gun[e] = SumFunctionOnSet(fun, Only(e)) /\ \A c \in C : gun[c] \in Int
    <3>1. ASSUME NEW c \in C PROVE gun[c] \in Int
      <4>1. IsFiniteSet(Only(c)) /\ \A x \in Only(c) : fun[x] \in Int
        BY FS_Subset, Only(c) \in SUBSET S
      <4>2. SumFunctionOnSet(fun, Only(c)) \in Int
        BY <4>1, SumIntType
      <4> QED
        BY <1>0, <4>2
    <3> QED
      BY <1>0, <2>3, <3>1
  <2>7. SumFunctionOnSet(gun, D) = gun[e] + SumFunctionOnSet(gun, E)
    <3>1. IsFiniteSet(D) /\ \A c \in D : gun[c] \in Int
      BY <2>6, FS_Subset
    <3> QED
      BY <2>3, <3>1, SumTakes
  <2>8. SumFunctionOnSet(fun, Of(D))
          = SumFunctionOnSet(fun, Only(e)) + SumFunctionOnSet(fun, Of(E))
    <3>1. Of(D) = Only(e) \cup Of(E) /\ Only(e) \cap Of(E) = {}
      BY <2>3
    <3>2. IsFiniteSet(Only(e)) /\ IsFiniteSet(Of(E))
      BY FS_Subset, Only(e) \in SUBSET S, Of(E) \in SUBSET S
    <3>3. \A x \in Only(e) \cup Of(E) : fun[x] \in Int
      OBVIOUS
    <3> HIDE DEF Of, Only, e, E
    <3> QED
      BY <3>1, <3>2, <3>3, SumUnion
  <2>9. D \notin B
    BY <2>5, <2>6, <2>7, <2>8
  <2> QED
    BY <2>9
<1> QED
  BY <1>2, <1>3

\* COUNT(*) is a sum of ones.
LEMMA SumOnes ==
  ASSUME NEW S, IsFiniteSet(S), NEW fun, \A x \in S : fun[x] = 1
  PROVE  SumFunctionOnSet(fun, S) = Cardinality(S)
<1>1. PICK h : Adds(h, fun, S) /\ SumFunctionOnSet(fun, S) = h[S]
  BY SumAdds
<1> DEFINE B == {s \in SUBSET S : h[s] # Cardinality(s)}
<1> SUFFICES ASSUME B # {} PROVE FALSE
  BY <1>1, S \in SUBSET S
<1>2. PICK s \in B : \A u \in B : u \subseteq s => u = s
  <2>1. B \subseteq SUBSET S
    OBVIOUS
  <2> HIDE DEF B
  <2> QED
    BY <2>1, Smallest
<1>3. s # {}
  BY <1>1, FS_EmptySet DEF Adds
<1> DEFINE e == Element(s)
           r == s \ {e}
<1>4. e \in s /\ r \in SUBSET S /\ r # s
  BY <1>3, ElementIn
<1>5. h[r] = Cardinality(r)
  BY <1>2, <1>4
<1>6. h[s] = 1 + h[r]
  BY <1>1, <1>3, <1>4 DEF Adds
<1>7. IsFiniteSet(s) /\ Cardinality(r) = Cardinality(s) - 1 /\ Cardinality(s) \in Nat
  BY <1>4, FS_Subset, FS_RemoveElement, FS_CardinalityType
<1> HIDE DEF r
<1> QED
  BY <1>5, <1>6, <1>7

\* One to one, and many to one.
LEMMA SameCount ==
  ASSUME NEW S, NEW T, IsFiniteSet(S), NEW f \in [S -> T],
         \A x, y \in S : f[x] = f[y] => x = y, \A z \in T : \E x \in S : f[x] = z
  PROVE  IsFiniteSet(T) /\ Cardinality(T) = Cardinality(S)
<1>1. f \in Bijection(S, T)
  BY DEF Bijection, Injection, IsInjective, Surjection
<1> QED
  BY <1>1, FS_Bijection DEF ExistsBijection

LEMMA ImageCount ==
  ASSUME NEW S, NEW T, IsFiniteSet(S), NEW f \in [S -> T], \A z \in T : \E x \in S : f[x] = z
  PROVE  IsFiniteSet(T) /\ Cardinality(T) =< Cardinality(S)
<1>1. f \in Surjection(S, T)
  BY DEF Surjection
<1> QED
  BY <1>1, FS_Surjection

LEMMA DisjointCount ==
  ASSUME NEW S, NEW T, IsFiniteSet(S), IsFiniteSet(T), S \cap T = {}
  PROVE  /\ IsFiniteSet(S \cup T)
         /\ Cardinality(S \cup T) = Cardinality(S) + Cardinality(T)
<1>1. Cardinality(S \cup T) = Cardinality(S) + Cardinality(T) - Cardinality(S \cap T)
  BY FS_Union
<1>2. Cardinality(S) \in Nat /\ Cardinality(T) \in Nat /\ Cardinality(S \cap T) = 0
  BY FS_CardinalityType, FS_EmptySet
<1> QED
  BY <1>1, <1>2, FS_Union

LEMMA ProductCount ==
  ASSUME NEW S, NEW T, IsFiniteSet(S), IsFiniteSet(T)
  PROVE  /\ IsFiniteSet(S \X T)
         /\ T # {} => Cardinality(S) =< Cardinality(S \X T)
         /\ Cardinality(T) = 1 => Cardinality(S \X T) = Cardinality(S)
<1>1. /\ IsFiniteSet(S \X T) /\ Cardinality(S \X T) = Cardinality(S) * Cardinality(T)
      /\ Cardinality(S) \in Nat /\ Cardinality(T) \in Nat
  BY FS_Product, FS_CardinalityType
<1>2. T # {} => Cardinality(T) # 0
  BY FS_EmptySet
<1>3. \A a \in Nat, b \in Nat \ {0} : a =< a * b /\ a * 1 = a
  OBVIOUS
<1> QED
  BY <1>1, <1>2, <1>3

\* A set of numbers has a smallest one.
LEMMA SmallestNumber ==
  ASSUME NEW B \in SUBSET Nat, B # {}
  PROVE  \E m \in B : \A k \in B : m =< k
<1>0. \A k \in B : k \in Nat
  OBVIOUS
<1>1. PICK n \in B : TRUE
  OBVIOUS
<1> DEFINE S == 1..n
           Below == {1..k : k \in {m \in B : m =< n}}
<1>2. IsFiniteSet(S)
  BY <1>0, FirstNumbers
<1>3. Below \subseteq SUBSET S
  BY <1>0
<1>4. S \in Below
  BY <1>0
<1> HIDE DEF Below, S
<1>5. PICK T \in Below : \A U \in Below : U \subseteq T => U = T
  BY <1>2, <1>3, <1>4, Smallest
<1>6. PICK m \in B : m =< n /\ T = 1..m
  BY DEF Below
<1>7. ASSUME NEW k \in B, k < m PROVE FALSE
  <2>1. k \in Nat /\ m \in Nat /\ n \in Nat
    BY <1>0
  <2>2. 1..k \in Below /\ 1..k \subseteq T
    BY <1>6, <1>7, <2>1 DEF Below
  <2>3. 1..k = 1..m /\ m \in 1..m /\ m \notin 1..k
    BY <1>5, <1>6, <1>7, <2>1, <2>2
  <2> QED
    BY <2>3
<1> QED
  BY <1>0, <1>7
=============================================================================
