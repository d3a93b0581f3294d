---------------------------- MODULE ReportProofs ----------------------------
(***************************************************************************)
(* Theorems about Report and ReportViews, for every set of scan results,   *)
(* every licence policy and every number of images; and at the end one     *)
(* about FixEvidence, for every advisory and every package.                *)
(*                                                                         *)
(* The tables of the builder show a history of facts: those that the       *)
(* results so far called for are the history and then the calls that are   *)
(* still to be made.  It does not matter to the facts whether a result was *)
(* added or merged, so neither does it to the tables.  The views resolve   *)
(* and agree because the rows refer to rows, in order, and each index      *)
(* answers a key with the values of its edges.                             *)
(*                                                                         *)
(* The lemmas come first that are about numbers, tables of first values    *)
(* and flattened lists, then those about the calls of a response, the      *)
(* history, the steps, the vulnerabilities and the views.                  *)
(***************************************************************************)
EXTENDS ReportViews, FixEvidence, SequenceTheorems, FiniteSetTheorems, FunctionTheorems,
        WellFoundedInduction, TLAPS

(***************************************************************************)
(* Numbers                                                                 *)
(***************************************************************************)
\* Every set of numbers that is not empty has a least one.
LEMMA LeastNumber ==
  ASSUME NEW S \in SUBSET Nat, S # {} PROVE \E x \in S : \A y \in S : x <= y
<1>1. IsWellFoundedOn(OpToRel(<, Nat), Nat)
  BY NatLessThanWellFounded
<1>2. PICK x \in S : \A y \in S : ~(<<y, x>> \in OpToRel(<, Nat))
  BY <1>1, WFMin
<1>3. \A y \in S : ~(y < x)
  BY <1>2 DEF OpToRel
<1> QED BY <1>3

\* Induction, for the members of a set.
LEMMA CountUp ==
  ASSUME NEW S, 0 \in S, \A n \in Nat : n \in S => n + 1 \in S
  PROVE  Nat \subseteq S
<1> SUFFICES ASSUME Nat \ S # {} PROVE FALSE
  OBVIOUS
<1>1. PICK x \in Nat \ S : \A y \in Nat \ S : x <= y
  BY LeastNumber
<1>2. x # 0 /\ x - 1 \in Nat /\ (x - 1) + 1 = x
  BY <1>1
<1>3. x - 1 \in S
  BY <1>1, <1>2
<1> QED BY <1>1, <1>2, <1>3

(***************************************************************************)
(* Sorted                                                                  *)
(***************************************************************************)
Numbers(S) == S \in SUBSET Nat /\ IsFiniteSet(S)
Below(S, x) == {y \in S : y < x}

LEMMA Ranks ==
  ASSUME NEW S, Numbers(S)
  PROVE  /\ Cardinality(S) \in Nat
         /\ \A x \in S : Cardinality(Below(S, x)) \in 0..(Cardinality(S) - 1)
         /\ \A x, y \in S : x < y => Cardinality(Below(S, x)) < Cardinality(Below(S, y))
         /\ \A k \in 1..Cardinality(S) : \E x \in S : Cardinality(Below(S, x)) = k - 1
<1> DEFINE n == Cardinality(S)
           rank == [x \in S |-> Cardinality(Below(S, x))]
           places == 0..(n - 1)
<1>1. n \in Nat /\ IsFiniteSet(S) /\ S \in SUBSET Nat
  BY FS_CardinalityType DEF Numbers
<1>2. ASSUME NEW T \in SUBSET S, NEW U \in SUBSET T, NEW x \in T, x \notin U
      PROVE  Cardinality(T) \in Nat /\ Cardinality(U) \in Nat /\ Cardinality(U) < Cardinality(T)
  <2>1. IsFiniteSet(T) /\ Cardinality(T) \in Nat
    BY <1>1, FS_Subset, FS_CardinalityType
  <2>2. IsFiniteSet(U) /\ Cardinality(U) \in Nat
    BY <2>1, FS_Subset, FS_CardinalityType
  <2>3. Cardinality(U) <= Cardinality(T) /\ Cardinality(U) # Cardinality(T)
    BY <1>2, <2>1, FS_Subset
  <2> QED BY <2>1, <2>2, <2>3
<1>3. ASSUME NEW x \in S PROVE Cardinality(Below(S, x)) \in places
  <2>1. Below(S, x) \in SUBSET S /\ x \notin Below(S, x)
    BY <1>1 DEF Below
  <2>2. Cardinality(Below(S, x)) \in Nat /\ Cardinality(Below(S, x)) < n
    BY <1>2, <2>1
  <2> QED BY <1>1, <2>2
<1>4. ASSUME NEW x \in S, NEW y \in S, x < y
      PROVE  Cardinality(Below(S, x)) < Cardinality(Below(S, y))
  <2>1. x \in Nat /\ y \in Nat /\ \A z \in S : z \in Nat
    BY <1>1
  <2>2. Below(S, y) \in SUBSET S /\ Below(S, x) \in SUBSET Below(S, y)
    <3>1. \A z \in S : z < x => z < y
      BY <1>4, <2>1
    <3> QED BY <3>1 DEF Below
  <2>3. x \in Below(S, y) /\ x \notin Below(S, x)
    BY <1>4, <2>1 DEF Below
  <2> QED BY <1>2, <2>2, <2>3
<1>5. ASSUME NEW k \in 1..n PROVE \E x \in S : Cardinality(Below(S, x)) = k - 1
  <2>1. ASSUME NEW x \in S, NEW y \in S, rank[x] = rank[y] PROVE x = y
    <3>1. x \in Nat /\ y \in Nat /\ rank[x] \in places /\ rank[y] \in places
      BY <1>1, <1>3
    <3>2. ~(x < y) /\ ~(y < x)
      BY <1>1, <1>4, <2>1, <3>1
    <3> QED BY <3>1, <3>2
  <2>2. rank \in Injection(S, places)
    BY <1>3, <2>1 DEF Injection, IsInjective
  <2>3. IsFiniteSet(places) /\ Cardinality(places) = n
    <3> HIDE DEF n
    <3>1. n - 1 \in Int /\ 0 \in Int
      BY <1>1
    <3>2. IsFiniteSet(0..(n - 1)) /\ Cardinality(0..(n - 1)) = IF 0 > n - 1 THEN 0 ELSE n - 1 - 0 + 1
      BY <3>1, FS_Interval
    <3> QED BY <1>1, <3>2
  <2>4. rank \in Surjection(S, places)
    BY <1>1, <2>2, <2>3, FS_Injection
  <2>5. k - 1 \in places
    BY <1>1
  <2> QED BY <2>4, <2>5 DEF Surjection
<1> QED BY <1>1, <1>3, <1>4, <1>5

\* Sorting leaves the members of a set, each once and in order.
LEMMA SortedMembers ==
  ASSUME NEW S, Numbers(S)
  PROVE  /\ Cardinality(S) \in Nat /\ Sorted(S) \in [1..Cardinality(S) -> S]
         /\ \A x \in S : \E k \in 1..Cardinality(S) : Sorted(S)[k] = x
         /\ \A k, l \in 1..Cardinality(S) : k < l => Sorted(S)[k] < Sorted(S)[l]
         /\ \A k \in 1..Cardinality(S) : Cardinality(Below(S, Sorted(S)[k])) = k - 1
<1> DEFINE n == Cardinality(S)
           s == Sorted(S)
<1>1. /\ n \in Nat
      /\ \A x \in S : Cardinality(Below(S, x)) \in 0..(n - 1)
      /\ \A x, y \in S : x < y => Cardinality(Below(S, x)) < Cardinality(Below(S, y))
      /\ \A k \in 1..n : \E x \in S : Cardinality(Below(S, x)) = k - 1
  BY Ranks
<1>2. s = [k \in 1..n |-> CHOOSE x \in S : Cardinality(Below(S, x)) = k - 1]
  BY DEF Sorted, Below
<1>3. S \in SUBSET Nat
  BY DEF Numbers
<1> HIDE DEF n, s
<1>4. \A k \in 1..n : s[k] \in S /\ Cardinality(Below(S, s[k])) = k - 1
  BY <1>1, <1>2
<1>5. ASSUME NEW x \in S, NEW y \in S, Cardinality(Below(S, x)) = Cardinality(Below(S, y))
      PROVE  x = y
  <2>1. x \in Nat /\ y \in Nat /\ Cardinality(Below(S, x)) \in Nat
    BY <1>1, <1>3
  <2>2. ~(x < y) /\ ~(y < x)
    BY <1>1, <1>5, <2>1
  <2> QED BY <2>1, <2>2
<1>6. ASSUME NEW x \in S PROVE \E k \in 1..n : s[k] = x
  <2> DEFINE k == Cardinality(Below(S, x)) + 1
  <2>1. k \in 1..n /\ Cardinality(Below(S, x)) = k - 1
    BY <1>1
  <2> HIDE DEF k
  <2>2. s[k] \in S /\ Cardinality(Below(S, s[k])) = Cardinality(Below(S, x))
    BY <1>4, <2>1
  <2> QED BY <1>5, <2>1, <2>2
<1>7. ASSUME NEW k \in 1..n, NEW l \in 1..n, k < l PROVE s[k] < s[l]
  <2>1. s[k] \in S /\ s[l] \in S /\ s[k] \in Nat /\ s[l] \in Nat
        /\ Cardinality(Below(S, s[k])) = k - 1 /\ Cardinality(Below(S, s[l])) = l - 1
    BY <1>3, <1>4
  <2>2. ~(s[l] < s[k]) /\ s[k] # s[l]
    BY <1>1, <1>7, <2>1
  <2> QED BY <2>1, <2>2
<1>8. s \in [1..n -> S]
  BY <1>2, <1>4
<1> QED BY <1>1, <1>4, <1>6, <1>7, <1>8 DEF n, s

\* And there is only one way to do so.
LEMMA SortedIs ==
  ASSUME NEW S \in SUBSET Nat, NEW n \in Nat, NEW f \in [1..n -> S],
         \A x \in S : \E k \in 1..n : f[k] = x,
         \A k, l \in 1..n : k < l => f[k] < f[l]
  PROVE  Numbers(S) /\ Cardinality(S) = n /\ Sorted(S) = f
<1>1. ASSUME NEW k \in 1..n, NEW l \in 1..n, f[k] = f[l] PROVE k = l
  <2>1. k \in Nat /\ l \in Nat /\ f[k] \in S /\ f[l] \in S
    OBVIOUS
  <2>2. f[k] \in Nat /\ f[l] \in Nat
    BY <2>1
  <2>3. ~(k < l) /\ ~(l < k)
    BY <1>1, <2>2
  <2> QED BY <2>1, <2>3
<1>2. ASSUME NEW m \in 0..n
      PROVE  IsFiniteSet({f[k] : k \in 1..m}) /\ Cardinality({f[k] : k \in 1..m}) = m
  <2> DEFINE T == {f[k] : k \in 1..m}
             g == [k \in 1..m |-> f[k]]
  <2>0. m \in Nat /\ 1..m \subseteq 1..n
    OBVIOUS
  <2>1. g \in Bijection(1..m, T)
    BY <1>1, <2>0 DEF Bijection, Injection, Surjection, IsInjective
  <2>2. IsFiniteSet(1..m) /\ Cardinality(1..m) = m
    <3>1. IsFiniteSet(1..m) /\ Cardinality(1..m) = IF 1 > m THEN 0 ELSE m - 1 + 1
      BY <2>0, FS_Interval
    <3> QED BY <2>0, <3>1
  <2> HIDE DEF g, T
  <2>3. ExistsBijection(1..m, T)
    BY <2>1 DEF ExistsBijection
  <2> QED BY <2>2, <2>3, FS_Bijection DEF T
<1>3. S = {f[k] : k \in 1..n}
  OBVIOUS
<1>4. Numbers(S) /\ Cardinality(S) = n
  <2>1. n \in 0..n
    OBVIOUS
  <2>2. IsFiniteSet({f[k] : k \in 1..n}) /\ Cardinality({f[k] : k \in 1..n}) = n
    BY <1>2, <2>1
  <2> QED BY <1>3, <2>2 DEF Numbers
<1>5. ASSUME NEW k \in 1..n PROVE Cardinality(Below(S, f[k])) = k - 1
  <2>1. Below(S, f[k]) = {f[j] : j \in 1..(k - 1)}
    <3>1. ASSUME NEW j \in 1..n PROVE f[j] < f[k] <=> j < k
      <4>1. f[j] \in Nat /\ f[k] \in Nat
        OBVIOUS
      <4> QED BY <4>1
    <3>2. 1..(k - 1) = {j \in 1..n : j < k}
      OBVIOUS
    <3>3. Below(S, f[k]) = {f[j] : j \in {j \in 1..n : j < k}}
      BY <1>3, <3>1 DEF Below
    <3> QED BY <3>2, <3>3
  <2>2. k - 1 \in 0..n
    OBVIOUS
  <2> QED BY <1>2, <2>1, <2>2
<1>6. /\ Sorted(S) \in [1..n -> S]
      /\ \A x \in S : Cardinality(Below(S, x)) \in 0..(n - 1)
      /\ \A x, y \in S : x < y => Cardinality(Below(S, x)) < Cardinality(Below(S, y))
      /\ \A k \in 1..n : Cardinality(Below(S, Sorted(S)[k])) = k - 1
  BY <1>4, Ranks, SortedMembers
<1>7. ASSUME NEW k \in 1..n PROVE Sorted(S)[k] = f[k]
  <2>1. Sorted(S)[k] \in S /\ f[k] \in S
    BY <1>6
  <2>2. Sorted(S)[k] \in Nat /\ f[k] \in Nat
    BY <2>1
  <2>3. /\ Cardinality(Below(S, Sorted(S)[k])) = k - 1
        /\ Cardinality(Below(S, f[k])) = k - 1
    BY <1>5, <1>6
  <2>4. ~(Sorted(S)[k] < f[k]) /\ ~(f[k] < Sorted(S)[k])
    <3>1. ~(k - 1 < k - 1)
      OBVIOUS
    <3> QED BY <1>6, <2>1, <2>3, <3>1
  <2> QED BY <2>2, <2>4
<1> QED BY <1>4, <1>6, <1>7

\* A function over the first numbers is a sequence.
LEMMA Sequenced ==
  ASSUME NEW X, NEW n \in Nat, NEW f \in [1..n -> X]
  PROVE  f \in Seq(X) /\ Len(f) = n /\ DOMAIN f = 1..n
<1>1. f \in Seq(X)
  BY SeqDef
<1> QED BY <1>1, LenProperties

LEMMA SameSequence ==
  ASSUME NEW X, NEW Y, NEW s \in Seq(X), NEW t \in Seq(Y), Len(s) = Len(t),
         \A i \in 1..Len(s) : s[i] = t[i]
  PROVE  s = t
<1>1. s \in [1..Len(s) -> X] /\ t \in [1..Len(t) -> Y]
  BY LenProperties
<1> QED BY <1>1

LEMMA SortedEmpty == Numbers({}) /\ Cardinality({}) = 0 /\ Sorted({}) = << >>
<1> DEFINE none == {}
           f == << >>
<1>1. none \in SUBSET Nat /\ f \in [1..0 -> none] /\ 1..0 = {}
  OBVIOUS
<1>2. \A x \in none : FALSE
  OBVIOUS
<1> HIDE DEF none, f
<1>3. Numbers(none) /\ Cardinality(none) = 0 /\ Sorted(none) = f
  BY <1>1, <1>2, SortedIs
<1> QED BY <1>3 DEF none, f

\* What comes after all the others is sorted to the end.
LEMMA SortedAppend ==
  ASSUME NEW S, Numbers(S), NEW x \in Nat, \A y \in S : y < x
  PROVE  /\ Numbers(S \cup {x}) /\ Cardinality(S \cup {x}) = Cardinality(S) + 1
         /\ Sorted(S \cup {x}) = Append(Sorted(S), x)
<1> DEFINE n == Cardinality(S)
           s == Sorted(S)
           f == Append(s, x)
<1>1. /\ n \in Nat /\ s \in [1..n -> S] /\ S \in SUBSET Nat
      /\ \A y \in S : \E k \in 1..n : s[k] = y
      /\ \A k, l \in 1..n : k < l => s[k] < s[l]
  BY SortedMembers DEF Numbers
<1> HIDE DEF n, s
<1>2. s \in Seq(S \cup {x}) /\ Len(s) = n
  <2>1. s \in [1..n -> S \cup {x}]
    BY <1>1
  <2> QED BY <1>1, <2>1, Sequenced
<1>3. /\ f \in Seq(S \cup {x}) /\ Len(f) = n + 1
      /\ \A k \in 1..n : f[k] = s[k]
      /\ f[n + 1] = x
  BY <1>2, AppendProperties
<1> HIDE DEF f
<1>4. f \in [1..(n + 1) -> S \cup {x}] /\ n + 1 \in Nat
  BY <1>1, <1>3, LenProperties
<1>5. \A y \in S \cup {x} : \E k \in 1..(n + 1) : f[k] = y
  <2>1. ASSUME NEW y \in S PROVE \E k \in 1..(n + 1) : f[k] = y
    <3>1. PICK k \in 1..n : s[k] = y
      BY <1>1
    <3> QED BY <1>1, <1>3, <3>1
  <2>2. n + 1 \in 1..(n + 1)
    BY <1>1
  <2> QED BY <1>3, <2>1, <2>2
<1>6. ASSUME NEW k \in 1..(n + 1), NEW l \in 1..(n + 1), k < l PROVE f[k] < f[l]
  <2>1. k \in 1..n /\ f[k] = s[k] /\ s[k] \in S
    BY <1>1, <1>3, <1>6
  <2>2. CASE l \in 1..n
    BY <1>1, <1>3, <1>6, <2>1, <2>2
  <2>3. CASE l = n + 1
    BY <1>1, <1>3, <2>1, <2>3
  <2> QED BY <1>1, <2>2, <2>3
<1>7. S \cup {x} \in SUBSET Nat
  BY <1>1
<1> QED BY <1>4, <1>5, <1>6, <1>7, SortedIs DEF f, s, n

LEMMA SortedInterval ==
  ASSUME NEW a \in Nat, NEW n \in Nat
  PROVE  /\ Numbers((a + 1)..(a + n)) /\ Cardinality((a + 1)..(a + n)) = n
         /\ Sorted((a + 1)..(a + n)) = [k \in 1..n |-> a + k]
<1> DEFINE S == (a + 1)..(a + n)
           f == [k \in 1..n |-> a + k]
<1>1. f \in [1..n -> S] /\ S \in SUBSET Nat
  OBVIOUS
<1>2. ASSUME NEW x \in S PROVE \E k \in 1..n : f[k] = x
  <2>1. x - a \in 1..n /\ a + (x - a) = x
    OBVIOUS
  <2> QED BY <2>1
<1>3. \A k, l \in 1..n : k < l => f[k] < f[l]
  OBVIOUS
<1> HIDE DEF S, f
<1>4. Numbers(S) /\ Cardinality(S) = n /\ Sorted(S) = f
  BY <1>1, <1>2, <1>3, SortedIs
<1> QED BY <1>4 DEF S, f

(***************************************************************************)
(* Keep and Firsts                                                         *)
(***************************************************************************)
\* Some of the places of a sequence.
LEMMA PlacesOf ==
  ASSUME NEW X, NEW s \in Seq(X), NEW K \in SUBSET DOMAIN s
  PROVE  Numbers(K) /\ K \in SUBSET (1..Len(s))
<1>1. Len(s) \in Nat /\ DOMAIN s = 1..Len(s)
  BY LenProperties
<1>2. IsFiniteSet(1..Len(s))
  BY <1>1, FS_Interval
<1>3. K \in SUBSET (1..Len(s))
  BY <1>1
<1>4. IsFiniteSet(K)
  BY <1>2, <1>3, FS_Subset
<1> QED BY <1>1, <1>3, <1>4 DEF Numbers

LEMMA KeepPart ==
  ASSUME NEW X, NEW s \in Seq(X), NEW K \in SUBSET DOMAIN s
  PROVE  /\ Cardinality(K) \in Nat /\ Sorted(K) \in [1..Cardinality(K) -> K]
         /\ Keep(s, K) \in Seq(X) /\ Len(Keep(s, K)) = Cardinality(K)
         /\ DOMAIN Keep(s, K) = 1..Cardinality(K)
         /\ \A k \in 1..Cardinality(K) : Keep(s, K)[k] = s[Sorted(K)[k]]
         /\ Range(Keep(s, K)) = {s[k] : k \in K}
<1>1. Numbers(K) /\ K \in SUBSET (1..Len(s))
  BY PlacesOf
<1>2. /\ Cardinality(K) \in Nat /\ Sorted(K) \in [1..Cardinality(K) -> K]
      /\ \A x \in K : \E k \in 1..Cardinality(K) : Sorted(K)[k] = x
  BY <1>1, SortedMembers
<1>3. s \in [1..Len(s) -> X]
  BY LenProperties
<1>4. Keep(s, K) = [k \in 1..Cardinality(K) |-> s[Sorted(K)[k]]]
  BY <1>2 DEF Keep
<1>5. Keep(s, K) \in [1..Cardinality(K) -> X]
  BY <1>1, <1>2, <1>3, <1>4
<1>6. Range(Keep(s, K)) = {s[k] : k \in K}
  <2> DEFINE f == [k \in 1..Cardinality(K) |-> s[Sorted(K)[k]]]
  <2>1. Range(f) = {f[k] : k \in 1..Cardinality(K)}
    BY DEF Range
  <2>2. \A k \in 1..Cardinality(K) : Sorted(K)[k] \in K /\ f[k] = s[Sorted(K)[k]]
    BY <1>2
  <2> HIDE DEF f
  <2>3. \A y \in Range(f) : y \in {s[k] : k \in K}
    BY <2>1, <2>2
  <2>4. ASSUME NEW x \in K PROVE s[x] \in Range(f)
    <3>1. PICK k \in 1..Cardinality(K) : Sorted(K)[k] = x
      BY <1>2
    <3>2. f[k] = s[x]
      BY <2>2, <3>1
    <3> QED BY <2>1, <3>2
  <2>5. Range(f) = {s[k] : k \in K}
    BY <2>3, <2>4
  <2> QED BY <1>4, <2>5 DEF f
<1> QED BY <1>2, <1>4, <1>5, <1>6, Sequenced

\* An element more at the end of the sequence, and its place.
LEMMA KeepAppend ==
  ASSUME NEW X, NEW s \in Seq(X), NEW x \in X, NEW K \in SUBSET DOMAIN s
  PROVE  /\ Keep(Append(s, x), K) = Keep(s, K)
         /\ Keep(Append(s, x), K \cup {Len(s) + 1}) = Append(Keep(s, K), x)
<1> DEFINE t == Append(s, x)
           n == Cardinality(K)
<1>1. /\ t \in Seq(X) /\ Len(t) = Len(s) + 1 /\ Len(s) \in Nat /\ DOMAIN s = 1..Len(s)
      /\ DOMAIN t = 1..(Len(s) + 1)
      /\ \A i \in 1..Len(s) : t[i] = s[i]
      /\ t[Len(s) + 1] = x
  BY AppendProperties, LenProperties
<1> HIDE DEF t
<1>2. Numbers(K) /\ K \in SUBSET (1..Len(s)) /\ \A y \in K : y < Len(s) + 1
  BY <1>1, PlacesOf
<1>3. /\ n \in Nat /\ Sorted(K) \in [1..n -> K]
      /\ Keep(s, K) \in Seq(X) /\ Len(Keep(s, K)) = n
      /\ \A k \in 1..n : Keep(s, K)[k] = s[Sorted(K)[k]]
  BY KeepPart
<1>4. K \in SUBSET DOMAIN t /\ K \cup {Len(s) + 1} \in SUBSET DOMAIN t
  BY <1>1, <1>2
<1>5. Keep(t, K) = Keep(s, K)
  <2>1. /\ Keep(t, K) \in Seq(X) /\ Len(Keep(t, K)) = n
        /\ \A k \in 1..n : Keep(t, K)[k] = t[Sorted(K)[k]]
    BY <1>1, <1>4, KeepPart
  <2>2. \A k \in 1..n : Sorted(K)[k] \in 1..Len(s)
    BY <1>2, <1>3
  <2> QED BY <1>1, <1>3, <2>1, <2>2, SameSequence
<1>6. Keep(t, K \cup {Len(s) + 1}) = Append(Keep(s, K), x)
  <2> DEFINE L == K \cup {Len(s) + 1}
  <2>0. Len(s) + 1 \in Nat
    BY <1>1
  <2>1. Cardinality(L) = n + 1 /\ Sorted(L) = Append(Sorted(K), Len(s) + 1)
    BY <1>2, <2>0, SortedAppend
  <2> HIDE DEF L
  <2>9. L \in SUBSET DOMAIN t
    BY <1>4 DEF L
  <2>2. /\ Keep(t, L) \in Seq(X) /\ Len(Keep(t, L)) = n + 1
        /\ \A k \in 1..(n + 1) : Keep(t, L)[k] = t[Sorted(L)[k]]
    <3>1. /\ Keep(t, L) \in Seq(X) /\ Len(Keep(t, L)) = Cardinality(L)
          /\ \A k \in 1..Cardinality(L) : Keep(t, L)[k] = t[Sorted(L)[k]]
      BY <1>1, <2>9, KeepPart
    <3> QED BY <2>1, <3>1
  <2>3. Sorted(K) \in Seq(Nat) /\ Len(Sorted(K)) = n
    <3>1. Sorted(K) \in [1..n -> Nat]
      BY <1>2, <1>3 DEF Numbers
    <3> QED BY <1>3, <3>1, Sequenced
  <2>4. /\ \A k \in 1..n : Sorted(L)[k] = Sorted(K)[k]
        /\ Sorted(L)[n + 1] = Len(s) + 1
    <3> DEFINE o == Sorted(K)
               l == Len(s) + 1
    <3>1. o \in Seq(Nat) /\ Len(o) = n /\ l \in Nat /\ Sorted(L) = Append(o, l)
      BY <2>0, <2>1, <2>3
    <3> HIDE DEF o, l
    <3>2. /\ \A k \in 1..Len(o) : Append(o, l)[k] = o[k]
          /\ Append(o, l)[Len(o) + 1] = l
      BY <3>1, AppendProperties
    <3> QED BY <3>1, <3>2 DEF o, l
  <2>5. /\ Append(Keep(s, K), x) \in Seq(X) /\ Len(Append(Keep(s, K), x)) = n + 1
        /\ \A k \in 1..n : Append(Keep(s, K), x)[k] = Keep(s, K)[k]
        /\ Append(Keep(s, K), x)[n + 1] = x
    BY <1>3, AppendProperties
  <2>6. \A k \in 1..n : Sorted(K)[k] \in 1..Len(s)
    BY <1>2, <1>3
  <2>7. ASSUME NEW k \in 1..(n + 1) PROVE Keep(t, L)[k] = Append(Keep(s, K), x)[k]
    <3>1. CASE k \in 1..n
      <4>1. Keep(t, L)[k] = t[Sorted(K)[k]]
        BY <2>2, <2>4, <3>1
      <4>2. t[Sorted(K)[k]] = s[Sorted(K)[k]]
        BY <1>1, <2>6, <3>1
      <4>3. Append(Keep(s, K), x)[k] = s[Sorted(K)[k]]
        BY <1>3, <2>5, <3>1
      <4> QED BY <4>1, <4>2, <4>3
    <3>2. CASE k = n + 1
      <4>1. Keep(t, L)[k] = t[Len(s) + 1]
        BY <2>2, <2>4, <3>2
      <4> QED BY <1>1, <2>5, <3>2, <4>1
    <3> QED BY <1>3, <3>1, <3>2
  <2>8. Keep(t, L) = Append(Keep(s, K), x)
    BY <2>2, <2>5, <2>7, SameSequence
  <2> QED BY <2>8 DEF L
<1> QED BY <1>5, <1>6 DEF t

New(s) == {i \in DOMAIN s : \A j \in 1..(i - 1) : s[j] # s[i]}

LEMMA FirstsMembers ==
  ASSUME NEW X, NEW s \in Seq(X)
  PROVE  /\ Firsts(s) \in Seq(X) /\ Range(Firsts(s)) = Range(s)
         /\ \A k, l \in DOMAIN Firsts(s) : Firsts(s)[k] = Firsts(s)[l] => k = l
<1> DEFINE K == New(s)
<1>1. K \in SUBSET DOMAIN s /\ Firsts(s) = Keep(s, K)
  BY DEF Firsts, New
<1>2. Len(s) \in Nat /\ DOMAIN s = 1..Len(s)
  BY LenProperties
<1>3. \A i \in K : i \in 1..Len(s) /\ \A j \in 1..(i - 1) : s[j] # s[i]
  BY <1>2 DEF New
<1>4. ASSUME NEW i \in 1..Len(s) PROVE \E j \in K : s[j] = s[i]
  <2> DEFINE J == {j \in 1..Len(s) : s[j] = s[i]}
  <2>1. PICK j \in J : \A k \in J : j <= k
    <3>1. J \in SUBSET Nat /\ J # {}
      OBVIOUS
    <3> HIDE DEF J
    <3> QED BY <3>1, LeastNumber
  <2>2. \A k \in 1..(j - 1) : s[k] # s[j]
    BY <1>2, <2>1
  <2> QED BY <1>2, <2>1, <2>2 DEF New
<1> HIDE DEF K
<1>5. /\ Cardinality(K) \in Nat /\ Sorted(K) \in [1..Cardinality(K) -> K]
      /\ Firsts(s) \in Seq(X) /\ DOMAIN Firsts(s) = 1..Cardinality(K)
      /\ \A k \in 1..Cardinality(K) : Firsts(s)[k] = s[Sorted(K)[k]]
      /\ Range(Firsts(s)) = {s[k] : k \in K}
  BY <1>1, KeepPart
<1>6. Range(Firsts(s)) = Range(s)
  <2>1. {s[k] : k \in K} = {s[i] : i \in 1..Len(s)}
    BY <1>3, <1>4
  <2> QED BY <1>2, <1>5, <2>1 DEF Range
<1>7. ASSUME NEW k \in DOMAIN Firsts(s), NEW l \in DOMAIN Firsts(s), Firsts(s)[k] = Firsts(s)[l]
      PROVE  k = l
  <2>1. \A a, b \in 1..Cardinality(K) : a < b => Sorted(K)[a] < Sorted(K)[b]
    <3>1. Numbers(K)
      BY <1>1, PlacesOf
    <3> QED BY <3>1, SortedMembers
  <2>2. Sorted(K)[k] \in K /\ Sorted(K)[l] \in K /\ s[Sorted(K)[k]] = s[Sorted(K)[l]]
    BY <1>5, <1>7
  <2>3. \A i, j \in K : s[i] = s[j] => ~(i < j)
    BY <1>2, <1>3
  <2>4. ~(k < l) /\ ~(l < k)
    BY <1>5, <1>7, <2>1, <2>2, <2>3
  <2> QED BY <1>5, <2>4
<1> QED BY <1>5, <1>6, <1>7

LEMMA FirstsAppend ==
  ASSUME NEW X, NEW s \in Seq(X), NEW x \in X
  PROVE  Firsts(Append(s, x)) = IF x \in Range(s) THEN Firsts(s) ELSE Append(Firsts(s), x)
<1> DEFINE t == Append(s, x)
<1>1. /\ Len(s) \in Nat /\ DOMAIN s = 1..Len(s) /\ DOMAIN t = 1..(Len(s) + 1)
      /\ \A i \in 1..Len(s) : t[i] = s[i]
      /\ t[Len(s) + 1] = x
  BY AppendProperties, LenProperties
<1>2. x \in Range(s) <=> \E j \in 1..Len(s) : s[j] = x
  BY <1>1 DEF Range
<1> HIDE DEF t
<1>3. \A i \in 1..Len(s) : i \in New(t) <=> i \in New(s)
  BY <1>1 DEF New
<1>4. Len(s) + 1 \in New(t) <=> x \notin Range(s)
  <2>1. (Len(s) + 1) - 1 = Len(s) /\ Len(s) + 1 \in DOMAIN t
    BY <1>1
  <2> QED BY <1>1, <1>2, <2>1 DEF New
<1>5. New(s) \in SUBSET (1..Len(s)) /\ New(t) \in SUBSET (1..(Len(s) + 1))
  BY <1>1 DEF New
<1>6. New(t) = IF x \in Range(s) THEN New(s) ELSE New(s) \cup {Len(s) + 1}
  BY <1>1, <1>3, <1>4, <1>5
<1>7. Firsts(t) = Keep(t, New(t)) /\ Firsts(s) = Keep(s, New(s))
  BY DEF Firsts, New
<1>8. /\ Keep(t, New(s)) = Keep(s, New(s))
      /\ Keep(t, New(s) \cup {Len(s) + 1}) = Append(Keep(s, New(s)), x)
  <2>1. New(s) \in SUBSET DOMAIN s
    BY DEF New
  <2> QED BY <2>1, KeepAppend DEF t
<1> QED BY <1>6, <1>7, <1>8 DEF t

(***************************************************************************)
(* Interning                                                               *)
(***************************************************************************)
LEMMA RowOfValue ==
  ASSUME NEW X, NEW t \in Seq(X), NEW v \in Range(t)
  PROVE  /\ RowOf(t, v) \in DOMAIN t /\ t[RowOf(t, v)] = v
         /\ \A j \in DOMAIN t : t[j] = v => RowOf(t, v) <= j
<1> DEFINE I == {i \in 1..Len(t) : t[i] = v}
<1>1. DOMAIN t = 1..Len(t) /\ Len(t) \in Nat
  BY LenProperties
<1>2. I # {} /\ I \in SUBSET Nat
  BY <1>1 DEF Range
<1>3. RowOf(t, v) = Min(I)
  BY <1>2 DEF RowOf, SelectInSeq
<1> HIDE DEF I
<1>4. \E x \in I : \A y \in I : x <= y
  BY <1>2, LeastNumber
<1>5. Min(I) \in I /\ \A y \in I : Min(I) <= y
  BY <1>4 DEF Min
<1> QED BY <1>1, <1>3, <1>5 DEF I

\* A table without repetitions is searched for a value: it is not there, and comes to
\* the end, or it has one row.  Other rows stay what they are.
LEMMA InternedTable ==
  ASSUME NEW X, NEW s \in Seq(X), NEW v \in X
  PROVE  /\ Firsts(Append(s, v)) = Interned(Firsts(s), v)
         /\ Interned(Firsts(s), v) \in Seq(X)
         /\ Range(Interned(Firsts(s), v)) = Range(s) \cup {v}
         /\ \A w \in Range(s) : RowOf(Interned(Firsts(s), v), w) = RowOf(Firsts(s), w)
<1> DEFINE t == Firsts(s)
           u == Interned(t, v)
<1>1. /\ t \in Seq(X) /\ Range(t) = Range(s) /\ Len(t) \in Nat /\ DOMAIN t = 1..Len(t)
      /\ \A k, l \in DOMAIN t : t[k] = t[l] => k = l
  BY FirstsMembers, LenProperties
<1> HIDE DEF t
<1>2. u = IF v \in Range(s) THEN t ELSE Append(t, v)
  BY <1>1 DEF Interned, Contains, Range
<1>3. Firsts(Append(s, v)) = u
  BY <1>2, FirstsAppend DEF t
<1>4. Append(s, v) \in Seq(X) /\ Range(Append(s, v)) = Range(s) \cup {v}
  <2>1. /\ Append(s, v) \in Seq(X) /\ Len(Append(s, v)) = Len(s) + 1
        /\ Len(s) \in Nat /\ DOMAIN s = 1..Len(s)
        /\ \A i \in 1..Len(s) : Append(s, v)[i] = s[i]
        /\ Append(s, v)[Len(s) + 1] = v
    BY AppendProperties, LenProperties
  <2>2. DOMAIN Append(s, v) = 1..(Len(s) + 1)
    BY <2>1, LenProperties
  <2>3. 1..(Len(s) + 1) = (1..Len(s)) \cup {Len(s) + 1}
    BY <2>1
  <2> QED BY <2>1, <2>2, <2>3 DEF Range
<1>5. u \in Seq(X) /\ Range(u) = Range(s) \cup {v}
  BY <1>3, <1>4, FirstsMembers
<1>6. ASSUME NEW w \in Range(s) PROVE RowOf(u, w) = RowOf(t, w)
  <2>1. CASE v \in Range(s)
    BY <1>2, <2>1
  <2>2. CASE v \notin Range(s)
    <3>1. /\ DOMAIN u = 1..(Len(t) + 1) /\ \A i \in 1..Len(t) : u[i] = t[i]
      BY <1>1, <1>2, <2>2, AppendProperties, LenProperties
    <3>2. RowOf(t, w) \in 1..Len(t) /\ t[RowOf(t, w)] = w
      BY <1>1, RowOfValue
    <3>3. /\ RowOf(u, w) \in 1..(Len(t) + 1) /\ u[RowOf(u, w)] = w
          /\ \A j \in DOMAIN u : u[j] = w => RowOf(u, w) <= j
      BY <1>5, <3>1, RowOfValue
    <3>4. RowOf(t, w) \in DOMAIN u /\ u[RowOf(t, w)] = w
      BY <1>1, <3>1, <3>2
    <3>5. RowOf(u, w) \in 1..Len(t) /\ t[RowOf(u, w)] = w
      BY <1>1, <3>1, <3>2, <3>3, <3>4
    <3> QED BY <1>1, <3>2, <3>5
  <2> QED BY <2>1, <2>2
<1> QED BY <1>3, <1>5, <1>6 DEF t

(***************************************************************************)
(* FlattenSeq                                                              *)
(***************************************************************************)
\* The equation of the function that FlattenSeq is defined with, up to n.
Flattens(f, ss, n) == f = [i \in 1..n |-> IF i = 1 THEN ss[i] ELSE f[i - 1] \o ss[i]]

LEMMA FlatteningExists == \A ss : \A n \in Nat : \E f : Flattens(f, ss, n)
<1> TAKE ss
<1> DEFINE S == {n \in Nat : \E f : Flattens(f, ss, n)}
<1>1. 0 \in S
  <2>1. Flattens([i \in 1..0 |-> 0], ss, 0)
    BY DEF Flattens
  <2> QED BY <2>1
<1>2. ASSUME NEW n \in Nat, n \in S PROVE n + 1 \in S
  <2>1. PICK f : Flattens(f, ss, n)
    BY <1>2
  <2> DEFINE g == [i \in 1..(n + 1) |->
                     IF i = n + 1 THEN IF i = 1 THEN ss[i] ELSE f[n] \o ss[i] ELSE f[i]]
  <2>2. \A i \in 1..n : f[i] = IF i = 1 THEN ss[i] ELSE f[i - 1] \o ss[i]
    BY <2>1 DEF Flattens
  <2>3. ASSUME NEW i \in 1..(n + 1) PROVE g[i] = IF i = 1 THEN ss[i] ELSE g[i - 1] \o ss[i]
    <3>1. CASE i = n + 1
      <4>1. i # 1 => i - 1 = n /\ n \in 1..(n + 1) /\ n # n + 1
        BY <3>1
      <4> QED BY <3>1, <4>1
    <3>2. CASE i # n + 1
      <4>1. i \in 1..n /\ (i # 1 => i - 1 \in 1..(n + 1) /\ i - 1 # n + 1)
        BY <3>2
      <4> QED BY <2>2, <3>2, <4>1
    <3> QED BY <3>1, <3>2
  <2>4. DOMAIN g = 1..(n + 1) /\ g = [i \in 1..(n + 1) |-> g[i]]
    OBVIOUS
  <2> HIDE DEF g
  <2>5. Flattens(g, ss, n + 1)
    BY <2>3, <2>4 DEF Flattens
  <2> QED BY <2>5
<1> HIDE DEF S
<1>3. Nat \subseteq S
  BY <1>1, <1>2, CountUp
<1> QED BY <1>3 DEF S

LEMMA FlatteningAgrees ==
  \A ss, tt, f, g : \A m, n \in Nat :
    /\ m <= n /\ \A i \in 1..m : ss[i] = tt[i]
    /\ Flattens(f, ss, m) /\ Flattens(g, tt, n)
    => \A i \in 1..m : f[i] = g[i]
<1> SUFFICES ASSUME NEW ss, NEW tt, NEW f, NEW g, NEW m \in Nat, NEW n \in Nat,
                    m <= n, \A i \in 1..m : ss[i] = tt[i],
                    Flattens(f, ss, m), Flattens(g, tt, n)
             PROVE  \A i \in 1..m : f[i] = g[i]
  OBVIOUS
<1> DEFINE S == {k \in Nat : k \in 1..m => f[k] = g[k]}
<1>1. 0 \in S
  OBVIOUS
<1>2. ASSUME NEW k \in Nat, k \in S PROVE k + 1 \in S
  <2> SUFFICES ASSUME k + 1 \in 1..m PROVE f[k + 1] = g[k + 1]
    OBVIOUS
  <2>1. f[k + 1] = IF k + 1 = 1 THEN ss[k + 1] ELSE f[(k + 1) - 1] \o ss[k + 1]
    BY DEF Flattens
  <2>2. k + 1 \in 1..n
    OBVIOUS
  <2>3. g[k + 1] = IF k + 1 = 1 THEN tt[k + 1] ELSE g[(k + 1) - 1] \o tt[k + 1]
    BY <2>2 DEF Flattens
  <2>4. (k + 1) - 1 = k /\ (k + 1 = 1 \/ k \in 1..m)
    OBVIOUS
  <2>5. k + 1 = 1 \/ f[k] = g[k]
    BY <1>2, <2>4
  <2>6. ss[k + 1] = tt[k + 1]
    OBVIOUS
  <2> QED BY <2>1, <2>3, <2>4, <2>5, <2>6
<1> HIDE DEF S
<1>3. Nat \subseteq S
  BY <1>1, <1>2, CountUp
<1> QED BY <1>3 DEF S

LEMMA FlatteningStep ==
  ASSUME NEW aa, NEW bb, NEW k \in Nat, k # 0, \A i \in 1..k : aa[i] = bb[i],
         NEW u, NEW v, Flattens(u, aa, k), Flattens(v, bb, k + 1)
  PROVE  u[k] = v[k]
<1>1. k + 1 \in Nat /\ k <= k + 1 /\ k \in 1..k
  OBVIOUS
<1>2. /\ k <= k + 1 /\ \A i \in 1..k : aa[i] = bb[i]
      /\ Flattens(u, aa, k) /\ Flattens(v, bb, k + 1)
      => \A i \in 1..k : u[i] = v[i]
  BY <1>1, FlatteningAgrees
<1> QED BY <1>1, <1>2

LEMMA FlattenAt ==
  ASSUME NEW ss, Len(ss) \in Nat \ {0}, NEW n \in Nat, NEW f, Len(ss) <= n, Flattens(f, ss, n)
  PROVE  FlattenSeq(ss) = f[Len(ss)]
<1> DEFINE m == Len(ss)
           g == CHOOSE g : g = [i \in 1..m |-> IF i = 1 THEN ss[i] ELSE g[i - 1] \o ss[i]]
<1>1. FlattenSeq(ss) = g[m]
  BY DEF FlattenSeq
<1>2. \E h : h = [i \in 1..m |-> IF i = 1 THEN ss[i] ELSE h[i - 1] \o ss[i]]
  BY FlatteningExists DEF Flattens
<1>3. g = [i \in 1..m |-> IF i = 1 THEN ss[i] ELSE g[i - 1] \o ss[i]]
  BY <1>2
<1> HIDE DEF g
<1>4. Flattens(g, ss, m)
  BY <1>3 DEF Flattens
<1>5. \A i \in 1..m : g[i] = f[i]
  BY <1>4, FlatteningAgrees
<1> QED BY <1>1, <1>5

\* What FlattenSeq does with one sequence more.
LEMMA FlattenEmpty == FlattenSeq(<< >>) = << >>
  BY EmptySeq DEF FlattenSeq

LEMMA FlattenLonger ==
  ASSUME NEW ss, NEW longer, NEW s, Len(ss) \in Nat, Len(longer) = Len(ss) + 1,
         \A i \in 1..Len(ss) : longer[i] = ss[i], longer[Len(ss) + 1] = s
  PROVE  FlattenSeq(longer) = IF Len(ss) = 0 THEN s ELSE FlattenSeq(ss) \o s
<1> DEFINE n == Len(ss)
<1>1. n \in Nat /\ n + 1 \in Nat \ {0}
  OBVIOUS
<1> HIDE DEF n
<1>2. PICK f : Flattens(f, longer, n + 1)
  BY <1>1, FlatteningExists
<1>3. FlattenSeq(longer) = f[n + 1]
  BY <1>1, <1>2, FlattenAt DEF n
<1>4. f[n + 1] = IF n + 1 = 1 THEN s ELSE f[n] \o s
  <2>1. n + 1 \in 1..(n + 1) /\ (n + 1) - 1 = n
    BY <1>1
  <2> QED BY <1>1, <1>2, <2>1 DEF Flattens, n
<1>5. CASE n = 0
  BY <1>3, <1>4, <1>5 DEF n
<1>6. CASE n # 0
  <2>1. PICK g : Flattens(g, ss, n)
    BY <1>1, FlatteningExists
  <2>2. FlattenSeq(ss) = g[n]
    BY <1>1, <1>6, <2>1, FlattenAt DEF n
  <2>3. g[n] = f[n]
    <3>1. \A i \in 1..n : ss[i] = longer[i]
      BY DEF n
    <3> QED BY <1>1, <1>2, <1>6, <2>1, <3>1, FlatteningStep, SMTT(20)
  <2>4. FlattenSeq(longer) = FlattenSeq(ss) \o s
    <3>1. n + 1 # 1
      BY <1>1, <1>6
    <3> QED BY <1>3, <1>4, <2>2, <2>3, <3>1
  <2> QED BY <1>6, <2>4 DEF n
<1> QED BY <1>5, <1>6

LEMMA FlattenAppend ==
  ASSUME NEW X, NEW ss \in Seq(Seq(X)), NEW s \in Seq(X), FlattenSeq(ss) \in Seq(X)
  PROVE  FlattenSeq(Append(ss, s)) = FlattenSeq(ss) \o s
<1>1. /\ Len(ss) \in Nat /\ Len(Append(ss, s)) = Len(ss) + 1
      /\ \A i \in 1..Len(ss) : Append(ss, s)[i] = ss[i]
      /\ Append(ss, s)[Len(ss) + 1] = s
  BY AppendProperties, LenProperties
<1>2. FlattenSeq(Append(ss, s)) = IF Len(ss) = 0 THEN s ELSE FlattenSeq(ss) \o s
  BY <1>1, FlattenLonger
<1>3. Len(ss) = 0 => FlattenSeq(ss) = << >>
  BY EmptySeq, FlattenEmpty
<1> QED BY <1>2, <1>3, ConcatEmptySeq

\* What holds of the empty sequence and of all the parts, and of two sequences joined
\* if it holds of each, holds of them all joined.
LEMMA FlattenIn ==
  ASSUME NEW X, NEW G \in SUBSET Seq(X), << >> \in G, \A s, t \in G : s \o t \in G,
         NEW ss \in Seq(G)
  PROVE  FlattenSeq(ss) \in G
<1> DEFINE S == {n \in Nat : \A tt \in Seq(G) : Len(tt) = n => FlattenSeq(tt) \in G}
<1>1. 0 \in S
  <2>1. ASSUME NEW tt \in Seq(G), Len(tt) = 0 PROVE FlattenSeq(tt) \in G
    <3>1. tt = << >>
      BY <2>1, EmptySeq
    <3> QED BY <3>1, FlattenEmpty
  <2> QED BY <2>1
<1>2. ASSUME NEW n \in Nat, n \in S PROVE n + 1 \in S
  <2>1. ASSUME NEW tt \in Seq(G), Len(tt) = n + 1 PROVE FlattenSeq(tt) \in G
    <3>1. PICK uu \in Seq(G), s \in G : tt = Append(uu, s)
      <4>1. tt # << >>
        BY <2>1, EmptySeq
      <4> QED BY <4>1, SequenceEmptyOrAppend
    <3>2. Len(uu) = n
      <4>1. Len(tt) = Len(uu) + 1 /\ Len(uu) \in Nat
        BY <3>1, AppendProperties, LenProperties
      <4> QED BY <2>1, <4>1
    <3>3. FlattenSeq(uu) \in G
      BY <1>2, <3>2
    <3>4. uu \in Seq(Seq(X))
      BY SeqMonotonic
    <3>5. FlattenSeq(tt) = FlattenSeq(uu) \o s
      BY <3>1, <3>3, <3>4, FlattenAppend
    <3> QED BY <3>1, <3>3, <3>5
  <2> QED BY <2>1
<1> HIDE DEF S
<1>3. Nat \subseteq S
  BY <1>1, <1>2, CountUp
<1>4. Len(ss) \in Nat
  BY LenProperties
<1> QED BY <1>3, <1>4 DEF S

\* The elements of the parts joined are those of the parts.
LEMMA FlattenRange ==
  ASSUME NEW X, NEW ss \in Seq(Seq(X))
  PROVE  /\ FlattenSeq(ss) \in Seq(X)
         /\ \A i \in 1..Len(ss) : Range(ss[i]) \subseteq Range(FlattenSeq(ss))
         /\ \A x \in Range(FlattenSeq(ss)) : \E i \in 1..Len(ss) : x \in Range(ss[i])
<1>1. \A tt \in Seq(Seq(X)) : FlattenSeq(tt) \in Seq(X)
  <2>1. << >> \in Seq(X) /\ \A s, t \in Seq(X) : s \o t \in Seq(X)
    BY EmptySeq, ConcatProperties
  <2> QED BY <2>1, FlattenIn
<1> DEFINE Holds(tt) == \A x : x \in Range(FlattenSeq(tt)) <=> \E i \in 1..Len(tt) : x \in Range(tt[i])
           S == {n \in Nat : \A tt \in Seq(Seq(X)) : Len(tt) = n => Holds(tt)}
<1>2. 0 \in S
  <2>1. ASSUME NEW tt \in Seq(Seq(X)), Len(tt) = 0 PROVE Holds(tt)
    <3>1. tt = << >>
      BY <2>1, EmptySeq
    <3>2. Range(FlattenSeq(tt)) = {} /\ Len(tt) = 0
      BY <3>1, FlattenEmpty, EmptySeq DEF Range
    <3> QED BY <3>2
  <2> QED BY <2>1
<1>3. ASSUME NEW n \in Nat, n \in S PROVE n + 1 \in S
  <2>1. ASSUME NEW tt \in Seq(Seq(X)), Len(tt) = n + 1 PROVE Holds(tt)
    <3>1. PICK uu \in Seq(Seq(X)), s \in Seq(X) : tt = Append(uu, s)
      <4>1. tt # << >>
        BY <2>1, EmptySeq
      <4> QED BY <4>1, SequenceEmptyOrAppend
    <3>2. /\ Len(uu) = n /\ \A i \in 1..n : tt[i] = uu[i]
          /\ tt[n + 1] = s
      <4>1. /\ Len(tt) = Len(uu) + 1 /\ Len(uu) \in Nat
            /\ \A i \in 1..Len(uu) : tt[i] = uu[i]
            /\ tt[Len(uu) + 1] = s
        BY <3>1, AppendProperties, LenProperties
      <4>2. Len(uu) = n
        BY <2>1, <4>1
      <4> QED BY <4>1, <4>2
    <3>3. Holds(uu)
      BY <1>3, <3>2
    <3>4. FlattenSeq(tt) = FlattenSeq(uu) \o s
      BY <1>1, <3>1, FlattenAppend
    <3>5. Range(FlattenSeq(tt)) = Range(FlattenSeq(uu)) \cup Range(s)
      BY <1>1, <3>4, RangeConcatenation
    <3>6. 1..(n + 1) = (1..n) \cup {n + 1}
      OBVIOUS
    <3> QED BY <2>1, <3>2, <3>3, <3>5, <3>6
  <2> QED BY <2>1
<1> HIDE DEF S
<1>4. Nat \subseteq S
  BY <1>2, <1>3, CountUp
<1>5. Len(ss) \in Nat
  BY LenProperties
<1>6. Holds(ss)
  BY <1>4, <1>5 DEF S
<1> QED BY <1>1, <1>6

(***************************************************************************)
(* The elements of a sequence that are in a set                            *)
(***************************************************************************)
Chosen(s, V) == Keep(s, {i \in DOMAIN s : s[i] \in V})

LEMMA ChosenPart ==
  ASSUME NEW X, NEW s \in Seq(X), NEW V
  PROVE  Chosen(s, V) \in Seq(X) /\ Range(Chosen(s, V)) = Range(s) \cap V
<1> DEFINE K == {i \in DOMAIN s : s[i] \in V}
<1>1. K \in SUBSET DOMAIN s
  OBVIOUS
<1>2. {s[k] : k \in K} = Range(s) \cap V
  BY DEF Range
<1> HIDE DEF K
<1>3. Keep(s, K) \in Seq(X) /\ Range(Keep(s, K)) = {s[k] : k \in K}
  BY <1>1, KeepPart
<1> QED BY <1>2, <1>3 DEF Chosen, K

LEMMA ChosenAppend ==
  ASSUME NEW X, NEW s \in Seq(X), NEW x \in X, NEW V
  PROVE  Chosen(Append(s, x), V) = IF x \in V THEN Append(Chosen(s, V), x) ELSE Chosen(s, V)
<1> DEFINE K == {i \in DOMAIN s : s[i] \in V}
           t == Append(s, x)
           L == {i \in DOMAIN t : t[i] \in V}
<1>1. /\ Len(s) \in Nat /\ DOMAIN s = 1..Len(s) /\ DOMAIN t = 1..(Len(s) + 1)
      /\ \A i \in 1..Len(s) : t[i] = s[i]
      /\ t[Len(s) + 1] = x
  BY AppendProperties, LenProperties
<1>2. L = IF x \in V THEN K \cup {Len(s) + 1} ELSE K
  BY <1>1
<1>3. K \in SUBSET DOMAIN s
  OBVIOUS
<1> HIDE DEF K, L
<1>4. Keep(t, K) = Keep(s, K) /\ Keep(t, K \cup {Len(s) + 1}) = Append(Keep(s, K), x)
  BY <1>3, KeepAppend
<1>5. Chosen(s, V) = Keep(s, K) /\ Chosen(t, V) = Keep(t, L)
  BY DEF Chosen, K, L
<1> QED BY <1>2, <1>4, <1>5

LEMMA ChosenEmpty == \A V : Chosen(<< >>, V) = << >>
<1> SUFFICES ASSUME NEW V PROVE Chosen(<< >>, V) = << >>
  OBVIOUS
<1>1. {i \in DOMAIN << >> : << >>[i] \in V} = {}
  OBVIOUS
<1>2. << >> \in Seq({}) /\ {} \in SUBSET DOMAIN << >>
  OBVIOUS
<1>3. Keep(<< >>, {}) \in Seq({}) /\ Len(Keep(<< >>, {})) = Cardinality({})
  BY <1>2, KeepPart
<1>4. Keep(<< >>, {}) = << >>
  BY <1>3, SortedEmpty, EmptySeq
<1> QED BY <1>1, <1>4 DEF Chosen

LEMMA ConcatAppended ==
  ASSUME NEW X, NEW s \in Seq(X), NEW t \in Seq(X), NEW x \in X
  PROVE  s \o Append(t, x) = Append(s \o t, x)
<1> DEFINE a == s \o Append(t, x)
           b == Append(s \o t, x)
           m == Len(s)
           n == Len(t)
<1>1. /\ m \in Nat /\ n \in Nat /\ s \o t \in Seq(X) /\ Len(s \o t) = m + n
      /\ \A i \in 1..(m + n) : (s \o t)[i] = IF i <= m THEN s[i] ELSE t[i - m]
  BY ConcatProperties, LenProperties
<1>2. /\ Append(t, x) \in Seq(X) /\ Len(Append(t, x)) = n + 1
      /\ \A i \in 1..n : Append(t, x)[i] = t[i]
      /\ Append(t, x)[n + 1] = x
  BY AppendProperties
<1>3. /\ a \in Seq(X) /\ Len(a) = m + (n + 1)
      /\ \A i \in 1..(m + (n + 1)) : a[i] = IF i <= m THEN s[i] ELSE Append(t, x)[i - m]
  BY <1>2, ConcatProperties
<1>4. /\ b \in Seq(X) /\ Len(b) = m + n + 1
      /\ \A i \in 1..(m + n) : b[i] = (s \o t)[i]
      /\ b[m + n + 1] = x
  BY <1>1, AppendProperties
<1>5. \A i \in 1..(m + n + 1) : a[i] = b[i]
  <2> SUFFICES ASSUME NEW i \in 1..(m + n + 1) PROVE a[i] = b[i]
    OBVIOUS
  <2>1. CASE i <= m
    BY <1>1, <1>3, <1>4, <2>1
  <2>2. CASE i > m /\ i <= m + n
    <3>1. i - m \in 1..n
      BY <1>1, <2>2
    <3> QED BY <1>1, <1>2, <1>3, <1>4, <2>2, <3>1
  <2>3. CASE i = m + n + 1
    <3>1. i - m = n + 1 /\ ~(i <= m)
      BY <1>1, <2>3
    <3> QED BY <1>1, <1>2, <1>3, <1>4, <2>3, <3>1
  <2> QED BY <1>1, <2>1, <2>2, <2>3
<1> HIDE DEF a, b, m, n
<1>6. Len(a) = Len(b) /\ Len(a) = m + n + 1
  BY <1>1, <1>3, <1>4
<1> QED BY <1>3, <1>4, <1>5, <1>6, SameSequence DEF a, b

LEMMA ChosenConcat ==
  ASSUME NEW X, NEW s \in Seq(X), NEW t \in Seq(X), NEW V
  PROVE  Chosen(s \o t, V) = Chosen(s, V) \o Chosen(t, V)
<1> DEFINE S == {n \in Nat : \A u \in Seq(X) : Len(u) = n =>
                               Chosen(s \o u, V) = Chosen(s, V) \o Chosen(u, V)}
<1>1. 0 \in S
  <2>1. ASSUME NEW u \in Seq(X), Len(u) = 0
        PROVE  Chosen(s \o u, V) = Chosen(s, V) \o Chosen(u, V)
    <3>1. u = << >>
      BY <2>1, EmptySeq
    <3>2. s \o u = s /\ Chosen(u, V) = << >>
      BY <3>1, ConcatEmptySeq, ChosenEmpty
    <3>3. Chosen(s, V) \in Seq(X)
      BY ChosenPart
    <3> QED BY <3>2, <3>3, ConcatEmptySeq
  <2> QED BY <2>1
<1>2. ASSUME NEW n \in Nat, n \in S PROVE n + 1 \in S
  <2>1. ASSUME NEW u \in Seq(X), Len(u) = n + 1
        PROVE  Chosen(s \o u, V) = Chosen(s, V) \o Chosen(u, V)
    <3>1. PICK w \in Seq(X), x \in X : u = Append(w, x)
      <4>1. u # << >>
        BY <2>1, EmptySeq
      <4> QED BY <4>1, SequenceEmptyOrAppend
    <3>2. Len(w) = n
      <4>1. Len(u) = Len(w) + 1 /\ Len(w) \in Nat
        BY <3>1, AppendProperties, LenProperties
      <4> QED BY <2>1, <4>1
    <3>3. Chosen(s \o w, V) = Chosen(s, V) \o Chosen(w, V)
      BY <1>2, <3>2
    <3>4. s \o w \in Seq(X) /\ s \o u = Append(s \o w, x)
      BY <3>1, ConcatProperties, ConcatAppended
    <3>5. /\ Chosen(s \o u, V)
               = IF x \in V THEN Append(Chosen(s \o w, V), x) ELSE Chosen(s \o w, V)
          /\ Chosen(u, V) = IF x \in V THEN Append(Chosen(w, V), x) ELSE Chosen(w, V)
      <4>1. \A v \in Seq(X) : Chosen(Append(v, x), V)
                                = IF x \in V THEN Append(Chosen(v, V), x) ELSE Chosen(v, V)
        BY ChosenAppend
      <4> QED BY <3>1, <3>4, <4>1, Zenon
    <3>6. Chosen(s, V) \in Seq(X) /\ Chosen(w, V) \in Seq(X)
      BY ChosenPart
    <3>7. Chosen(s, V) \o Append(Chosen(w, V), x) = Append(Chosen(s, V) \o Chosen(w, V), x)
      BY <3>6, ConcatAppended
    <3> QED BY <3>3, <3>5, <3>7
  <2> QED BY <2>1
<1> HIDE DEF S
<1>3. Nat \subseteq S
  BY <1>1, <1>2, CountUp
<1>4. Len(t) \in Nat
  BY LenProperties
<1> QED BY <1>3, <1>4 DEF S

\* All of a sequence, or nothing of it.
LEMMA ChosenAll ==
  ASSUME NEW X, NEW s \in Seq(X), NEW V, Range(s) \subseteq V
  PROVE  Chosen(s, V) = s
<1> DEFINE n == Len(s)
           t == Keep(s, 1..n)
<1>1. n \in Nat /\ DOMAIN s = 1..n
  BY LenProperties
<1>2. {i \in DOMAIN s : s[i] \in V} = 1..n
  BY <1>1 DEF Range
<1>3. Cardinality(1..n) = n /\ \A k \in 1..n : Sorted(1..n)[k] = k
  <2>1. 0 \in Nat /\ (0 + 1)..(0 + n) = 1..n
    BY <1>1
  <2>2. Cardinality(1..n) = n /\ Sorted(1..n) = [k \in 1..n |-> 0 + k]
    BY <1>1, <2>1, SortedInterval
  <2> QED BY <1>1, <2>2
<1>4. 1..n \in SUBSET DOMAIN s
  BY <1>1
<1>5. /\ t \in Seq(X) /\ Len(t) = Cardinality(1..n)
      /\ \A k \in 1..Cardinality(1..n) : t[k] = s[Sorted(1..n)[k]]
  BY <1>4, KeepPart
<1>6. Len(t) = n /\ \A k \in 1..n : t[k] = s[k]
  BY <1>3, <1>5
<1> HIDE DEF t
<1>7. t = s
  BY <1>5, <1>6, SameSequence
<1> QED BY <1>2, <1>7 DEF Chosen, t

LEMMA ChosenNone ==
  ASSUME NEW X, NEW s \in Seq(X), NEW V, Range(s) \cap V = {}
  PROVE  Chosen(s, V) = << >>
<1>1. Chosen(s, V) \in Seq(X) /\ Range(Chosen(s, V)) = {}
  BY ChosenPart
<1>2. Chosen(s, V) # << >> => 1 \in DOMAIN Chosen(s, V)
  BY <1>1, EmptySeq, LenProperties
<1> QED BY <1>1, <1>2 DEF Range

LEMMA HeadFirst ==
  ASSUME NEW X, NEW s \in Seq(X), s # << >>
  PROVE  /\ Head(s) \in X /\ Tail(s) \in Seq(X) /\ Len(Tail(s)) = Len(s) - 1
         /\ Len(s) \in Nat \ {0}
         /\ s = <<Head(s)>> \o Tail(s) /\ Head(s) = s[1]
         /\ \A i \in 1..(Len(s) - 1) : Tail(s)[i] = s[i + 1]
<1> DEFINE h == <<Head(s)>>
           t == h \o Tail(s)
           n == Len(s)
<1>1. /\ Head(s) \in X /\ Tail(s) \in Seq(X) /\ Len(Tail(s)) = n - 1 /\ n \in Nat \ {0}
      /\ \A i \in 1..Len(Tail(s)) : Tail(s)[i] = s[i + 1]
  BY HeadTailProperties, EmptySeq
<1>2. h \in Seq(X) /\ Len(h) = 1 /\ h[1] = Head(s)
  BY <1>1
<1>3. Head(s) = s[1]
  OBVIOUS
<1>4. /\ t \in Seq(X) /\ Len(t) = 1 + (n - 1)
      /\ \A i \in 1..(1 + (n - 1)) : t[i] = IF i <= 1 THEN h[i] ELSE Tail(s)[i - 1]
  BY <1>1, <1>2, ConcatProperties
<1>5. \A i \in 1..n : t[i] = s[i]
  <2> SUFFICES ASSUME NEW i \in 1..n PROVE t[i] = s[i]
    OBVIOUS
  <2>1. CASE i = 1
    BY <1>1, <1>2, <1>3, <1>4, <2>1
  <2>2. CASE i # 1
    <3>1. i - 1 \in 1..Len(Tail(s)) /\ i - 1 + 1 = i /\ ~(i <= 1) /\ i \in 1..(1 + (n - 1))
      BY <1>1, <2>2
    <3> QED BY <1>1, <1>4, <3>1
  <2> QED BY <2>1, <2>2
<1> HIDE DEF t, h
<1>6. Len(t) = Len(s)
  BY <1>1, <1>4
<1>7. t = s
  BY <1>4, <1>5, <1>6, SameSequence
<1> QED BY <1>1, <1>3, <1>7 DEF t, h

(***************************************************************************)
(* The calls of a projection                                               *)
(***************************************************************************)
ContextValue == [path : Nat, layer : Nat, groups : Seq(Nat)]
LicenseValue ==
  [status : {"not_evaluated", "unknown", "noncompliant", "compliant"}, licenses : Seq(Nat),
   violations : Seq(Nat)]
FixValue == [status : {"reported", "unknown"}, versions : Seq(Nat), severities : Seq(Nat)]
AssessmentValue == [called : {"missing", "true", "false"}, severity : Nat]
Projected == {ProjectAdvisory(a) : a \in Advisory}

UnionCalls == [op : {"union"}, names : Seq(Nat)]
OccurrenceCalls ==
  [op : {"occurrence"}, package : STRING, context : ContextValue, license : LicenseValue]
FindingCalls ==
  [op : {"finding"}, address : Nat, advisory : Projected, fix : FixValue,
   assessment : AssessmentValue]
SinkCalls == UnionCalls \cup OccurrenceCalls \cup FindingCalls

LEMMA SortedRange ==
  ASSUME NEW S, Numbers(S)
  PROVE  Sorted(S) \in Seq(Nat) /\ Len(Sorted(S)) = Cardinality(S) /\ Range(Sorted(S)) = S
<1>1. /\ Cardinality(S) \in Nat /\ Sorted(S) \in [1..Cardinality(S) -> S]
      /\ \A x \in S : \E k \in 1..Cardinality(S) : Sorted(S)[k] = x
  BY SortedMembers
<1>2. S \in SUBSET Nat
  BY DEF Numbers
<1>3. Sorted(S) \in [1..Cardinality(S) -> Nat]
  BY <1>1, <1>2
<1>4. Sorted(S) \in Seq(Nat) /\ Len(Sorted(S)) = Cardinality(S)
  BY <1>1, <1>3, Sequenced
<1>5. Range(Sorted(S)) = S
  BY <1>1 DEF Range
<1> QED BY <1>4, <1>5

LEMMA RangeNumbers ==
  ASSUME NEW s \in Seq(Nat) PROVE Numbers(Range(s))
<1>1. Len(s) \in Nat /\ DOMAIN s = 1..Len(s) /\ s \in [1..Len(s) -> Nat]
  BY LenProperties
<1>2. IsFiniteSet(1..Len(s))
  BY <1>1, FS_Interval
<1>3. Range(s) = {s[i] : i \in 1..Len(s)} /\ Range(s) \in SUBSET Nat
  BY <1>1 DEF Range
<1>4. s \in Surjection(1..Len(s), Range(s))
  BY <1>1, <1>3 DEF Surjection
<1>5. IsFiniteSet(Range(s))
  BY <1>2, <1>4, FS_Surjection
<1> QED BY <1>3, <1>5 DEF Numbers

LEMMA UniqueList ==
  ASSUME NEW s \in Seq(Nat)
  PROVE  Unique(s) \in Seq(Nat) /\ Range(Unique(s)) = Range(s)
<1>1. Numbers(Range(s))
  BY RangeNumbers
<1> QED BY <1>1, SortedRange DEF Unique

LEMMA RangePart ==
  ASSUME NEW X, NEW s \in Seq(X)
  PROVE  /\ Range(s) \subseteq X
         /\ \A i \in 1..Len(s) : s[i] \in Range(s) /\ s[i] \in X
         /\ \A x \in Range(s) : \E i \in 1..Len(s) : s[i] = x
<1>1. DOMAIN s = 1..Len(s) /\ s \in [1..Len(s) -> X]
  BY LenProperties
<1> QED BY <1>1 DEF Range

LEMMA EvaluatedPackage ==
  ASSUME NEW p \in Package PROVE Evaluated(p) \in Package
<1>1. p.licenses \in Seq(Nat)
  BY DEF Package
<1> DEFINE K == {i \in DOMAIN p.licenses : p.licenses[i] \notin options.allowed}
<1>2. Keep(p.licenses, K) \in Seq(Nat)
  <2>1. K \in SUBSET DOMAIN p.licenses
    OBVIOUS
  <2> HIDE DEF K
  <2> QED BY <1>1, <2>1, KeepPart
<1>3. Violations(p) \in Seq(Nat)
  <2>1. << >> \in Seq(Nat)
    BY EmptySeq
  <2>2. Violations(p) \in {<< >>, p.licenses, Keep(p.licenses, K)}
    BY DEF Violations
  <2> HIDE DEF K
  <2> QED BY <1>1, <1>2, <2>1, <2>2
<1> QED BY <1>3 DEF Package, Evaluated

LEMMA ResponseScan ==
  ASSUME NEW r \in Scan PROVE Response(r) \in Scan
<1>1. r.packages \in Seq(Package) /\ r.failed = FALSE
  BY DEF Scan
<1> DEFINE judged == [i \in DOMAIN r.packages |-> Evaluated(r.packages[i])]
           K == {i \in DOMAIN judged : ~Deleted(judged[i])}
<1>2. judged \in Seq(Package)
  <2>1. Len(r.packages) \in Nat /\ DOMAIN r.packages = 1..Len(r.packages)
        /\ r.packages \in [1..Len(r.packages) -> Package]
    BY <1>1, LenProperties
  <2>2. judged \in [1..Len(r.packages) -> Package]
    BY <2>1, EvaluatedPackage
  <2> QED BY <2>1, <2>2, Sequenced
<1>3. Keep(judged, K) \in Seq(Package)
  <2>1. K \in SUBSET DOMAIN judged
    OBVIOUS
  <2> HIDE DEF K, judged
  <2> QED BY <1>2, <2>1, KeepPart
<1>4. Response(r) = [r EXCEPT !.packages = Keep(judged, K)]
  BY <1>1 DEF Response
<1> HIDE DEF judged, K
<1> QED BY <1>3, <1>4 DEF Scan

LEMMA MetAdvisories ==
  ASSUME NEW R \in Scan
  PROVE  /\ Met(R) \in Seq(Advisory)
         /\ \A i \in 1..Len(R.packages) :
              Range(R.packages[i].advisories) \subseteq Range(Met(R))
<1> DEFINE parts == [i \in DOMAIN R.packages |-> R.packages[i].advisories]
           n == Len(R.packages)
<1>1. n \in Nat /\ DOMAIN R.packages = 1..n /\ R.packages \in [1..n -> Package]
  <2>1. R.packages \in Seq(Package)
    BY DEF Scan
  <2> QED BY <2>1, LenProperties
<1>2. parts \in [1..n -> Seq(Advisory)]
  BY <1>1 DEF Package
<1>3. parts \in Seq(Seq(Advisory)) /\ Len(parts) = n
  BY <1>1, <1>2, Sequenced
<1>4. \A i \in 1..n : parts[i] = R.packages[i].advisories
  BY <1>1
<1>5. Met(R) = FlattenSeq(parts)
  BY DEF Met
<1> HIDE DEF parts
<1>6. FlattenSeq(parts) \in Seq(Advisory)
      /\ \A i \in 1..Len(parts) : Range(parts[i]) \subseteq Range(FlattenSeq(parts))
  BY <1>3, FlattenRange
<1> QED BY <1>3, <1>4, <1>5, <1>6

LEMMA AddressOfAdvisory ==
  ASSUME NEW R \in Scan, NEW a \in Range(Met(R))
  PROVE  /\ AddressOf(R, a) \in DOMAIN Met(R) /\ AddressOf(R, a) \in Nat
         /\ Met(R)[AddressOf(R, a)] = a
<1>1. Met(R) \in Seq(Advisory)
  BY MetAdvisories
<1>2. AddressOf(R, a) = RowOf(Met(R), a)
  BY DEF AddressOf, RowOf
<1>3. RowOf(Met(R), a) \in DOMAIN Met(R) /\ Met(R)[RowOf(Met(R), a)] = a
  BY <1>1, RowOfValue
<1>4. DOMAIN Met(R) = 1..Len(Met(R)) /\ Len(Met(R)) \in Nat
  BY <1>1, LenProperties
<1>5. RowOf(Met(R), a) \in Nat
  <2> DEFINE x == RowOf(Met(R), a)
  <2>1. x \in 1..Len(Met(R))
    BY <1>3, <1>4
  <2> HIDE DEF x
  <2>2. x \in Nat
    BY <1>4, <2>1
  <2> QED BY <2>2 DEF x
<1> QED BY <1>2, <1>3, <1>5

LEMMA LinkedGroups ==
  ASSUME NEW p \in Package, NEW a
  PROVE  Linked(p, a) \in Seq(DOMAIN p.groups)
<1> DEFINE n == Len(p.groups)
           Times(g) == Cardinality({i \in DOMAIN g.ids : g.ids[i] = a.id})
           parts == [g \in DOMAIN p.groups |-> [i \in 1..Times(p.groups[g]) |-> g]]
<1>1. n \in Nat /\ DOMAIN p.groups = 1..n /\ p.groups \in [1..n -> Group]
  <2>1. p.groups \in Seq(Group)
    BY DEF Package
  <2> QED BY <2>1, LenProperties
<1>2. ASSUME NEW g \in 1..n PROVE Times(p.groups[g]) \in Nat
  <2>1. p.groups[g].ids \in Seq(Nat)
    BY <1>1 DEF Group
  <2> DEFINE K == {i \in DOMAIN p.groups[g].ids : p.groups[g].ids[i] = a.id}
  <2>2. K \in SUBSET DOMAIN p.groups[g].ids
    OBVIOUS
  <2> HIDE DEF K
  <2>3. Cardinality(K) \in Nat
    BY <2>1, <2>2, KeepPart
  <2> QED BY <2>3 DEF K
<1> HIDE DEF Times
<1>3. ASSUME NEW g \in 1..n PROVE [i \in 1..Times(p.groups[g]) |-> g] \in Seq(1..n)
  <2>1. [i \in 1..Times(p.groups[g]) |-> g] \in [1..Times(p.groups[g]) -> 1..n]
    OBVIOUS
  <2> QED BY <1>2, <2>1, Sequenced
<1>4. parts \in [1..n -> Seq(1..n)]
  BY <1>1, <1>3
<1>5. parts \in Seq(Seq(1..n))
  BY <1>1, <1>4, Sequenced
<1>6. Linked(p, a) = FlattenSeq(parts)
  BY DEF Linked, Times
<1> HIDE DEF parts
<1>7. FlattenSeq(parts) \in Seq(1..n)
  BY <1>5, FlattenRange
<1> QED BY <1>1, <1>6, <1>7

LEMMA RowsOfPackage ==
  ASSUME NEW R \in Scan, NEW p \in Package
  PROVE  ContextRow(R, p) \in ContextValue /\ LicenseRow(p) \in LicenseValue
<1>1. /\ p.licenses \in Seq(Nat) /\ p.violations \in Seq(Nat) /\ p.depGroups \in Seq(Nat)
      /\ p.source \in Nat /\ p.location \in Nat
  BY DEF Package
<1>2. Unique(p.licenses) \in Seq(Nat) /\ Unique(p.violations) \in Seq(Nat)
      /\ Unique(p.depGroups) \in Seq(Nat)
  BY <1>1, UniqueList
<1>3. HasLayer(R, p) => R.layers[p.layer] \in Nat
  <2>1. R.layers \in Seq(Nat)
    BY DEF Scan
  <2>2. R.layers \in [DOMAIN R.layers -> Nat]
    BY <2>1, LenProperties
  <2> QED BY <2>2 DEF HasLayer
<1>4. ContextRow(R, p) \in ContextValue
  BY <1>1, <1>2, <1>3 DEF ContextRow, ContextValue
<1>5. LicenseRow(p) \in LicenseValue
  BY <1>2 DEF LicenseRow, LicenseValue
<1> QED BY <1>4, <1>5

LEMMA RowsOfAdvisory ==
  ASSUME NEW p \in Package, NEW a \in Advisory
  PROVE  /\ a.id \in Nat /\ a.aliases \in Seq(Nat)
         /\ ProjectAdvisory(a) \in Projected /\ ProjectAdvisory(a).id = a.id
         /\ FixRow(p, a) \in FixValue
         /\ \A g \in DOMAIN p.groups : AssessmentRow(p, a, g) \in AssessmentValue
         /\ NoAssessment \in AssessmentValue
<1>1. a.id \in Nat /\ a.aliases \in Seq(Nat) /\ a.severities \in Seq(Nat)
  BY DEF Advisory
<1>2. ProjectAdvisory(a) \in Projected /\ ProjectAdvisory(a).id = a.id
  BY DEF Projected, ProjectAdvisory
<1>3. FixRow(p, a) \in FixValue
  <2>1. Unique(a.severities) \in Seq(Nat) /\ << >> \in Seq(Nat) /\ <<a.id>> \in Seq(Nat)
    BY <1>1, UniqueList, EmptySeq
  <2> QED BY <2>1 DEF FixRow, FixValue
<1>4. ASSUME NEW g \in DOMAIN p.groups PROVE AssessmentRow(p, a, g) \in AssessmentValue
  <2>1. p.groups[g] \in Group
    <3>1. p.groups \in Seq(Group)
      BY DEF Package
    <3>2. p.groups \in [DOMAIN p.groups -> Group]
      BY <3>1, LenProperties
    <3> QED BY <3>2
  <2>2. p.groups[g].severity \in Nat
    BY <2>1 DEF Group
  <2> QED BY <2>2 DEF AssessmentRow, AssessmentValue
<1>5. NoAssessment \in AssessmentValue
  BY DEF NoAssessment, AssessmentValue
<1> QED BY <1>1, <1>2, <1>3, <1>4, <1>5

\* A finding is of an advisory of the response, whose names have been joined before;
\* and of a package whose occurrence came before.
Named(s, k) == \E j \in 1..(k - 1) : s[j].op = "union" /\ s[k].advisory.id \in Range(s[j].names)
Owned(s, k) == \E j \in 1..(k - 1) : s[j].op = "occurrence"
Backed(R, s) ==
  \A k \in 1..Len(s) :
    s[k].op = "finding" =>
      /\ s[k].address \in DOMAIN Met(R) /\ s[k].advisory = ProjectAdvisory(Met(R)[s[k].address])
      /\ Named(s, k)
AllOwned(s) == \A k \in 1..Len(s) : s[k].op = "finding" => Owned(s, k)
BackedCalls(R) == {s \in Seq(SinkCalls) : Backed(R, s)}
PackedCalls(R) == {s \in BackedCalls(R) : AllOwned(s)}

LEMMA BackedConcat ==
  ASSUME NEW R, NEW s \in BackedCalls(R), NEW t \in BackedCalls(R)
  PROVE  /\ s \o t \in BackedCalls(R)
         /\ s \in PackedCalls(R) /\ t \in PackedCalls(R) => s \o t \in PackedCalls(R)
<1> DEFINE u == s \o t
           m == Len(s)
           n == Len(t)
<1>1. s \in Seq(SinkCalls) /\ t \in Seq(SinkCalls) /\ Backed(R, s) /\ Backed(R, t)
  BY DEF BackedCalls
<1>2. m \in Nat /\ n \in Nat
  BY <1>1, LenProperties
<1>3. /\ u \in Seq(SinkCalls) /\ Len(u) = m + n
      /\ \A i \in 1..(m + n) : u[i] = IF i <= m THEN s[i] ELSE t[i - m]
  BY <1>1, ConcatProperties
<1>4. \A i \in 1..m : u[i] = s[i]
  BY <1>2, <1>3
<1>5. \A i \in 1..n : u[m + i] = t[i]
  <2> SUFFICES ASSUME NEW i \in 1..n PROVE u[m + i] = t[i]
    OBVIOUS
  <2>1. m + i \in 1..(m + n) /\ ~(m + i <= m) /\ m + i - m = i
    BY <1>2
  <2> QED BY <1>3, <2>1
<1>6. ASSUME NEW k \in 1..(m + n) PROVE k \in 1..m \/ \E i \in 1..n : k = m + i
  <2>1. CASE k <= m
    BY <2>1, <1>2
  <2>2. CASE k > m
    <3>1. k - m \in 1..n /\ k = m + (k - m)
      BY <2>2, <1>2
    <3> QED BY <3>1
  <2> QED BY <2>1, <2>2, <1>2
<1> HIDE DEF u, m, n
<1>7. ASSUME NEW k \in 1..m, NEW j \in 1..(k - 1) PROVE j \in 1..m /\ u[j] = s[j]
  BY <1>2, <1>4
<1>8. ASSUME NEW i \in 1..n, NEW j \in 1..(i - 1)
      PROVE  m + j \in 1..((m + i) - 1) /\ j \in 1..n /\ u[m + j] = t[j]
  BY <1>2, <1>5
<1>9. ASSUME NEW k \in 1..Len(u), u[k].op = "finding"
      PROVE  /\ u[k].address \in DOMAIN Met(R)
             /\ u[k].advisory = ProjectAdvisory(Met(R)[u[k].address])
             /\ Named(u, k)
  <2>1. CASE k \in 1..m
    BY <1>1, <1>4, <1>7, <1>9, <2>1 DEF Backed, Named, m
  <2>2. ASSUME NEW i \in 1..n, k = m + i
        PROVE  /\ u[k].address \in DOMAIN Met(R)
               /\ u[k].advisory = ProjectAdvisory(Met(R)[u[k].address])
               /\ Named(u, k)
    <3>1. u[k] = t[i]
      BY <1>5, <2>2
    <3>2. /\ t[i].address \in DOMAIN Met(R)
          /\ t[i].advisory = ProjectAdvisory(Met(R)[t[i].address])
          /\ Named(t, i)
      BY <1>1, <1>9, <3>1 DEF Backed, n
    <3>3. Named(u, k)
      BY <1>8, <2>2, <3>1, <3>2 DEF Named
    <3> QED BY <3>1, <3>2, <3>3
  <2> QED BY <1>3, <1>6, <2>1, <2>2
<1>10. u \in BackedCalls(R)
  BY <1>3, <1>9 DEF BackedCalls, Backed
<1>11. ASSUME s \in PackedCalls(R), t \in PackedCalls(R) PROVE AllOwned(u)
  <2> SUFFICES ASSUME NEW k \in 1..Len(u), u[k].op = "finding" PROVE Owned(u, k)
    BY DEF AllOwned
  <2>1. CASE k \in 1..m
    BY <1>4, <1>7, <1>11, <2>1 DEF PackedCalls, AllOwned, Owned, m
  <2>2. ASSUME NEW i \in 1..n, k = m + i PROVE Owned(u, k)
    <3>1. u[k] = t[i]
      BY <1>5, <2>2
    <3>2. Owned(t, i)
      BY <1>11, <3>1 DEF PackedCalls, AllOwned, n
    <3> QED BY <1>8, <2>2, <3>2 DEF Owned
  <2> QED BY <1>3, <1>6, <2>1, <2>2
<1> QED BY <1>10, <1>11 DEF PackedCalls, u

LEMMA AdvisoryCallsBacked ==
  ASSUME NEW R \in Scan, NEW p \in Package, NEW a \in Range(Met(R))
  PROVE  AdvisoryCalls(p, a, AddressOf(R, a)) \in BackedCalls(R)
<1> DEFINE x == AddressOf(R, a)
           linked == Linked(p, a)
           Finds(assessment) == [op |-> "finding", address |-> x, advisory |-> ProjectAdvisory(a),
                                fix |-> FixRow(p, a), assessment |-> assessment]
           joins == [op |-> "union", names |-> <<a.id>> \o a.aliases]
           rest == IF linked = << >> THEN <<Finds(NoAssessment)>>
                   ELSE [i \in DOMAIN linked |-> Finds(AssessmentRow(p, a, linked[i]))]
           s == <<joins>> \o rest
<1>1. AdvisoryCalls(p, a, AddressOf(R, a)) = s
  BY DEF AdvisoryCalls
<1>2. x \in DOMAIN Met(R) /\ x \in Nat /\ Met(R)[x] = a
  BY AddressOfAdvisory
<1>3. a \in Advisory
  <2>1. Met(R) \in Seq(Advisory)
    BY MetAdvisories
  <2> QED BY <2>1, RangePart
<1>4. joins \in UnionCalls /\ a.id \in Range(joins.names)
  <2>1. a.id \in Nat /\ a.aliases \in Seq(Nat)
    BY <1>3, RowsOfAdvisory
  <2>2. <<a.id>> \in Seq(Nat) /\ Len(<<a.id>>) = 1 /\ <<a.id>>[1] = a.id
    BY <2>1
  <2>3. Len(a.aliases) \in Nat
    BY <2>1, LenProperties
  <2> DEFINE names == <<a.id>> \o a.aliases
  <2>4. names \in Seq(Nat) /\ Len(names) = 1 + Len(a.aliases) /\ names[1] = a.id
    BY <2>1, <2>2, <2>3, ConcatProperties
  <2> HIDE DEF names
  <2>5. a.id \in Range(names)
    <3>1. 1 \in 1..Len(names)
      BY <2>3, <2>4
    <3> QED BY <2>4, <3>1, RangePart
  <2>6. joins = [op |-> "union", names |-> names]
    BY DEF names
  <2> HIDE DEF joins
  <2> QED BY <2>4, <2>5, <2>6 DEF UnionCalls
<1>5. \A v \in AssessmentValue : Finds(v) \in FindingCalls
  BY <1>2, <1>3, RowsOfAdvisory DEF FindingCalls
<1>6. /\ rest \in Seq(FindingCalls)
      /\ \A k \in 1..Len(rest) : rest[k].address = x /\ rest[k].advisory = ProjectAdvisory(a)
  <2>1. CASE linked = << >>
    <3>1. NoAssessment \in AssessmentValue
      BY <1>3, RowsOfAdvisory
    <3>2. Finds(NoAssessment) \in FindingCalls
      BY <1>5, <3>1
    <3>3. rest = <<Finds(NoAssessment)>>
      BY <2>1
    <3> QED BY <3>2, <3>3
  <2>2. CASE linked # << >>
    <3>1. Len(linked) \in Nat /\ DOMAIN linked = 1..Len(linked)
          /\ linked \in [1..Len(linked) -> DOMAIN p.groups]
      BY LinkedGroups, LenProperties
    <3>2. \A i \in 1..Len(linked) : AssessmentRow(p, a, linked[i]) \in AssessmentValue
      BY <1>3, <3>1, RowsOfAdvisory
    <3>3. rest = [i \in 1..Len(linked) |-> Finds(AssessmentRow(p, a, linked[i]))]
      BY <2>2, <3>1
    <3> HIDE DEF rest
    <3>4. rest \in [1..Len(linked) -> FindingCalls]
      BY <1>5, <3>2, <3>3
    <3>5. rest \in Seq(FindingCalls) /\ Len(rest) = Len(linked)
      BY <3>1, <3>4, Sequenced
    <3> QED BY <3>3, <3>5
  <2> QED BY <2>1, <2>2
<1> HIDE DEF joins, rest, x
<1>7. <<joins>> \in Seq(SinkCalls) /\ Len(<<joins>>) = 1 /\ <<joins>>[1] = joins
  BY <1>4 DEF SinkCalls
<1>8. rest \in Seq(SinkCalls) /\ Len(rest) \in Nat /\ rest \in [1..Len(rest) -> FindingCalls]
  BY <1>6, LenProperties DEF SinkCalls
<1>9. /\ s \in Seq(SinkCalls) /\ Len(s) = 1 + Len(rest)
      /\ \A i \in 1..(1 + Len(rest)) : s[i] = IF i <= 1 THEN <<joins>>[i] ELSE rest[i - 1]
  BY <1>7, <1>8, ConcatProperties
<1> HIDE DEF s
<1>10. ASSUME NEW k \in 1..Len(s), s[k].op = "finding"
       PROVE  /\ s[k].address \in DOMAIN Met(R)
              /\ s[k].advisory = ProjectAdvisory(Met(R)[s[k].address])
              /\ Named(s, k)
  <2>1. s[1] = joins
    BY <1>7, <1>8, <1>9
  <2>2. k # 1
    BY <1>10, <2>1, <1>4 DEF UnionCalls
  <2>3. k - 1 \in 1..Len(rest) /\ s[k] = rest[k - 1] /\ 1 \in 1..(k - 1)
    BY <1>8, <1>9, <2>2
  <2>4. s[k].address = x /\ s[k].advisory = ProjectAdvisory(a)
    BY <1>6, <2>3
  <2>5. s[k].advisory.id \in Range(s[1].names) /\ s[1].op = "union"
    BY <1>3, <1>4, <2>1, <2>4, RowsOfAdvisory DEF UnionCalls
  <2> QED BY <1>2, <2>3, <2>4, <2>5 DEF Named
<1> QED BY <1>1, <1>9, <1>10 DEF BackedCalls, Backed

RowCalls == OccurrenceCalls \cup FindingCalls

LEMMA PackedEmpty == \A R : << >> \in PackedCalls(R)
<1>1. << >> \in Seq(SinkCalls) /\ Len(<< >>) = 0
  BY EmptySeq
<1> QED BY <1>1 DEF PackedCalls, BackedCalls, Backed, AllOwned

LEMMA UnfoundBacked ==
  ASSUME NEW R, NEW s \in Seq(UnionCalls \cup OccurrenceCalls)
  PROVE  s \in PackedCalls(R)
<1>1. s \in Seq(SinkCalls) /\ Len(s) \in Nat /\ s \in [1..Len(s) -> UnionCalls \cup OccurrenceCalls]
  BY LenProperties DEF SinkCalls
<1>2. \A k \in 1..Len(s) : s[k].op # "finding"
  BY <1>1 DEF UnionCalls, OccurrenceCalls
<1> QED BY <1>1, <1>2 DEF PackedCalls, BackedCalls, Backed, AllOwned

LEMMA OwnedBy ==
  ASSUME NEW R, NEW call \in OccurrenceCalls, NEW t \in BackedCalls(R)
  PROVE  <<call>> \o t \in PackedCalls(R)
<1> DEFINE h == <<call>>
           s == h \o t
<1>1. h \in Seq(UnionCalls \cup OccurrenceCalls) /\ Len(h) = 1 /\ h[1] = call /\ h \in Seq(SinkCalls)
  BY DEF SinkCalls
<1>2. h \in BackedCalls(R)
  BY <1>1, UnfoundBacked DEF PackedCalls
<1>3. s \in BackedCalls(R)
  BY <1>2, BackedConcat
<1>4. t \in Seq(SinkCalls) /\ Len(t) \in Nat
  BY LenProperties DEF BackedCalls
<1>5. /\ Len(s) = 1 + Len(t)
      /\ \A i \in 1..(1 + Len(t)) : s[i] = IF i <= 1 THEN h[i] ELSE t[i - 1]
  BY <1>1, <1>4, ConcatProperties
<1>6. s[1] = call
  BY <1>1, <1>4, <1>5
<1> HIDE DEF s
<1>7. ASSUME NEW k \in 1..Len(s), s[k].op = "finding" PROVE Owned(s, k)
  <2>1. s[1].op = "occurrence"
    BY <1>6 DEF OccurrenceCalls
  <2>2. k # 1
    BY <1>7, <2>1
  <2>3. 1 \in 1..(k - 1)
    BY <1>4, <1>5, <2>2
  <2> QED BY <2>1, <2>3 DEF Owned
<1>8. s \in PackedCalls(R)
  BY <1>3, <1>7 DEF PackedCalls, AllOwned
<1> QED BY <1>8 DEF s

LEMMA PackageCallsPacked ==
  ASSUME NEW R \in Scan, NEW i \in 1..Len(R.packages)
  PROVE  PackageCalls(R, R.packages[i]) \in PackedCalls(R)
<1> DEFINE p == R.packages[i]
           call == [op |-> "occurrence", package |-> p.package, context |-> ContextRow(R, p),
                    license |-> LicenseRow(p)]
           Join(g) == [op |-> "union", names |-> p.groups[g].ids \o p.groups[g].aliases]
           joins == [g \in DOMAIN p.groups |-> Join(g)]
           n == Len(p.advisories)
           Of(a) == IF a.id = 0 THEN << >> ELSE AdvisoryCalls(p, a, AddressOf(R, a))
           parts == [k \in DOMAIN p.advisories |-> Of(p.advisories[k])]
<1>1. p \in Package
  <2>1. R.packages \in Seq(Package)
    BY DEF Scan
  <2> QED BY <2>1, LenProperties
<1>2. PackageCalls(R, p)
        = IF ~Selected(p) THEN << >> ELSE <<call>> \o joins \o FlattenSeq(parts)
  BY DEF PackageCalls
<1>3. call \in OccurrenceCalls
  BY <1>1, RowsOfPackage DEF OccurrenceCalls, Package
<1>4. joins \in BackedCalls(R)
  <2>1. Len(p.groups) \in Nat /\ DOMAIN p.groups = 1..Len(p.groups)
        /\ p.groups \in [1..Len(p.groups) -> Group]
    <3>1. p.groups \in Seq(Group)
      BY <1>1 DEF Package
    <3> QED BY <3>1, LenProperties
  <2>2. ASSUME NEW g \in 1..Len(p.groups) PROVE Join(g) \in UnionCalls
    <3>1. p.groups[g].ids \in Seq(Nat) /\ p.groups[g].aliases \in Seq(Nat)
      BY <2>1 DEF Group
    <3>2. p.groups[g].ids \o p.groups[g].aliases \in Seq(Nat)
      BY <3>1, ConcatProperties
    <3> QED BY <3>2 DEF UnionCalls
  <2> HIDE DEF Join
  <2>3. joins \in [1..Len(p.groups) -> UnionCalls]
    BY <2>1, <2>2
  <2>4. joins \in [1..Len(p.groups) -> UnionCalls \cup OccurrenceCalls]
    BY <2>3
  <2> HIDE DEF joins
  <2>5. joins \in Seq(UnionCalls \cup OccurrenceCalls)
    BY <2>1, <2>4, Sequenced
  <2> QED BY <2>5, UnfoundBacked DEF PackedCalls
<1>5. FlattenSeq(parts) \in BackedCalls(R)
  <2>1. p.advisories \in Seq(Advisory)
    BY <1>1 DEF Package
  <2>2. n \in Nat /\ DOMAIN p.advisories = 1..n
    BY <2>1, LenProperties
  <2>3. ASSUME NEW k \in 1..n PROVE Of(p.advisories[k]) \in BackedCalls(R)
    <3>1. p.advisories[k] \in Range(p.advisories)
      BY <2>1, <2>3, RangePart
    <3>2. p.advisories[k] \in Range(Met(R))
      BY <3>1, MetAdvisories
    <3>3. AdvisoryCalls(p, p.advisories[k], AddressOf(R, p.advisories[k])) \in BackedCalls(R)
      BY <1>1, <3>2, AdvisoryCallsBacked
    <3>4. << >> \in BackedCalls(R)
      BY PackedEmpty DEF PackedCalls
    <3> QED BY <3>3, <3>4
  <2> HIDE DEF Of
  <2>4. parts \in [1..n -> BackedCalls(R)]
    BY <2>2, <2>3
  <2>5. parts \in Seq(BackedCalls(R))
    BY <2>2, <2>4, Sequenced
  <2>6. /\ BackedCalls(R) \in SUBSET Seq(SinkCalls) /\ << >> \in BackedCalls(R)
        /\ \A s, t \in BackedCalls(R) : s \o t \in BackedCalls(R)
    BY PackedEmpty, BackedConcat DEF BackedCalls, PackedCalls
  <2> HIDE DEF parts
  <2> QED BY <2>5, <2>6, FlattenIn
<1> HIDE DEF p, call, joins, parts
<1>6. <<call>> \o joins \in BackedCalls(R) /\ <<call>> \o joins \in PackedCalls(R)
  BY <1>3, <1>4, OwnedBy DEF PackedCalls
<1>7. <<call>> \o joins \o FlattenSeq(parts) = <<call>> \o (joins \o FlattenSeq(parts))
  <2> DEFINE f == FlattenSeq(parts)
             h == <<call>>
  <2>1. h \in Seq(SinkCalls) /\ joins \in Seq(SinkCalls) /\ f \in Seq(SinkCalls)
    BY <1>3, <1>4, <1>5 DEF BackedCalls, SinkCalls
  <2> HIDE DEF f, h
  <2>2. (h \o joins) \o f = h \o (joins \o f)
    BY <2>1, ConcatAssociative, SMTT(20)
  <2> QED BY <2>2 DEF f, h
<1>8. <<call>> \o (joins \o FlattenSeq(parts)) \in PackedCalls(R)
  BY <1>3, <1>4, <1>5, BackedConcat, OwnedBy
<1>9. PackageCalls(R, p) \in PackedCalls(R)
  BY <1>2, <1>7, <1>8, PackedEmpty
<1> QED BY <1>9 DEF p

\* The calls of a response, and those of its recording in the order of merge.
Responses == [failed : {TRUE}] \cup Scan

LEMMA CallsPacked ==
  ASSUME NEW r \in Responses
  PROVE  Calls(Response(r)) \in PackedCalls(Response(r))
<1> DEFINE R == Response(r)
           parts == [i \in DOMAIN R.packages |-> PackageCalls(R, R.packages[i])]
           n == Len(R.packages)
<1>1. CASE r \in Scan
  <2>1. R \in Scan
    BY <1>1, ResponseScan
  <2> HIDE DEF R
  <2>2. R.packages \in Seq(Package) /\ R.failed = FALSE
    BY <2>1 DEF Scan
  <2>3. n \in Nat /\ DOMAIN R.packages = 1..n
    BY <2>2, LenProperties
  <2>4. parts \in [1..n -> PackedCalls(R)]
    BY <2>1, <2>3, PackageCallsPacked
  <2>5. parts \in Seq(PackedCalls(R))
    BY <2>3, <2>4, Sequenced
  <2>6. /\ PackedCalls(R) \in SUBSET Seq(SinkCalls) /\ << >> \in PackedCalls(R)
        /\ \A s, t \in PackedCalls(R) : s \o t \in PackedCalls(R)
    BY PackedEmpty, BackedConcat DEF BackedCalls, PackedCalls
  <2>7. Calls(R) = FlattenSeq(parts)
    BY <2>2 DEF Calls
  <2> HIDE DEF parts
  <2>8. Calls(R) \in PackedCalls(R)
    BY <2>5, <2>6, <2>7, FlattenIn
  <2> QED BY <2>8 DEF R
<1>2. CASE r \notin Scan
  <2>1. r.failed
    BY <1>2 DEF Responses
  <2>2. R.failed
    BY <2>1 DEF Response
  <2>3. Calls(R) = << >>
    BY <2>2 DEF Calls
  <2> QED BY <2>3, PackedEmpty
<1> QED BY <1>1, <1>2

Recording(r) == Recorded(r, {"occurrence", "finding"})

LEMMA RecordedCalls ==
  ASSUME NEW r \in Responses
  PROVE  /\ Recording(r) = Chosen(Calls(Response(r)), RowCalls)
         /\ Recorded(r, {"union"}) = Chosen(Calls(Response(r)), UnionCalls)
<1> DEFINE calls == Calls(Response(r))
<1>1. calls \in Seq(SinkCalls)
  BY CallsPacked DEF PackedCalls, BackedCalls
<1> HIDE DEF calls
<1>2. calls \in [DOMAIN calls -> SinkCalls]
  BY <1>1, LenProperties
<1>3. \A k \in DOMAIN calls : /\ calls[k].op \in {"occurrence", "finding"} <=> calls[k] \in RowCalls
                              /\ calls[k].op \in {"union"} <=> calls[k] \in UnionCalls
  <2> SUFFICES ASSUME NEW call \in SinkCalls
               PROVE  /\ call.op \in {"occurrence", "finding"} <=> call \in RowCalls
                      /\ call.op \in {"union"} <=> call \in UnionCalls
    BY <1>2
  <2>1. /\ call \in UnionCalls => call.op = "union"
        /\ call \in OccurrenceCalls => call.op = "occurrence"
        /\ call \in FindingCalls => call.op = "finding"
    BY DEF UnionCalls, OccurrenceCalls, FindingCalls
  <2> QED BY <2>1 DEF SinkCalls, RowCalls
<1>4. /\ {k \in DOMAIN calls : calls[k].op \in {"occurrence", "finding"}}
           = {k \in DOMAIN calls : calls[k] \in RowCalls}
      /\ {k \in DOMAIN calls : calls[k].op \in {"union"}}
           = {k \in DOMAIN calls : calls[k] \in UnionCalls}
  BY <1>3
<1> QED BY <1>4 DEF Recording, Recorded, Chosen, calls

LEMMA CallKinds ==
  /\ \A call \in UnionCalls : call.op = "union" /\ call \in SinkCalls /\ call \notin RowCalls
  /\ \A call \in OccurrenceCalls : call.op = "occurrence" /\ call \in RowCalls
  /\ \A call \in FindingCalls : call.op = "finding" /\ call \in RowCalls
  /\ \A call \in SinkCalls :
       /\ call.op = "union" => call \in UnionCalls
       /\ call.op = "occurrence" => call \in OccurrenceCalls
       /\ call.op = "finding" => call \in FindingCalls
       /\ call.op \in {"union", "occurrence", "finding"}
  /\ RowCalls \subseteq SinkCalls
<1>1. /\ \A call \in UnionCalls : call.op = "union"
      /\ \A call \in OccurrenceCalls : call.op = "occurrence"
      /\ \A call \in FindingCalls : call.op = "finding"
  BY DEF UnionCalls, OccurrenceCalls, FindingCalls
<1> QED BY <1>1 DEF SinkCalls, RowCalls

LEMMA MergedPacked ==
  ASSUME NEW R, NEW C \in PackedCalls(R)
  PROVE  /\ Chosen(C, UnionCalls) \o Chosen(C, RowCalls) \in PackedCalls(R)
         /\ Chosen(Chosen(C, UnionCalls) \o Chosen(C, RowCalls), RowCalls) = Chosen(C, RowCalls)
<1> DEFINE U == Chosen(C, UnionCalls)
           V == Chosen(C, RowCalls)
           M == U \o V
           K == {k \in DOMAIN C : C[k] \in RowCalls}
           place == Sorted(K)
           m == Len(U)
           n == Len(V)
<1>1. C \in Seq(SinkCalls) /\ Len(C) \in Nat /\ DOMAIN C = 1..Len(C)
  BY LenProperties DEF PackedCalls, BackedCalls
<1>2. \A k \in 1..Len(C) : C[k] \in SinkCalls /\ C[k] \in Range(C)
  BY <1>1, RangePart
<1>3. /\ U \in Seq(SinkCalls) /\ Range(U) = Range(C) \cap UnionCalls
      /\ V \in Seq(SinkCalls) /\ Range(V) = Range(C) \cap RowCalls
      /\ m \in Nat /\ n \in Nat
  <2>1. /\ U \in Seq(SinkCalls) /\ Range(U) = Range(C) \cap UnionCalls
        /\ V \in Seq(SinkCalls) /\ Range(V) = Range(C) \cap RowCalls
    BY <1>1, ChosenPart
  <2> QED BY <2>1, LenProperties
<1>4. /\ K \in SUBSET (1..Len(C)) /\ place \in [1..n -> K]
      /\ \A x \in K : \E i \in 1..n : place[i] = x
      /\ \A i, j \in 1..n : i < j => place[i] < place[j]
      /\ \A i \in 1..n : V[i] = C[place[i]]
  <2>1. K \in SUBSET DOMAIN C
    OBVIOUS
  <2>2. V = Keep(C, K)
    BY DEF Chosen
  <2> HIDE DEF K, V
  <2>3. /\ Numbers(K) /\ K \in SUBSET (1..Len(C)) /\ Len(Keep(C, K)) = Cardinality(K)
        /\ \A k \in 1..Cardinality(K) : Keep(C, K)[k] = C[Sorted(K)[k]]
    BY <1>1, <2>1, KeepPart, PlacesOf
  <2>4. /\ Sorted(K) \in [1..Cardinality(K) -> K]
        /\ \A x \in K : \E k \in 1..Cardinality(K) : Sorted(K)[k] = x
        /\ \A k, l \in 1..Cardinality(K) : k < l => Sorted(K)[k] < Sorted(K)[l]
    BY <2>3, SortedMembers
  <2> QED BY <2>2, <2>3, <2>4
<1>5. Chosen(M, RowCalls) = V
  <2>1. Chosen(U, RowCalls) = << >>
    BY <1>3, ChosenNone, CallKinds
  <2>2. Chosen(V, RowCalls) = V
    BY <1>3, ChosenAll
  <2> HIDE DEF U, V
  <2>3. U \in Seq(SinkCalls) /\ V \in Seq(SinkCalls) /\ M = U \o V
    BY <1>3 DEF U, V
  <2>4. Chosen(U \o V, RowCalls) = Chosen(U, RowCalls) \o Chosen(V, RowCalls)
    BY <2>3, ChosenConcat
  <2>5. << >> \o V = V
    BY <2>3, ConcatEmptySeq
  <2> QED BY <2>1, <2>2, <2>3, <2>4, <2>5
<1> HIDE DEF place
<1> USE DEF K
<1>6. ASSUME NEW i \in 1..n, NEW j \in 1..(place[i] - 1), C[j].op = "occurrence"
      PROVE  \E l \in 1..(i - 1) : V[l] = C[j]
  <2>1. place[i] \in 1..Len(C)
    BY <1>4
  <2>2. j \in 1..Len(C) /\ j < place[i]
    BY <1>1, <2>1
  <2>3. j \in K
    BY <1>1, <1>2, <1>6, <2>2, CallKinds
  <2>4. PICK l \in 1..n : place[l] = j
    BY <1>4, <2>3
  <2>5. place[l] \in Nat /\ place[i] \in Nat
    BY <1>1, <2>1, <2>2, <2>4
  <2>6. ~(l = i) /\ ~(i < l)
    BY <1>4, <2>2, <2>4, <2>5
  <2>7. l \in 1..(i - 1)
    BY <1>3, <2>6
  <2> QED BY <1>4, <2>4, <2>7
<1>7. ASSUME NEW i \in 1..n, V[i].op = "finding"
      PROVE  /\ V[i].address \in DOMAIN Met(R)
             /\ V[i].advisory = ProjectAdvisory(Met(R)[V[i].address])
             /\ \E l \in 1..m : U[l].op = "union" /\ V[i].advisory.id \in Range(U[l].names)
             /\ Owned(V, i)
  <2>1. V[i] = C[place[i]] /\ place[i] \in 1..Len(C)
    BY <1>4
  <2>2. /\ V[i].address \in DOMAIN Met(R)
        /\ V[i].advisory = ProjectAdvisory(Met(R)[V[i].address])
        /\ Named(C, place[i]) /\ Owned(C, place[i])
    BY <1>7, <2>1 DEF PackedCalls, BackedCalls, Backed, AllOwned
  <2>3. PICK j \in 1..(place[i] - 1) :
          C[j].op = "union" /\ C[place[i]].advisory.id \in Range(C[j].names)
    BY <2>2 DEF Named
  <2>4. j \in 1..Len(C)
    BY <1>1, <2>1
  <2>5. C[j] \in Range(U)
    BY <1>2, <1>3, <2>3, <2>4, CallKinds
  <2>6. PICK l \in 1..m : U[l] = C[j]
    BY <1>3, <2>5, RangePart
  <2>7. \E k \in 1..m : U[k].op = "union" /\ V[i].advisory.id \in Range(U[k].names)
    BY <2>1, <2>3, <2>6
  <2>8. Owned(V, i)
    BY <1>6, <2>2 DEF Owned
  <2> QED BY <2>2, <2>7, <2>8
<1>8. /\ M \in Seq(SinkCalls) /\ Len(M) = m + n
      /\ \A i \in 1..(m + n) : M[i] = IF i <= m THEN U[i] ELSE V[i - m]
  BY <1>3, ConcatProperties
<1>9. \A i \in 1..m : M[i] = U[i]
  BY <1>3, <1>8
<1>10. \A i \in 1..n : M[m + i] = V[i]
  <2> SUFFICES ASSUME NEW i \in 1..n PROVE M[m + i] = V[i]
    OBVIOUS
  <2>1. m + i \in 1..(m + n) /\ ~(m + i <= m) /\ m + i - m = i
    BY <1>3
  <2> QED BY <1>8, <2>1
<1>11. \A i \in 1..m : U[i].op = "union"
  BY <1>3, RangePart, CallKinds
<1> HIDE DEF U, V, M, K
<1>12. ASSUME NEW k \in 1..(m + n), M[k].op = "finding"
       PROVE  \E i \in 1..n : k = m + i /\ M[k] = V[i]
  <2>1. ~(k \in 1..m)
    BY <1>9, <1>11, <1>12
  <2>2. k - m \in 1..n /\ k = m + (k - m)
    BY <1>3, <2>1
  <2> QED BY <1>10, <2>2
<1>13. ASSUME NEW k \in 1..Len(M), M[k].op = "finding"
       PROVE  /\ M[k].address \in DOMAIN Met(R)
              /\ M[k].advisory = ProjectAdvisory(Met(R)[M[k].address])
              /\ Named(M, k) /\ Owned(M, k)
  <2>1. PICK i \in 1..n : k = m + i /\ M[k] = V[i]
    BY <1>8, <1>12, <1>13
  <2>2. /\ V[i].address \in DOMAIN Met(R)
        /\ V[i].advisory = ProjectAdvisory(Met(R)[V[i].address])
        /\ \E l \in 1..m : U[l].op = "union" /\ V[i].advisory.id \in Range(U[l].names)
        /\ Owned(V, i)
    BY <1>7, <1>13, <2>1
  <2>3. \A l \in 1..m : l \in 1..(k - 1)
    BY <1>3, <2>1
  <2>4. Named(M, k)
    BY <1>9, <2>1, <2>2, <2>3 DEF Named
  <2>5. \A j \in 1..(i - 1) : m + j \in 1..(k - 1) /\ j \in 1..n
    BY <1>3, <2>1
  <2>6. Owned(M, k)
    BY <1>10, <2>2, <2>5 DEF Owned
  <2> QED BY <2>1, <2>2, <2>4, <2>6
<1>14. M \in PackedCalls(R)
  BY <1>8, <1>13 DEF PackedCalls, BackedCalls, Backed, AllOwned
<1> QED BY <1>5, <1>14 DEF M, U, V

(***************************************************************************)
(* The rows that facts leave behind                                        *)
(***************************************************************************)
MadeFacts == [image : Nat, call : OccurrenceCalls]
FoundFacts == [image : Nat, call : FindingCalls]
AllFacts == MadeFacts \cup FoundFacts

Made(h) == Keep(h, Places(h, "occurrence"))
Found(h) == Keep(h, Places(h, "finding"))

LEMMA FactKinds ==
  /\ \A x \in MadeFacts : x.call.op = "occurrence"
  /\ \A x \in FoundFacts : x.call.op = "finding"
  /\ \A x \in AllFacts : /\ x.call.op = "occurrence" => x \in MadeFacts
                         /\ x.call.op = "finding" => x \in FoundFacts
<1>1. /\ \A x \in MadeFacts : x.call.op = "occurrence"
      /\ \A x \in FoundFacts : x.call.op = "finding"
  BY CallKinds DEF MadeFacts, FoundFacts
<1> QED BY <1>1 DEF AllFacts

LEMMA KeepWithin ==
  ASSUME NEW X, NEW Y, NEW s \in Seq(X), NEW K \in SUBSET DOMAIN s, \A k \in K : s[k] \in Y
  PROVE  Keep(s, K) \in Seq(Y)
<1> DEFINE t == Keep(s, K)
           n == Cardinality(K)
<1>1. /\ n \in Nat /\ Sorted(K) \in [1..n -> K] /\ t \in Seq(X) /\ Len(t) = n
      /\ \A k \in 1..n : t[k] = s[Sorted(K)[k]]
  BY KeepPart
<1> HIDE DEF t, n
<1>2. t \in [1..n -> X]
  BY <1>1, LenProperties
<1>3. t \in [1..n -> Y]
  BY <1>1, <1>2
<1>4. t \in Seq(Y)
  BY <1>1, <1>3, Sequenced
<1> QED BY <1>4 DEF t

LEMMA FactParts ==
  ASSUME NEW h \in Seq(AllFacts)
  PROVE  Made(h) \in Seq(MadeFacts) /\ Found(h) \in Seq(FoundFacts)
<1>1. h \in [DOMAIN h -> AllFacts]
  BY LenProperties
<1>2. /\ Places(h, "occurrence") \in SUBSET DOMAIN h /\ Places(h, "finding") \in SUBSET DOMAIN h
      /\ \A k \in Places(h, "occurrence") : h[k] \in MadeFacts
      /\ \A k \in Places(h, "finding") : h[k] \in FoundFacts
  BY <1>1, FactKinds DEF Places
<1> QED BY <1>2, KeepWithin DEF Made, Found

LEMMA PlacesAppend ==
  ASSUME NEW h \in Seq(AllFacts), NEW x \in AllFacts, NEW op
  PROVE  /\ Places(h, op) \in SUBSET DOMAIN h
         /\ Places(Append(h, x), op)
              = IF x.call.op = op THEN Places(h, op) \cup {Len(h) + 1} ELSE Places(h, op)
<1>1. /\ Len(h) \in Nat /\ DOMAIN h = 1..Len(h) /\ DOMAIN Append(h, x) = 1..(Len(h) + 1)
      /\ \A i \in 1..Len(h) : Append(h, x)[i] = h[i]
      /\ Append(h, x)[Len(h) + 1] = x
  BY AppendProperties, LenProperties
<1> QED BY <1>1 DEF Places

LEMMA PartsAppend ==
  ASSUME NEW h \in Seq(AllFacts), NEW x \in AllFacts
  PROVE  /\ x \in MadeFacts => Made(Append(h, x)) = Append(Made(h), x)
                               /\ Found(Append(h, x)) = Found(h)
         /\ x \in FoundFacts => Found(Append(h, x)) = Append(Found(h), x)
                                /\ Made(Append(h, x)) = Made(h)
<1> DEFINE t == Append(h, x)
<1>1. \A K \in SUBSET DOMAIN h : /\ Keep(t, K) = Keep(h, K)
                                 /\ Keep(t, K \cup {Len(h) + 1}) = Append(Keep(h, K), x)
  BY KeepAppend
<1> HIDE DEF t
<1>2. /\ Places(h, "occurrence") \in SUBSET DOMAIN h /\ Places(h, "finding") \in SUBSET DOMAIN h
      /\ Places(t, "occurrence")
           = IF x.call.op = "occurrence" THEN Places(h, "occurrence") \cup {Len(h) + 1}
                                         ELSE Places(h, "occurrence")
      /\ Places(t, "finding")
           = IF x.call.op = "finding" THEN Places(h, "finding") \cup {Len(h) + 1}
                                      ELSE Places(h, "finding")
  BY PlacesAppend DEF t
<1>3. /\ x \in MadeFacts => x.call.op = "occurrence"
      /\ x \in FoundFacts => x.call.op = "finding"
  BY FactKinds
<1>4. /\ x \in MadeFacts => Made(t) = Append(Made(h), x) /\ Found(t) = Found(h)
      /\ x \in FoundFacts => Found(t) = Append(Found(h), x) /\ Made(t) = Made(h)
  BY <1>1, <1>2, <1>3 DEF Made, Found
<1> QED BY <1>4 DEF t

\* A table of what the rows of a sequence have in one place.
Column(s, g) == [k \in DOMAIN s |-> g[s[k]]]

LEMMA ColumnTable ==
  ASSUME NEW X, NEW s \in Seq(X), NEW x \in X, NEW g, NEW table,
         table = Firsts(Column(s, g))
  PROVE  /\ Interned(table, g[x]) = Firsts(Column(Append(s, x), g))
         /\ Range(Interned(table, g[x])) = Range(table) \cup {g[x]}
         /\ \A w \in Range(table) : RowOf(Interned(table, g[x]), w) = RowOf(table, w)
         /\ \A k \in DOMAIN s : g[s[k]] \in Range(table)
<1> DEFINE Y == {g[y] : y \in X}
           c == Column(s, g)
           t == Append(s, x)
<1>1. /\ Len(s) \in Nat /\ DOMAIN s = 1..Len(s) /\ s \in [1..Len(s) -> X]
      /\ t \in Seq(X) /\ DOMAIN t = 1..(Len(s) + 1) /\ Len(t) = Len(s) + 1
      /\ \A i \in 1..Len(s) : t[i] = s[i]
      /\ t[Len(s) + 1] = x
  BY AppendProperties, LenProperties
<1>2. c \in [1..Len(s) -> Y] /\ \A i \in 1..Len(s) : c[i] = g[s[i]]
  BY <1>1 DEF Column
<1>3. c \in Seq(Y) /\ Len(c) = Len(s) /\ DOMAIN c = 1..Len(s)
  BY <1>1, <1>2, Sequenced
<1>4. g[x] \in Y
  OBVIOUS
<1> HIDE DEF c, t, Y
<1>5. Column(t, g) = Append(c, g[x])
  <2> DEFINE a == Column(t, g)
             b == Append(c, g[x])
  <2>1. a \in [1..(Len(s) + 1) -> Y] /\ \A i \in 1..(Len(s) + 1) : a[i] = g[t[i]]
    BY <1>1, LenProperties DEF Column, Y
  <2>2. a \in Seq(Y) /\ Len(a) = Len(s) + 1
    BY <1>1, <2>1, Sequenced
  <2>3. /\ b \in Seq(Y) /\ Len(b) = Len(s) + 1
        /\ \A i \in 1..Len(s) : b[i] = c[i]
        /\ b[Len(s) + 1] = g[x]
    BY <1>3, <1>4, AppendProperties
  <2>4. \A i \in 1..(Len(s) + 1) : a[i] = b[i]
    BY <1>1, <1>2, <2>1, <2>3
  <2> HIDE DEF a, b
  <2>5. a = b
    BY <2>2, <2>3, <2>4, SameSequence
  <2> QED BY <2>5 DEF a, b
<1>6. /\ Firsts(Append(c, g[x])) = Interned(Firsts(c), g[x])
      /\ Interned(Firsts(c), g[x]) \in Seq(Y)
      /\ Range(Interned(Firsts(c), g[x])) = Range(c) \cup {g[x]}
      /\ \A w \in Range(c) : RowOf(Interned(Firsts(c), g[x]), w) = RowOf(Firsts(c), w)
  BY <1>3, <1>4, InternedTable
<1>7. Range(Firsts(c)) = Range(c)
  BY <1>3, FirstsMembers
<1>8. \A k \in DOMAIN s : g[s[k]] \in Range(c)
  BY <1>1, <1>2, <1>3 DEF Range
<1> QED BY <1>5, <1>6, <1>7, <1>8 DEF c, t

PackageIn == [x \in MadeFacts |-> x.call.package]
ContextIn == [x \in MadeFacts |-> x.call.context]
LicenseIn == [x \in MadeFacts |-> x.call.license]
AdvisoryIn == [x \in FoundFacts |-> x.call.advisory]
FixIn == [x \in FoundFacts |-> x.call.fix]
AssessmentIn == [x \in FoundFacts |-> x.call.assessment]

LEMMA FactFields ==
  /\ PackageIn \in [MadeFacts -> STRING] /\ ContextIn \in [MadeFacts -> ContextValue]
  /\ LicenseIn \in [MadeFacts -> LicenseValue]
  /\ AdvisoryIn \in [FoundFacts -> Projected] /\ FixIn \in [FoundFacts -> FixValue]
  /\ AssessmentIn \in [FoundFacts -> AssessmentValue]
BY DEF MadeFacts, FoundFacts, OccurrenceCalls, FindingCalls, PackageIn, ContextIn, LicenseIn,
       AdvisoryIn, FixIn, AssessmentIn

OccurrenceRow(x) ==
  [image |-> x.image, package |-> RowOf(packages, x.call.package),
   context |-> RowOf(contexts, x.call.context), license |-> RowOf(licenses, x.call.license)]
FindingRow(x, before) ==
  [occurrence |-> before, advisory |-> RowOf(advisories, x.call.advisory),
   fix |-> RowOf(fixes, x.call.fix), assessment |-> RowOf(assessments, x.call.assessment)]
MadeBefore(h, k) == {j \in Places(h, "occurrence") : j < Sorted(Places(h, "finding"))[k]}

ShowsMade(h) ==
  /\ packages = Firsts(Column(Made(h), PackageIn))
  /\ contexts = Firsts(Column(Made(h), ContextIn))
  /\ licenses = Firsts(Column(Made(h), LicenseIn))
  /\ occurrences = [k \in DOMAIN Made(h) |-> OccurrenceRow(Made(h)[k])]
ShowsFound(h) ==
  /\ advisories = Firsts(Column(Found(h), AdvisoryIn))
  /\ fixes = Firsts(Column(Found(h), FixIn))
  /\ assessments = Firsts(Column(Found(h), AssessmentIn))
  /\ findings =
       [k \in DOMAIN Found(h) |-> FindingRow(Found(h)[k], Cardinality(MadeBefore(h, k)))]

LEMMA ShowsParts ==
  ASSUME NEW h \in Seq(AllFacts)
  PROVE  Shows(h) <=> ShowsMade(h) /\ ShowsFound(h)
<1>1. /\ Made(h) \in [DOMAIN Made(h) -> MadeFacts]
      /\ Found(h) \in [DOMAIN Found(h) -> FoundFacts]
  BY FactParts, LenProperties
<1>2. /\ Column(Made(h), PackageIn) = [k \in DOMAIN Made(h) |-> Made(h)[k].call.package]
      /\ Column(Made(h), ContextIn) = [k \in DOMAIN Made(h) |-> Made(h)[k].call.context]
      /\ Column(Made(h), LicenseIn) = [k \in DOMAIN Made(h) |-> Made(h)[k].call.license]
      /\ Column(Found(h), AdvisoryIn) = [k \in DOMAIN Found(h) |-> Found(h)[k].call.advisory]
      /\ Column(Found(h), FixIn) = [k \in DOMAIN Found(h) |-> Found(h)[k].call.fix]
      /\ Column(Found(h), AssessmentIn)
           = [k \in DOMAIN Found(h) |-> Found(h)[k].call.assessment]
  BY <1>1 DEF Column, PackageIn, ContextIn, LicenseIn, AdvisoryIn, FixIn, AssessmentIn
<1> QED BY <1>2 DEF Shows, ShowsMade, ShowsFound, Made, Found, OccurrenceRow, FindingRow, MadeBefore

LEMMA MadeBeforeAppend ==
  ASSUME NEW h \in Seq(AllFacts), NEW x \in AllFacts
  PROVE  /\ \A k \in DOMAIN Found(h) : MadeBefore(Append(h, x), k) = MadeBefore(h, k)
         /\ x \in FoundFacts =>
              Cardinality(MadeBefore(Append(h, x), Len(Found(h)) + 1)) = Len(Made(h))
<1> DEFINE t == Append(h, x)
           O == Places(h, "occurrence")
           F == Places(h, "finding")
           n == Len(h)
           m == Cardinality(F)
<1>1. /\ O \in SUBSET DOMAIN h /\ F \in SUBSET DOMAIN h
      /\ Places(t, "occurrence") = IF x.call.op = "occurrence" THEN O \cup {n + 1} ELSE O
      /\ Places(t, "finding") = IF x.call.op = "finding" THEN F \cup {n + 1} ELSE F
  BY PlacesAppend
<1>2. n \in Nat /\ DOMAIN h = 1..n
  BY LenProperties
<1> HIDE DEF t, O, F, n
<1>3. /\ Numbers(F) /\ m \in Nat /\ Sorted(F) \in [1..m -> F]
      /\ Found(h) = Keep(h, F) /\ DOMAIN Found(h) = 1..m /\ Len(Found(h)) = m
      /\ Len(Made(h)) = Cardinality(O)
  BY <1>1, KeepPart, PlacesOf DEF Found, Made, F, O
<1>4. Sorted(F \cup {n + 1}) = Append(Sorted(F), n + 1)
  <2>1. \A y \in F : y < n + 1
    BY <1>1, <1>2
  <2>2. n + 1 \in Nat
    BY <1>2
  <2> QED BY <1>3, <2>1, <2>2, SortedAppend
<1>5. /\ \A k \in 1..m : Append(Sorted(F), n + 1)[k] = Sorted(F)[k]
      /\ Append(Sorted(F), n + 1)[m + 1] = n + 1
  <2>1. Sorted(F) \in [1..m -> Nat] /\ n + 1 \in Nat
    BY <1>1, <1>2, <1>3
  <2>2. Sorted(F) \in Seq(Nat) /\ Len(Sorted(F)) = m
    BY <1>3, <2>1, Sequenced
  <2> QED BY <2>1, <2>2, AppendProperties
<1>6. \A k \in 1..m : Sorted(Places(t, "finding"))[k] = Sorted(F)[k]
  BY <1>1, <1>4, <1>5
<1>7. ASSUME NEW k \in 1..m PROVE MadeBefore(t, k) = MadeBefore(h, k)
  <2>1. Sorted(F)[k] \in 1..n
    BY <1>1, <1>2, <1>3
  <2>2. ~(n + 1 < Sorted(F)[k])
    BY <1>2, <2>1
  <2>3. {j \in Places(t, "occurrence") : j < Sorted(F)[k]} = {j \in O : j < Sorted(F)[k]}
    BY <1>1, <2>2
  <2> QED BY <1>6, <2>3 DEF MadeBefore, O, F
<1>8. ASSUME x \in FoundFacts PROVE Cardinality(MadeBefore(t, m + 1)) = Len(Made(h))
  <2>1. x.call.op = "finding"
    BY <1>8, FactKinds
  <2>2. Places(t, "occurrence") = O /\ Sorted(Places(t, "finding"))[m + 1] = n + 1
    BY <1>1, <1>4, <1>5, <2>1
  <2>3. {j \in O : j < n + 1} = O
    BY <1>1, <1>2
  <2> QED BY <1>3, <2>2, <2>3 DEF MadeBefore
<1> QED BY <1>3, <1>7, <1>8 DEF t

LEMMA OccurrenceShown ==
  ASSUME NEW h \in Seq(AllFacts), ShowsMade(h), ShowsFound(h), Occurrence, NEW x \in MadeFacts,
         x = [image |-> Len(images) + 1, call |-> Head(todo)]
  PROVE  ShowsMade(Append(h, x))' /\ ShowsFound(Append(h, x))'
<1> DEFINE s == Made(h)
           t == Append(h, x)
           call == Head(todo)
<1>1. s \in Seq(MadeFacts)
  BY FactParts
<1>2. /\ Len(s) \in Nat /\ DOMAIN s = 1..Len(s) /\ s \in [1..Len(s) -> MadeFacts]
      /\ \A i \in 1..Len(s) : Append(s, x)[i] = s[i]
      /\ Append(s, x)[Len(s) + 1] = x
      /\ Append(s, x) \in Seq(MadeFacts) /\ DOMAIN Append(s, x) = 1..(Len(s) + 1)
  <2>1. Append(s, x) \in Seq(MadeFacts) /\ Len(Append(s, x)) = Len(s) + 1
    BY <1>1, AppendProperties
  <2> QED BY <1>1, <2>1, AppendProperties, LenProperties
<1>3. Made(t) = Append(s, x) /\ Found(t) = Found(h)
  BY PartsAppend DEF AllFacts
<1>4. /\ PackageIn[x] = call.package /\ ContextIn[x] = call.context /\ LicenseIn[x] = call.license
      /\ \A k \in 1..Len(s) : /\ PackageIn[s[k]] = s[k].call.package
                              /\ ContextIn[s[k]] = s[k].call.context
                              /\ LicenseIn[s[k]] = s[k].call.license
  BY <1>2 DEF PackageIn, ContextIn, LicenseIn
<1> DEFINE Into(table, table2, g) ==
             /\ table2 = Firsts(Column(Append(s, x), g))
             /\ \A k \in 1..Len(s) : RowOf(table2, g[s[k]]) = RowOf(table, g[s[k]])
<1>5. Into(packages, packages', PackageIn)
  <2>1. packages = Firsts(Column(s, PackageIn)) /\ packages' = Interned(packages, PackageIn[x])
    BY <1>4 DEF ShowsMade, Occurrence
  <2> HIDE DEF s
  <2>2. /\ Interned(packages, PackageIn[x]) = Firsts(Column(Append(s, x), PackageIn))
        /\ \A w \in Range(packages) : RowOf(Interned(packages, PackageIn[x]), w) = RowOf(packages, w)
        /\ \A k \in DOMAIN s : PackageIn[s[k]] \in Range(packages)
    BY <1>1, <2>1, ColumnTable
  <2> QED BY <1>2, <2>1, <2>2
<1>6. Into(contexts, contexts', ContextIn)
  <2>1. contexts = Firsts(Column(s, ContextIn)) /\ contexts' = Interned(contexts, ContextIn[x])
    BY <1>4 DEF ShowsMade, Occurrence
  <2> HIDE DEF s
  <2>2. /\ Interned(contexts, ContextIn[x]) = Firsts(Column(Append(s, x), ContextIn))
        /\ \A w \in Range(contexts) : RowOf(Interned(contexts, ContextIn[x]), w) = RowOf(contexts, w)
        /\ \A k \in DOMAIN s : ContextIn[s[k]] \in Range(contexts)
    BY <1>1, <2>1, ColumnTable
  <2> QED BY <1>2, <2>1, <2>2
<1>7. Into(licenses, licenses', LicenseIn)
  <2>1. licenses = Firsts(Column(s, LicenseIn)) /\ licenses' = Interned(licenses, LicenseIn[x])
    BY <1>4 DEF ShowsMade, Occurrence
  <2> HIDE DEF s
  <2>2. /\ Interned(licenses, LicenseIn[x]) = Firsts(Column(Append(s, x), LicenseIn))
        /\ \A w \in Range(licenses) : RowOf(Interned(licenses, LicenseIn[x]), w) = RowOf(licenses, w)
        /\ \A k \in DOMAIN s : LicenseIn[s[k]] \in Range(licenses)
    BY <1>1, <2>1, ColumnTable
  <2> QED BY <1>2, <2>1, <2>2
<1>8. \A k \in 1..Len(s) : OccurrenceRow(s[k])' = OccurrenceRow(s[k])
  BY <1>4, <1>5, <1>6, <1>7 DEF OccurrenceRow
<1>9. occurrences' = Append(occurrences, OccurrenceRow(x)')
  BY DEF Occurrence, OccurrenceRow
<1>10. occurrences = [k \in 1..Len(s) |-> OccurrenceRow(s[k])]
  BY <1>2 DEF ShowsMade
<1>11. occurrences' = [k \in 1..(Len(s) + 1) |-> OccurrenceRow(Append(s, x)[k])']
  <2> DEFINE row == OccurrenceRow(x)'
             Row(k) == OccurrenceRow(Append(s, x)[k])'
  <2>1. Row(Len(s) + 1) = row /\ \A k \in 1..Len(s) : Row(k) = occurrences[k]
    BY <1>2, <1>8, <1>10
  <2>2. Len(occurrences) = Len(s)
    BY <1>2, <1>10
  <2>3. Append(occurrences, row)
          = [k \in 1..(Len(s) + 1) |-> IF k = Len(s) + 1 THEN row ELSE occurrences[k]]
    BY <2>2
  <2> HIDE DEF row, Row
  <2>4. Append(occurrences, row) = [k \in 1..(Len(s) + 1) |-> Row(k)]
    <3>1. \A k \in 1..(Len(s) + 1) : k = Len(s) + 1 \/ k \in 1..Len(s)
      BY <1>2
    <3> QED BY <2>1, <2>3, <3>1
  <2> QED BY <1>9, <2>4 DEF row, Row
<1>12. ShowsMade(t)'
  <2>1. [k \in 1..(Len(s) + 1) |-> OccurrenceRow(Append(s, x)[k])']
          = [k \in DOMAIN Append(s, x) |-> OccurrenceRow(Append(s, x)[k])']
    BY <1>2
  <2> QED BY <1>3, <1>5, <1>6, <1>7, <1>11, <2>1 DEF ShowsMade
<1>13. ShowsFound(t)'
  <2>1. UNCHANGED <<advisories, fixes, assessments, findings>>
    BY DEF Occurrence
  <2>2. \A k \in DOMAIN Found(h) : MadeBefore(t, k) = MadeBefore(h, k)
    BY MadeBeforeAppend DEF AllFacts
  <2> HIDE DEF t
  <2>3. \A k \in DOMAIN Found(h) : FindingRow(Found(h)[k], Cardinality(MadeBefore(t, k)))'
                                     = FindingRow(Found(h)[k], Cardinality(MadeBefore(h, k)))
    BY <2>1, <2>2 DEF FindingRow
  <2> QED BY <1>3, <2>1, <2>3 DEF ShowsFound
<1> QED BY <1>12, <1>13

LEMMA FindingEffect ==
  ASSUME Finding, \E X : advisories \in Seq(X),
         Head(todo).address \in DOMAIN addresses =>
           /\ Head(todo).advisory \in Range(advisories)
           /\ addresses[Head(todo).address] = RowOf(advisories, Head(todo).advisory)
  PROVE  /\ advisories' = Interned(advisories, Head(todo).advisory)
         /\ fixes' = Interned(fixes, Head(todo).fix)
         /\ assessments' = Interned(assessments, Head(todo).assessment)
         /\ findings' = Append(findings,
                          [occurrence |-> Len(occurrences),
                           advisory   |-> RowOf(advisories', Head(todo).advisory),
                           fix        |-> RowOf(fixes', Head(todo).fix),
                           assessment |-> RowOf(assessments', Head(todo).assessment)])
<1> DEFINE call == Head(todo)
<1>1. CASE call.address \in DOMAIN addresses
  <2>1. UNCHANGED <<advisories, addresses>>
    BY <1>1 DEF Finding
  <2>2. Interned(advisories, call.advisory) = advisories
    BY <1>1 DEF Interned, Contains, Range
  <2>3. addresses'[call.address] = RowOf(advisories', call.advisory)
    BY <1>1, <2>1
  <2> QED BY <2>1, <2>2, <2>3 DEF Finding
<1>2. CASE call.address \notin DOMAIN addresses
  <2>1. /\ advisories' = Interned(advisories, call.advisory)
        /\ addresses' = [x \in DOMAIN addresses \cup {call.address} |->
                           IF x = call.address THEN RowOf(advisories', call.advisory)
                                               ELSE addresses[x]]
    BY <1>2 DEF Finding
  <2>2. addresses'[call.address] = RowOf(advisories', call.advisory)
    BY <2>1
  <2> QED BY <2>1, <2>2 DEF Finding
<1> QED BY <1>1, <1>2

LEMMA FindingShown ==
  ASSUME NEW h \in Seq(AllFacts), ShowsMade(h), ShowsFound(h), Finding, NEW x \in FoundFacts,
         x.call = Head(todo),
         Head(todo).address \in DOMAIN addresses =>
           /\ Head(todo).advisory \in Range(advisories)
           /\ addresses[Head(todo).address] = RowOf(advisories, Head(todo).advisory)
  PROVE  ShowsMade(Append(h, x))' /\ ShowsFound(Append(h, x))'
<1> DEFINE s == Found(h)
           t == Append(h, x)
           call == Head(todo)
           Before(k) == Cardinality(MadeBefore(t, k))
<1>1. s \in Seq(FoundFacts)
  BY FactParts
<1>2. /\ Len(s) \in Nat /\ DOMAIN s = 1..Len(s) /\ s \in [1..Len(s) -> FoundFacts]
      /\ \A i \in 1..Len(s) : Append(s, x)[i] = s[i]
      /\ Append(s, x)[Len(s) + 1] = x
      /\ Append(s, x) \in Seq(FoundFacts) /\ DOMAIN Append(s, x) = 1..(Len(s) + 1)
  <2>1. Append(s, x) \in Seq(FoundFacts) /\ Len(Append(s, x)) = Len(s) + 1
    BY <1>1, AppendProperties
  <2> QED BY <1>1, <2>1, AppendProperties, LenProperties
<1>3. Found(t) = Append(s, x) /\ Made(t) = Made(h)
  BY PartsAppend DEF AllFacts
<1>4. /\ AdvisoryIn[x] = call.advisory /\ FixIn[x] = call.fix
      /\ AssessmentIn[x] = call.assessment
      /\ \A k \in 1..Len(s) : /\ AdvisoryIn[s[k]] = s[k].call.advisory
                              /\ FixIn[s[k]] = s[k].call.fix
                              /\ AssessmentIn[s[k]] = s[k].call.assessment
  BY <1>2 DEF AdvisoryIn, FixIn, AssessmentIn
<1>5. /\ advisories' = Interned(advisories, call.advisory)
      /\ fixes' = Interned(fixes, call.fix)
      /\ assessments' = Interned(assessments, call.assessment)
      /\ findings' = Append(findings,
                       [occurrence |-> Len(occurrences),
                        advisory   |-> RowOf(advisories', call.advisory),
                        fix        |-> RowOf(fixes', call.fix),
                        assessment |-> RowOf(assessments', call.assessment)])
  <2>1. \E X : advisories \in Seq(X)
    <3>1. advisories = Firsts(Column(s, AdvisoryIn))
      BY DEF ShowsFound
    <3> DEFINE c == Column(s, AdvisoryIn)
               Y == {AdvisoryIn[y] : y \in FoundFacts}
    <3>2. c \in [1..Len(s) -> Y]
      BY <1>2 DEF Column
    <3> HIDE DEF c, Y
    <3>3. c \in Seq(Y)
      BY <1>2, <3>2, Sequenced
    <3>4. Firsts(c) \in Seq(Y)
      BY <3>3, FirstsMembers
    <3> QED BY <3>1, <3>4 DEF c
  <2> QED BY <2>1, FindingEffect
<1> DEFINE Into(table, table2, g) ==
             /\ table2 = Firsts(Column(Append(s, x), g))
             /\ \A k \in 1..Len(s) : RowOf(table2, g[s[k]]) = RowOf(table, g[s[k]])
<1>6. Into(advisories, advisories', AdvisoryIn)
  <2>1. advisories = Firsts(Column(s, AdvisoryIn)) /\ advisories' = Interned(advisories, AdvisoryIn[x])
    BY <1>4, <1>5 DEF ShowsFound
  <2> HIDE DEF s
  <2>2. /\ Interned(advisories, AdvisoryIn[x]) = Firsts(Column(Append(s, x), AdvisoryIn))
        /\ \A w \in Range(advisories) :
             RowOf(Interned(advisories, AdvisoryIn[x]), w) = RowOf(advisories, w)
        /\ \A k \in DOMAIN s : AdvisoryIn[s[k]] \in Range(advisories)
    BY <1>1, <2>1, ColumnTable
  <2> QED BY <1>2, <2>1, <2>2
<1>7. Into(fixes, fixes', FixIn)
  <2>1. fixes = Firsts(Column(s, FixIn)) /\ fixes' = Interned(fixes, FixIn[x])
    BY <1>4, <1>5 DEF ShowsFound
  <2> HIDE DEF s
  <2>2. /\ Interned(fixes, FixIn[x]) = Firsts(Column(Append(s, x), FixIn))
        /\ \A w \in Range(fixes) : RowOf(Interned(fixes, FixIn[x]), w) = RowOf(fixes, w)
        /\ \A k \in DOMAIN s : FixIn[s[k]] \in Range(fixes)
    BY <1>1, <2>1, ColumnTable
  <2> QED BY <1>2, <2>1, <2>2
<1>8. Into(assessments, assessments', AssessmentIn)
  <2>1. /\ assessments = Firsts(Column(s, AssessmentIn))
        /\ assessments' = Interned(assessments, AssessmentIn[x])
    BY <1>4, <1>5 DEF ShowsFound
  <2> HIDE DEF s
  <2>2. /\ Interned(assessments, AssessmentIn[x]) = Firsts(Column(Append(s, x), AssessmentIn))
        /\ \A w \in Range(assessments) :
             RowOf(Interned(assessments, AssessmentIn[x]), w) = RowOf(assessments, w)
        /\ \A k \in DOMAIN s : AssessmentIn[s[k]] \in Range(assessments)
    BY <1>1, <2>1, ColumnTable
  <2> QED BY <1>2, <2>1, <2>2
<1>9. /\ \A k \in 1..Len(s) : MadeBefore(t, k) = MadeBefore(h, k)
      /\ Before(Len(s) + 1) = Len(Made(h))
  <2>1. x \in AllFacts
    BY DEF AllFacts
  <2> QED BY <1>2, <2>1, MadeBeforeAppend
<1> HIDE DEF Before
<1>10. \A k \in 1..Len(s) : FindingRow(s[k], Before(k))' = FindingRow(s[k], Before(k))
  BY <1>4, <1>6, <1>7, <1>8 DEF FindingRow
<1>11. Len(occurrences) = Len(Made(h))
  <2>1. Len(Made(h)) \in Nat /\ DOMAIN Made(h) = 1..Len(Made(h))
    BY FactParts, LenProperties
  <2>2. occurrences = [k \in DOMAIN Made(h) |-> OccurrenceRow(Made(h)[k])]
    BY DEF ShowsMade
  <2> QED BY <2>1, <2>2
<1>12. findings' = Append(findings, FindingRow(x, Before(Len(s) + 1))')
  BY <1>5, <1>9, <1>11 DEF FindingRow
<1>13. findings = [k \in 1..Len(s) |-> FindingRow(s[k], Before(k))]
  BY <1>2, <1>9 DEF ShowsFound, Before
<1>14. findings' = [k \in 1..(Len(s) + 1) |-> FindingRow(Append(s, x)[k], Before(k))']
  <2> DEFINE row == FindingRow(x, Before(Len(s) + 1))'
             Row(k) == FindingRow(Append(s, x)[k], Before(k))'
  <2>1. Row(Len(s) + 1) = row /\ \A k \in 1..Len(s) : Row(k) = findings[k]
    BY <1>2, <1>10, <1>13
  <2>2. Len(findings) = Len(s)
    BY <1>2, <1>13
  <2>3. Append(findings, row)
          = [k \in 1..(Len(s) + 1) |-> IF k = Len(s) + 1 THEN row ELSE findings[k]]
    BY <2>2
  <2> HIDE DEF row, Row
  <2>4. Append(findings, row) = [k \in 1..(Len(s) + 1) |-> Row(k)]
    <3>1. \A k \in 1..(Len(s) + 1) : k = Len(s) + 1 \/ k \in 1..Len(s)
      BY <1>2
    <3> QED BY <2>1, <2>3, <3>1
  <2> QED BY <1>12, <2>4 DEF row, Row
<1>15. ShowsFound(t)'
  <2>1. [k \in 1..(Len(s) + 1) |-> FindingRow(Append(s, x)[k], Before(k))']
          = [k \in DOMAIN Append(s, x) |-> FindingRow(Append(s, x)[k], Before(k))']
    BY <1>2
  <2> QED BY <1>3, <1>6, <1>7, <1>8, <1>14, <2>1 DEF ShowsFound, Before
<1>16. ShowsMade(t)'
  <2>1. UNCHANGED <<packages, contexts, licenses, occurrences>>
    BY DEF Finding
  <2> HIDE DEF t
  <2>2. \A k \in DOMAIN Made(h) : OccurrenceRow(Made(h)[k])' = OccurrenceRow(Made(h)[k])
    BY <2>1 DEF OccurrenceRow
  <2> QED BY <1>3, <2>1, <2>2 DEF ShowsMade
<1> QED BY <1>15, <1>16

(***************************************************************************)
(* The request does not change                                             *)
(***************************************************************************)
LEMMA SameResponse ==
  ASSUME options' = options
  PROVE  \A r : Response(r)' = Response(r)
<1>1. \A p : Violations(p)' = Violations(p)
  <2> SUFFICES ASSUME NEW p PROVE Violations(p)' = Violations(p)
    OBVIOUS
  <2>1. {i \in DOMAIN p.licenses : p.licenses[i] \notin options'.allowed}
          = {i \in DOMAIN p.licenses : p.licenses[i] \notin options.allowed}
    OBVIOUS
  <2>2. Policy' = Policy
    BY DEF Policy
  <2> QED BY <2>1, <2>2 DEF Violations
<1>2. \A p : Evaluated(p)' = Evaluated(p)
  BY <1>1 DEF Evaluated
<1>3. \A p : Deleted(p)' = Deleted(p)
  BY DEF Deleted, Policy
<1> SUFFICES ASSUME NEW r PROVE Response(r)' = Response(r)
  OBVIOUS
<1>4. [i \in DOMAIN r.packages |-> Evaluated(r.packages[i])']
        = [i \in DOMAIN r.packages |-> Evaluated(r.packages[i])]
  BY <1>2
<1>5. \A judged : {i \in DOMAIN judged : ~Deleted(judged[i])'}
                  = {i \in DOMAIN judged : ~Deleted(judged[i])}
  BY <1>3
<1> QED BY <1>4, <1>5 DEF Response

LEMMA SameCalls ==
  ASSUME options' = options
  PROVE  \A R : Calls(R)' = Calls(R) /\ ImageRow(R)' = ImageRow(R)
<1>1. \A p : Selected(p)' = Selected(p) /\ LicenseRow(p)' = LicenseRow(p)
  BY DEF Selected, LicenseRow, Policy
<1>2. \A R, p : PackageCalls(R, p)' = PackageCalls(R, p)
  BY <1>1 DEF PackageCalls
<1>3. \A R, p : PackageDiagnostics(R, p)' = PackageDiagnostics(R, p)
  BY <1>1 DEF PackageDiagnostics
<1> SUFFICES ASSUME NEW R PROVE Calls(R)' = Calls(R) /\ ImageRow(R)' = ImageRow(R)
  OBVIOUS
<1>4. /\ [i \in DOMAIN R.packages |-> PackageCalls(R, R.packages[i])']
           = [i \in DOMAIN R.packages |-> PackageCalls(R, R.packages[i])]
      /\ [i \in DOMAIN R.packages |-> PackageDiagnostics(R, R.packages[i])']
           = [i \in DOMAIN R.packages |-> PackageDiagnostics(R, R.packages[i])]
  BY <1>2, <1>3
<1> QED BY <1>4 DEF Calls, ImageRow

LEMMA SameRecording ==
  ASSUME options' = options
  PROVE  \A r : Recording(r)' = Recording(r) /\ ImageRow(Response(r))' = ImageRow(Response(r))
<1>1. \A r : Calls(Response(r))' = Calls(Response(r))
  BY SameResponse, SameCalls
<1>2. \A r : ImageRow(Response(r))' = ImageRow(Response(r))
  BY SameResponse, SameCalls
<1>3. \A r : Recording(r)' = Recording(r)
  BY <1>1 DEF Recording, Recorded
<1> QED BY <1>2, <1>3

FactsOf(rs) == FlattenSeq([i \in DOMAIN rs |-> Tagged(Recording(rs[i]), i)])

LEMMA SameFacts ==
  ASSUME options' = options
  PROVE  Facts = FactsOf(results) /\ Facts' = FactsOf(results')
<1>1. \A r : Recording(r)' = Recording(r)
  BY SameRecording
<1>2. Facts' = FlattenSeq([i \in DOMAIN results' |-> Tagged(Recording(results[i]), i)'])
  BY DEF Facts, Recording
<1>3. [i \in DOMAIN results' |-> Tagged(Recording(results[i]), i)']
         = [i \in DOMAIN results' |-> Tagged(Recording(results'[i]), i)]
  BY <1>1
<1>4. Facts = FactsOf(results)
  BY DEF Facts, FactsOf, Recording
<1> QED BY <1>2, <1>3, <1>4 DEF FactsOf

LEMMA TaggedFacts ==
  ASSUME NEW s \in Seq(SinkCalls), Range(s) \subseteq RowCalls, NEW i \in Nat
  PROVE  /\ Tagged(s, i) \in Seq(AllFacts) /\ Len(Tagged(s, i)) = Len(s)
         /\ \A k \in 1..Len(s) : Tagged(s, i)[k] = [image |-> i, call |-> s[k]]
<1>1. Len(s) \in Nat /\ DOMAIN s = 1..Len(s)
  BY LenProperties
<1>2. \A k \in 1..Len(s) : s[k] \in RowCalls
  BY RangePart
<1>3. \A c \in RowCalls : [image |-> i, call |-> c] \in AllFacts
  BY DEF RowCalls, AllFacts, MadeFacts, FoundFacts
<1>4. Tagged(s, i) \in [1..Len(s) -> AllFacts]
  BY <1>1, <1>2, <1>3 DEF Tagged
<1>5. Tagged(s, i) \in Seq(AllFacts) /\ Len(Tagged(s, i)) = Len(s)
  BY <1>1, <1>4, Sequenced
<1> QED BY <1>1, <1>5 DEF Tagged

LEMMA RowCallsOf ==
  ASSUME NEW s \in Seq(SinkCalls)
  PROVE  Chosen(s, RowCalls) \in Seq(SinkCalls) /\ Range(Chosen(s, RowCalls)) \subseteq RowCalls
BY ChosenPart

LEMMA RecordingRows ==
  ASSUME NEW r \in Responses
  PROVE  Recording(r) \in Seq(SinkCalls) /\ Range(Recording(r)) \subseteq RowCalls
<1>1. Calls(Response(r)) \in Seq(SinkCalls)
  BY CallsPacked DEF PackedCalls, BackedCalls
<1> QED BY <1>1, RecordedCalls, RowCallsOf

LEMMA FactsAppend ==
  ASSUME NEW rs \in Seq(Responses), NEW r \in Responses
  PROVE  /\ FactsOf(rs) \in Seq(AllFacts)
         /\ FactsOf(Append(rs, r)) = FactsOf(rs) \o Tagged(Recording(r), Len(rs) + 1)
<1> DEFINE Part(q, i) == Tagged(Recording(q[i]), i)
           parts == [i \in DOMAIN rs |-> Part(rs, i)]
           n == Len(rs)
           q == Append(rs, r)
           parts2 == [i \in DOMAIN q |-> Part(q, i)]
           last == Tagged(Recording(r), n + 1)
<1>1. /\ n \in Nat /\ DOMAIN rs = 1..n /\ rs \in [1..n -> Responses]
      /\ DOMAIN q = 1..(n + 1) /\ \A i \in 1..n : q[i] = rs[i]
      /\ q[n + 1] = r
  BY AppendProperties, LenProperties
<1>2. ASSUME NEW w \in Responses, NEW i \in Nat PROVE Tagged(Recording(w), i) \in Seq(AllFacts)
  BY RecordingRows, TaggedFacts
<1>3. parts \in [1..n -> Seq(AllFacts)]
  BY <1>1, <1>2
<1>4. parts \in Seq(Seq(AllFacts)) /\ Len(parts) = n
  BY <1>1, <1>3, Sequenced
<1>5. last \in Seq(AllFacts)
  BY <1>1, <1>2
<1>6. /\ \A i \in 1..n : parts2[i] = parts[i]
      /\ parts2[n + 1] = last /\ DOMAIN parts2 = 1..(n + 1)
  BY <1>1
<1>7. parts2 \in [1..(n + 1) -> Seq(AllFacts)]
  BY <1>1, <1>3, <1>5, <1>6
<1>8. FactsOf(rs) = FlattenSeq(parts) /\ FactsOf(q) = FlattenSeq(parts2)
  BY DEF FactsOf
<1> HIDE DEF parts, parts2, last, q, n, Part
<1>9. parts2 \in Seq(Seq(AllFacts)) /\ Len(parts2) = n + 1
  BY <1>1, <1>7, Sequenced
<1>10. FlattenSeq(parts) \in Seq(AllFacts)
  BY <1>4, FlattenRange
<1>11. parts2 = Append(parts, last)
  <2> DEFINE t == Append(parts, last)
  <2>1. /\ t \in Seq(Seq(AllFacts)) /\ Len(t) = n + 1
        /\ \A i \in 1..n : t[i] = parts[i]
        /\ t[n + 1] = last
    BY <1>4, <1>5, AppendProperties
  <2>2. \A i \in 1..(n + 1) : parts2[i] = t[i]
    BY <1>1, <1>6, <2>1
  <2> HIDE DEF t
  <2>3. parts2 = t
    BY <1>9, <2>1, <2>2, SameSequence
  <2> QED BY <2>3 DEF t
<1>12. FlattenSeq(parts2) = FlattenSeq(parts) \o last
  BY <1>4, <1>5, <1>10, <1>11, FlattenAppend
<1> QED BY <1>8, <1>10, <1>12 DEF last, q, n

\* The calls that are left after the first.
LEMMA PendingTail ==
  ASSUME NEW s \in Seq(SinkCalls), s # << >>, NEW i \in Nat, NEW h \in Seq(AllFacts)
  PROVE  /\ Head(s) \notin RowCalls =>
              h \o Tagged(Chosen(s, RowCalls), i) = h \o Tagged(Chosen(Tail(s), RowCalls), i)
         /\ Head(s) \in RowCalls =>
              h \o Tagged(Chosen(s, RowCalls), i)
                = Append(h, [image |-> i, call |-> Head(s)]) \o Tagged(Chosen(Tail(s), RowCalls), i)
<1> DEFINE c == Head(s)
           t == Tail(s)
           one == <<c>>
           u == Chosen(t, RowCalls)
           x == [image |-> i, call |-> c]
<1>1. c \in SinkCalls /\ t \in Seq(SinkCalls) /\ s = one \o t
  BY HeadFirst
<1>2. one \in Seq(SinkCalls) /\ Range(one) = {c}
  BY <1>1 DEF Range
<1>3. u \in Seq(SinkCalls) /\ Range(u) \subseteq RowCalls
  BY <1>1, RowCallsOf
<1> HIDE DEF c, t, one, u
<1>4. Chosen(s, RowCalls) = Chosen(one, RowCalls) \o u
  BY <1>1, <1>2, ChosenConcat DEF u
<1>5. CASE c \notin RowCalls
  <2>1. Chosen(one, RowCalls) = << >>
    BY <1>2, <1>5, ChosenNone
  <2>2. Chosen(s, RowCalls) = u
    BY <1>3, <1>4, <2>1, ConcatEmptySeq
  <2> QED BY <1>5, <2>2 DEF c, t, u
<1>6. CASE c \in RowCalls
  <2>1. Chosen(one, RowCalls) = one
    BY <1>2, <1>6, ChosenAll
  <2>2. Chosen(s, RowCalls) = one \o u
    BY <1>4, <2>1
  <2>3. x \in AllFacts
    BY <1>6 DEF RowCalls, AllFacts, MadeFacts, FoundFacts
  <2> DEFINE v == Tagged(u, i)
             w == Tagged(one \o u, i)
             y == <<x>>
  <2>4. one \o u \in Seq(SinkCalls) /\ Range(one \o u) \subseteq RowCalls
    BY <1>2, <1>3, <1>6, ConcatProperties, RangeConcatenation
  <2>5. /\ v \in Seq(AllFacts) /\ Len(v) = Len(u)
        /\ \A k \in 1..Len(u) : v[k] = [image |-> i, call |-> u[k]]
    BY <1>3, TaggedFacts
  <2>6. /\ w \in Seq(AllFacts) /\ Len(w) = Len(one \o u)
        /\ \A k \in 1..Len(one \o u) : w[k] = [image |-> i, call |-> (one \o u)[k]]
    BY <2>4, TaggedFacts
  <2>7. /\ Len(u) \in Nat /\ Len(one \o u) = 1 + Len(u)
        /\ \A k \in 1..(1 + Len(u)) : (one \o u)[k] = IF k <= 1 THEN c ELSE u[k - 1]
    <3>1. Len(one) = 1 /\ one[1] = c
      BY DEF one
    <3>2. /\ Len(one \o u) = 1 + Len(u)
          /\ \A k \in 1..(1 + Len(u)) : (one \o u)[k] = IF k <= 1 THEN one[k] ELSE u[k - 1]
      <4>1. /\ Len(one \o u) = Len(one) + Len(u)
            /\ \A k \in 1..(Len(one) + Len(u)) :
                 (one \o u)[k] = IF k <= Len(one) THEN one[k] ELSE u[k - Len(one)]
        BY <1>2, <1>3, ConcatProperties
      <4> QED BY <3>1, <4>1
    <3>3. Len(u) \in Nat
      BY <1>3, LenProperties
    <3> QED BY <3>1, <3>2, <3>3
  <2>8. y \in Seq(AllFacts) /\ Len(y) = 1 /\ y[1] = x
    BY <2>3
  <2> HIDE DEF v, w, y
  <2>9. /\ y \o v \in Seq(AllFacts) /\ Len(y \o v) = 1 + Len(u)
        /\ \A k \in 1..(1 + Len(u)) : (y \o v)[k] = IF k <= 1 THEN y[k] ELSE v[k - 1]
    <3>1. y \in Seq(AllFacts) /\ v \in Seq(AllFacts)
      BY <2>5, <2>8
    <3>2. /\ y \o v \in Seq(AllFacts) /\ Len(y \o v) = Len(y) + Len(v)
          /\ \A k \in 1..(Len(y) + Len(v)) :
               (y \o v)[k] = IF k <= Len(y) THEN y[k] ELSE v[k - Len(y)]
      BY <3>1, ConcatProperties
    <3>3. Len(y) = 1 /\ Len(v) = Len(u)
      BY <2>5, <2>8
    <3> QED BY <3>2, <3>3
  <2>10. ASSUME NEW k \in 1..(1 + Len(u)) PROVE w[k] = (y \o v)[k]
    <3>1. CASE k = 1
      BY <2>6, <2>7, <2>8, <2>9, <3>1
    <3>2. CASE k # 1
      <4>1. k - 1 \in 1..Len(u) /\ ~(k <= 1)
        BY <2>7, <3>2
      <4> QED BY <2>5, <2>6, <2>7, <2>9, <4>1
    <3> QED BY <3>1, <3>2
  <2>11. w = y \o v
    <3>1. w \in Seq(AllFacts) /\ y \o v \in Seq(AllFacts) /\ Len(w) = Len(y \o v)
      BY <2>6, <2>7, <2>9
    <3>2. \A k \in 1..Len(w) : w[k] = (y \o v)[k]
      BY <2>6, <2>7, <2>10
    <3> QED BY <3>1, <3>2, SameSequence
  <2>12. h \o (y \o v) = (h \o y) \o v
    <3>1. y \in Seq(AllFacts) /\ v \in Seq(AllFacts)
      BY <2>5, <2>8
    <3> QED BY <3>1, ConcatAssociative
  <2>13. h \o y = Append(h, x)
    BY <2>3, AppendIsConcat DEF y
  <2> QED BY <1>6, <2>2, <2>11, <2>12, <2>13 DEF c, t, u, v, w
<1> QED BY <1>5, <1>6 DEF c

(***************************************************************************)
(* The invariant                                                           *)
(***************************************************************************)
Settled == pc \in {"idle", "finished"}
Latest == Response(results[Len(results)])

Control ==
  /\ pc \in {"idle", "project", "finished", "panic"}
  /\ results \in Seq(Responses) /\ todo \in Seq(SinkCalls) /\ joined \in Seq(Seq(Nat))
  /\ Settled => todo = << >> /\ addresses = << >>
  /\ ~Settled => results # << >>

\* The rows of the images are those of the results, but for the one under way.
Imaged ==
  /\ images = [i \in 1..(IF Settled THEN Len(results) ELSE Len(results) - 1) |->
                 ImageRow(Response(results[i]))]
  /\ ~Settled => current = ImageRow(Latest)

\* The findings that are left are of advisories of the response, whose names have been
\* joined or will be before them; and of an occurrence that came or will come before.
Ready(R, calls, seen, occurred) ==
  \A k \in 1..Len(calls) :
    calls[k].op = "finding" =>
      /\ calls[k].address \in DOMAIN Met(R)
      /\ calls[k].advisory = ProjectAdvisory(Met(R)[calls[k].address])
      /\ calls[k].advisory.id \in seen \/ Named(calls, k)
      /\ occurred \/ Owned(calls, k)
ReadyCalls == Ready(Latest, todo, Seen, occurrences # << >>)

Remembered ==
  \A x \in DOMAIN addresses :
    /\ ProjectAdvisory(Met(Latest)[x]) \in Range(advisories)
    /\ addresses[x] = RowOf(advisories, ProjectAdvisory(Met(Latest)[x]))

\* The facts so far show in the tables; the others are left in the calls.
Pending == Tagged(Chosen(todo, RowCalls), Len(results))
Shown == \E h \in Seq(AllFacts) : ShowsMade(h) /\ ShowsFound(h) /\ Facts = h \o Pending

Listed == \A a \in DOMAIN advisories : advisories[a].id \in Seen

ReportInv == Control /\ Imaged /\ ReadyCalls /\ Remembered /\ Shown /\ Listed

LEMMA ReadyTail ==
  ASSUME NEW R, NEW calls \in Seq(SinkCalls), calls # << >>, NEW seen, NEW occurred \in BOOLEAN,
         NEW seen2, NEW occurred2 \in BOOLEAN, Ready(R, calls, seen, occurred),
         seen \subseteq seen2, occurred => occurred2,
         Head(calls).op = "union" => Range(Head(calls).names) \subseteq seen2,
         Head(calls).op = "occurrence" => occurred2
  PROVE  Ready(R, Tail(calls), seen2, occurred2)
<1> DEFINE t == Tail(calls)
<1>1. /\ Len(t) = Len(calls) - 1 /\ Len(calls) \in Nat \ {0} /\ Head(calls) = calls[1]
      /\ \A i \in 1..(Len(calls) - 1) : t[i] = calls[i + 1]
  BY HeadFirst
<1> HIDE DEF t
<1> SUFFICES ASSUME NEW k \in 1..Len(t), t[k].op = "finding"
             PROVE  /\ t[k].address \in DOMAIN Met(R)
                    /\ t[k].advisory = ProjectAdvisory(Met(R)[t[k].address])
                    /\ t[k].advisory.id \in seen2 \/ Named(t, k)
                    /\ occurred2 \/ Owned(t, k)
  BY DEF Ready, t
<1>2. k + 1 \in 1..Len(calls) /\ t[k] = calls[k + 1]
  BY <1>1
<1>3. /\ t[k].address \in DOMAIN Met(R)
      /\ t[k].advisory = ProjectAdvisory(Met(R)[t[k].address])
      /\ t[k].advisory.id \in seen \/ Named(calls, k + 1)
      /\ occurred \/ Owned(calls, k + 1)
  BY <1>2 DEF Ready
<1>4. ASSUME NEW j \in 1..((k + 1) - 1) PROVE j = 1 \/ (j - 1 \in 1..(k - 1) /\ t[j - 1] = calls[j])
  <2>1. CASE j # 1
    <3>1. j - 1 \in 1..(k - 1) /\ j - 1 \in 1..(Len(calls) - 1) /\ (j - 1) + 1 = j
      BY <1>1, <2>1
    <3> QED BY <1>1, <3>1
  <2> QED BY <2>1
<1>5. Named(calls, k + 1) => t[k].advisory.id \in seen2 \/ Named(t, k)
  <2> SUFFICES ASSUME NEW j \in 1..((k + 1) - 1), calls[j].op = "union",
                      t[k].advisory.id \in Range(calls[j].names)
               PROVE  t[k].advisory.id \in seen2 \/ Named(t, k)
    BY <1>2 DEF Named
  <2> QED BY <1>1, <1>4 DEF Named
<1>6. Owned(calls, k + 1) => occurred2 \/ Owned(t, k)
  <2> SUFFICES ASSUME NEW j \in 1..((k + 1) - 1), calls[j].op = "occurrence"
               PROVE  occurred2 \/ Owned(t, k)
    BY DEF Owned
  <2> QED BY <1>1, <1>4 DEF Owned
<1> QED BY <1>3, <1>5, <1>6

LEMMA ReadyAtStart ==
  ASSUME NEW R, NEW calls \in PackedCalls(R), NEW seen, NEW occurred \in BOOLEAN
  PROVE  Ready(R, calls, seen, occurred)
BY DEF Ready, PackedCalls, BackedCalls, Backed, AllOwned

\* What depends on the request and the results alone.
LEMMA SameScene ==
  ASSUME UNCHANGED <<options, results>>
  PROVE  /\ Latest' = Latest /\ Facts' = Facts
         /\ \A r : ImageRow(Response(r))' = ImageRow(Response(r))
<1>1. \A r : Response(r)' = Response(r) /\ ImageRow(Response(r))' = ImageRow(Response(r))
  BY SameResponse, SameRecording
<1>2. Latest' = Latest
  BY <1>1 DEF Latest
<1>3. Facts' = Facts
  BY SameFacts
<1> QED BY <1>1, <1>2, <1>3

LEMMA InitReport == Init => ReportInv
<1> SUFFICES ASSUME Init PROVE ReportInv
  OBVIOUS
<1>1. Settled /\ Len(results) = 0 /\ results = << >> /\ todo = << >>
  BY DEF Init, Settled
<1>2. Control
  BY <1>1 DEF Control, Init
<1>3. Imaged
  BY <1>1 DEF Imaged, Init
<1>4. ReadyCalls /\ Remembered /\ Listed
  BY DEF Init, ReadyCalls, Ready, Remembered, Listed
<1>5. Shown
  <2> DEFINE h == << >>
  <2>1. h \in Seq(AllFacts)
    BY EmptySeq
  <2>2. Made(h) = << >> /\ Found(h) = << >>
    <3>1. Places(h, "occurrence") = {} /\ Places(h, "finding") = {}
      BY DEF Places
    <3>2. Keep(<< >>, {}) = << >>
      <4>1. {i \in DOMAIN << >> : << >>[i] \in {}} = {}
        OBVIOUS
      <4>2. Chosen(<< >>, {}) = << >>
        BY ChosenEmpty
      <4> QED BY <4>1, <4>2 DEF Chosen
    <3> QED BY <3>1, <3>2 DEF Made, Found
  <2>3. \A g : Column(<< >>, g) = << >>
    BY DEF Column
  <2>4. Firsts(<< >>) = << >>
    <3>1. << >> \in Seq({}) /\ Firsts(<< >>) \in Seq({})
      BY EmptySeq, FirstsMembers
    <3> QED BY <3>1, EmptySeq
  <2>5. ShowsMade(h)
    BY <2>2, <2>3, <2>4 DEF ShowsMade, Init
  <2>6. ShowsFound(h)
    BY <2>2, <2>3, <2>4 DEF ShowsFound, Init
  <2>7. Facts = << >>
    <3>1. Facts = FlattenSeq(<< >>)
      BY <1>1 DEF Facts
    <3> QED BY <3>1, FlattenEmpty
  <2>8. Pending = << >>
    <3>1. Chosen(todo, RowCalls) = << >>
      BY <1>1, ChosenEmpty
    <3> QED BY <3>1 DEF Pending, Tagged
  <2>9. Facts = h \o Pending
    BY <2>7, <2>8, ConcatEmptySeq, EmptySeq
  <2> QED BY <2>1, <2>5, <2>6, <2>9 DEF Shown
<1> QED BY <1>2, <1>3, <1>4, <1>5 DEF ReportInv

LEMMA SameTables ==
  ASSUME UNCHANGED tables, NEW h, ShowsMade(h), ShowsFound(h)
  PROVE  ShowsMade(h)' /\ ShowsFound(h)'
<1>1. UNCHANGED <<packages, contexts, licenses, advisories, fixes, assessments, occurrences,
                  findings>>
  BY DEF tables, values
<1>2. \A x : OccurrenceRow(x)' = OccurrenceRow(x)
  BY <1>1 DEF OccurrenceRow
<1>3. \A x, n : FindingRow(x, n)' = FindingRow(x, n)
  BY <1>1 DEF FindingRow
<1>4. ShowsMade(h)'
  BY <1>1, <1>2 DEF ShowsMade
<1>5. ShowsFound(h)'
  BY <1>1, <1>3 DEF ShowsFound
<1> QED BY <1>4, <1>5

LEMMA BeginReport ==
  ASSUME ReportInv, NEW r \in Responses, BeginImage(r),
         todo' \in PackedCalls(Response(r)), Chosen(todo', RowCalls) = Recording(r)
  PROVE  ReportInv'
<1>1. /\ pc = "idle" /\ pc' = "project" /\ current' = ImageRow(Response(r)) /\ addresses' = << >>
      /\ results' = Append(results, r)
      /\ UNCHANGED <<options, images, tables, aliases>>
  BY DEF BeginImage
<1>2. Settled /\ ~Settled' /\ todo = << >>
  BY <1>1 DEF ReportInv, Control, Settled
<1>3. /\ Len(results) \in Nat /\ results' \in Seq(Responses) /\ Len(results') = Len(results) + 1
      /\ \A i \in 1..Len(results) : results'[i] = results[i]
      /\ results'[Len(results')] = r /\ results' # << >>
  <2>1. results \in Seq(Responses)
    BY DEF ReportInv, Control
  <2> QED BY <1>1, <2>1, AppendProperties, LenProperties
<1>4. /\ \A w : Response(w)' = Response(w) /\ ImageRow(Response(w))' = ImageRow(Response(w))
      /\ \A w : Recording(w)' = Recording(w)
  BY <1>1, SameResponse, SameRecording
<1>5. Latest' = Response(r)
  BY <1>3, <1>4 DEF Latest
<1>6. Control'
  <2>1. todo' \in Seq(SinkCalls)
    BY DEF PackedCalls, BackedCalls
  <2>2. UNCHANGED joined
    BY <1>1 DEF aliases
  <2> QED BY <1>1, <1>2, <1>3, <2>1, <2>2 DEF Control, ReportInv
<1>7. Imaged'
  <2>1. images = [i \in 1..Len(results) |-> ImageRow(Response(results[i]))]
    BY <1>2 DEF ReportInv, Imaged
  <2>2. Len(results') - 1 = Len(results)
    BY <1>3
  <2>3. \A i \in 1..Len(results) : ImageRow(Response(results[i]))' = ImageRow(Response(results[i]))
    BY <1>3, <1>4
  <2>4. images' = [i \in 1..(IF Settled' THEN Len(results') ELSE Len(results') - 1) |->
                     ImageRow(Response(results[i]))']
    BY <1>1, <1>2, <2>1, <2>2, <2>3
  <2>5. current' = ImageRow(Latest)'
    <3>1. ImageRow(Latest)' = ImageRow(Response(r))'
      BY <1>3 DEF Latest
    <3> QED BY <1>1, <1>4, <3>1
  <2> QED BY <2>4, <2>5 DEF Imaged
<1>8. ReadyCalls'
  <2> DEFINE calls == todo'
             seen == Seen'
             occurred == (occurrences # << >>)'
             R == Response(r)
  <2>1. calls \in PackedCalls(R) /\ occurred \in BOOLEAN
    OBVIOUS
  <2> HIDE DEF calls, seen, occurred, R
  <2>2. Ready(R, calls, seen, occurred)
    BY <2>1, ReadyAtStart
  <2> QED BY <1>5, <2>2 DEF ReadyCalls, calls, seen, occurred, R
<1>9. Remembered'
  BY <1>1 DEF Remembered
<1>10. Shown'
  <2>1. PICK h \in Seq(AllFacts) : ShowsMade(h) /\ ShowsFound(h) /\ Facts = h \o Pending
    BY DEF ReportInv, Shown
  <2>2. Pending = << >>
    <3>1. Chosen(todo, RowCalls) = << >>
      BY <1>2, ChosenEmpty
    <3> QED BY <3>1 DEF Pending, Tagged
  <2>3. Facts = h
    BY <2>1, <2>2, ConcatEmptySeq
  <2>4. results \in Seq(Responses)
    BY DEF ReportInv, Control
  <2>5. FactsOf(Append(results, r)) = FactsOf(results) \o Tagged(Recording(r), Len(results) + 1)
    BY <2>4, FactsAppend
  <2>6. Facts = FactsOf(results) /\ Facts' = FactsOf(Append(results, r))
    BY <1>1, SameFacts
  <2>7. Pending' = Tagged(Recording(r), Len(results) + 1)
    BY <1>3 DEF Pending
  <2>8. Facts' = h \o Pending'
    BY <2>3, <2>5, <2>6, <2>7
  <2>9. ShowsMade(h)' /\ ShowsFound(h)'
    BY <1>1, <2>1, SameTables
  <2> QED BY <2>8, <2>9 DEF Shown
<1>11. Listed'
  <2>1. UNCHANGED <<advisories, joined>>
    BY <1>1 DEF tables, values, aliases
  <2>2. Seen' = Seen
    BY <2>1 DEF Seen
  <2> QED BY <2>1, <2>2 DEF ReportInv, Listed
<1> QED BY <1>6, <1>7, <1>8, <1>9, <1>10, <1>11 DEF ReportInv

LEMMA AddReport ==
  ASSUME ReportInv, NEW r \in Responses, Add(r) PROVE ReportInv'
<1>1. Calls(Response(r)) \in PackedCalls(Response(r))
      /\ Recording(r) = Chosen(Calls(Response(r)), RowCalls)
  BY CallsPacked, RecordedCalls
<1> QED BY <1>1, BeginReport DEF Add

LEMMA MergeReport ==
  ASSUME ReportInv, NEW r \in Responses, Merge(r) PROVE ReportInv'
<1> DEFINE C == Calls(Response(r))
           M == Chosen(C, UnionCalls) \o Chosen(C, RowCalls)
<1>1. /\ C \in PackedCalls(Response(r))
      /\ Recording(r) = Chosen(C, RowCalls) /\ Recorded(r, {"union"}) = Chosen(C, UnionCalls)
  BY CallsPacked, RecordedCalls
<1>2. M \in PackedCalls(Response(r)) /\ Chosen(M, RowCalls) = Recording(r)
  <2>1. M \in PackedCalls(Response(r)) /\ Chosen(M, RowCalls) = Chosen(C, RowCalls)
    BY <1>1, MergedPacked
  <2> QED BY <1>1, <2>1
<1>3. todo' = M
  BY <1>1 DEF Merge, Recording
<1> QED BY <1>2, <1>3, BeginReport DEF Merge

\* The parts of the invariant that a call to the builder leaves.
LEMMA CallReport ==
  ASSUME ReportInv, NEW op, Call(op), UNCHANGED <<options, pc, current, images, results>>,
         joined' \in Seq(Seq(Nat)), Seen \subseteq Seen',
         op = "union" => Range(Head(todo).names) \subseteq Seen',
         occurrences # << >> => occurrences' # << >>, op = "occurrence" => occurrences' # << >>
  PROVE  /\ Control' /\ Imaged' /\ ReadyCalls'
         /\ Latest' = Latest /\ Facts' = Facts
         /\ todo \in Seq(SinkCalls) /\ todo # << >> /\ Head(todo) \in SinkCalls
         /\ Head(todo) = todo[1] /\ 1 \in 1..Len(todo) /\ Head(todo).op = op /\ todo' = Tail(todo)
         /\ ~Settled /\ Len(results) \in Nat /\ Len(results) = Len(images) + 1
<1>1. /\ pc = "project" /\ todo # << >> /\ Head(todo).op = op /\ todo' = Tail(todo)
      /\ todo \in Seq(SinkCalls) /\ results \in Seq(Responses)
  BY DEF Call, ReportInv, Control
<1>2. ~Settled /\ ~Settled'
  BY <1>1 DEF Settled
<1>3. /\ Head(todo) \in SinkCalls /\ Tail(todo) \in Seq(SinkCalls) /\ Head(todo) = todo[1]
      /\ 1 \in 1..Len(todo)
  BY <1>1, HeadFirst
<1>4. Control'
  BY <1>1, <1>2, <1>3 DEF Control, ReportInv
<1>5. /\ Latest' = Latest /\ Facts' = Facts
      /\ \A r : ImageRow(Response(r))' = ImageRow(Response(r))
  BY SameScene
<1>6. Imaged'
  <2>1. /\ images = [i \in 1..(Len(results) - 1) |-> ImageRow(Response(results[i]))]
        /\ current = ImageRow(Latest)
    BY <1>2 DEF ReportInv, Imaged
  <2>2. [i \in 1..(Len(results') - 1) |-> ImageRow(Response(results[i]))']
          = [i \in 1..(Len(results) - 1) |-> ImageRow(Response(results[i]))]
    BY <1>5
  <2>3. ImageRow(Latest)' = ImageRow(Latest)
    BY <1>5 DEF Latest
  <2> QED BY <1>2, <2>1, <2>2, <2>3 DEF Imaged
<1>7. ReadyCalls'
  <2> DEFINE seen == Seen
             seen2 == Seen'
             occurred == occurrences # << >>
             occurred2 == (occurrences # << >>)'
             R == Latest
  <2>1. /\ Ready(R, todo, seen, occurred) /\ seen \subseteq seen2
        /\ occurred \in BOOLEAN /\ occurred2 \in BOOLEAN /\ (occurred => occurred2)
        /\ Head(todo).op = "union" => Range(Head(todo).names) \subseteq seen2
        /\ Head(todo).op = "occurrence" => occurred2
    BY <1>1 DEF ReportInv, ReadyCalls
  <2> HIDE DEF seen, seen2, occurred, occurred2, R
  <2>2. Ready(R, Tail(todo), seen2, occurred2)
    BY <1>1, <2>1, ReadyTail
  <2> QED BY <1>1, <1>5, <2>2 DEF ReadyCalls, seen2, occurred2, R
<1>8. Len(results) \in Nat /\ Len(results) = Len(images) + 1
  <2>1. Len(results) \in Nat \ {0}
    BY <1>1, <1>2, EmptySeq DEF ReportInv, Control
  <2>2. images = [i \in 1..(Len(results) - 1) |-> ImageRow(Response(results[i]))]
    BY <1>2 DEF ReportInv, Imaged
  <2>3. Len(images) = Len(results) - 1
    BY <2>1, <2>2
  <2> QED BY <2>1, <2>3
<1> QED BY <1>1, <1>2, <1>3, <1>4, <1>5, <1>6, <1>7, <1>8

LEMMA OccurrenceReport ==
  ASSUME ReportInv, Occurrence PROVE ReportInv'
<1>1. /\ Call("occurrence")
      /\ UNCHANGED <<options, pc, current, addresses, images, advisories, fixes, assessments, findings,
                     aliases, results>>
      /\ \E row : occurrences' = Append(occurrences, row)
  BY DEF Occurrence
<1>2. UNCHANGED <<options, pc, current, images, results, joined>> /\ Seen' = Seen
  <2>1. UNCHANGED joined
    BY <1>1 DEF aliases
  <2> QED BY <1>1, <2>1 DEF Seen
<1>3. occurrences' # << >>
  <2>1. PICK h \in Seq(AllFacts) : ShowsMade(h)
    BY DEF ReportInv, Shown
  <2>2. Len(Made(h)) \in Nat /\ DOMAIN Made(h) = 1..Len(Made(h))
    BY FactParts, LenProperties
  <2>3. occurrences = [k \in 1..Len(Made(h)) |-> OccurrenceRow(Made(h)[k])]
    BY <2>1, <2>2 DEF ShowsMade
  <2>4. Len(occurrences) \in Nat
    BY <2>2, <2>3
  <2>5. PICK row : occurrences' = Append(occurrences, row)
    BY <1>1
  <2>6. DOMAIN Append(occurrences, row) = 1..(Len(occurrences) + 1)
    OBVIOUS
  <2>7. 1 \in DOMAIN occurrences'
    BY <2>4, <2>5, <2>6
  <2> QED BY <2>7
<1>4. /\ Control' /\ Imaged' /\ ReadyCalls'
      /\ Latest' = Latest /\ Facts' = Facts
      /\ todo \in Seq(SinkCalls) /\ todo # << >> /\ Head(todo) \in SinkCalls
      /\ Head(todo).op = "occurrence" /\ todo' = Tail(todo)
      /\ Len(results) \in Nat /\ Len(results) = Len(images) + 1
  <2>1. joined' \in Seq(Seq(Nat))
    BY <1>2 DEF ReportInv, Control
  <2> QED BY <1>1, <1>2, <1>3, <2>1, CallReport
<1>5. Remembered'
  BY <1>1, <1>4 DEF ReportInv, Remembered
<1>6. Listed'
  BY <1>1, <1>2 DEF ReportInv, Listed
<1>7. Shown'
  <2>1. PICK h \in Seq(AllFacts) : ShowsMade(h) /\ ShowsFound(h) /\ Facts = h \o Pending
    BY DEF ReportInv, Shown
  <2>2. Head(todo) \in OccurrenceCalls /\ Head(todo) \in RowCalls
    BY <1>4, CallKinds
  <2>3. PICK x : x = [image |-> Len(images) + 1, call |-> Head(todo)]
    OBVIOUS
  <2>4. x \in MadeFacts /\ x \in AllFacts
    BY <1>4, <2>2, <2>3 DEF MadeFacts, AllFacts
  <2>5. ShowsMade(Append(h, x))' /\ ShowsFound(Append(h, x))'
    BY <2>1, <2>3, <2>4, OccurrenceShown
  <2>6. Append(h, x) \in Seq(AllFacts)
    BY <2>4, AppendProperties
  <2>7. h \o Tagged(Chosen(todo, RowCalls), Len(results))
          = Append(h, [image |-> Len(results), call |-> Head(todo)])
              \o Tagged(Chosen(Tail(todo), RowCalls), Len(results))
    BY <1>4, <2>2, PendingTail
  <2>8. Facts' = Append(h, x) \o Pending'
    BY <1>2, <1>4, <2>1, <2>3, <2>7 DEF Pending
  <2> QED BY <2>5, <2>6, <2>8 DEF Shown
<1> QED BY <1>4, <1>5, <1>6, <1>7 DEF ReportInv

LEMMA FindingReport ==
  ASSUME ReportInv, Finding PROVE ReportInv'
<1> DEFINE call == Head(todo)
<1>1. /\ Call("finding")
      /\ UNCHANGED <<options, pc, current, images, packages, contexts, licenses, occurrences, aliases,
                     results>>
  BY DEF Finding
<1>2. UNCHANGED <<options, pc, current, images, results, joined, occurrences>> /\ Seen' = Seen
  <2>1. UNCHANGED joined
    BY <1>1 DEF aliases
  <2> QED BY <1>1, <2>1 DEF Seen
<1>3. /\ Control' /\ Imaged' /\ ReadyCalls'
      /\ Latest' = Latest /\ Facts' = Facts
      /\ todo \in Seq(SinkCalls) /\ todo # << >> /\ Head(todo) \in SinkCalls
      /\ Head(todo).op = "finding" /\ todo' = Tail(todo)
      /\ Head(todo) = todo[1] /\ 1 \in 1..Len(todo)
      /\ Len(results) \in Nat
  <2>1. joined' \in Seq(Seq(Nat))
    BY <1>2 DEF ReportInv, Control
  <2> QED BY <1>1, <1>2, <2>1, CallReport
<1>4. PICK h \in Seq(AllFacts) : ShowsMade(h) /\ ShowsFound(h) /\ Facts = h \o Pending
  BY DEF ReportInv, Shown
<1>5. call \in FindingCalls /\ call \in RowCalls
  BY <1>3, CallKinds
<1>6. PICK x : x = [image |-> Len(results), call |-> call]
  OBVIOUS
<1>7. x \in FoundFacts /\ x \in AllFacts /\ x.call = call
  BY <1>3, <1>5, <1>6 DEF FoundFacts, AllFacts
<1>8. call.advisory = ProjectAdvisory(Met(Latest)[call.address]) /\ call.advisory.id \in Seen
  <2>1. ~Named(todo, 1)
    BY DEF Named
  <2> QED BY <1>3, <2>1 DEF ReportInv, ReadyCalls, Ready
<1>9. call.address \in DOMAIN addresses =>
        /\ call.advisory \in Range(advisories)
        /\ addresses[call.address] = RowOf(advisories, call.advisory)
  BY <1>8 DEF ReportInv, Remembered
<1>10. ShowsMade(Append(h, x))' /\ ShowsFound(Append(h, x))'
  BY <1>4, <1>7, <1>9, FindingShown
<1>11. /\ advisories' = Interned(advisories, call.advisory)
       /\ Range(advisories') = Range(advisories) \cup {call.advisory}
       /\ \A w \in Range(advisories) : RowOf(advisories', w) = RowOf(advisories, w)
       /\ \E X : advisories \in Seq(X)
  <2>1. advisories = Firsts(Column(Found(h), AdvisoryIn)) /\ Found(h) \in Seq(FoundFacts)
    BY <1>4, FactParts DEF ShowsFound
  <2>2. AdvisoryIn[x] = call.advisory
    BY <1>7 DEF AdvisoryIn
  <2>3. /\ Range(Interned(advisories, AdvisoryIn[x])) = Range(advisories) \cup {AdvisoryIn[x]}
        /\ \A w \in Range(advisories) :
             RowOf(Interned(advisories, AdvisoryIn[x]), w) = RowOf(advisories, w)
    BY <1>7, <2>1, ColumnTable
  <2>4. \E X : advisories \in Seq(X)
    <3> DEFINE c == Column(Found(h), AdvisoryIn)
    <3>1. /\ Len(Found(h)) \in Nat /\ DOMAIN Found(h) = 1..Len(Found(h))
          /\ Found(h) \in [1..Len(Found(h)) -> FoundFacts]
      BY <2>1, LenProperties
    <3>2. c \in [1..Len(Found(h)) -> Projected]
      BY <3>1, FactFields DEF Column
    <3> HIDE DEF c
    <3>3. c \in Seq(Projected)
      BY <3>1, <3>2, Sequenced
    <3>4. Firsts(c) \in Seq(Projected)
      BY <3>3, FirstsMembers
    <3> QED BY <2>1, <3>4 DEF c
  <2>5. advisories' = Interned(advisories, call.advisory)
    BY <1>9, <2>4, FindingEffect
  <2> QED BY <2>2, <2>3, <2>4, <2>5
<1>12. Remembered'
  <2>1. CASE call.address \in DOMAIN addresses
    <3>1. UNCHANGED <<advisories, addresses>>
      BY <2>1 DEF Finding
    <3> QED BY <1>3, <3>1 DEF ReportInv, Remembered
  <2>2. CASE call.address \notin DOMAIN addresses
    <3>1. addresses' = [y \in DOMAIN addresses \cup {call.address} |->
                          IF y = call.address THEN RowOf(advisories', call.advisory)
                                              ELSE addresses[y]]
      BY <2>2 DEF Finding
    <3> SUFFICES ASSUME NEW y \in DOMAIN addresses'
                 PROVE  /\ ProjectAdvisory(Met(Latest)[y]) \in Range(advisories')
                        /\ addresses'[y] = RowOf(advisories', ProjectAdvisory(Met(Latest)[y]))
      BY <1>3 DEF Remembered
    <3>2. CASE y = call.address
      BY <1>8, <1>11, <3>1, <3>2
    <3>3. CASE y # call.address
      <4>1. y \in DOMAIN addresses /\ addresses'[y] = addresses[y]
        BY <3>1, <3>3
      <4>2. /\ ProjectAdvisory(Met(Latest)[y]) \in Range(advisories)
            /\ addresses[y] = RowOf(advisories, ProjectAdvisory(Met(Latest)[y]))
        BY <4>1 DEF ReportInv, Remembered
      <4> QED BY <1>11, <4>1, <4>2
    <3> QED BY <3>2, <3>3
  <2> QED BY <2>1, <2>2
<1>13. Listed'
  <2>1. \A v \in Range(advisories) : v.id \in Seen
    BY DEF ReportInv, Listed, Range
  <2>2. \A v \in Range(advisories') : v.id \in Seen
    BY <1>8, <1>11, <2>1
  <2>3. \A a \in DOMAIN advisories' : advisories'[a] \in Range(advisories')
    BY DEF Range
  <2> QED BY <1>2, <2>2, <2>3 DEF Listed
<1>14. Shown'
  <2>1. Append(h, x) \in Seq(AllFacts)
    BY <1>7, AppendProperties
  <2>2. h \o Tagged(Chosen(todo, RowCalls), Len(results))
          = Append(h, x) \o Tagged(Chosen(Tail(todo), RowCalls), Len(results))
    BY <1>3, <1>5, <1>6, PendingTail
  <2>3. Facts' = Append(h, x) \o Pending'
    BY <1>2, <1>3, <1>4, <1>6, <2>2 DEF Pending
  <2> QED BY <1>10, <2>1, <2>3 DEF Shown
<1> QED BY <1>3, <1>12, <1>13, <1>14 DEF ReportInv

LEMMA UnionReport ==
  ASSUME ReportInv, UnionNames PROVE ReportInv'
<1> DEFINE names == Head(todo).names
<1>1. /\ Call("union")
      /\ joined' = IF names = << >> THEN joined ELSE Append(joined, names)
      /\ UNCHANGED <<options, pc, current, addresses, images, tables, vulnerabilities,
                     vulnerabilityOf, results>>
  BY DEF UnionNames
<1>2. UNCHANGED <<occurrences, advisories>>
  BY <1>1 DEF tables, values
<1>3. joined \in Seq(Seq(Nat)) /\ names \in Seq(Nat)
  <2>1. todo \in Seq(SinkCalls) /\ joined \in Seq(Seq(Nat))
    BY DEF ReportInv, Control
  <2>2. Head(todo) \in SinkCalls
    BY <1>1, <2>1, HeadFirst DEF Call
  <2>3. Head(todo) \in UnionCalls
    BY <1>1, <2>2, CallKinds DEF Call
  <2> QED BY <2>1, <2>3 DEF UnionCalls
<1> HIDE DEF names
<1>4. joined' \in Seq(Seq(Nat)) /\ Range(joined) \subseteq Range(joined')
      /\ (names # << >> => names \in Range(joined'))
  <2>1. Append(joined, names) \in Seq(Seq(Nat))
    BY <1>3, AppendProperties
  <2>2. Range(Append(joined, names)) = Range(joined) \cup {names}
    <3>1. /\ Len(joined) \in Nat /\ DOMAIN joined = 1..Len(joined)
          /\ DOMAIN Append(joined, names) = 1..(Len(joined) + 1)
          /\ \A i \in 1..Len(joined) : Append(joined, names)[i] = joined[i]
          /\ Append(joined, names)[Len(joined) + 1] = names
      BY <1>3, <2>1, AppendProperties, LenProperties
    <3> QED BY <3>1 DEF Range
  <2> QED BY <1>1, <1>3, <2>1, <2>2
<1>5. Seen \subseteq Seen' /\ Range(names) \subseteq Seen'
  <2>1. Range(<< >>) = {}
    BY DEF Range
  <2> QED BY <1>4, <2>1 DEF Seen
<1>6. /\ Control' /\ Imaged' /\ ReadyCalls'
      /\ Latest' = Latest /\ Facts' = Facts
      /\ todo \in Seq(SinkCalls) /\ todo # << >> /\ Head(todo) \in SinkCalls
      /\ Head(todo).op = "union" /\ todo' = Tail(todo)
      /\ Len(results) \in Nat
  BY <1>1, <1>2, <1>4, <1>5, CallReport DEF names
<1>7. Remembered'
  BY <1>1, <1>2, <1>6 DEF ReportInv, Remembered
<1>8. Listed'
  BY <1>2, <1>5 DEF ReportInv, Listed
<1>9. Shown'
  <2>1. PICK h \in Seq(AllFacts) : ShowsMade(h) /\ ShowsFound(h) /\ Facts = h \o Pending
    BY DEF ReportInv, Shown
  <2>2. ShowsMade(h)' /\ ShowsFound(h)'
    BY <1>1, <2>1, SameTables
  <2>3. Head(todo) \notin RowCalls
    BY <1>6, CallKinds
  <2>4. h \o Tagged(Chosen(todo, RowCalls), Len(results))
          = h \o Tagged(Chosen(Tail(todo), RowCalls), Len(results))
    BY <1>6, <2>3, PendingTail
  <2>5. Facts' = h \o Pending'
    BY <1>1, <1>6, <2>1, <2>4 DEF Pending
  <2> QED BY <2>2, <2>5 DEF Shown
<1> QED BY <1>6, <1>7, <1>8, <1>9 DEF ReportInv

\* Steps that change neither the tables nor the joined names, nor the calls and results.
LEMMA IdleReport ==
  ASSUME ReportInv, UNCHANGED <<options, results, todo, tables, joined>>
  PROVE  /\ Shown' /\ Listed' /\ ReadyCalls' /\ Latest' = Latest
         /\ \A r : ImageRow(Response(r))' = ImageRow(Response(r))
<1>1. /\ Latest' = Latest /\ Facts' = Facts
      /\ \A r : ImageRow(Response(r))' = ImageRow(Response(r))
  BY SameScene
<1>2. UNCHANGED <<occurrences, advisories>>
  BY DEF tables, values
<1>3. Seen' = Seen
  BY DEF Seen
<1>4. Pending' = Pending
  BY DEF Pending
<1>5. PICK h \in Seq(AllFacts) : ShowsMade(h) /\ ShowsFound(h) /\ Facts = h \o Pending
  BY DEF ReportInv, Shown
<1>6. ShowsMade(h)' /\ ShowsFound(h)'
  BY <1>5, SameTables
<1>7. Shown'
  BY <1>1, <1>4, <1>5, <1>6 DEF Shown
<1>8. Listed'
  BY <1>2, <1>3 DEF ReportInv, Listed
<1>9. ReadyCalls'
  BY <1>1, <1>2, <1>3 DEF ReportInv, ReadyCalls
<1> QED BY <1>1, <1>7, <1>8, <1>9

LEMMA EndReport ==
  ASSUME ReportInv, EndImage PROVE ReportInv'
<1>1. /\ pc = "project" /\ todo = << >> /\ images' = Append(images, current)
      /\ addresses' = << >> /\ pc' = "idle"
      /\ UNCHANGED <<options, todo, current, tables, joined, results>>
  BY DEF EndImage, aliases
<1>2. ~Settled /\ Settled'
  BY <1>1 DEF Settled
<1>3. /\ Shown' /\ Listed' /\ ReadyCalls' /\ Latest' = Latest
      /\ \A r : ImageRow(Response(r))' = ImageRow(Response(r))
  BY <1>1, IdleReport
<1>4. Control'
  BY <1>1, <1>2 DEF ReportInv, Control
<1>5. Imaged'
  <2> DEFINE n == Len(results)
             Row(i) == ImageRow(Response(results[i]))
  <2>1. n \in Nat \ {0}
    BY <1>2, EmptySeq DEF ReportInv, Control
  <2>2. images = [i \in 1..(n - 1) |-> Row(i)] /\ current = Row(n)
    BY <1>2 DEF ReportInv, Imaged, Latest
  <2>3. \A i : Row(i)' = Row(i)
    BY <1>1, <1>3
  <2> HIDE DEF Row
  <2>4. Len(images) = n - 1
    BY <2>1, <2>2
  <2>5. Append(images, current) = [i \in 1..n |-> Row(i)]
    <3>1. Append(images, current)
            = [i \in 1..n |-> IF i = n THEN Row(n) ELSE images[i]]
      BY <2>1, <2>2, <2>4
    <3>2. \A i \in 1..n : i = n \/ i \in 1..(n - 1)
      BY <2>1
    <3> QED BY <2>2, <3>1, <3>2
  <2>6. images' = [i \in 1..n |-> Row(i)']
    BY <1>1, <2>3, <2>5
  <2>7. images' = [i \in 1..Len(results') |-> ImageRow(Response(results[i]))']
    BY <1>1, <2>6 DEF Row
  <2> QED BY <1>2, <2>7 DEF Imaged
<1>6. Remembered'
  BY <1>1 DEF Remembered
<1> QED BY <1>3, <1>4, <1>5, <1>6 DEF ReportInv

LEMMA StillReport ==
  ASSUME ReportInv,
         UNCHANGED <<options, results, todo, tables, joined, current, addresses, images>>,
         pc' = pc \/ (pc = "project" /\ pc' = "panic") \/ (pc = "idle" /\ pc' = "finished")
  PROVE  ReportInv'
<1>1. /\ Shown' /\ Listed' /\ ReadyCalls' /\ Latest' = Latest
      /\ \A r : ImageRow(Response(r))' = ImageRow(Response(r))
  BY IdleReport
<1>2. Settled' = Settled /\ pc' \in {"idle", "project", "finished", "panic"}
  BY DEF Settled, ReportInv, Control
<1>3. Control'
  BY <1>2 DEF ReportInv, Control
<1>4. Imaged'
  <2>1. /\ images = [i \in 1..(IF Settled THEN Len(results) ELSE Len(results) - 1) |->
                       ImageRow(Response(results[i]))]
        /\ ~Settled => current = ImageRow(Latest)
    BY DEF ReportInv, Imaged
  <2>2. [i \in 1..(IF Settled THEN Len(results) ELSE Len(results) - 1) |->
           ImageRow(Response(results[i]))']
          = [i \in 1..(IF Settled THEN Len(results) ELSE Len(results) - 1) |->
               ImageRow(Response(results[i]))]
    BY <1>1
  <2>3. ImageRow(Latest)' = ImageRow(Latest)
    BY <1>1 DEF Latest
  <2> QED BY <1>2, <2>1, <2>2, <2>3 DEF Imaged
<1>5. Remembered'
  <2>1. UNCHANGED advisories
    BY DEF tables, values
  <2> QED BY <1>1, <2>1 DEF ReportInv, Remembered
<1> QED BY <1>1, <1>3, <1>4, <1>5 DEF ReportInv

LEMMA ReportStep == ReportInv /\ [Next]_vars => ReportInv'
<1> SUFFICES ASSUME ReportInv, [Next]_vars PROVE ReportInv'
  OBVIOUS
<1>1. ASSUME NEW r \in Result, Add(r) \/ Merge(r) PROVE ReportInv'
  <2>1. r \in Responses
    BY ReportAssumption DEF Responses
  <2> QED BY <1>1, <2>1, AddReport, MergeReport
<1>2. CASE Occurrence
  BY <1>2, OccurrenceReport
<1>3. CASE Finding
  BY <1>3, FindingReport
<1>4. CASE UnionNames
  BY <1>4, UnionReport
<1>5. CASE EndImage
  BY <1>5, EndReport
<1>6. CASE Canceled
  <2>1. /\ UNCHANGED <<options, results, todo, tables, joined, current, addresses, images>>
        /\ pc' = pc \/ (pc = "project" /\ pc' = "panic") \/ (pc = "idle" /\ pc' = "finished")
    BY <1>6 DEF Canceled, aliases
  <2> QED BY <2>1, StillReport
<1>7. CASE Finish
  BY <1>7, StillReport DEF Finish
<1>8. CASE Stopped \/ UNCHANGED vars
  <2>1. /\ UNCHANGED <<options, results, todo, tables, joined, current, addresses, images>>
        /\ pc' = pc \/ (pc = "project" /\ pc' = "panic") \/ (pc = "idle" /\ pc' = "finished")
    BY <1>8 DEF Stopped, vars, aliases
  <2> QED BY <2>1, StillReport
<1> QED BY <1>1, <1>2, <1>3, <1>4, <1>5, <1>6, <1>7, <1>8 DEF Next

(***************************************************************************)
(* The groups of joined names                                              *)
(***************************************************************************)
LEMMA FiniteRange ==
  ASSUME NEW X, NEW s \in Seq(X) PROVE IsFiniteSet(Range(s))
<1>1. Len(s) \in Nat /\ DOMAIN s = 1..Len(s)
  BY LenProperties
<1>2. IsFiniteSet(1..Len(s))
  BY <1>1, FS_Interval
<1>3. s \in Surjection(1..Len(s), Range(s))
  <2>1. s \in [1..Len(s) -> Range(s)]
    BY <1>1, LenProperties DEF Range
  <2> QED BY <1>1, <2>1 DEF Surjection, Range
<1> QED BY <1>2, <1>3, FS_Surjection

LEMMA BestOf ==
  ASSUME NEW S \in SUBSET Nat, S # {} PROVE Best(S) \in S
<1>1. \E n \in S : \A m \in S \ {n} : Preferred(n, m)
  <2>1. CASE S \cap CVE # {}
    <3>1. PICK n \in S \cap CVE : \A m \in S \cap CVE : n <= m
      BY <2>1, LeastNumber
    <3>2. \A m \in S \ {n} : Preferred(n, m)
      BY <3>1 DEF Preferred
    <3> QED BY <3>1, <3>2
  <2>2. CASE S \cap CVE = {}
    <3>1. PICK n \in S : \A m \in S : n <= m
      BY LeastNumber
    <3>2. \A m \in S \ {n} : Preferred(n, m)
      BY <2>2, <3>1 DEF Preferred
    <3> QED BY <3>1, <3>2
  <2> QED BY <2>1, <2>2
<1> QED BY <1>1 DEF Best

LEMMA SeenNames ==
  ASSUME joined \in Seq(Seq(Nat)) PROVE Numbers(Seen)
<1> DEFINE J == Range(joined)
           f == [names \in J |-> Range(names)]
           R == {Range(names) : names \in J}
<1>1. IsFiniteSet(J) /\ J \subseteq Seq(Nat)
  BY FiniteRange, RangePart
<1>2. IsFiniteSet(R)
  <2>1. f \in Surjection(J, R)
    BY DEF Surjection
  <2> HIDE DEF f, R, J
  <2> QED BY <1>1, <2>1, FS_Surjection
<1>3. \A T \in R : Numbers(T)
  BY <1>1, RangeNumbers
<1> HIDE DEF R, J
<1>4. IsFiniteSet(UNION R) /\ UNION R \in SUBSET Nat
  BY <1>2, <1>3, FS_UNION DEF Numbers
<1> QED BY <1>4 DEF Numbers, Seen, R, J

LEMMA GroupMembers ==
  ASSUME joined \in Seq(Seq(Nat)), NEW n \in Seen
  PROVE  n \in GroupOf(n) /\ GroupOf(n) \subseteq Seen /\ Best(GroupOf(n)) \in GroupOf(n)
<1>1. n \in GroupOf(n) /\ GroupOf(n) \subseteq Seen
  BY DEF GroupOf
<1>2. Seen \in SUBSET Nat
  BY SeenNames DEF Numbers
<1> QED BY <1>1, <1>2, BestOf

Bests == {Best(GroupOf(n)) : n \in Seen}

LEMMA BestNames ==
  ASSUME joined \in Seq(Seq(Nat)) PROVE Numbers(Bests)
<1> DEFINE f == [n \in Seen |-> Best(GroupOf(n))]
<1>1. f \in Surjection(Seen, Bests)
  BY DEF Surjection, Bests
<1> HIDE DEF f
<1>2. Numbers(Seen)
  BY SeenNames
<1>3. IsFiniteSet(Bests)
  BY <1>1, <1>2, FS_Surjection DEF Numbers
<1>4. Bests \subseteq Seen
  BY GroupMembers DEF Bests
<1> QED BY <1>2, <1>3, <1>4 DEF Numbers

\* After finish every advisory has a vulnerability, that of the group of its own name.
Grouped ==
  pc = "finished" =>
    /\ DOMAIN vulnerabilityOf = DOMAIN advisories /\ \E n \in Nat : DOMAIN vulnerabilities = 1..n
    /\ \A a \in DOMAIN advisories :
         /\ vulnerabilityOf[a] \in DOMAIN vulnerabilities
         /\ vulnerabilities[vulnerabilityOf[a]].id \in GroupOf(advisories[a].id)

LEMMA FinishGroups ==
  ASSUME ReportInv, Finish PROVE Grouped'
<1> DEFINE names == Sorted(Bests)
<1>1. joined \in Seq(Seq(Nat))
  BY DEF ReportInv, Control
<1>2. names \in Seq(Nat) /\ Range(names) = Bests
  BY <1>1, BestNames, SortedRange
<1>3. /\ vulnerabilities' =
            [v \in DOMAIN names |->
               [id |-> names[v], aliases |-> Sorted(GroupOf(names[v]) \ {names[v]})]]
      /\ vulnerabilityOf' =
            [a \in DOMAIN advisories |->
               IF advisories[a].id \in Seen
               THEN RowOf(names, Best(GroupOf(advisories[a].id))) ELSE 1]
      /\ UNCHANGED <<joined, advisories>>
  BY DEF Finish, Bests, tables, values
<1>4. \A n : GroupOf(n)' = GroupOf(n)
  <2>1. Seen' = Seen
    BY <1>3 DEF Seen
  <2> QED BY <1>3, <2>1 DEF GroupOf
<1> HIDE DEF names
<1>5. ASSUME NEW a \in DOMAIN advisories
      PROVE  /\ vulnerabilityOf'[a] \in DOMAIN vulnerabilities'
             /\ vulnerabilities'[vulnerabilityOf'[a]].id \in GroupOf(advisories[a].id)
  <2> DEFINE n == advisories[a].id
             b == Best(GroupOf(n))
             v == RowOf(names, b)
  <2>1. n \in Seen
    BY DEF ReportInv, Listed
  <2>2. b \in GroupOf(n) /\ b \in Range(names)
    BY <1>1, <1>2, <2>1, GroupMembers DEF Bests
  <2>3. v \in DOMAIN names /\ names[v] = b
    BY <1>2, <2>2, RowOfValue
  <2>4. vulnerabilityOf'[a] = v
    BY <1>3, <2>1
  <2> HIDE DEF v
  <2>5. v \in DOMAIN vulnerabilities' /\ vulnerabilities'[v].id = names[v]
    BY <1>3, <2>3
  <2> QED BY <2>2, <2>3, <2>4, <2>5
<1>6. DOMAIN vulnerabilityOf' = DOMAIN advisories' /\ \E n \in Nat : DOMAIN vulnerabilities' = 1..n
  BY <1>2, <1>3, LenProperties
<1>7. \A a \in DOMAIN advisories' :
        /\ vulnerabilityOf'[a] \in DOMAIN vulnerabilities'
        /\ vulnerabilities'[vulnerabilityOf'[a]].id \in GroupOf(advisories[a].id)'
  BY <1>3, <1>4, <1>5
<1> QED BY <1>6, <1>7 DEF Grouped

LEMMA GroupedStep == ReportInv /\ Grouped /\ [Next]_vars => Grouped'
<1> SUFFICES ASSUME ReportInv, Grouped, [Next]_vars PROVE Grouped'
  OBVIOUS
<1>1. ASSUME NEW r \in Result, Add(r) \/ Merge(r) PROVE pc' # "finished"
  BY <1>1 DEF Add, Merge, BeginImage
<1>2. CASE Occurrence \/ Finding \/ UnionNames
  BY <1>2 DEF Occurrence, Finding, UnionNames, Call, Grouped
<1>3. CASE EndImage \/ Canceled
  BY <1>3 DEF EndImage, Canceled, Grouped
<1>4. CASE Finish
  BY <1>4, FinishGroups
<1>5. CASE Stopped \/ UNCHANGED vars
  <2>1. UNCHANGED <<pc, joined, advisories, vulnerabilities, vulnerabilityOf>>
    BY <1>5 DEF Stopped, vars, aliases, tables, values
  <2>2. \A n : GroupOf(n)' = GroupOf(n)
    <3>1. Seen' = Seen
      BY <2>1 DEF Seen
    <3> QED BY <2>1, <3>1 DEF GroupOf
  <2> QED BY <2>1, <2>2 DEF Grouped
<1> QED BY <1>1, <1>2, <1>3, <1>4, <1>5 DEF Next, Grouped

\* The advisories of the report are projected ones, each of them once.
LEMMA AdvisoryTable ==
  ASSUME Shown
  PROVE  /\ advisories \in Seq(Projected)
         /\ \A a, b \in DOMAIN advisories : advisories[a] = advisories[b] => a = b
<1>1. PICK h \in Seq(AllFacts) : ShowsFound(h)
  BY DEF Shown
<1> DEFINE s == Found(h)
           c == Column(s, AdvisoryIn)
<1>2. Len(s) \in Nat /\ DOMAIN s = 1..Len(s) /\ s \in [1..Len(s) -> FoundFacts]
  BY FactParts, LenProperties
<1>3. c \in [1..Len(s) -> Projected]
  BY <1>2, FactFields DEF Column
<1>4. advisories = Firsts(c)
  BY <1>1 DEF ShowsFound
<1> HIDE DEF s, c
<1>5. c \in Seq(Projected)
  BY <1>2, <1>3, Sequenced
<1>6. /\ Firsts(c) \in Seq(Projected)
      /\ \A k, l \in DOMAIN Firsts(c) : Firsts(c)[k] = Firsts(c)[l] => k = l
  BY <1>5, FirstsMembers
<1> QED BY <1>4, <1>6

LEMMA CanonicalAdvisories ==
  ASSUME NEW v \in Projected, NEW w \in Projected, v.id = w.id,
         \A field \in DOMAIN v \ {"id"} : Range(v[field]) = Range(w[field])
  PROVE  v = w
<1>1. PICK a \in Advisory, b \in Advisory : v = ProjectAdvisory(a) /\ w = ProjectAdvisory(b)
  BY DEF Projected
<1>2. /\ Range(v["aliases"]) = Range(w["aliases"])
      /\ Range(v["severities"]) = Range(w["severities"])
      /\ Range(v["references"]) = Range(w["references"])
  BY <1>1 DEF ProjectAdvisory
<1>3. \A s, t \in Seq(Nat) : Range(Unique(s)) = Range(Unique(t)) => Unique(s) = Unique(t)
  BY UniqueList DEF Unique
<1>4. /\ v.aliases = Unique(a.aliases) /\ w.aliases = Unique(b.aliases)
      /\ v.severities = Unique(a.severities) /\ w.severities = Unique(b.severities)
      /\ v.references = Unique(a.references) /\ w.references = Unique(b.references)
  BY <1>1 DEF ProjectAdvisory
<1>5. /\ a.aliases \in Seq(Nat) /\ a.severities \in Seq(Nat) /\ a.references \in Seq(Nat)
      /\ b.aliases \in Seq(Nat) /\ b.severities \in Seq(Nat) /\ b.references \in Seq(Nat)
  BY DEF Advisory
<1>6. v.aliases = w.aliases /\ v.severities = w.severities /\ v.references = w.references
  BY <1>2, <1>3, <1>4, <1>5
<1>7. /\ v = [id |-> v.id, aliases |-> v.aliases, severities |-> v.severities,
              references |-> v.references]
      /\ w = [id |-> w.id, aliases |-> w.aliases, severities |-> w.severities,
              references |-> w.references]
  BY <1>1 DEF ProjectAdvisory
<1> QED BY <1>6, <1>7

LEMMA InvDetermines == ReportInv /\ Grouped => ReportIsDetermined
<1> SUFFICES ASSUME ReportInv, Grouped, pc \in {"idle", "finished"}
             PROVE  /\ images = [i \in DOMAIN results |-> ImageRow(Response(results[i]))]
                    /\ Shows(Facts)
                    /\ \A a, b \in DOMAIN advisories :
                         (\A field \in DOMAIN advisories[a] \ {"id"} :
                            Range(advisories[a][field]) = Range(advisories[b][field]))
                           => a = b \/ advisories[a].id # advisories[b].id
  BY DEF ReportIsDetermined, Grouped
<1>1. Settled /\ todo = << >>
  BY DEF Settled, ReportInv, Control
<1>2. images = [i \in DOMAIN results |-> ImageRow(Response(results[i]))]
  <2>1. DOMAIN results = 1..Len(results)
    BY LenProperties DEF ReportInv, Control
  <2> QED BY <1>1, <2>1 DEF ReportInv, Imaged
<1>3. Shows(Facts)
  <2>1. PICK h \in Seq(AllFacts) : ShowsMade(h) /\ ShowsFound(h) /\ Facts = h \o Pending
    BY DEF ReportInv, Shown
  <2>2. Pending = << >>
    <3>1. Chosen(todo, RowCalls) = << >>
      BY <1>1, ChosenEmpty
    <3> QED BY <3>1 DEF Pending, Tagged
  <2>3. Facts = h
    BY <2>1, <2>2, ConcatEmptySeq
  <2> QED BY <2>1, <2>3, ShowsParts
<1>4. ASSUME NEW a \in DOMAIN advisories, NEW b \in DOMAIN advisories,
             \A field \in DOMAIN advisories[a] \ {"id"} :
               Range(advisories[a][field]) = Range(advisories[b][field]),
             advisories[a].id = advisories[b].id
      PROVE  a = b
  <2>1. advisories[a] \in Projected /\ advisories[b] \in Projected
    BY AdvisoryTable, LenProperties DEF ReportInv
  <2>2. advisories[a] = advisories[b]
    BY <1>4, <2>1, CanonicalAdvisories
  <2> QED BY <2>2, AdvisoryTable DEF ReportInv
<1> QED BY <1>2, <1>3, <1>4

\* Whatever the scans of the images found, in whatever order their responses came and
\* whichever of the images were added and whichever merged, the report is the one that
\* the calls of the projections give in input order; and each advisory belongs to the
\* vulnerability that its own name is an alias of (go/store.go: projectImage,
\* batchBuilder).
THEOREM ReportDetermined == Spec => []ReportIsDetermined
<1>1. Init => ReportInv /\ Grouped
  BY InitReport DEF Init, Grouped
<1>2. (ReportInv /\ Grouped) /\ [Next]_vars => (ReportInv /\ Grouped)'
  BY ReportStep, GroupedStep
<1>3. ReportInv /\ Grouped => ReportIsDetermined
  BY InvDetermines
<1> QED BY <1>1, <1>2, <1>3, PTL DEF Spec

\* Whatever the allowlist and the packages, the filter of executeContext leaves exactly
\* the packages that the projection under the licence policy would show (go/bridge.go:
\* executeContext, go/store.go: projectImage).
THEOREM FiltersAlwaysAgree == Spec => []FiltersAgree
<1>1. FiltersAgree
  <2> SUFFICES ASSUME Policy, NEW p PROVE Deleted(p) <=> ~Selected(p)
    BY DEF FiltersAgree
  <2> QED BY DEF Deleted, Selected
<1> QED BY <1>1, PTL

(***************************************************************************)
(* The rows refer to rows                                                  *)
(***************************************************************************)
\* The images of the occurrences come in order, and so do the findings.
RowOrder ==
  /\ \A o \in DOMAIN occurrences : occurrences[o].image \in 1..Len(results)
  /\ \A o, p \in DOMAIN occurrences : o <= p => occurrences[o].image <= occurrences[p].image
  /\ \A f \in DOMAIN findings : findings[f].occurrence \in 1..Len(occurrences)
  /\ \A f, g \in DOMAIN findings : f <= g => findings[f].occurrence <= findings[g].occurrence

LEMMA RowTables ==
  ASSUME Shown
  PROVE  /\ \E X : occurrences \in Seq(X)
         /\ \E X : findings \in Seq(X)
         /\ \A o \in DOMAIN occurrences :
              /\ occurrences[o].package \in DOMAIN packages
              /\ occurrences[o].context \in DOMAIN contexts
              /\ occurrences[o].license \in DOMAIN licenses
         /\ \A f \in DOMAIN findings :
              /\ findings[f].advisory \in DOMAIN advisories
              /\ findings[f].fix \in DOMAIN fixes
              /\ findings[f].assessment \in DOMAIN assessments
<1>1. PICK h \in Seq(AllFacts) : ShowsMade(h) /\ ShowsFound(h)
  BY DEF Shown
<1>2. Made(h) \in Seq(MadeFacts) /\ Found(h) \in Seq(FoundFacts)
  BY FactParts
<1>3. ASSUME NEW X, NEW Y, NEW s \in Seq(X), NEW g \in [X -> Y], NEW k \in DOMAIN s
      PROVE  RowOf(Firsts(Column(s, g)), g[s[k]]) \in DOMAIN Firsts(Column(s, g))
  <2>1. Len(s) \in Nat /\ DOMAIN s = 1..Len(s) /\ s \in [1..Len(s) -> X]
    BY LenProperties
  <2> DEFINE c == Column(s, g)
  <2>2. c \in [1..Len(s) -> Y] /\ c[k] = g[s[k]]
    BY <2>1 DEF Column
  <2> HIDE DEF c
  <2>3. c \in Seq(Y)
    BY <2>1, <2>2, Sequenced
  <2>4. Firsts(c) \in Seq(Y) /\ g[s[k]] \in Range(Firsts(c))
    <3>1. g[s[k]] \in Range(c)
      BY <2>1, <2>2 DEF Range
    <3> QED BY <2>3, <3>1, FirstsMembers
  <2>5. RowOf(Firsts(c), g[s[k]]) \in DOMAIN Firsts(c)
    BY <2>4, RowOfValue
  <2> QED BY <2>5 DEF c
<1>4. /\ Len(Made(h)) \in Nat /\ DOMAIN Made(h) = 1..Len(Made(h))
      /\ Made(h) \in [1..Len(Made(h)) -> MadeFacts]
      /\ Len(Found(h)) \in Nat /\ DOMAIN Found(h) = 1..Len(Found(h))
      /\ Found(h) \in [1..Len(Found(h)) -> FoundFacts]
  BY <1>2, LenProperties
<1>5. \A k \in DOMAIN Made(h) :
        /\ RowOf(Firsts(Column(Made(h), PackageIn)), PackageIn[Made(h)[k]])
             \in DOMAIN Firsts(Column(Made(h), PackageIn))
        /\ RowOf(Firsts(Column(Made(h), ContextIn)), ContextIn[Made(h)[k]])
             \in DOMAIN Firsts(Column(Made(h), ContextIn))
        /\ RowOf(Firsts(Column(Made(h), LicenseIn)), LicenseIn[Made(h)[k]])
             \in DOMAIN Firsts(Column(Made(h), LicenseIn))
  BY <1>2, <1>3, FactFields
<1>6. \A k \in DOMAIN Found(h) :
        /\ RowOf(Firsts(Column(Found(h), AdvisoryIn)), AdvisoryIn[Found(h)[k]])
             \in DOMAIN Firsts(Column(Found(h), AdvisoryIn))
        /\ RowOf(Firsts(Column(Found(h), FixIn)), FixIn[Found(h)[k]])
             \in DOMAIN Firsts(Column(Found(h), FixIn))
        /\ RowOf(Firsts(Column(Found(h), AssessmentIn)), AssessmentIn[Found(h)[k]])
             \in DOMAIN Firsts(Column(Found(h), AssessmentIn))
  BY <1>2, <1>3, FactFields
<1>7. /\ occurrences = [k \in 1..Len(Made(h)) |-> OccurrenceRow(Made(h)[k])]
      /\ findings = [k \in 1..Len(Found(h)) |->
                       FindingRow(Found(h)[k], Cardinality(MadeBefore(h, k)))]
  BY <1>1, <1>4 DEF ShowsMade, ShowsFound
<1>8. \A k \in 1..Len(Made(h)) :
        /\ OccurrenceRow(Made(h)[k]).package \in DOMAIN packages
        /\ OccurrenceRow(Made(h)[k]).context \in DOMAIN contexts
        /\ OccurrenceRow(Made(h)[k]).license \in DOMAIN licenses
  BY <1>1, <1>4, <1>5 DEF OccurrenceRow, ShowsMade, PackageIn, ContextIn, LicenseIn
<1>9. \A k \in 1..Len(Found(h)) : \A n :
        /\ FindingRow(Found(h)[k], n).advisory \in DOMAIN advisories
        /\ FindingRow(Found(h)[k], n).fix \in DOMAIN fixes
        /\ FindingRow(Found(h)[k], n).assessment \in DOMAIN assessments
  BY <1>1, <1>4, <1>6 DEF FindingRow, ShowsFound, AdvisoryIn, FixIn, AssessmentIn
<1>10. \E X : occurrences \in Seq(X)
  <2> DEFINE X == {OccurrenceRow(Made(h)[k]) : k \in 1..Len(Made(h))}
  <2>1. occurrences \in [1..Len(Made(h)) -> X]
    BY <1>7
  <2> HIDE DEF X
  <2>2. occurrences \in Seq(X)
    BY <1>4, <2>1, Sequenced
  <2> QED BY <2>2
<1>11. \E X : findings \in Seq(X)
  <2> DEFINE X == {FindingRow(Found(h)[k], Cardinality(MadeBefore(h, k))) : k \in 1..Len(Found(h))}
  <2>1. findings \in [1..Len(Found(h)) -> X]
    BY <1>7
  <2> HIDE DEF X
  <2>2. findings \in Seq(X)
    BY <1>4, <2>1, Sequenced
  <2> QED BY <2>2
<1> QED BY <1>7, <1>8, <1>9, <1>10, <1>11

LEMMA AppendedRow ==
  ASSUME NEW s, NEW X, s \in Seq(X), NEW row
  PROVE  /\ Len(s) \in Nat /\ DOMAIN s = 1..Len(s)
         /\ Len(Append(s, row)) = Len(s) + 1
         /\ DOMAIN Append(s, row) = 1..(Len(s) + 1)
         /\ \A i \in 1..Len(s) : Append(s, row)[i] = s[i]
         /\ Append(s, row)[Len(s) + 1] = row
<1>1. Len(s) \in Nat /\ DOMAIN s = 1..Len(s)
  BY LenProperties
<1>2. PICK Y : s \in Seq(Y) /\ row \in Y
  <2>1. s \in Seq(X \cup {row})
    BY <1>1, Sequenced, LenProperties
  <2> QED BY <2>1
<1> QED BY <1>1, <1>2, AppendProperties

LEMMA RowOrderStep == ReportInv /\ RowOrder /\ [Next]_vars => RowOrder'
<1> SUFFICES ASSUME ReportInv, RowOrder, [Next]_vars PROVE RowOrder'
  OBVIOUS
<1>1. ASSUME NEW r \in Result, Add(r) \/ Merge(r) PROVE RowOrder'
  <2>1. results' = Append(results, r) /\ UNCHANGED <<occurrences, findings>>
    BY <1>1 DEF Add, Merge, BeginImage, tables
  <2>2. Len(results) \in Nat /\ Len(results') = Len(results) + 1
    BY <2>1, AppendedRow DEF ReportInv, Control
  <2>3. 1..Len(results) \subseteq 1..Len(results')
    BY <2>2
  <2> QED BY <2>1, <2>3 DEF RowOrder
<1>2. CASE Occurrence
  <2>1. Len(results) \in Nat \ {0} /\ Len(results) = Len(images) + 1
    <3>1. ~Settled /\ results # << >> /\ results \in Seq(Responses)
      BY <1>2 DEF Occurrence, Call, Settled, ReportInv, Control
    <3>2. Len(results) \in Nat \ {0}
      BY <3>1, EmptySeq
    <3>3. images = [i \in 1..(Len(results) - 1) |-> ImageRow(Response(results[i]))]
      BY <3>1 DEF ReportInv, Imaged
    <3> QED BY <3>2, <3>3
  <2>2. PICK row : occurrences' = Append(occurrences, row) /\ row.image = Len(images) + 1
    BY <1>2 DEF Occurrence
  <2>3. /\ Len(occurrences) \in Nat /\ DOMAIN occurrences = 1..Len(occurrences)
        /\ Len(occurrences') = Len(occurrences) + 1
        /\ DOMAIN occurrences' = 1..(Len(occurrences) + 1)
        /\ \A i \in 1..Len(occurrences) : occurrences'[i] = occurrences[i]
        /\ occurrences'[Len(occurrences) + 1] = row
    <3>1. PICK X : occurrences \in Seq(X)
      BY RowTables DEF ReportInv
    <3> QED BY <2>2, <3>1, AppendedRow
  <2>4. UNCHANGED <<results, findings>>
    BY <1>2 DEF Occurrence
  <2>5. ASSUME NEW o \in DOMAIN occurrences' PROVE occurrences'[o].image \in 1..Len(results)
    <3>1. o = Len(occurrences) + 1 \/ o \in DOMAIN occurrences
      BY <2>3
    <3> QED BY <2>1, <2>2, <2>3, <3>1 DEF RowOrder
  <2>6. ASSUME NEW o \in DOMAIN occurrences', NEW p \in DOMAIN occurrences', o <= p
        PROVE  occurrences'[o].image <= occurrences'[p].image
    <3>1. CASE p = Len(occurrences) + 1
      <4>1. occurrences'[p].image = Len(results) /\ occurrences'[o].image \in 1..Len(results)
        BY <2>1, <2>2, <2>3, <2>5, <3>1
      <4> QED BY <2>1, <4>1
    <3>2. CASE p # Len(occurrences) + 1
      <4>1. p \in DOMAIN occurrences /\ o \in DOMAIN occurrences
        BY <2>3, <2>6, <3>2
      <4> QED BY <2>3, <2>6, <4>1 DEF RowOrder
    <3> QED BY <3>1, <3>2
  <2>7. \A f \in DOMAIN findings : findings[f].occurrence \in 1..Len(occurrences')
    <3>1. 1..Len(occurrences) \subseteq 1..Len(occurrences')
      BY <2>3
    <3> QED BY <3>1 DEF RowOrder
  <2>8. \A f, g \in DOMAIN findings : f <= g => findings[f].occurrence <= findings[g].occurrence
    BY DEF RowOrder
  <2> QED BY <2>4, <2>5, <2>6, <2>7, <2>8 DEF RowOrder
<1>3. CASE Finding
  <2>1. PICK row : findings' = Append(findings, row) /\ row.occurrence = Len(occurrences)
    BY <1>3 DEF Finding
  <2>2. /\ Len(findings) \in Nat /\ DOMAIN findings = 1..Len(findings)
        /\ DOMAIN findings' = 1..(Len(findings) + 1)
        /\ \A i \in 1..Len(findings) : findings'[i] = findings[i]
        /\ findings'[Len(findings) + 1] = row
    <3>1. PICK X : findings \in Seq(X)
      BY RowTables DEF ReportInv
    <3> QED BY <2>1, <3>1, AppendedRow
  <2>3. Len(occurrences) \in Nat \ {0}
    <3>1. todo # << >> /\ Head(todo).op = "finding" /\ todo \in Seq(SinkCalls)
      BY <1>3 DEF Finding, Call, ReportInv, Control
    <3>2. Head(todo) = todo[1] /\ 1 \in 1..Len(todo)
      BY <3>1, HeadFirst
    <3>3. ~Owned(todo, 1)
      BY DEF Owned
    <3>4. occurrences # << >>
      BY <3>1, <3>2, <3>3 DEF ReportInv, ReadyCalls, Ready
    <3>5. PICK X : occurrences \in Seq(X)
      BY RowTables DEF ReportInv
    <3> QED BY <3>4, <3>5, EmptySeq
  <2>4. UNCHANGED <<results, occurrences>>
    BY <1>3 DEF Finding
  <2>5. ASSUME NEW f \in DOMAIN findings' PROVE findings'[f].occurrence \in 1..Len(occurrences)
    <3>1. f = Len(findings) + 1 \/ f \in DOMAIN findings
      BY <2>2
    <3> QED BY <2>1, <2>2, <2>3, <3>1 DEF RowOrder
  <2>6. ASSUME NEW f \in DOMAIN findings', NEW g \in DOMAIN findings', f <= g
        PROVE  findings'[f].occurrence <= findings'[g].occurrence
    <3>1. CASE g = Len(findings) + 1
      <4>1. /\ findings'[g].occurrence = Len(occurrences)
            /\ findings'[f].occurrence \in 1..Len(occurrences)
        BY <2>1, <2>2, <2>5, <3>1
      <4> QED BY <2>3, <4>1
    <3>2. CASE g # Len(findings) + 1
      <4>1. f \in DOMAIN findings /\ g \in DOMAIN findings
        BY <2>2, <2>6, <3>2
      <4> QED BY <2>2, <2>6, <4>1 DEF RowOrder
    <3> QED BY <3>1, <3>2
  <2> QED BY <2>4, <2>5, <2>6 DEF RowOrder
<1>4. CASE UnionNames \/ EndImage \/ Canceled \/ Finish \/ Stopped \/ UNCHANGED vars
  <2>1. UNCHANGED <<results, occurrences, findings>>
    BY <1>4 DEF UnionNames, EndImage, Canceled, Finish, Stopped, vars, tables
  <2> QED BY <2>1 DEF RowOrder
<1> QED BY <1>1, <1>2, <1>3, <1>4 DEF Next

(***************************************************************************)
(* The numbers of kinds and fields                                         *)
(***************************************************************************)
\* Where the views of a field may come from, for a view of a kind.
Lists == {<<2, "diagnostics", 13>>, <<5, "severities", 14>>, <<5, "references", 15>>,
          <<11, "severities", 16>>}
Columns == {<<6, "image", 2>>, <<6, "package", 3>>, <<6, "context", 8>>, <<6, "license", 10>>,
            <<7, "occurrence", 6>>, <<7, "advisory", 5>>, <<7, "fix", 11>>,
            <<7, "assessment", 9>>, <<7, "vulnerability", 4>>}
KindOf == [image |-> 2, package |-> 3, vulnerability |-> 4, advisory |-> 5, occurrence |-> 6,
           finding |-> 7]
Sound(field, kind) ==
  \/ field.from = "text"
  \/ field.from = "table" /\ field.kind \in 2..11
  \/ /\ field.from = "index" /\ kind \in 2..6 /\ field.key \in 0..15
     /\ field.kind = KindOf[Slots[field.key + 1].value]
  \/ field.from = "list" /\ <<kind, field.key, field.kind>> \in Lists
  \/ field.from = "column" /\ <<kind, field.key, field.kind>> \in Columns

LEMMA KindFields ==
  /\ Fields[1] = BatchFields /\ Fields[2] = ImageFields /\ Fields[3] = PackageFields
  /\ Fields[4] = VulnerabilityFields /\ Fields[5] = AdvisoryFields
  /\ Fields[6] = OccurrenceFields /\ Fields[7] = FindingFields
  /\ Fields[8] = <<Text, Text, Optional, Texts>>
  /\ Fields[9] = <<Optional, Optional, Text>>
  /\ Fields[10] = <<Texts, Optional, Texts, Text>>
  /\ Fields[11] = <<Texts, Text, Elements(16, "severities"), Texts>>
  /\ Fields[13] = <<Text, Text>> /\ Fields[14] = <<Text, Text, Text>>
  /\ Fields[15] = <<Text, Text>> /\ Fields[16] = <<Text, Text, Text>>
BY DEF Fields

LEMMA KindClass ==
  /\ Class[1] = "BatchResult" /\ Class[2] = "ImageResult" /\ Class[3] = "Package"
  /\ Class[4] = "Vulnerability" /\ Class[5] = "AdvisorySource" /\ Class[6] = "Occurrence"
  /\ Class[7] = "Finding" /\ Class[8] = "ReportContext" /\ Class[9] = "ReportAssessment"
  /\ Class[10] = "ReportLicense" /\ Class[11] = "ReportFix" /\ Class[13] = "NativeError"
  /\ Class[14] = "ReportSeverity" /\ Class[15] = "ReportReference"
  /\ Class[16] = "ReportSeverity"
BY DEF Class

SlotValues ==
  <<"occurrence", "finding", "finding", "package", "package", "package", "vulnerability",
    "image", "image", "image", "image", "image", "image", "finding", "finding", "finding">>

LEMMA SlotValue == \A slot \in 0..15 : Slots[slot + 1].value = SlotValues[slot + 1]
BY DEF Slots, Slot, SlotValues

Fits(field, property, kind) ==
  field.many = property.many /\ field.of = property.of /\ Sound(field, kind)
Answered(kind) ==
  LET declared == Properties[Class[kind]]
  IN /\ DOMAIN Fields[kind] = DOMAIN declared
     /\ \A f \in DOMAIN Fields[kind] : Fits(Fields[kind][f], declared[f], kind)

LEMMA FieldFits ==
  \A kind, name :
    /\ Fits(Text, Is(name, "str"), kind) /\ Fits(Optional, Is(name, "optional"), kind)
    /\ Fits(Texts, Has(name, "str"), kind) /\ Fits(One("invalid"), Is(name, "invalid"), kind)
    /\ \A k \in 2..11 : Fits(Rows(k), Has(name, Class[k]), kind)
BY DEF Fits, Sound, Text, Optional, Texts, Rows, One, Field, Is, Has

LEMMA ListFits ==
  \A name :
    /\ Fits(Elements(13, "diagnostics"), Has(name, Class[13]), 2)
    /\ Fits(Elements(14, "severities"), Has(name, Class[14]), 5)
    /\ Fits(Elements(15, "references"), Has(name, Class[15]), 5)
    /\ Fits(Elements(16, "severities"), Has(name, Class[16]), 11)
<1>1. ASSUME NEW kind, NEW list, NEW k, <<kind, list, k>> \in Lists, NEW name
      PROVE  Fits(Elements(k, list), Has(name, Class[k]), kind)
  BY <1>1 DEF Fits, Sound, Elements, Field, Has
<1>2. /\ <<2, "diagnostics", 13>> \in Lists /\ <<5, "severities", 14>> \in Lists
      /\ <<5, "references", 15>> \in Lists /\ <<11, "severities", 16>> \in Lists
  BY DEF Lists
<1> QED BY <1>1, <1>2

LEMMA ColumnFits ==
  \A name :
    /\ Fits(Ref(2, "image"), Is(name, Class[2]), 6)
    /\ Fits(Ref(3, "package"), Is(name, Class[3]), 6)
    /\ Fits(Ref(8, "context"), Is(name, Class[8]), 6)
    /\ Fits(Ref(10, "license"), Is(name, Class[10]), 6)
    /\ Fits(Ref(6, "occurrence"), Is(name, Class[6]), 7)
    /\ Fits(Ref(5, "advisory"), Is(name, Class[5]), 7)
    /\ Fits(Ref(11, "fix"), Is(name, Class[11]), 7)
    /\ Fits(Ref(9, "assessment"), Is(name, Class[9]), 7)
    /\ Fits(Ref(4, "vulnerability"), Is(name, Class[4]), 7)
<1>1. ASSUME NEW kind, NEW column, NEW k, <<kind, column, k>> \in Columns, NEW name
      PROVE  Fits(Ref(k, column), Is(name, Class[k]), kind)
  BY <1>1 DEF Fits, Sound, Ref, Field, Is
<1>2. /\ <<6, "image", 2>> \in Columns /\ <<6, "package", 3>> \in Columns
      /\ <<6, "context", 8>> \in Columns /\ <<6, "license", 10>> \in Columns
      /\ <<7, "occurrence", 6>> \in Columns /\ <<7, "advisory", 5>> \in Columns
      /\ <<7, "fix", 11>> \in Columns /\ <<7, "assessment", 9>> \in Columns
      /\ <<7, "vulnerability", 4>> \in Columns
  BY DEF Columns
<1> QED BY <1>1, <1>2

LEMMA SlotFits ==
  \A kind \in 2..6 : \A name :
    \A slot \in 0..15 : \A k :
      k = KindOf[SlotValues[slot + 1]] => Fits(Related(slot, k), Has(name, Class[k]), kind)
BY SlotValue DEF Fits, Sound, Related, Field, Has

LEMMA SlotKinds ==
  /\ \A slot \in {7, 8, 9, 10, 11, 12} : KindOf[SlotValues[slot + 1]] = 2
  /\ \A slot \in {3, 4, 5} : KindOf[SlotValues[slot + 1]] = 3
  /\ KindOf[SlotValues[0 + 1]] = 6 /\ KindOf[SlotValues[6 + 1]] = 4
  /\ \A slot \in {1, 2, 13, 14, 15} : KindOf[SlotValues[slot + 1]] = 7
BY DEF KindOf, SlotValues

LEMMA BatchAnswered == Answered(1)
<1>1. Fields[1] = BatchFields /\ Class[1] = "BatchResult"
  BY KindFields, KindClass
<1>2. DOMAIN BatchFields = 1..5 /\ DOMAIN Properties["BatchResult"] = 1..5
  BY KindFields DEF Properties, BatchProperties, BatchFields
<1> DEFINE Fit(f) == Fits(BatchFields[f], Properties["BatchResult"][f], 1)
<1>3. Fit(1) /\ Fit(2) /\ Fit(3) /\ Fit(4) /\ Fit(5)
  BY KindClass, FieldFits, ListFits, ColumnFits, SlotFits, SlotKinds
     DEF Properties, BatchProperties, BatchFields
<1> HIDE DEF Fit
<1>4. \A f \in 1..5 : Fit(f)
  BY <1>3
<1> QED BY <1>1, <1>2, <1>4 DEF Answered, Fit

LEMMA ImageAnswered == Answered(2)
<1>1. Fields[2] = ImageFields /\ Class[2] = "ImageResult"
  BY KindFields, KindClass
<1>2. DOMAIN ImageFields = 1..11 /\ DOMAIN Properties["ImageResult"] = 1..11
  BY KindFields DEF Properties, ImageProperties, ImageFields
<1> DEFINE Fit(f) == Fits(ImageFields[f], Properties["ImageResult"][f], 2)
<1>3. Fit(1) /\ Fit(2) /\ Fit(3) /\ Fit(4)
  BY KindClass, FieldFits, ListFits, ColumnFits, SlotFits, SlotKinds
     DEF Properties, ImageProperties, ImageFields, NoProperty
<1>4. Fit(5) /\ Fit(6) /\ Fit(7) /\ Fit(8)
  BY KindClass, FieldFits, ListFits, ColumnFits, SlotFits, SlotKinds
     DEF Properties, ImageProperties, ImageFields, NoProperty
<1>5. Fit(9) /\ Fit(10) /\ Fit(11)
  BY KindClass, FieldFits, ListFits, ColumnFits, SlotFits, SlotKinds
     DEF Properties, ImageProperties, ImageFields, NoProperty
<1> HIDE DEF Fit
<1>6. \A f \in 1..11 : Fit(f)
  BY <1>3, <1>4, <1>5
<1> QED BY <1>1, <1>2, <1>6, SMTT(20) DEF Answered, Fit

LEMMA PackageAnswered == Answered(3)
<1>1. Fields[3] = PackageFields /\ Class[3] = "Package"
  BY KindFields, KindClass
<1>2. DOMAIN PackageFields = 1..11 /\ DOMAIN Properties["Package"] = 1..11
  BY KindFields DEF Properties, PackageProperties, PackageFields, PackageSlots
<1> DEFINE Fit(f) == Fits(PackageFields[f], Properties["Package"][f], 3)
<1>3. Fit(1) /\ Fit(2) /\ Fit(3) /\ Fit(4)
  BY KindClass, FieldFits, ListFits, ColumnFits, SlotFits, SlotKinds
     DEF Properties, PackageProperties, PackageFields, PackageSlots
<1>4. Fit(5) /\ Fit(6) /\ Fit(7) /\ Fit(8)
  BY KindClass, FieldFits, ListFits, ColumnFits, SlotFits, SlotKinds
     DEF Properties, PackageProperties, PackageFields, PackageSlots
<1>5. Fit(9) /\ Fit(10) /\ Fit(11)
  BY KindClass, FieldFits, ListFits, ColumnFits, SlotFits, SlotKinds
     DEF Properties, PackageProperties, PackageFields, PackageSlots
<1> HIDE DEF Fit
<1>6. \A f \in 1..11 : Fit(f)
  BY <1>3, <1>4, <1>5
<1> QED BY <1>1, <1>2, <1>6, SMTT(20) DEF Answered, Fit

LEMMA VulnerabilityAnswered == Answered(4)
<1>1. Fields[4] = VulnerabilityFields /\ Class[4] = "Vulnerability"
  BY KindFields, KindClass
<1>2. DOMAIN VulnerabilityFields = 1..4 /\ DOMAIN Properties["Vulnerability"] = 1..4
  BY KindFields DEF Properties, VulnerabilityProperties, VulnerabilityFields
<1> DEFINE Fit(f) == Fits(VulnerabilityFields[f], Properties["Vulnerability"][f], 4)
<1>3. Fit(1) /\ Fit(2) /\ Fit(3) /\ Fit(4)
  BY KindClass, FieldFits, ListFits, ColumnFits, SlotFits, SlotKinds
     DEF Properties, VulnerabilityProperties, VulnerabilityFields
<1> HIDE DEF Fit
<1>4. \A f \in 1..4 : Fit(f)
  BY <1>3
<1> QED BY <1>1, <1>2, <1>4, SMTT(20) DEF Answered, Fit

LEMMA AdvisoryAnswered == Answered(5)
<1>1. Fields[5] = AdvisoryFields /\ Class[5] = "AdvisorySource"
  BY KindFields, KindClass
<1>2. DOMAIN AdvisoryFields = 1..11 /\ DOMAIN Properties["AdvisorySource"] = 1..11
  BY KindFields DEF Properties, AdvisoryProperties, AdvisoryFields
<1> DEFINE Fit(f) == Fits(AdvisoryFields[f], Properties["AdvisorySource"][f], 5)
<1>3. Fit(1) /\ Fit(2) /\ Fit(3) /\ Fit(4)
  BY KindClass, FieldFits, ListFits, ColumnFits, SlotFits, SlotKinds
     DEF Properties, AdvisoryProperties, AdvisoryFields
<1>4. Fit(5) /\ Fit(6) /\ Fit(7) /\ Fit(8)
  BY KindClass, FieldFits, ListFits, ColumnFits, SlotFits, SlotKinds
     DEF Properties, AdvisoryProperties, AdvisoryFields
<1>5. Fit(9) /\ Fit(10) /\ Fit(11)
  BY KindClass, FieldFits, ListFits, ColumnFits, SlotFits, SlotKinds
     DEF Properties, AdvisoryProperties, AdvisoryFields
<1> HIDE DEF Fit
<1>6. \A f \in 1..11 : Fit(f)
  BY <1>3, <1>4, <1>5
<1> QED BY <1>1, <1>2, <1>6, SMTT(20) DEF Answered, Fit

LEMMA OccurrenceAnswered == Answered(6)
<1>1. Fields[6] = OccurrenceFields /\ Class[6] = "Occurrence"
  BY KindFields, KindClass
<1>2. DOMAIN OccurrenceFields = 1..5 /\ DOMAIN Properties["Occurrence"] = 1..5
  BY KindFields DEF Properties, OccurrenceProperties, OccurrenceFields
<1> DEFINE Fit(f) == Fits(OccurrenceFields[f], Properties["Occurrence"][f], 6)
<1>3. Fit(1) /\ Fit(2) /\ Fit(3) /\ Fit(4) /\ Fit(5)
  BY KindClass, FieldFits, ListFits, ColumnFits, SlotFits, SlotKinds
     DEF Properties, OccurrenceProperties, OccurrenceFields
<1> HIDE DEF Fit
<1>4. \A f \in 1..5 : Fit(f)
  BY <1>3
<1> QED BY <1>1, <1>2, <1>4, SMTT(20) DEF Answered, Fit

LEMMA FindingAnswered == Answered(7)
<1>1. Fields[7] = FindingFields /\ Class[7] = "Finding"
  BY KindFields, KindClass
<1>2. DOMAIN FindingFields = 1..5 /\ DOMAIN Properties["Finding"] = 1..5
  BY KindFields DEF Properties, FindingProperties, FindingFields
<1> DEFINE Fit(f) == Fits(FindingFields[f], Properties["Finding"][f], 7)
<1>3. Fit(1) /\ Fit(2) /\ Fit(3) /\ Fit(4) /\ Fit(5)
  BY KindClass, FieldFits, ListFits, ColumnFits, SlotFits, SlotKinds
     DEF Properties, FindingProperties, FindingFields
<1> HIDE DEF Fit
<1>4. \A f \in 1..5 : Fit(f)
  BY <1>3
<1> QED BY <1>1, <1>2, <1>4, SMTT(20) DEF Answered, Fit

LEMMA ContextAnswered == Answered(8)
<1>1. Class[8] = "ReportContext"
  BY KindFields, KindClass
<1>2. DOMAIN Fields[8] = 1..4 /\ DOMAIN Properties["ReportContext"] = 1..4
  BY KindFields DEF Properties
<1> DEFINE Fit(f) == Fits(Fields[8][f], Properties["ReportContext"][f], 8)
<1>3. Fit(1) /\ Fit(2) /\ Fit(3) /\ Fit(4)
  BY KindClass, KindFields, FieldFits, ListFits, ColumnFits, SlotFits, SlotKinds
     DEF Properties
<1> HIDE DEF Fit
<1>4. \A f \in 1..4 : Fit(f)
  BY <1>3
<1> QED BY <1>1, <1>2, <1>4, SMTT(20) DEF Answered, Fit

LEMMA AssessmentAnswered == Answered(9)
<1>1. Class[9] = "ReportAssessment"
  BY KindFields, KindClass
<1>2. DOMAIN Fields[9] = 1..3 /\ DOMAIN Properties["ReportAssessment"] = 1..3
  BY KindFields DEF Properties
<1> DEFINE Fit(f) == Fits(Fields[9][f], Properties["ReportAssessment"][f], 9)
<1>3. Fit(1) /\ Fit(2) /\ Fit(3)
  BY KindClass, KindFields, FieldFits, ListFits, ColumnFits, SlotFits, SlotKinds
     DEF Properties
<1> HIDE DEF Fit
<1>4. \A f \in 1..3 : Fit(f)
  BY <1>3
<1> QED BY <1>1, <1>2, <1>4, SMTT(20) DEF Answered, Fit

LEMMA LicenseAnswered == Answered(10)
<1>1. Class[10] = "ReportLicense"
  BY KindFields, KindClass
<1>2. DOMAIN Fields[10] = 1..4 /\ DOMAIN Properties["ReportLicense"] = 1..4
  BY KindFields DEF Properties
<1> DEFINE Fit(f) == Fits(Fields[10][f], Properties["ReportLicense"][f], 10)
<1>3. Fit(1) /\ Fit(2) /\ Fit(3) /\ Fit(4)
  BY KindClass, KindFields, FieldFits, ListFits, ColumnFits, SlotFits, SlotKinds
     DEF Properties
<1> HIDE DEF Fit
<1>4. \A f \in 1..4 : Fit(f)
  BY <1>3
<1> QED BY <1>1, <1>2, <1>4, SMTT(20) DEF Answered, Fit

LEMMA FixAnswered == Answered(11)
<1>1. Class[11] = "ReportFix"
  BY KindFields, KindClass
<1>2. DOMAIN Fields[11] = 1..4 /\ DOMAIN Properties["ReportFix"] = 1..4
  BY KindFields DEF Properties
<1> DEFINE Fit(f) == Fits(Fields[11][f], Properties["ReportFix"][f], 11)
<1>3. Fit(1) /\ Fit(2) /\ Fit(3) /\ Fit(4)
  BY KindClass, KindFields, FieldFits, ListFits, ColumnFits, SlotFits, SlotKinds
     DEF Properties
<1> HIDE DEF Fit
<1>4. \A f \in 1..4 : Fit(f)
  BY <1>3
<1> QED BY <1>1, <1>2, <1>4, SMTT(20) DEF Answered, Fit

LEMMA ErrorAnswered == Answered(13)
<1>1. Class[13] = "NativeError"
  BY KindFields, KindClass
<1>2. DOMAIN Fields[13] = 1..2 /\ DOMAIN Properties["NativeError"] = 1..2
  BY KindFields DEF Properties
<1> DEFINE Fit(f) == Fits(Fields[13][f], Properties["NativeError"][f], 13)
<1>3. Fit(1) /\ Fit(2)
  BY KindClass, KindFields, FieldFits, ListFits, ColumnFits, SlotFits, SlotKinds
     DEF Properties
<1> HIDE DEF Fit
<1>4. \A f \in 1..2 : Fit(f)
  BY <1>3
<1> QED BY <1>1, <1>2, <1>4, SMTT(20) DEF Answered, Fit

LEMMA SeverityAnswered == Answered(14)
<1>1. Class[14] = "ReportSeverity"
  BY KindFields, KindClass
<1>2. DOMAIN Fields[14] = 1..3 /\ DOMAIN Properties["ReportSeverity"] = 1..3
  BY KindFields DEF Properties
<1> DEFINE Fit(f) == Fits(Fields[14][f], Properties["ReportSeverity"][f], 14)
<1>3. Fit(1) /\ Fit(2) /\ Fit(3)
  BY KindClass, KindFields, FieldFits, ListFits, ColumnFits, SlotFits, SlotKinds
     DEF Properties
<1> HIDE DEF Fit
<1>4. \A f \in 1..3 : Fit(f)
  BY <1>3
<1> QED BY <1>1, <1>2, <1>4, SMTT(20) DEF Answered, Fit

LEMMA ReferenceAnswered == Answered(15)
<1>1. Class[15] = "ReportReference"
  BY KindFields, KindClass
<1>2. DOMAIN Fields[15] = 1..2 /\ DOMAIN Properties["ReportReference"] = 1..2
  BY KindFields DEF Properties
<1> DEFINE Fit(f) == Fits(Fields[15][f], Properties["ReportReference"][f], 15)
<1>3. Fit(1) /\ Fit(2)
  BY KindClass, KindFields, FieldFits, ListFits, ColumnFits, SlotFits, SlotKinds
     DEF Properties
<1> HIDE DEF Fit
<1>4. \A f \in 1..2 : Fit(f)
  BY <1>3
<1> QED BY <1>1, <1>2, <1>4, SMTT(20) DEF Answered, Fit

LEMMA FixSeverityAnswered == Answered(16)
<1>1. Class[16] = "ReportSeverity"
  BY KindFields, KindClass
<1>2. DOMAIN Fields[16] = 1..3 /\ DOMAIN Properties["ReportSeverity"] = 1..3
  BY KindFields DEF Properties
<1> DEFINE Fit(f) == Fits(Fields[16][f], Properties["ReportSeverity"][f], 16)
<1>3. Fit(1) /\ Fit(2) /\ Fit(3)
  BY KindClass, KindFields, FieldFits, ListFits, ColumnFits, SlotFits, SlotKinds
     DEF Properties
<1> HIDE DEF Fit
<1>4. \A f \in 1..3 : Fit(f)
  BY <1>3
<1> QED BY <1>1, <1>2, <1>4, SMTT(20) DEF Answered, Fit

(***************************************************************************)
(* The indexes                                                             *)
(***************************************************************************)
LEMMA EdgesOf ==
  ASSUME NEW slot \in 0..15, NEW key, NEW value
  PROVE  /\ Slots[slot + 1] = Slot({"occurrence"}, key, value) =>
              Edges(slot) = {<<OccurrenceEdge(o)[key], OccurrenceEdge(o)[value]>> :
                               o \in DOMAIN occurrences}
         /\ Slots[slot + 1] = Slot({"finding"}, key, value) =>
              Edges(slot) = {<<FindingEdge(f)[key], FindingEdge(f)[value]>> :
                               f \in DOMAIN findings}
         /\ Slots[slot + 1] = Slot({"noncompliant"}, key, value) =>
              Edges(slot) = {<<OccurrenceEdge(o)[key], OccurrenceEdge(o)[value]>> :
                               o \in {o \in DOMAIN occurrences : Noncompliant(o)}}
         /\ Slots[slot + 1] = Slot({"noncompliant", "finding"}, key, value) =>
              Edges(slot) = {<<OccurrenceEdge(o)[key], OccurrenceEdge(o)[value]>> :
                               o \in {o \in DOMAIN occurrences : Noncompliant(o)}}
                              \cup {<<FindingEdge(f)[key], FindingEdge(f)[value]>> :
                                      f \in DOMAIN findings}
<1> DEFINE Pairs(rows) == {<<e[key], e[value]>> : e \in Visited(rows)}
<1>1. \A visited : Slots[slot + 1] = Slot(visited, key, value) =>
                     Edges(slot) = UNION {Pairs(rows) : rows \in visited}
  BY DEF Edges, Slot
<1>2. /\ Pairs("occurrence") = {<<OccurrenceEdge(o)[key], OccurrenceEdge(o)[value]>> :
                                  o \in DOMAIN occurrences}
      /\ Pairs("finding") = {<<FindingEdge(f)[key], FindingEdge(f)[value]>> :
                               f \in DOMAIN findings}
      /\ Pairs("noncompliant") = {<<OccurrenceEdge(o)[key], OccurrenceEdge(o)[value]>> :
                                    o \in {o \in DOMAIN occurrences : Noncompliant(o)}}
  <2>1. /\ Visited("occurrence") = {OccurrenceEdge(o) : o \in DOMAIN occurrences}
        /\ Visited("finding") = {FindingEdge(f) : f \in DOMAIN findings}
        /\ Visited("noncompliant")
             = {OccurrenceEdge(o) : o \in {o \in DOMAIN occurrences : Noncompliant(o)}}
    BY DEF Visited
  <2> QED BY <2>1
<1> HIDE DEF Pairs
<1>3. /\ UNION {Pairs(rows) : rows \in {"occurrence"}} = Pairs("occurrence")
      /\ UNION {Pairs(rows) : rows \in {"finding"}} = Pairs("finding")
      /\ UNION {Pairs(rows) : rows \in {"noncompliant"}} = Pairs("noncompliant")
      /\ UNION {Pairs(rows) : rows \in {"noncompliant", "finding"}}
           = Pairs("noncompliant") \cup Pairs("finding")
  OBVIOUS
<1> QED BY <1>1, <1>2, <1>3

\* What each of the indexes relates.
NoncompliantRows == {o \in DOMAIN occurrences : Noncompliant(o)}
LEMMA SlotEdges ==
  /\ Edges(0) = {<<occurrences[o].image, o>> : o \in DOMAIN occurrences}
  /\ Edges(1) = {<<ImageOf(f), f>> : f \in DOMAIN findings}
  /\ Edges(2) = {<<findings[f].occurrence, f>> : f \in DOMAIN findings}
  /\ Edges(3) = {<<occurrences[o].image, occurrences[o].package>> : o \in DOMAIN occurrences}
  /\ Edges(4) = {<<ImageOf(f), PackageOf(f)>> : f \in DOMAIN findings}
  /\ Edges(5) = {<<occurrences[o].image, occurrences[o].package>> : o \in NoncompliantRows}
  /\ Edges(6) = {<<ImageOf(f), VulnerabilityOf(f)>> : f \in DOMAIN findings}
  /\ Edges(7) = {<<occurrences[o].package, occurrences[o].image>> : o \in DOMAIN occurrences}
  /\ Edges(8) = {<<PackageOf(f), ImageOf(f)>> : f \in DOMAIN findings}
  /\ Edges(9) = {<<occurrences[o].package, occurrences[o].image>> : o \in NoncompliantRows}
  /\ Edges(10) = {<<occurrences[o].package, occurrences[o].image>> : o \in NoncompliantRows}
                   \cup {<<PackageOf(f), ImageOf(f)>> : f \in DOMAIN findings}
  /\ Edges(11) = {<<VulnerabilityOf(f), ImageOf(f)>> : f \in DOMAIN findings}
  /\ Edges(12) = {<<findings[f].advisory, ImageOf(f)>> : f \in DOMAIN findings}
  /\ Edges(13) = {<<VulnerabilityOf(f), f>> : f \in DOMAIN findings}
  /\ Edges(14) = {<<findings[f].advisory, f>> : f \in DOMAIN findings}
  /\ Edges(15) = {<<PackageOf(f), f>> : f \in DOMAIN findings}
<1>1. /\ \A o : /\ OccurrenceEdge(o)["image"] = occurrences[o].image
                /\ OccurrenceEdge(o)["package"] = occurrences[o].package
                /\ OccurrenceEdge(o)["occurrence"] = o
      /\ \A f : /\ FindingEdge(f)["image"] = ImageOf(f) /\ FindingEdge(f)["package"] = PackageOf(f)
                /\ FindingEdge(f)["occurrence"] = findings[f].occurrence
                /\ FindingEdge(f)["finding"] = f
                /\ FindingEdge(f)["vulnerability"] = VulnerabilityOf(f)
                /\ FindingEdge(f)["advisory"] = findings[f].advisory
  BY DEF OccurrenceEdge, FindingEdge
<1>2. /\ Slots[0 + 1] = Slot({"occurrence"}, "image", "occurrence")
      /\ Slots[1 + 1] = Slot({"finding"}, "image", "finding")
      /\ Slots[2 + 1] = Slot({"finding"}, "occurrence", "finding")
      /\ Slots[3 + 1] = Slot({"occurrence"}, "image", "package")
      /\ Slots[4 + 1] = Slot({"finding"}, "image", "package")
      /\ Slots[5 + 1] = Slot({"noncompliant"}, "image", "package")
      /\ Slots[6 + 1] = Slot({"finding"}, "image", "vulnerability")
      /\ Slots[7 + 1] = Slot({"occurrence"}, "package", "image")
      /\ Slots[8 + 1] = Slot({"finding"}, "package", "image")
      /\ Slots[9 + 1] = Slot({"noncompliant"}, "package", "image")
      /\ Slots[10 + 1] = Slot({"noncompliant", "finding"}, "package", "image")
      /\ Slots[11 + 1] = Slot({"finding"}, "vulnerability", "image")
      /\ Slots[12 + 1] = Slot({"finding"}, "advisory", "image")
      /\ Slots[13 + 1] = Slot({"finding"}, "vulnerability", "finding")
      /\ Slots[14 + 1] = Slot({"finding"}, "advisory", "finding")
      /\ Slots[15 + 1] = Slot({"finding"}, "package", "finding")
  BY DEF Slots
<1>3. /\ Edges(0) = {<<OccurrenceEdge(o)["image"], OccurrenceEdge(o)["occurrence"]>> :
                       o \in DOMAIN occurrences}
      /\ Edges(3) = {<<OccurrenceEdge(o)["image"], OccurrenceEdge(o)["package"]>> :
                       o \in DOMAIN occurrences}
      /\ Edges(7) = {<<OccurrenceEdge(o)["package"], OccurrenceEdge(o)["image"]>> :
                       o \in DOMAIN occurrences}
  BY <1>2, EdgesOf
<1>4. /\ Edges(5) = {<<OccurrenceEdge(o)["image"], OccurrenceEdge(o)["package"]>> :
                       o \in NoncompliantRows}
      /\ Edges(9) = {<<OccurrenceEdge(o)["package"], OccurrenceEdge(o)["image"]>> :
                       o \in NoncompliantRows}
      /\ Edges(10) = {<<OccurrenceEdge(o)["package"], OccurrenceEdge(o)["image"]>> :
                        o \in NoncompliantRows}
                       \cup {<<FindingEdge(f)["package"], FindingEdge(f)["image"]>> :
                               f \in DOMAIN findings}
  BY <1>2, EdgesOf DEF NoncompliantRows
<1>5. /\ Edges(1) = {<<FindingEdge(f)["image"], FindingEdge(f)["finding"]>> : f \in DOMAIN findings}
      /\ Edges(2) = {<<FindingEdge(f)["occurrence"], FindingEdge(f)["finding"]>> :
                       f \in DOMAIN findings}
      /\ Edges(4) = {<<FindingEdge(f)["image"], FindingEdge(f)["package"]>> : f \in DOMAIN findings}
      /\ Edges(6) = {<<FindingEdge(f)["image"], FindingEdge(f)["vulnerability"]>> :
                       f \in DOMAIN findings}
      /\ Edges(8) = {<<FindingEdge(f)["package"], FindingEdge(f)["image"]>> : f \in DOMAIN findings}
  BY <1>2, EdgesOf
<1>6. /\ Edges(11) = {<<FindingEdge(f)["vulnerability"], FindingEdge(f)["image"]>> :
                        f \in DOMAIN findings}
      /\ Edges(12) = {<<FindingEdge(f)["advisory"], FindingEdge(f)["image"]>> :
                        f \in DOMAIN findings}
      /\ Edges(13) = {<<FindingEdge(f)["vulnerability"], FindingEdge(f)["finding"]>> :
                        f \in DOMAIN findings}
      /\ Edges(14) = {<<FindingEdge(f)["advisory"], FindingEdge(f)["finding"]>> :
                        f \in DOMAIN findings}
      /\ Edges(15) = {<<FindingEdge(f)["package"], FindingEdge(f)["finding"]>> :
                        f \in DOMAIN findings}
  BY <1>2, EdgesOf
<1>7. /\ Edges(0) = {<<occurrences[o].image, o>> : o \in DOMAIN occurrences}
      /\ Edges(3) = {<<occurrences[o].image, occurrences[o].package>> : o \in DOMAIN occurrences}
      /\ Edges(7) = {<<occurrences[o].package, occurrences[o].image>> : o \in DOMAIN occurrences}
  BY <1>1, <1>3
<1>8. /\ Edges(5) = {<<occurrences[o].image, occurrences[o].package>> : o \in NoncompliantRows}
      /\ Edges(9) = {<<occurrences[o].package, occurrences[o].image>> : o \in NoncompliantRows}
  BY <1>1, <1>4
<1>9. Edges(10) = {<<occurrences[o].package, occurrences[o].image>> : o \in NoncompliantRows}
                       \cup {<<PackageOf(f), ImageOf(f)>> : f \in DOMAIN findings}
  BY <1>1, <1>4
<1>10. /\ Edges(1) = {<<ImageOf(f), f>> : f \in DOMAIN findings}
      /\ Edges(2) = {<<findings[f].occurrence, f>> : f \in DOMAIN findings}
      /\ Edges(4) = {<<ImageOf(f), PackageOf(f)>> : f \in DOMAIN findings}
  BY <1>1, <1>5
<1>11. /\ Edges(6) = {<<ImageOf(f), VulnerabilityOf(f)>> : f \in DOMAIN findings}
      /\ Edges(8) = {<<PackageOf(f), ImageOf(f)>> : f \in DOMAIN findings}
  BY <1>1, <1>5
<1>12. /\ Edges(11) = {<<VulnerabilityOf(f), ImageOf(f)>> : f \in DOMAIN findings}
      /\ Edges(12) = {<<findings[f].advisory, ImageOf(f)>> : f \in DOMAIN findings}
      /\ Edges(13) = {<<VulnerabilityOf(f), f>> : f \in DOMAIN findings}
  BY <1>1, <1>6
<1>13. /\ Edges(14) = {<<findings[f].advisory, f>> : f \in DOMAIN findings}
      /\ Edges(15) = {<<PackageOf(f), f>> : f \in DOMAIN findings}
  BY <1>1, <1>6
<1> QED BY <1>7, <1>8, <1>9, <1>10, <1>11, <1>12, <1>13

(***************************************************************************)
(* The values of an index                                                  *)
(***************************************************************************)
\* A set of the first numbers that has every number below a member is an interval.
LEMMA FirstNumbers ==
  ASSUME NEW n \in Nat, NEW D \in SUBSET (1..n), \A i \in D, j \in 1..n : j <= i => j \in D
  PROVE  Cardinality(D) \in 0..n /\ D = 1..Cardinality(D)
<1>1. \A m \in Nat : Cardinality(1..m) = m
  <2> TAKE m \in Nat
  <2> QED BY FS_Interval
<1>2. PICK m \in 0..n : D = 1..m
  <2>1. CASE D = 1..n
    BY <2>1
  <2>2. CASE D # 1..n
    <3> DEFINE R == (1..n) \ D
    <3>1. R \in SUBSET Nat /\ R # {}
      <4>1. ~(1..n \subseteq D)
        BY <2>2
      <4> QED BY <4>1
    <3>2. PICK x \in R : \A y \in R : x <= y
      BY <3>1, LeastNumber
    <3>3. x \in 1..n /\ x \notin D /\ x - 1 \in 0..n
      BY <3>2
    <3>4. \A j \in 1..n : j \in D <=> j < x
      <4> TAKE j \in 1..n
      <4>1. j \in D => ~(x <= j)
        BY <3>3
      <4>2. j \notin D => x <= j
        BY <3>2
      <4> QED BY <3>3, <4>1, <4>2
    <3>5. D = 1..(x - 1)
      <4>1. \A j \in 1..(x - 1) : j \in 1..n /\ j < x
        BY <3>3
      <4>2. \A j \in D : j \in 1..(x - 1)
        BY <3>3, <3>4
      <4> QED BY <3>4, <4>1, <4>2
    <3> QED BY <3>3, <3>5
  <2> QED BY <2>1, <2>2
<1> QED BY <1>1, <1>2

\* For a key: its values, and the range that the counts of the edges give.
ValuesOf(edges, row) == {e[2] : e \in {e \in edges : e[1] = row}}
RangeOf(edges, row) ==
  [i \in 1..Cardinality({e \in edges : e[1] = row}) |->
     Cardinality({e \in edges : e[1] < row}) + i]

\* The edges of rows that come in the order of their keys: where those of a key start
\* and how many there are gives the rows themselves.
LEMMA ContiguousRows ==
  ASSUME NEW n \in Nat, NEW key, \A i \in 1..n : key[i] \in Nat,
         \A i, j \in 1..n : i <= j => key[i] <= key[j], NEW row \in Nat,
         NEW E, E = {<<key[i], i>> : i \in 1..n}
  PROVE  Range(RangeOf(E, row)) = ValuesOf(E, row)
<1> DEFINE below == {i \in 1..n : key[i] < row}
           at == {i \in 1..n : key[i] = row}
           upTo == {i \in 1..n : key[i] <= row}
           a == Cardinality(below)
           b == Cardinality(upTo)
<1>1. a \in 0..n /\ below = 1..a
  <2>1. \A i \in below, j \in 1..n : j <= i => j \in below
    <3> TAKE i \in below, j \in 1..n
    <3> QED OBVIOUS
  <2> HIDE DEF below
  <2>2. below \in SUBSET (1..n)
    BY DEF below
  <2> QED BY <2>1, <2>2, FirstNumbers
<1>2. b \in 0..n /\ upTo = 1..b
  <2>1. \A i \in upTo, j \in 1..n : j <= i => j \in upTo
    <3> TAKE i \in upTo, j \in 1..n
    <3> QED OBVIOUS
  <2>2. upTo \in SUBSET (1..n)
    OBVIOUS
  <2> HIDE DEF upTo
  <2> QED BY <2>1, <2>2, FirstNumbers
<1>3. below \subseteq upTo /\ at = upTo \ below
  OBVIOUS
<1> HIDE DEF a, b
<1>4. a <= b
  <2>1. CASE a = 0
    BY <1>1, <1>2, <2>1
  <2>2. CASE a # 0
    <3>1. a \in 1..a
      BY <1>1, <2>2
    <3>2. a \in 1..b
      BY <1>1, <1>2, <1>3, <3>1
    <3> QED BY <1>1, <1>2, <3>2
  <2> QED BY <2>1, <2>2
<1>5. at = (a + 1)..b
  BY <1>1, <1>2, <1>3, <1>4
<1>6. ASSUME NEW K \in SUBSET (1..n)
      PROVE  IsFiniteSet(K) /\ Cardinality({<<key[i], i>> : i \in K}) = Cardinality(K)
  <2> DEFINE T == {<<key[i], i>> : i \in K}
             f == [i \in K |-> <<key[i], i>>]
  <2>1. IsFiniteSet(K)
    <3>1. IsFiniteSet(1..n)
      BY FS_Interval
    <3> QED BY <3>1, FS_Subset
  <2>2. f \in Bijection(K, T)
    <3>1. f \in [K -> T] /\ \A y \in T : \E i \in K : f[i] = y
      OBVIOUS
    <3>2. \A i, j \in K : f[i] = f[j] => i = j
      OBVIOUS
    <3> HIDE DEF f, T
    <3> QED BY <3>1, <3>2 DEF Bijection, Injection, Surjection, IsInjective
  <2> HIDE DEF f, T
  <2>3. Cardinality(T) = Cardinality(K)
    BY <2>1, <2>2, FS_Bijection DEF ExistsBijection
  <2> QED BY <2>1, <2>3 DEF T
<1>7. /\ {e \in E : e[1] < row} = {<<key[i], i>> : i \in below}
      /\ {e \in E : e[1] = row} = {<<key[i], i>> : i \in at}
  OBVIOUS
<1>8. Cardinality({e \in E : e[1] < row}) = a
  BY <1>6, <1>7 DEF a
<1>9. Cardinality({e \in E : e[1] = row}) = b - a
  <2>1. Cardinality(at) = b - a
    <3>1. a + 1 \in Int /\ b \in Int
      BY <1>1, <1>2
    <3>2. Cardinality((a + 1)..b) = IF a + 1 > b THEN 0 ELSE b - (a + 1) + 1
      BY <3>1, FS_Interval
    <3>3. (IF a + 1 > b THEN 0 ELSE b - (a + 1) + 1) = b - a
      BY <1>1, <1>2, <1>4
    <3> QED BY <1>5, <3>2, <3>3
  <2> QED BY <1>6, <1>7, <2>1
<1>10. Range([i \in 1..(b - a) |-> a + i]) = (a + 1)..b
  <2>1. Range([i \in 1..(b - a) |-> a + i]) = {a + i : i \in 1..(b - a)}
    BY DEF Range
  <2>2. \A y \in (a + 1)..b : y - a \in 1..(b - a) /\ a + (y - a) = y
    BY <1>1, <1>2
  <2>3. \A i \in 1..(b - a) : a + i \in (a + 1)..b
    BY <1>1, <1>2
  <2> DEFINE I == 1..(b - a)
             J == (a + 1)..b
  <2>4. {a + i : i \in I} = J
    <3> HIDE DEF I, J
    <3>1. \A y \in J : y - a \in I /\ a + (y - a) = y
      BY <2>2 DEF I, J
    <3>2. \A i \in I : a + i \in J
      BY <2>3 DEF I, J
    <3>3. \A y \in J : y \in {a + i : i \in I}
      BY <3>1
    <3> QED BY <3>2, <3>3
  <2> QED BY <2>1, <2>4
<1>11. {e[2] : e \in {e \in E : e[1] = row}} = at
  <2> DEFINE R == {e \in E : e[1] = row}
  <2>1. \A e \in R : e[2] \in at
    BY <1>7
  <2>2. \A i \in at : <<key[i], i>> \in R /\ <<key[i], i>>[2] = i
    BY <1>7
  <2> HIDE DEF R, at
  <2>3. \A i \in at : \E e \in R : e[2] = i
    BY <2>2
  <2>4. {e[2] : e \in R} = at
    BY <2>1, <2>3
  <2> QED BY <2>4 DEF R
<1> QED BY <1>5, <1>8, <1>9, <1>10, <1>11 DEF RangeOf, ValuesOf

\* The values of a key, for an index with its values in order.
LEMMA IndexRange ==
  ASSUME NEW slot \in (0..15) \ Contiguous, NEW row, NEW n \in Nat,
         ValuesOf(Edges(slot), row) \subseteq 1..n
  PROVE  Range(IndexValue(slot, row)) = ValuesOf(Edges(slot), row)
<1> DEFINE V == ValuesOf(Edges(slot), row)
<1>1. IndexValue(slot, row) = Sorted(V)
  BY DEF IndexValue, ValuesOf
<1>2. V \in SUBSET (1..n)
  OBVIOUS
<1> HIDE DEF V
<1>3. Numbers(V)
  <2>1. IsFiniteSet(1..n)
    BY FS_Interval
  <2>2. IsFiniteSet(V)
    BY <1>2, <2>1, FS_Subset
  <2>3. V \in SUBSET Nat
    BY <1>2
  <2> QED BY <2>2, <2>3 DEF Numbers
<1>4. Range(Sorted(V)) = V
  BY <1>3, SortedRange
<1> QED BY <1>1, <1>4 DEF V

LEMMA KindTable ==
  /\ Table(2) = images /\ Table(3) = packages /\ Table(4) = vulnerabilities
  /\ Table(5) = advisories /\ Table(6) = occurrences /\ Table(7) = findings
  /\ Table(8) = contexts /\ Table(9) = assessments /\ Table(10) = licenses
  /\ Table(11) = fixes
  /\ Table(13) = images /\ Table(14) = advisories /\ Table(15) = advisories
  /\ Table(16) = fixes
BY DEF Table

\* The rows of a frozen report, and what they refer to.
Lengthy(table) == \E n \in Nat : DOMAIN table = 1..n
Frozen ==
  /\ Lengthy(images) /\ Lengthy(packages) /\ Lengthy(vulnerabilities) /\ Lengthy(advisories)
  /\ Lengthy(occurrences) /\ Lengthy(findings)
  /\ \A o \in DOMAIN occurrences :
       /\ occurrences[o].image \in DOMAIN images
       /\ occurrences[o].package \in DOMAIN packages
       /\ occurrences[o].context \in DOMAIN contexts
       /\ occurrences[o].license \in DOMAIN licenses
  /\ \A f \in DOMAIN findings :
       /\ findings[f].occurrence \in DOMAIN occurrences
       /\ findings[f].advisory \in DOMAIN advisories
       /\ findings[f].fix \in DOMAIN fixes
       /\ findings[f].assessment \in DOMAIN assessments
       /\ ImageOf(f) \in DOMAIN images /\ PackageOf(f) \in DOMAIN packages
       /\ VulnerabilityOf(f) \in DOMAIN vulnerabilities
  /\ \A o, p \in DOMAIN occurrences : o <= p => occurrences[o].image <= occurrences[p].image
  /\ \A f, g \in DOMAIN findings :
       f <= g => findings[f].occurrence <= findings[g].occurrence /\ ImageOf(f) <= ImageOf(g)

LEMMA PackageTable == Shown => \E X : packages \in Seq(X)
<1> SUFFICES ASSUME NEW h \in Seq(AllFacts), ShowsMade(h) PROVE \E X : packages \in Seq(X)
  BY DEF Shown
<1> DEFINE c == Column(Made(h), PackageIn)
<1>1. /\ Len(Made(h)) \in Nat /\ DOMAIN Made(h) = 1..Len(Made(h))
      /\ Made(h) \in [1..Len(Made(h)) -> MadeFacts]
  BY FactParts, LenProperties
<1>2. c \in [1..Len(Made(h)) -> STRING]
  BY <1>1, FactFields DEF Column
<1>3. packages = Firsts(c)
  BY DEF ShowsMade
<1> HIDE DEF c
<1>4. c \in Seq(STRING)
  BY <1>1, <1>2, Sequenced
<1> QED BY <1>3, <1>4, FirstsMembers

LEMMA InvFrozen == ReportInv /\ Grouped /\ RowOrder /\ pc = "finished" => Frozen
<1> SUFFICES ASSUME ReportInv, Grouped, RowOrder, pc = "finished" PROVE Frozen
  OBVIOUS
<1>1. Len(results) \in Nat /\ DOMAIN images = 1..Len(results)
  BY LenProperties DEF ReportInv, Control, Imaged, Settled
<1>2. /\ Len(occurrences) \in Nat /\ DOMAIN occurrences = 1..Len(occurrences)
      /\ Len(findings) \in Nat /\ DOMAIN findings = 1..Len(findings)
  BY RowTables, LenProperties DEF ReportInv
<1>3. Lengthy(packages) /\ Lengthy(vulnerabilities) /\ Lengthy(advisories)
  BY PackageTable, AdvisoryTable, LenProperties DEF ReportInv, Grouped, Lengthy
<1>4. Lengthy(images) /\ Lengthy(occurrences) /\ Lengthy(findings)
  BY <1>1, <1>2 DEF Lengthy
<1>5. \A o \in DOMAIN occurrences :
        /\ occurrences[o].image \in DOMAIN images
        /\ occurrences[o].package \in DOMAIN packages
        /\ occurrences[o].context \in DOMAIN contexts
        /\ occurrences[o].license \in DOMAIN licenses
  BY <1>1, RowTables DEF ReportInv, RowOrder
<1>6. ASSUME NEW f \in DOMAIN findings
      PROVE  /\ findings[f].occurrence \in DOMAIN occurrences
             /\ findings[f].advisory \in DOMAIN advisories
             /\ findings[f].fix \in DOMAIN fixes
             /\ findings[f].assessment \in DOMAIN assessments
             /\ ImageOf(f) \in DOMAIN images /\ PackageOf(f) \in DOMAIN packages
             /\ VulnerabilityOf(f) \in DOMAIN vulnerabilities
  <2>1. findings[f].occurrence \in DOMAIN occurrences
    BY <1>2 DEF RowOrder
  <2>2. /\ findings[f].advisory \in DOMAIN advisories
        /\ findings[f].fix \in DOMAIN fixes
        /\ findings[f].assessment \in DOMAIN assessments
    BY RowTables DEF ReportInv
  <2>3. VulnerabilityOf(f) \in DOMAIN vulnerabilities
    BY <2>2 DEF VulnerabilityOf, Grouped
  <2> QED BY <1>5, <2>1, <2>2, <2>3 DEF ImageOf, PackageOf
<1>7. ASSUME NEW f \in DOMAIN findings, NEW g \in DOMAIN findings, f <= g
      PROVE  findings[f].occurrence <= findings[g].occurrence /\ ImageOf(f) <= ImageOf(g)
  BY <1>6, <1>7 DEF RowOrder, ImageOf
<1>8. \A o, p \in DOMAIN occurrences : o <= p => occurrences[o].image <= occurrences[p].image
  BY DEF RowOrder
<1> QED BY <1>3, <1>4, <1>5, <1>6, <1>7, <1>8 DEF Frozen

\* The values of an index are rows of the table of their kind.
LEMMA EdgeValues ==
  ASSUME Frozen, NEW slot \in 0..15, NEW e \in Edges(slot)
  PROVE  e[2] \in DOMAIN Table(KindOf[SlotValues[slot + 1]])
<1>1. /\ KindOf[SlotValues[0 + 1]] = 6
      /\ \A s \in {1, 2, 13, 14, 15} : KindOf[SlotValues[s + 1]] = 7
      /\ \A s \in {3, 4, 5} : KindOf[SlotValues[s + 1]] = 3
      /\ KindOf[SlotValues[6 + 1]] = 4
      /\ \A s \in {7, 8, 9, 10, 11, 12} : KindOf[SlotValues[s + 1]] = 2
  BY SlotKinds
<1>2. CASE slot = 0
  BY <1>1, <1>2, SlotEdges, KindTable
<1>3. CASE slot \in {1, 2, 13, 14, 15}
  <2>1. e[2] \in DOMAIN findings
    BY <1>3, SlotEdges
  <2> QED BY <1>1, <1>3, <2>1, KindTable
<1>4. CASE slot \in {3, 4, 5}
  <2>1. e[2] \in DOMAIN packages
    <3>1. \A o \in DOMAIN occurrences : occurrences[o].package \in DOMAIN packages
      BY DEF Frozen
    <3>2. \A f \in DOMAIN findings : PackageOf(f) \in DOMAIN packages
      BY DEF Frozen
    <3>3. CASE slot = 3
      BY <3>1, <3>3, SlotEdges
    <3>4. CASE slot = 4
      BY <3>2, <3>4, SlotEdges
    <3>5. CASE slot = 5
      BY <3>1, <3>5, SlotEdges DEF NoncompliantRows
    <3> QED BY <1>4, <3>3, <3>4, <3>5
  <2> QED BY <1>1, <1>4, <2>1, KindTable
<1>5. CASE slot = 6
  <2>1. e[2] \in DOMAIN vulnerabilities
    BY <1>5, SlotEdges DEF Frozen
  <2> QED BY <1>1, <1>5, <2>1, KindTable
<1>6. CASE slot \in {7, 8, 9, 10, 11, 12}
  <2>1. e[2] \in DOMAIN images
    <3>1. \A o \in NoncompliantRows \cup DOMAIN occurrences : occurrences[o].image \in DOMAIN images
      BY DEF Frozen, NoncompliantRows
    <3>2. \A f \in DOMAIN findings : ImageOf(f) \in DOMAIN images
      BY DEF Frozen
    <3>3. CASE slot = 7
      BY <3>1, <3>3, SlotEdges
    <3>4. CASE slot = 8
      BY <3>2, <3>4, SlotEdges
    <3>5. CASE slot = 9
      BY <3>1, <3>5, SlotEdges
    <3>6. CASE slot = 10
      BY <3>1, <3>2, <3>6, SlotEdges
    <3>7. CASE slot \in {11, 12}
      BY <3>2, <3>7, SlotEdges
    <3> QED BY <1>6, <3>3, <3>4, <3>5, <3>6, <3>7
  <2> QED BY <1>1, <1>6, <2>1, KindTable
<1>7. \/ slot = 0 \/ slot \in {1, 2, 13, 14, 15} \/ slot \in {3, 4, 5} \/ slot = 6
      \/ slot \in {7, 8, 9, 10, 11, 12}
  OBVIOUS
<1> QED BY <1>2, <1>3, <1>4, <1>5, <1>6, <1>7

LEMMA IndexRows ==
  ASSUME Frozen, NEW slot \in 0..15, NEW row \in Nat
  PROVE  Range(IndexValue(slot, row)) = ValuesOf(Edges(slot), row)
<1>1. CASE slot \notin Contiguous
  <2>1. KindOf[SlotValues[slot + 1]] \in {2, 3, 4, 6, 7}
    BY SlotKinds
  <2>2. PICK n \in Nat : DOMAIN Table(KindOf[SlotValues[slot + 1]]) = 1..n
    BY <2>1, KindTable DEF Frozen, Lengthy
  <2>3. ValuesOf(Edges(slot), row) \subseteq 1..n
    BY <2>2, EdgeValues DEF ValuesOf
  <2> QED BY <1>1, <2>3, IndexRange
<1>2. ASSUME NEW key, NEW table, Lengthy(table), slot \in Contiguous,
             Edges(slot) = {<<key[i], i>> : i \in DOMAIN table},
             \A i \in DOMAIN table : key[i] \in Nat,
             \A i, j \in DOMAIN table : i <= j => key[i] <= key[j]
      PROVE  Range(IndexValue(slot, row)) = ValuesOf(Edges(slot), row)
  <2>1. PICK n \in Nat : DOMAIN table = 1..n
    BY <1>2 DEF Lengthy
  <2>2. IndexValue(slot, row) = RangeOf(Edges(slot), row)
    BY <1>2 DEF IndexValue, RangeOf
  <2>3. /\ Edges(slot) = {<<key[i], i>> : i \in 1..n} /\ \A i \in 1..n : key[i] \in Nat
        /\ \A i, j \in 1..n : i <= j => key[i] <= key[j]
    BY <1>2, <2>1
  <2> DEFINE E == Edges(slot)
  <2>4. E = {<<key[i], i>> : i \in 1..n}
    BY <2>3
  <2> HIDE DEF E
  <2>5. Range(RangeOf(E, row)) = ValuesOf(E, row)
    <3>1. \A i \in 1..n : key[i] \in Nat
      BY <2>3
    <3>2. \A i, j \in 1..n : i <= j => key[i] <= key[j]
      BY <2>3
    <3> QED BY <2>4, <3>1, <3>2, ContiguousRows
  <2> QED BY <2>2, <2>5 DEF E
<1>3. \A o \in DOMAIN occurrences : occurrences[o].image \in Nat
  BY DEF Frozen, Lengthy
<1>4. \A f \in DOMAIN findings : ImageOf(f) \in Nat /\ findings[f].occurrence \in Nat
  BY DEF Frozen, Lengthy
<1>5. CASE slot = 0
  <2> DEFINE key == [o \in DOMAIN occurrences |-> occurrences[o].image]
  <2>1. Edges(slot) = {<<key[o], o>> : o \in DOMAIN occurrences}
    BY <1>5, SlotEdges
  <2>2. \A i \in DOMAIN occurrences : key[i] \in Nat
    BY <1>3
  <2>3. Lengthy(occurrences) /\ \A i, j \in DOMAIN occurrences : i <= j => key[i] <= key[j]
    BY DEF Frozen
  <2> HIDE DEF key
  <2> QED BY <1>2, <1>5, <2>1, <2>2, <2>3 DEF Contiguous
<1>6. CASE slot = 1
  <2> DEFINE key == [f \in DOMAIN findings |-> ImageOf(f)]
  <2>1. Edges(slot) = {<<key[f], f>> : f \in DOMAIN findings}
    BY <1>6, SlotEdges
  <2>2. \A i \in DOMAIN findings : key[i] \in Nat
    BY <1>4
  <2>3. Lengthy(findings) /\ \A i, j \in DOMAIN findings : i <= j => key[i] <= key[j]
    BY DEF Frozen
  <2> HIDE DEF key
  <2> QED BY <1>2, <1>6, <2>1, <2>2, <2>3 DEF Contiguous
<1>7. CASE slot = 2
  <2> DEFINE key == [f \in DOMAIN findings |-> findings[f].occurrence]
  <2>1. Edges(slot) = {<<key[f], f>> : f \in DOMAIN findings}
    BY <1>7, SlotEdges
  <2>2. \A i \in DOMAIN findings : key[i] \in Nat
    BY <1>4
  <2>3. Lengthy(findings) /\ \A i, j \in DOMAIN findings : i <= j => key[i] <= key[j]
    BY DEF Frozen
  <2> HIDE DEF key
  <2> QED BY <1>2, <1>7, <2>1, <2>2, <2>3 DEF Contiguous
<1> QED BY <1>1, <1>5, <1>6, <1>7 DEF Contiguous

(***************************************************************************)
(* Every view answers                                                      *)
(***************************************************************************)
LEMMA PresentViews ==
  /\ \A kind \in 2..11 : \A row \in DOMAIN Table(kind) : View(kind, row, 0) \in Present
  /\ \A kind \in 13..16 : \A row \in DOMAIN Table(kind) :
       \A i \in DOMAIN Table(kind)[row][ListOf[kind]] : View(kind, row, i) \in Present
  /\ \A v \in Present :
       /\ IsThere(v)
       /\ \/ v.kind = 1
          \/ v.kind \in 2..11 /\ v.row \in DOMAIN Table(v.kind)
          \/ v.kind \in 13..16
<1>1. DOMAIN ListOf = 13..16
  BY DEF ListOf
<1>2. \A kind, row, i : /\ View(kind, row, i).kind = kind /\ View(kind, row, i).row = row
                        /\ View(kind, row, i).sub = i
  BY DEF View
<1>3. \A x : x \in Present <=>
               \/ x = Batch
               \/ \E kind \in 2..11 : x \in RowViews(kind)
               \/ \E kind \in 13..16 : x \in ElementViews(kind)
  <2> TAKE x
  <2>1. x \in Present <=>
          \/ x \in {Batch}
          \/ x \in UNION {RowViews(kind) : kind \in 2..11}
          \/ x \in UNION {ElementViews(kind) : kind \in 13..16}
    BY <1>1, Zenon DEF Present
  <2>2. x \in UNION {RowViews(kind) : kind \in 2..11} <=> \E kind \in 2..11 : x \in RowViews(kind)
    BY Zenon
  <2>3. x \in UNION {ElementViews(kind) : kind \in 13..16}
          <=> \E kind \in 13..16 : x \in ElementViews(kind)
    BY Zenon
  <2> QED BY <2>1, <2>2, <2>3
<1>4. \A x, kind :
        /\ x \in RowViews(kind) <=> \E row \in DOMAIN Table(kind) : x = View(kind, row, 0)
        /\ x \in ElementViews(kind) <=>
             \E row \in DOMAIN Table(kind) :
               \E i \in DOMAIN Table(kind)[row][ListOf[kind]] : x = View(kind, row, i)
  <2> TAKE x, kind
  <2> DEFINE Parts(row) == {View(kind, row, i) : i \in DOMAIN Table(kind)[row][ListOf[kind]]}
  <2>1. \A row : x \in Parts(row) <=>
                         \E i \in DOMAIN Table(kind)[row][ListOf[kind]] : x = View(kind, row, i)
    OBVIOUS
  <2>2. x \in RowViews(kind) <=> \E row \in DOMAIN Table(kind) : x = View(kind, row, 0)
    BY DEF RowViews
  <2>3. ElementViews(kind) = UNION {Parts(row) : row \in DOMAIN Table(kind)}
    BY DEF ElementViews
  <2> HIDE DEF Parts
  <2>4. x \in ElementViews(kind) <=> \E row \in DOMAIN Table(kind) : x \in Parts(row)
    BY <2>3, Zenon
  <2> QED BY <2>1, <2>2, <2>4
<1>5. \A x : x \in Present <=>
               \/ x = Batch
               \/ \E kind \in 2..11 : \E row \in DOMAIN Table(kind) : x = View(kind, row, 0)
               \/ \E kind \in 13..16 : \E row \in DOMAIN Table(kind) :
                    \E i \in DOMAIN Table(kind)[row][ListOf[kind]] : x = View(kind, row, i)
  <2> TAKE x
  <2>1. (\E kind \in 2..11 : x \in RowViews(kind))
          <=> \E kind \in 2..11 : \E row \in DOMAIN Table(kind) : x = View(kind, row, 0)
    BY <1>4
  <2>2. \A kind : x \in ElementViews(kind) <=>
                    \E row \in DOMAIN Table(kind) :
                      \E i \in DOMAIN Table(kind)[row][ListOf[kind]] : x = View(kind, row, i)
    BY <1>4
  <2> DEFINE Element(kind) ==
               \E row \in DOMAIN Table(kind) :
                 \E i \in DOMAIN Table(kind)[row][ListOf[kind]] : x = View(kind, row, i)
  <2>3. \A kind : x \in ElementViews(kind) <=> Element(kind)
    BY <2>2
  <2> HIDE DEF Element
  <2>4. (\E kind \in 13..16 : x \in ElementViews(kind)) <=> \E kind \in 13..16 : Element(kind)
    BY <2>3
  <2>5. (\E kind \in 13..16 : x \in ElementViews(kind))
          <=> \E kind \in 13..16 : \E row \in DOMAIN Table(kind) :
                \E i \in DOMAIN Table(kind)[row][ListOf[kind]] : x = View(kind, row, i)
    BY <2>4 DEF Element
  <2> QED BY <1>3, <2>1, <2>5
<1>6. ASSUME NEW v \in Present
      PROVE  /\ IsThere(v)
             /\ \/ v.kind = 1
                \/ v.kind \in 2..11 /\ v.row \in DOMAIN Table(v.kind)
                \/ v.kind \in 13..16
  <2>1. CASE v = Batch
    BY <1>2, <2>1 DEF Batch, IsThere
  <2>2. ASSUME NEW kind \in 2..11, NEW row \in DOMAIN Table(kind), v = View(kind, row, 0)
        PROVE  IsThere(v) /\ v.kind \in 2..11 /\ v.row \in DOMAIN Table(v.kind)
    <3>1. v.kind = kind /\ v.row = row /\ kind \notin DOMAIN ListOf
      BY <1>1, <1>2, <2>2
    <3> QED BY <3>1 DEF IsThere
  <2>3. ASSUME NEW kind \in 13..16, NEW row \in DOMAIN Table(kind),
               NEW i \in DOMAIN Table(kind)[row][ListOf[kind]], v = View(kind, row, i)
        PROVE  IsThere(v) /\ v.kind \in 13..16
    <3>1. v.kind = kind /\ v.row = row /\ v.sub = i
      BY <1>2, <2>3
    <3> QED BY <3>1 DEF IsThere
  <2> QED BY <1>5, <2>1, <2>2, <2>3
<1> QED BY <1>5, <1>6

LEMMA SoundViews ==
  ASSUME Frozen, NEW v \in Present, NEW field, Sound(field, v.kind)
  PROVE  Range(Views(field, v)) \subseteq Present
<1>1. CASE field.from = "text"
  BY <1>1 DEF Views, Range
<1>2. CASE field.from = "table" /\ field.kind \in 2..11
  <2>1. Views(field, v) = [i \in DOMAIN Table(field.kind) |-> View(field.kind, i, 0)]
    BY <1>2 DEF Views
  <2> QED BY <1>2, <2>1, PresentViews DEF Range
<1>3. CASE /\ field.from = "index" /\ v.kind \in 2..6 /\ field.key \in 0..15
           /\ field.kind = KindOf[Slots[field.key + 1].value]
  <2> DEFINE members == IndexValue(field.key, v.row)
  <2>1. Views(field, v) = [i \in DOMAIN members |-> View(field.kind, members[i], 0)]
    BY <1>3 DEF Views
  <2>2. v.row \in Nat
    <3>1. v.row \in DOMAIN Table(v.kind)
      BY <1>3, PresentViews
    <3>2. Lengthy(Table(v.kind))
      BY <1>3, KindTable DEF Frozen
    <3> QED BY <3>1, <3>2 DEF Lengthy
  <2>3. Range(members) = ValuesOf(Edges(field.key), v.row)
    BY <1>3, <2>2, IndexRows
  <2>4. field.kind = KindOf[SlotValues[field.key + 1]]
    BY <1>3, SlotValue
  <2>5. Range(members) \subseteq DOMAIN Table(field.kind)
    BY <1>3, <2>3, <2>4, EdgeValues DEF ValuesOf
  <2>6. field.kind \in 2..11
    BY <1>3, <2>4, SlotKinds
  <2> HIDE DEF members
  <2>7. \A i \in DOMAIN members : members[i] \in DOMAIN Table(field.kind)
    BY <2>5 DEF Range
  <2> QED BY <2>1, <2>6, <2>7, PresentViews DEF Range
<1>4. CASE field.from = "list" /\ <<v.kind, field.key, field.kind>> \in Lists
  <2>1. /\ v.kind \in {2, 5, 11} /\ field.kind \in 13..16
        /\ Table(v.kind) = Table(field.kind) /\ ListOf[field.kind] = field.key
    BY <1>4, KindTable DEF Lists, ListOf
  <2>2. v.row \in DOMAIN Table(v.kind)
    BY <2>1, PresentViews
  <2>3. Views(field, v) = [i \in DOMAIN Table(v.kind)[v.row][field.key] |-> View(field.kind, v.row, i)]
    BY <1>4 DEF Views
  <2> QED BY <2>1, <2>2, <2>3, PresentViews DEF Range
<1>5. CASE field.from = "column" /\ <<v.kind, field.key, field.kind>> \in Columns
  <2> DEFINE x == IF field.key = "vulnerability" THEN VulnerabilityOf(v.row)
                  ELSE Table(v.kind)[v.row][field.key]
  <2>1. Views(field, v) = <<View(field.kind, x, 0)>>
    BY <1>5 DEF Views
  <2>2. field.kind \in 2..11 /\ v.kind \in {6, 7}
    BY <1>5 DEF Columns
  <2>3. v.row \in DOMAIN Table(v.kind)
    BY <2>2, PresentViews
  <2>4. x \in DOMAIN Table(field.kind)
    <3>1. CASE v.kind = 6
      BY <1>5, <2>3, <3>1, KindTable DEF Columns, Frozen
    <3>2. CASE v.kind = 7
      BY <1>5, <2>3, <3>2, KindTable DEF Columns, Frozen
    <3> QED BY <2>2, <3>1, <3>2
  <2> HIDE DEF x
  <2>5. View(field.kind, x, 0) \in Present
    BY <2>2, <2>4, PresentViews
  <2> QED BY <2>1, <2>5 DEF Range
<1> QED BY <1>1, <1>2, <1>3, <1>4, <1>5 DEF Sound

LEMMA KindsAnswered == \A v \in Present : Answered(v.kind)
<1> TAKE v \in Present
<1>1. v.kind \in (1..11) \cup (13..16)
  BY PresentViews
<1>2. /\ Answered(1) /\ Answered(2) /\ Answered(3) /\ Answered(4) /\ Answered(5) /\ Answered(6)
      /\ Answered(7) /\ Answered(8) /\ Answered(9) /\ Answered(10) /\ Answered(11)
  BY BatchAnswered, ImageAnswered, PackageAnswered, VulnerabilityAnswered, AdvisoryAnswered,
     OccurrenceAnswered, FindingAnswered, ContextAnswered, AssessmentAnswered, LicenseAnswered,
     FixAnswered
<1>3. Answered(13) /\ Answered(14) /\ Answered(15) /\ Answered(16)
  BY ErrorAnswered, SeverityAnswered, ReferenceAnswered, FixSeverityAnswered
<1>4. /\ v.kind \in 1..11 => \/ v.kind = 1 \/ v.kind = 2 \/ v.kind = 3 \/ v.kind = 4
                             \/ v.kind = 5 \/ v.kind = 6 \/ v.kind = 7 \/ v.kind = 8
                             \/ v.kind = 9 \/ v.kind = 10 \/ v.kind = 11
      /\ v.kind \in 13..16 => v.kind = 13 \/ v.kind = 14 \/ v.kind = 15 \/ v.kind = 16
  OBVIOUS
<1> QED BY <1>1, <1>2, <1>3, <1>4

LEMMA InvResolves == ReportInv /\ Grouped /\ RowOrder => ViewsResolve
<1> SUFFICES ASSUME ReportInv, Grouped, RowOrder, pc = "finished", NEW v \in Present
             PROVE  LET answers == Value(v)
                        declared == Properties[Class[v.kind]]
                    IN /\ DOMAIN answers = DOMAIN declared
                       /\ \A field \in DOMAIN answers :
                            /\ answers[field].many = declared[field].many
                            /\ answers[field].of = declared[field].of
                            /\ Range(answers[field].views) \subseteq Present
  BY DEF ViewsResolve
<1>1. Frozen
  BY InvFrozen
<1>2. Value(v) = [f \in DOMAIN Fields[v.kind] |->
                    [many |-> Fields[v.kind][f].many, of |-> Fields[v.kind][f].of,
                     views |-> Views(Fields[v.kind][f], v)]]
  BY PresentViews DEF Value
<1>3. DOMAIN Fields[v.kind] = DOMAIN Properties[Class[v.kind]]
  BY KindsAnswered DEF Answered
<1>4. ASSUME NEW f \in DOMAIN Fields[v.kind]
      PROVE  /\ Fields[v.kind][f].many = Properties[Class[v.kind]][f].many
             /\ Fields[v.kind][f].of = Properties[Class[v.kind]][f].of
             /\ Range(Views(Fields[v.kind][f], v)) \subseteq Present
  <2>1. Fits(Fields[v.kind][f], Properties[Class[v.kind]][f], v.kind)
    BY KindsAnswered DEF Answered
  <2> QED BY <1>1, <2>1, SoundViews DEF Fits
<1> DEFINE F == Fields[v.kind]
           C == Properties[Class[v.kind]]
           W == [f \in DOMAIN F |-> [many |-> F[f].many, of |-> F[f].of, views |-> Views(F[f], v)]]
<1>5. DOMAIN W = DOMAIN C
  BY <1>3
<1>6. ASSUME NEW f \in DOMAIN W
      PROVE  /\ W[f].many = C[f].many /\ W[f].of = C[f].of
             /\ Range(W[f].views) \subseteq Present
  <2>1. f \in DOMAIN F
    OBVIOUS
  <2>2. W[f].many = F[f].many /\ W[f].of = F[f].of /\ W[f].views = Views(F[f], v)
    BY <2>1
  <2> QED BY <1>4, <2>1, <2>2
<1>7. Value(v) = W
  BY <1>2
<1> HIDE DEF W, C, F
<1>8. DOMAIN Value(v) = DOMAIN C
  BY <1>5, <1>7
<1> QED BY <1>5, <1>6, <1>7, <1>8 DEF C

\* Of every report that the builder can end with, every view answers every property
\* its class declares, with the declared type and with views of rows and elements that
\* are there (go/abi.go, src/osvpy/_native.pyx).
THEOREM ViewsAlwaysResolve == Spec => []ViewsResolve
<1>1. Init => ReportInv /\ Grouped /\ RowOrder
  BY InitReport DEF Init, Grouped, RowOrder
<1>2. (ReportInv /\ Grouped /\ RowOrder) /\ [Next]_vars => (ReportInv /\ Grouped /\ RowOrder)'
  BY ReportStep, GroupedStep, RowOrderStep
<1>3. ReportInv /\ Grouped /\ RowOrder => ViewsResolve
  BY InvResolves
<1> QED BY <1>1, <1>2, <1>3, PTL DEF Spec

(***************************************************************************)
(* The relationships agree                                                 *)
(***************************************************************************)
NameAt(kind, place) == Properties[Class[kind]][place].name

LEMMA GetIndex ==
  ASSUME Frozen, NEW kind \in 2..6, NEW row \in DOMAIN Table(kind), NEW name,
         NEW place \in DOMAIN Properties[Class[kind]], NEW slot \in 0..15, NEW k,
         Fields[kind][place] = Related(slot, k), NameAt(kind, place) = name,
         \A g \in DOMAIN Properties[Class[kind]] : NameAt(kind, g) = name => g = place
  PROVE  Get(kind, row, name) = ValuesOf(Edges(slot), row)
<1> DEFINE v == View(kind, row, 0)
<1>1. v.kind = kind /\ v.row = row
  BY DEF View
<1> HIDE DEF v
<1>2. v \in Present
  BY PresentViews DEF v
<1>3. place \in DOMAIN Fields[kind]
  BY <1>1, <1>2, KindsAnswered DEF Answered
<1>4. Value(v)[place].views = Views(Related(slot, k), v)
  BY <1>1, <1>2, <1>3, PresentViews DEF Value
<1> DEFINE members == IndexValue(slot, row)
<1>5. Views(Related(slot, k), v) = [i \in DOMAIN members |-> View(k, members[i], 0)]
  BY <1>1 DEF Views, Related, Field
<1>6. row \in Nat
  <2>1. Lengthy(Table(kind))
    BY KindTable DEF Frozen
  <2> QED BY <2>1 DEF Lengthy
<1>7. Range(members) = ValuesOf(Edges(slot), row)
  BY <1>6, IndexRows
<1> HIDE DEF members
<1>8. {w.row : w \in Range([i \in DOMAIN members |-> View(k, members[i], 0)])} = Range(members)
  <2>1. \A i : View(k, members[i], 0).row = members[i]
    BY DEF View
  <2> QED BY <2>1 DEF Range
<1>9. (CHOOSE g \in DOMAIN Properties[Class[kind]] : Properties[Class[kind]][g].name = name) = place
  BY DEF NameAt
<1> QED BY <1>4, <1>5, <1>7, <1>8, <1>9 DEF Get, v

LEMMA ImageIndexes ==
  ASSUME Frozen, NEW x \in DOMAIN images
  PROVE  /\ Get(2, x, "occurrences") = ValuesOf(Edges(0), x)
         /\ Get(2, x, "findings") = ValuesOf(Edges(1), x)
         /\ Get(2, x, "packages") = ValuesOf(Edges(3), x)
         /\ Get(2, x, "vulnerable_packages") = ValuesOf(Edges(4), x)
         /\ Get(2, x, "noncompliant_packages") = ValuesOf(Edges(5), x)
         /\ Get(2, x, "vulnerabilities") = ValuesOf(Edges(6), x)
<1> DEFINE Name(f) == NameAt(2, f)
<1>1. DOMAIN Properties[Class[2]] = 1..11
  BY KindClass DEF Properties, ImageProperties
<1>2. /\ Name(1) = "requested" /\ Name(2) = "os" /\ Name(3) = "status"
      /\ Name(4) = "none" /\ Name(5) = "diagnostics" /\ Name(6) = "occurrences"
      /\ Name(7) = "findings" /\ Name(8) = "packages" /\ Name(9) = "vulnerable_packages"
      /\ Name(10) = "noncompliant_packages" /\ Name(11) = "vulnerabilities"
  BY KindClass DEF NameAt, Properties, ImageProperties, Is, Has, NoProperty
<1>3. /\ Fields[2][6] = Related(0, 6)
      /\ Fields[2][7] = Related(1, 7)
      /\ Fields[2][8] = Related(3, 3)
      /\ Fields[2][9] = Related(4, 3)
      /\ Fields[2][10] = Related(5, 3)
      /\ Fields[2][11] = Related(6, 4)
  BY KindFields DEF ImageFields
<1>4. x \in DOMAIN Table(2) /\ 2 \in 2..6
  BY KindTable
<1> HIDE DEF Name
<1>5. Get(2, x, "occurrences") = ValuesOf(Edges(0), x)
  <2>1. \A g \in 1..11 : Name(g) = "occurrences" => g = 6
    BY <1>2
  <2>2. 6 \in 1..11 /\ 0 \in 0..15 /\ Name(6) = "occurrences"
    BY <1>2
  <2> QED BY <1>1, <1>3, <1>4, <2>1, <2>2, GetIndex DEF Name
<1>6. Get(2, x, "findings") = ValuesOf(Edges(1), x)
  <2>1. \A g \in 1..11 : Name(g) = "findings" => g = 7
    BY <1>2
  <2>2. 7 \in 1..11 /\ 1 \in 0..15 /\ Name(7) = "findings"
    BY <1>2
  <2> QED BY <1>1, <1>3, <1>4, <2>1, <2>2, GetIndex DEF Name
<1>7. Get(2, x, "packages") = ValuesOf(Edges(3), x)
  <2>1. \A g \in 1..11 : Name(g) = "packages" => g = 8
    BY <1>2
  <2>2. 8 \in 1..11 /\ 3 \in 0..15 /\ Name(8) = "packages"
    BY <1>2
  <2> QED BY <1>1, <1>3, <1>4, <2>1, <2>2, GetIndex DEF Name
<1>8. Get(2, x, "vulnerable_packages") = ValuesOf(Edges(4), x)
  <2>1. \A g \in 1..11 : Name(g) = "vulnerable_packages" => g = 9
    BY <1>2
  <2>2. 9 \in 1..11 /\ 4 \in 0..15 /\ Name(9) = "vulnerable_packages"
    BY <1>2
  <2> QED BY <1>1, <1>3, <1>4, <2>1, <2>2, GetIndex DEF Name
<1>9. Get(2, x, "noncompliant_packages") = ValuesOf(Edges(5), x)
  <2>1. \A g \in 1..11 : Name(g) = "noncompliant_packages" => g = 10
    BY <1>2
  <2>2. 10 \in 1..11 /\ 5 \in 0..15 /\ Name(10) = "noncompliant_packages"
    BY <1>2
  <2> QED BY <1>1, <1>3, <1>4, <2>1, <2>2, GetIndex DEF Name
<1>10. Get(2, x, "vulnerabilities") = ValuesOf(Edges(6), x)
  <2>1. \A g \in 1..11 : Name(g) = "vulnerabilities" => g = 11
    BY <1>2
  <2>2. 11 \in 1..11 /\ 6 \in 0..15 /\ Name(11) = "vulnerabilities"
    BY <1>2
  <2> QED BY <1>1, <1>3, <1>4, <2>1, <2>2, GetIndex DEF Name
<1> QED BY <1>5, <1>6, <1>7, <1>8, <1>9, <1>10

LEMMA PackageIndexes ==
  ASSUME Frozen, NEW x \in DOMAIN packages
  PROVE  /\ Get(3, x, "present_images") = ValuesOf(Edges(7), x)
         /\ Get(3, x, "vulnerable_images") = ValuesOf(Edges(8), x)
         /\ Get(3, x, "noncompliant_images") = ValuesOf(Edges(9), x)
         /\ Get(3, x, "affected_images") = ValuesOf(Edges(10), x)
         /\ Get(3, x, "findings") = ValuesOf(Edges(15), x)
<1> DEFINE Name(f) == NameAt(3, f)
<1>1. DOMAIN Properties[Class[3]] = 1..11
  BY KindClass DEF Properties, PackageProperties
<1>2. /\ Name(1) = "name" /\ Name(2) = "version" /\ Name(3) = "ecosystem"
      /\ Name(4) = "commit" /\ Name(5) = "os_package_name" /\ Name(6) = "purl"
      /\ Name(7) = "present_images" /\ Name(8) = "vulnerable_images"
      /\ Name(9) = "noncompliant_images" /\ Name(10) = "affected_images"
      /\ Name(11) = "findings"
  BY KindClass DEF NameAt, Properties, PackageProperties, Is, Has, NoProperty
<1>3. /\ Fields[3][7] = Related(7, 2)
      /\ Fields[3][8] = Related(8, 2)
      /\ Fields[3][9] = Related(9, 2)
      /\ Fields[3][10] = Related(10, 2)
      /\ Fields[3][11] = Related(15, 7)
  BY KindFields DEF PackageFields, PackageSlots
<1>4. x \in DOMAIN Table(3) /\ 3 \in 2..6
  BY KindTable
<1> HIDE DEF Name
<1>5. Get(3, x, "present_images") = ValuesOf(Edges(7), x)
  <2>1. \A g \in 1..11 : Name(g) = "present_images" => g = 7
    BY <1>2
  <2>2. 7 \in 1..11 /\ 7 \in 0..15 /\ Name(7) = "present_images"
    BY <1>2
  <2> QED BY <1>1, <1>3, <1>4, <2>1, <2>2, GetIndex DEF Name
<1>6. Get(3, x, "vulnerable_images") = ValuesOf(Edges(8), x)
  <2>1. \A g \in 1..11 : Name(g) = "vulnerable_images" => g = 8
    BY <1>2
  <2>2. 8 \in 1..11 /\ 8 \in 0..15 /\ Name(8) = "vulnerable_images"
    BY <1>2
  <2> QED BY <1>1, <1>3, <1>4, <2>1, <2>2, GetIndex DEF Name
<1>7. Get(3, x, "noncompliant_images") = ValuesOf(Edges(9), x)
  <2>1. \A g \in 1..11 : Name(g) = "noncompliant_images" => g = 9
    BY <1>2
  <2>2. 9 \in 1..11 /\ 9 \in 0..15 /\ Name(9) = "noncompliant_images"
    BY <1>2
  <2> QED BY <1>1, <1>3, <1>4, <2>1, <2>2, GetIndex DEF Name
<1>8. Get(3, x, "affected_images") = ValuesOf(Edges(10), x)
  <2>1. \A g \in 1..11 : Name(g) = "affected_images" => g = 10
    BY <1>2
  <2>2. 10 \in 1..11 /\ 10 \in 0..15 /\ Name(10) = "affected_images"
    BY <1>2
  <2> QED BY <1>1, <1>3, <1>4, <2>1, <2>2, GetIndex DEF Name
<1>9. Get(3, x, "findings") = ValuesOf(Edges(15), x)
  <2>1. \A g \in 1..11 : Name(g) = "findings" => g = 11
    BY <1>2
  <2>2. 11 \in 1..11 /\ 15 \in 0..15 /\ Name(11) = "findings"
    BY <1>2
  <2> QED BY <1>1, <1>3, <1>4, <2>1, <2>2, GetIndex DEF Name
<1> QED BY <1>5, <1>6, <1>7, <1>8, <1>9

LEMMA VulnerabilityIndexes ==
  ASSUME Frozen, NEW x \in DOMAIN vulnerabilities
  PROVE  /\ Get(4, x, "affected_images") = ValuesOf(Edges(11), x)
         /\ Get(4, x, "findings") = ValuesOf(Edges(13), x)
<1> DEFINE Name(f) == NameAt(4, f)
<1>1. DOMAIN Properties[Class[4]] = 1..4
  BY KindClass DEF Properties, VulnerabilityProperties
<1>2. /\ Name(1) = "id" /\ Name(2) = "aliases" /\ Name(3) = "affected_images"
      /\ Name(4) = "findings"
  BY KindClass DEF NameAt, Properties, VulnerabilityProperties, Is, Has, NoProperty
<1>3. /\ Fields[4][3] = Related(11, 2)
      /\ Fields[4][4] = Related(13, 7)
  BY KindFields DEF VulnerabilityFields
<1>4. x \in DOMAIN Table(4) /\ 4 \in 2..6
  BY KindTable
<1> HIDE DEF Name
<1>5. Get(4, x, "affected_images") = ValuesOf(Edges(11), x)
  <2>1. \A g \in 1..4 : Name(g) = "affected_images" => g = 3
    BY <1>2
  <2>2. 3 \in 1..4 /\ 11 \in 0..15 /\ Name(3) = "affected_images"
    BY <1>2
  <2> QED BY <1>1, <1>3, <1>4, <2>1, <2>2, GetIndex DEF Name
<1>6. Get(4, x, "findings") = ValuesOf(Edges(13), x)
  <2>1. \A g \in 1..4 : Name(g) = "findings" => g = 4
    BY <1>2
  <2>2. 4 \in 1..4 /\ 13 \in 0..15 /\ Name(4) = "findings"
    BY <1>2
  <2> QED BY <1>1, <1>3, <1>4, <2>1, <2>2, GetIndex DEF Name
<1> QED BY <1>5, <1>6

LEMMA AdvisoryIndexes ==
  ASSUME Frozen, NEW x \in DOMAIN advisories
  PROVE  /\ Get(5, x, "affected_images") = ValuesOf(Edges(12), x)
         /\ Get(5, x, "findings") = ValuesOf(Edges(14), x)
<1> DEFINE Name(f) == NameAt(5, f)
<1>1. DOMAIN Properties[Class[5]] = 1..11
  BY KindClass DEF Properties, AdvisoryProperties
<1>2. /\ Name(1) = "id" /\ Name(2) = "aliases" /\ Name(3) = "summary"
      /\ Name(4) = "modified" /\ Name(5) = "published" /\ Name(6) = "withdrawn"
      /\ Name(7) = "database_severity" /\ Name(8) = "severities" /\ Name(9) = "references"
      /\ Name(10) = "affected_images" /\ Name(11) = "findings"
  BY KindClass DEF NameAt, Properties, AdvisoryProperties, Is, Has, NoProperty
<1>3. /\ Fields[5][10] = Related(12, 2)
      /\ Fields[5][11] = Related(14, 7)
  BY KindFields DEF AdvisoryFields
<1>4. x \in DOMAIN Table(5) /\ 5 \in 2..6
  BY KindTable
<1> HIDE DEF Name
<1>5. Get(5, x, "affected_images") = ValuesOf(Edges(12), x)
  <2>1. \A g \in 1..11 : Name(g) = "affected_images" => g = 10
    BY <1>2
  <2>2. 10 \in 1..11 /\ 12 \in 0..15 /\ Name(10) = "affected_images"
    BY <1>2
  <2> QED BY <1>1, <1>3, <1>4, <2>1, <2>2, GetIndex DEF Name
<1>6. Get(5, x, "findings") = ValuesOf(Edges(14), x)
  <2>1. \A g \in 1..11 : Name(g) = "findings" => g = 11
    BY <1>2
  <2>2. 11 \in 1..11 /\ 14 \in 0..15 /\ Name(11) = "findings"
    BY <1>2
  <2> QED BY <1>1, <1>3, <1>4, <2>1, <2>2, GetIndex DEF Name
<1> QED BY <1>5, <1>6

LEMMA OccurrenceIndexes ==
  ASSUME Frozen, NEW x \in DOMAIN occurrences
  PROVE  Get(6, x, "findings") = ValuesOf(Edges(2), x)
<1> DEFINE Name(f) == NameAt(6, f)
<1>1. DOMAIN Properties[Class[6]] = 1..5
  BY KindClass DEF Properties, OccurrenceProperties
<1>2. /\ Name(1) = "image" /\ Name(2) = "package" /\ Name(3) = "context"
      /\ Name(4) = "license_assessment" /\ Name(5) = "findings"
  BY KindClass DEF NameAt, Properties, OccurrenceProperties, Is, Has, NoProperty
<1>3. Fields[6][5] = Related(2, 7)
  BY KindFields DEF OccurrenceFields
<1>4. x \in DOMAIN Table(6) /\ 6 \in 2..6
  BY KindTable
<1> HIDE DEF Name
<1>5. Get(6, x, "findings") = ValuesOf(Edges(2), x)
  <2>1. \A g \in 1..5 : Name(g) = "findings" => g = 5
    BY <1>2
  <2>2. 5 \in 1..5 /\ 2 \in 0..15 /\ Name(5) = "findings"
    BY <1>2
  <2> QED BY <1>1, <1>3, <1>4, <2>1, <2>2, GetIndex DEF Name
<1> QED BY <1>5

\* The pairs that two columns make.
Pairs(rows, key, value) == {<<key[i], value[i]>> : i \in rows}

LEMMA PairValues ==
  ASSUME NEW S, NEW key, NEW val, NEW x, NEW y
  PROVE  y \in ValuesOf(Pairs(S, key, val), x) <=> \E i \in S : key[i] = x /\ val[i] = y
<1>1. ASSUME y \in ValuesOf(Pairs(S, key, val), x) PROVE \E i \in S : key[i] = x /\ val[i] = y
  <2>1. PICK e \in Pairs(S, key, val) : e[1] = x /\ e[2] = y
    BY <1>1 DEF ValuesOf
  <2>2. PICK i \in S : e = <<key[i], val[i]>>
    BY <2>1 DEF Pairs
  <2> QED BY <2>1, <2>2
<1>2. ASSUME NEW i \in S, key[i] = x, val[i] = y PROVE y \in ValuesOf(Pairs(S, key, val), x)
  <2>1. <<x, y>> \in Pairs(S, key, val) /\ <<x, y>>[1] = x /\ <<x, y>>[2] = y
    BY <1>2 DEF Pairs
  <2> QED BY <2>1 DEF ValuesOf
<1> QED BY <1>1, <1>2

\* The values of a key in each index.
LEMMA OccurrenceMembers ==
  ASSUME NEW x, NEW y
  PROVE  /\ y \in ValuesOf(Edges(0), x) <=>
              \E o \in DOMAIN occurrences : occurrences[o].image = x /\ o = y
         /\ y \in ValuesOf(Edges(3), x) <=>
              \E o \in DOMAIN occurrences : occurrences[o].image = x /\ occurrences[o].package = y
         /\ y \in ValuesOf(Edges(7), x) <=>
              \E o \in DOMAIN occurrences : occurrences[o].package = x /\ occurrences[o].image = y
<1> DEFINE image == [o \in DOMAIN occurrences |-> occurrences[o].image]
           pkg == [o \in DOMAIN occurrences |-> occurrences[o].package]
           row == [o \in DOMAIN occurrences |-> o]
<1>1. /\ Edges(0) = Pairs(DOMAIN occurrences, image, row)
      /\ Edges(3) = Pairs(DOMAIN occurrences, image, pkg)
      /\ Edges(7) = Pairs(DOMAIN occurrences, pkg, image)
  BY SlotEdges DEF Pairs
<1>2. \A o \in DOMAIN occurrences :
        /\ image[o] = occurrences[o].image
        /\ pkg[o] = occurrences[o].package
        /\ row[o] = o
  OBVIOUS
<1> HIDE DEF image, pkg, row
<1>3. /\ y \in ValuesOf(Edges(0), x) <=> \E o \in DOMAIN occurrences : image[o] = x /\ row[o] = y
      /\ y \in ValuesOf(Edges(3), x) <=> \E o \in DOMAIN occurrences : image[o] = x /\ pkg[o] = y
      /\ y \in ValuesOf(Edges(7), x) <=> \E o \in DOMAIN occurrences : pkg[o] = x /\ image[o] = y
  BY <1>1, PairValues
<1> QED BY <1>2, <1>3

LEMMA NoncompliantMembers ==
  ASSUME NEW x, NEW y
  PROVE  /\ y \in ValuesOf(Edges(5), x) <=>
              \E o \in NoncompliantRows : occurrences[o].image = x /\ occurrences[o].package = y
         /\ y \in ValuesOf(Edges(9), x) <=>
              \E o \in NoncompliantRows : occurrences[o].package = x /\ occurrences[o].image = y
<1> DEFINE image == [o \in NoncompliantRows |-> occurrences[o].image]
           pkg == [o \in NoncompliantRows |-> occurrences[o].package]
<1>1. /\ Edges(5) = Pairs(NoncompliantRows, image, pkg)
      /\ Edges(9) = Pairs(NoncompliantRows, pkg, image)
  BY SlotEdges DEF Pairs
<1>2. \A o \in NoncompliantRows :
        /\ image[o] = occurrences[o].image
        /\ pkg[o] = occurrences[o].package
  OBVIOUS
<1> HIDE DEF image, pkg
<1>3. /\ y \in ValuesOf(Edges(5), x) <=> \E o \in NoncompliantRows : image[o] = x /\ pkg[o] = y
      /\ y \in ValuesOf(Edges(9), x) <=> \E o \in NoncompliantRows : pkg[o] = x /\ image[o] = y
  BY <1>1, PairValues
<1> QED BY <1>2, <1>3

LEMMA FindingMembers ==
  ASSUME NEW x, NEW y
  PROVE  /\ y \in ValuesOf(Edges(1), x) <=>
              \E f \in DOMAIN findings : ImageOf(f) = x /\ f = y
         /\ y \in ValuesOf(Edges(2), x) <=>
              \E f \in DOMAIN findings : findings[f].occurrence = x /\ f = y
         /\ y \in ValuesOf(Edges(4), x) <=>
              \E f \in DOMAIN findings : ImageOf(f) = x /\ PackageOf(f) = y
         /\ y \in ValuesOf(Edges(6), x) <=>
              \E f \in DOMAIN findings : ImageOf(f) = x /\ VulnerabilityOf(f) = y
         /\ y \in ValuesOf(Edges(8), x) <=>
              \E f \in DOMAIN findings : PackageOf(f) = x /\ ImageOf(f) = y
         /\ y \in ValuesOf(Edges(11), x) <=>
              \E f \in DOMAIN findings : VulnerabilityOf(f) = x /\ ImageOf(f) = y
         /\ y \in ValuesOf(Edges(12), x) <=>
              \E f \in DOMAIN findings : findings[f].advisory = x /\ ImageOf(f) = y
         /\ y \in ValuesOf(Edges(13), x) <=>
              \E f \in DOMAIN findings : VulnerabilityOf(f) = x /\ f = y
         /\ y \in ValuesOf(Edges(14), x) <=>
              \E f \in DOMAIN findings : findings[f].advisory = x /\ f = y
         /\ y \in ValuesOf(Edges(15), x) <=>
              \E f \in DOMAIN findings : PackageOf(f) = x /\ f = y
<1> DEFINE image == [f \in DOMAIN findings |-> ImageOf(f)]
           pkg == [f \in DOMAIN findings |-> PackageOf(f)]
           vulnerability == [f \in DOMAIN findings |-> VulnerabilityOf(f)]
           advisory == [f \in DOMAIN findings |-> findings[f].advisory]
           occurrence == [f \in DOMAIN findings |-> findings[f].occurrence]
           row == [f \in DOMAIN findings |-> f]
<1>1. /\ Edges(1) = Pairs(DOMAIN findings, image, row)
      /\ Edges(2) = Pairs(DOMAIN findings, occurrence, row)
      /\ Edges(4) = Pairs(DOMAIN findings, image, pkg)
      /\ Edges(6) = Pairs(DOMAIN findings, image, vulnerability)
      /\ Edges(8) = Pairs(DOMAIN findings, pkg, image)
      /\ Edges(11) = Pairs(DOMAIN findings, vulnerability, image)
      /\ Edges(12) = Pairs(DOMAIN findings, advisory, image)
      /\ Edges(13) = Pairs(DOMAIN findings, vulnerability, row)
      /\ Edges(14) = Pairs(DOMAIN findings, advisory, row)
      /\ Edges(15) = Pairs(DOMAIN findings, pkg, row)
  BY SlotEdges DEF Pairs
<1>2. \A f \in DOMAIN findings :
        /\ image[f] = ImageOf(f)
        /\ pkg[f] = PackageOf(f)
        /\ vulnerability[f] = VulnerabilityOf(f)
        /\ advisory[f] = findings[f].advisory
        /\ occurrence[f] = findings[f].occurrence
        /\ row[f] = f
  OBVIOUS
<1> HIDE DEF image, pkg, vulnerability, advisory, occurrence, row
<1>3. /\ y \in ValuesOf(Edges(1), x) <=> \E f \in DOMAIN findings : image[f] = x /\ row[f] = y
      /\ y \in ValuesOf(Edges(2), x) <=> \E f \in DOMAIN findings : occurrence[f] = x /\ row[f] = y
      /\ y \in ValuesOf(Edges(4), x) <=> \E f \in DOMAIN findings : image[f] = x /\ pkg[f] = y
      /\ y \in ValuesOf(Edges(6), x) <=> \E f \in DOMAIN findings : image[f] = x /\ vulnerability[f] = y
      /\ y \in ValuesOf(Edges(8), x) <=> \E f \in DOMAIN findings : pkg[f] = x /\ image[f] = y
      /\ y \in ValuesOf(Edges(11), x) <=> \E f \in DOMAIN findings : vulnerability[f] = x /\ image[f] = y
      /\ y \in ValuesOf(Edges(12), x) <=> \E f \in DOMAIN findings : advisory[f] = x /\ image[f] = y
      /\ y \in ValuesOf(Edges(13), x) <=> \E f \in DOMAIN findings : vulnerability[f] = x /\ row[f] = y
      /\ y \in ValuesOf(Edges(14), x) <=> \E f \in DOMAIN findings : advisory[f] = x /\ row[f] = y
      /\ y \in ValuesOf(Edges(15), x) <=> \E f \in DOMAIN findings : pkg[f] = x /\ row[f] = y
  BY <1>1, PairValues
<1> QED BY <1>2, <1>3

LEMMA AffectedValues ==
  ASSUME NEW x
  PROVE  ValuesOf(Edges(10), x) = ValuesOf(Edges(8), x) \cup ValuesOf(Edges(9), x)
<1>1. Edges(10) = Edges(8) \cup Edges(9)
  BY SlotEdges
<1>2. \A E, F : ValuesOf(E \cup F, x) = ValuesOf(E, x) \cup ValuesOf(F, x)
  BY DEF ValuesOf
<1> QED BY <1>1, <1>2

LEMMA FrozenAgree == Frozen => ViewsAgree
<1> SUFFICES ASSUME Frozen
             PROVE  /\ Converse(2, "packages", 3, "present_images")
                    /\ Converse(2, "vulnerable_packages", 3, "vulnerable_images")
                    /\ Converse(2, "noncompliant_packages", 3, "noncompliant_images")
                    /\ Converse(2, "vulnerabilities", 4, "affected_images")
                    /\ \A p \in DOMAIN packages :
                         Get(3, p, "affected_images")
                           = Get(3, p, "vulnerable_images") \cup Get(3, p, "noncompliant_images")
                    /\ \A v \in DOMAIN vulnerabilities :
                         Get(4, v, "affected_images")
                           = UNION {Get(5, a, "affected_images") :
                                      a \in {a \in DOMAIN advisories : vulnerabilityOf[a] = v}}
                    /\ Back(2, [f \in DOMAIN findings |-> ImageOf(f)])
                    /\ Back(3, [f \in DOMAIN findings |-> PackageOf(f)])
                    /\ Back(4, [f \in DOMAIN findings |-> VulnerabilityOf(f)])
                    /\ Back(5, [f \in DOMAIN findings |-> findings[f].advisory])
                    /\ Back(6, [f \in DOMAIN findings |-> findings[f].occurrence])
                    /\ \A i \in DOMAIN images :
                         Get(2, i, "occurrences")
                           = {o \in DOMAIN occurrences : occurrences[o].image = i}
  BY DEF ViewsAgree
<1>1. /\ Table(2) = images /\ Table(3) = packages /\ Table(4) = vulnerabilities
      /\ Table(5) = advisories /\ Table(6) = occurrences
  BY KindTable
<1>2. Converse(2, "packages", 3, "present_images")
  BY <1>1, ImageIndexes, PackageIndexes, OccurrenceMembers DEF Converse
<1>3. Converse(2, "vulnerable_packages", 3, "vulnerable_images")
  BY <1>1, ImageIndexes, PackageIndexes, FindingMembers DEF Converse
<1>4. Converse(2, "noncompliant_packages", 3, "noncompliant_images")
  BY <1>1, ImageIndexes, PackageIndexes, NoncompliantMembers DEF Converse
<1>5. Converse(2, "vulnerabilities", 4, "affected_images")
  BY <1>1, ImageIndexes, VulnerabilityIndexes, FindingMembers DEF Converse
<1>6. \A p \in DOMAIN packages :
        Get(3, p, "affected_images")
          = Get(3, p, "vulnerable_images") \cup Get(3, p, "noncompliant_images")
  BY PackageIndexes, AffectedValues
<1>7. ASSUME NEW v \in DOMAIN vulnerabilities
      PROVE  Get(4, v, "affected_images")
               = UNION {Get(5, a, "affected_images") :
                          a \in {a \in DOMAIN advisories : vulnerabilityOf[a] = v}}
  <2> DEFINE A == {a \in DOMAIN advisories : vulnerabilityOf[a] = v}
  <2>1. \A y : y \in Get(4, v, "affected_images") <=>
                 \E f \in DOMAIN findings : VulnerabilityOf(f) = v /\ ImageOf(f) = y
    BY VulnerabilityIndexes, FindingMembers
  <2>2. \A a \in DOMAIN advisories : \A y :
          y \in Get(5, a, "affected_images") <=>
            \E f \in DOMAIN findings : findings[f].advisory = a /\ ImageOf(f) = y
    BY AdvisoryIndexes, FindingMembers
  <2>3. \A f \in DOMAIN findings : VulnerabilityOf(f) = v <=> findings[f].advisory \in A
    BY DEF VulnerabilityOf, Frozen
  <2>4. \A y : y \in UNION {Get(5, a, "affected_images") : a \in A} <=>
                 \E a \in A : y \in Get(5, a, "affected_images")
    BY Zenon
  <2>5. A \subseteq DOMAIN advisories
    OBVIOUS
  <2> HIDE DEF A
  <2>6. \A y : (\E a \in A : y \in Get(5, a, "affected_images")) <=>
                 \E f \in DOMAIN findings : VulnerabilityOf(f) = v /\ ImageOf(f) = y
    BY <2>2, <2>3, <2>5
  <2>7. Get(4, v, "affected_images") = UNION {Get(5, a, "affected_images") : a \in A}
    BY <2>1, <2>4, <2>6
  <2> QED BY <2>7 DEF A
<1>8. Back(2, [f \in DOMAIN findings |-> ImageOf(f)])
  BY <1>1, ImageIndexes, FindingMembers DEF Back
<1>9. Back(3, [f \in DOMAIN findings |-> PackageOf(f)])
  BY <1>1, PackageIndexes, FindingMembers DEF Back
<1>10. Back(4, [f \in DOMAIN findings |-> VulnerabilityOf(f)])
  BY <1>1, VulnerabilityIndexes, FindingMembers DEF Back
<1>11. Back(5, [f \in DOMAIN findings |-> findings[f].advisory])
  BY <1>1, AdvisoryIndexes, FindingMembers DEF Back
<1>12. Back(6, [f \in DOMAIN findings |-> findings[f].occurrence])
  BY <1>1, OccurrenceIndexes, FindingMembers DEF Back
<1>13. \A i \in DOMAIN images :
         Get(2, i, "occurrences") = {o \in DOMAIN occurrences : occurrences[o].image = i}
  BY ImageIndexes, OccurrenceMembers
<1> QED BY <1>2, <1>3, <1>4, <1>5, <1>6, <1>7, <1>8, <1>9, <1>10, <1>11, <1>12, <1>13

\* In every report that the builder can end with, the two directions of a relationship
\* that different slots answer are inverse, and the findings of a row are those whose
\* own row leads back to it (go/indexes.go: the edges of the slots, go/abi.go).
THEOREM ViewsAlwaysAgree == Spec => []ViewsAgree
<1>1. Init => ReportInv /\ Grouped /\ RowOrder
  BY InitReport DEF Init, Grouped, RowOrder
<1>2. (ReportInv /\ Grouped /\ RowOrder) /\ [Next]_vars => (ReportInv /\ Grouped /\ RowOrder)'
  BY ReportStep, GroupedStep, RowOrderStep
<1>3. ReportInv /\ Grouped /\ RowOrder => ViewsAgree
  <2>1. pc # "finished" => ViewsAgree
    BY DEF ViewsAgree
  <2> QED BY <2>1, InvFrozen, FrozenAgree
<1> QED BY <1>1, <1>2, <1>3, PTL DEF Spec

(***************************************************************************)
(* The evidence for fixes (FixEvidence)                                    *)
(*                                                                         *)
(* The invariant says of each local of packageFixes what the visited       *)
(* entries, ranges and events make of it, in the words of the code;        *)
(* MatchesRelease turns the comparison of ecosystems by record into the    *)
(* one by system, release and channels that the property speaks of.        *)
(***************************************************************************)
SameRelease(a, b) ==
  /\ a.system = b.system /\ a.release = b.release
  /\ a.system = "Ubuntu" \/ a.channels = b.channels

Names == {package.name} \cup ({package.osName} \ {Unnamed})

About == {e \in entries : e.name \in Names /\ SameRelease(e.ecosystem, package.ecosystem)}

\* Two ecosystems are equal for the code, which drops the channels of Ubuntu's names,
\* if they are the same release.
LEMMA MatchesRelease ==
  ASSUME package \in FixPackage, NEW e \in Entry
  PROVE  Matches(e) <=> e.name \in Names /\ SameRelease(e.ecosystem, package.ecosystem)
<1>1. /\ e.ecosystem = [system |-> e.ecosystem.system, release |-> e.ecosystem.release,
                        channels |-> e.ecosystem.channels]
      /\ package.ecosystem = [system |-> package.ecosystem.system,
                              release |-> package.ecosystem.release,
                              channels |-> package.ecosystem.channels]
  BY FixAssumption
<1>2. \A s, t, r, u, c, d :
        ecosystem([system |-> s, release |-> r, channels |-> c])
            = ecosystem([system |-> t, release |-> u, channels |-> d])
          <=> s = t /\ r = u /\ (s = "Ubuntu" \/ c = d)
  <2> DEFINE Parts(s, r, c) == [system |-> s, release |-> r, channels |-> c]
  <2>1. \A s, r, c : ecosystem(Parts(s, r, c)) = Parts(s, r, IF s = "Ubuntu" THEN {} ELSE c)
    BY DEF ecosystem
  <2>2. \A s, r, c : /\ Parts(s, r, c).system = s /\ Parts(s, r, c).release = r
                     /\ Parts(s, r, c).channels = c
    OBVIOUS
  <2> HIDE DEF Parts
  <2>3. \A s, t, r, u, c, d :
          ecosystem(Parts(s, r, c)) = ecosystem(Parts(t, u, d))
            <=> s = t /\ r = u /\ (s = "Ubuntu" \/ c = d)
    BY <2>1, <2>2
  <2> QED BY <2>3 DEF Parts
<1>3. ecosystem(e.ecosystem) = ecosystem(package.ecosystem)
        <=> SameRelease(e.ecosystem, package.ecosystem)
  BY <1>1, <1>2 DEF SameRelease
<1>4. e.name \in Names
        <=> e.name = package.name \/ (package.osName # Unnamed /\ e.name = package.osName)
  BY DEF Names
<1> QED BY <1>3, <1>4 DEF Matches

-----------------------------------------------------------------------------
\* A fix that is evidence: not surely one that is installed already.
Evidence(fix) == fix # 0 /\ ~(Comparable(fix) /\ installed >= fix)

FixInv ==
  /\ package \in FixPackage /\ installed \in Version \cup Odd
  /\ loop \in {"affected", "ranges", "events", "done"}
  /\ matched \in BOOLEAN /\ unknown \in BOOLEAN
  /\ entries \subseteq Entry /\ seenFixes \subseteq Fix
  /\ matched = TRUE <=> About # {}
  /\ severities = UNION {e.severities : e \in About}
  /\ urgencies = UNION {e.urgencies : e \in About}
  /\ versions = {fix \in seenFixes : Evidence(fix)}
  /\ unknown = TRUE
       <=> ~(types \subseteq Ordered) \/ \E fix \in versions : ~Comparable(fix)
  /\ status = IF loop # "done" THEN "no_reported_fix"
              ELSE IF ~matched \/ unknown THEN "unknown"
              ELSE IF versions # {} THEN "reported" ELSE "no_reported_fix"

LEMMA FixStarts == FixInit => FixInv
  BY DEF FixInit, FixInv, About, Evidence

LEMMA FixStep == FixInv /\ [FixNext]_fixVars => FixInv'
<1> SUFFICES ASSUME FixInv, [FixNext]_fixVars PROVE FixInv'
  OBVIOUS
<1> USE DEF FixInv
<1>1. ASSUME NEW e \in Entry, Affected(e) PROVE FixInv'
  <2>1. /\ UNCHANGED <<input, type, unknown, versions, status, types, seenFixes>>
        /\ entries' = entries \cup {e} /\ loop = "affected"
    BY <1>1 DEF Affected
  <2>2. package' = package /\ installed' = installed
    BY <2>1 DEF input
  <2>3. About' = IF Matches(e) THEN About \cup {e} ELSE About
    BY <2>1, <2>2, MatchesRelease DEF About, Names
  <2>4. IF Matches(e)
        THEN /\ matched' = TRUE /\ loop' = "ranges"
             /\ severities' = severities \cup e.severities
             /\ urgencies' = urgencies \cup e.urgencies
        ELSE UNCHANGED <<matched, loop, severities, urgencies>>
    BY <1>1 DEF Affected
  <2>5. \A S : UNION {x.severities : x \in S \cup {e}}
                = (UNION {x.severities : x \in S}) \cup e.severities
    OBVIOUS
  <2>6. \A S : UNION {x.urgencies : x \in S \cup {e}}
                = (UNION {x.urgencies : x \in S}) \cup e.urgencies
    OBVIOUS
  <2>7. /\ severities' = UNION {x.severities : x \in About'}
        /\ urgencies' = UNION {x.urgencies : x \in About'}
        /\ matched' \in BOOLEAN /\ (matched' = TRUE <=> About' # {})
    <3>1. CASE Matches(e)
      BY <3>1, <2>3, <2>4, <2>5, <2>6
    <3>2. CASE ~Matches(e)
      BY <3>2, <2>3, <2>4
    <3> QED BY <3>1, <3>2
  <2> QED BY <2>1, <2>2, <2>4, <2>7 DEF Evidence, Comparable
<1>2. ASSUME NEW t \in RangeType, VersionRange(t) PROVE FixInv'
  <2>1. /\ UNCHANGED <<input, matched, versions, severities, urgencies, status, entries,
                     seenFixes>>
        /\ unknown' = (unknown \/ t \notin Ordered) /\ types' = types \cup {t}
        /\ loop = "ranges" /\ loop' \in {"ranges", "events"}
    BY <1>2 DEF VersionRange, RangeUnless
  <2> QED BY <2>1 DEF input, About, Names, Evidence, Comparable
<1>3. ASSUME NEW fix \in Fix, Event(fix) PROVE FixInv'
  <2>1. /\ UNCHANGED <<input, loop, type, matched, severities, urgencies, status, entries,
                     types>>
        /\ seenFixes' = seenFixes \cup {fix} /\ loop = "events"
        /\ IF Evidence(fix)
           THEN versions' = versions \cup {fix} /\ unknown' = (unknown \/ ~Comparable(fix))
           ELSE UNCHANGED <<unknown, versions>>
    BY <1>3 DEF Event, Evidence
  <2>2. \A v : (Evidence(v)' <=> Evidence(v)) /\ (Comparable(v)' <=> Comparable(v))
    BY <2>1 DEF input, Evidence, Comparable
  <2>3. About' = About
    BY <2>1 DEF input, About, Names
  <2>4. versions' = {v \in seenFixes' : Evidence(v)'}
    BY <2>1, <2>2
  <2>5. unknown' \in BOOLEAN
        /\ (unknown' = TRUE <=>
              ~(types \subseteq Ordered) \/ \E v \in versions' : ~Comparable(v))
    <3>1. CASE Evidence(fix)
      BY <2>1, <3>1
    <3>2. CASE ~Evidence(fix)
      BY <2>1, <3>2
    <3> QED BY <3>1, <3>2
  <2> QED BY <2>1, <2>2, <2>3, <2>4, <2>5 DEF input
<1>4. CASE EndRanges \/ EndEvents
  <2>1. /\ UNCHANGED <<input, type, found, history>>
        /\ loop # "done" /\ loop' \in {"affected", "ranges"}
    BY <1>4 DEF EndRanges, EndEvents
  <2> QED BY <2>1 DEF input, found, history, About, Names, Evidence,
                      Comparable
<1>5. CASE Status
  <2>1. /\ UNCHANGED <<input, type, matched, unknown, versions, severities, urgencies,
                     history>>
        /\ status' = (IF ~matched \/ unknown THEN "unknown"
                      ELSE IF versions # {} THEN "reported" ELSE status)
        /\ loop = "affected" /\ loop' = "done"
    BY <1>5 DEF Status
  <2> QED BY <2>1 DEF input, history, About, Names, Evidence, Comparable
<1>6. CASE UNCHANGED fixVars
  BY <1>6 DEF fixVars, input, found, history, About, Names, Evidence,
              Comparable
<1> QED BY <1>1, <1>2, <1>3, <1>4, <1>5, <1>6 DEF FixNext, FixStopped

\* Whatever entries, ranges and events an advisory has, the versions, severities and
\* urgencies that packageFixes returns are those that concern the package and are not
\* surely too old, and its status claims no fix, and no absence of one, that they do
\* not show (go/report.go 156 to 250).
THEOREM FixesAreEvidence == FixSpec => []EvidenceIsExact
<1>1. FixInv => EvidenceIsExact
  <2> SUFFICES ASSUME FixInv, loop = "done" PROVE EvidenceIsExact
    BY DEF EvidenceIsExact
  <2>1. versions = {fix \in seenFixes \ {0} : {installed, fix} \subseteq Version => fix > installed}
    <3>1. installed \in Nat /\ \A fix \in seenFixes : fix \in Nat
      BY FixAssumption DEF FixInv, Fix
    <3>2. \A fix \in seenFixes :
            Evidence(fix) <=> fix # 0 /\ ({installed, fix} \subseteq Version => fix > installed)
      BY <3>1 DEF Evidence, Comparable
    <3> QED BY <3>2 DEF FixInv
  <2>2. status = "reported" =>
          /\ About # {} /\ types \subseteq Ordered
          /\ versions # {} /\ installed \in Version
          /\ \A fix \in versions : fix \in Version /\ fix > installed
    BY <2>1 DEF FixInv, Comparable
  <2>3. status = "no_reported_fix" => About # {} /\ versions = {} /\ types \subseteq Ordered
    BY DEF FixInv
  <2> QED BY <2>1, <2>2, <2>3 DEF EvidenceIsExact, FixInv, About, Names, SameRelease
<1>2. FixInv /\ [FixNext]_fixVars => FixInv'
  BY FixStep
<1> QED BY <1>1, <1>2, FixStarts, PTL DEF FixSpec
=============================================================================
