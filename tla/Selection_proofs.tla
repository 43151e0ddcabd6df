-------------------------- MODULE Selection_proofs --------------------------
(***************************************************************************)
(* What the proofs of several modules need to know of lists, of folds and  *)
(* of the natural numbers.                                                 *)
(***************************************************************************)
EXTENDS Selection, SequencesExt, WellFoundedInduction, FiniteSetTheorems, TLAPS

-----------------------------------------------------------------------------
(* A set of natural numbers that is not empty has a least element. *)
Less == {p \in Nat \X Nat : p[1] < p[2]}

(* "Less than" on the natural numbers has no infinite descent. *)
LEMMA LessIsWellFounded == IsWellFoundedOn(Less, Nat)
<1>1. Less = OpToRel(<, Nat)
  BY DEF OpToRel, Less
<1>2. QED
  BY <1>1, NatLessThanWellFounded, Zenon

(* The least element. *)
LEMMA LeastNatural ==
  ASSUME NEW T \in SUBSET Nat, T # {}
  PROVE  \E m \in T : \A k \in T : m <= k
<1>1. PICK x \in T : \A y \in T : ~ (<<y, x>> \in Less)
  BY LessIsWellFounded, WFMin
<1>2. \A y \in T : ~ (y < x)
  BY <1>1 DEF Less
<1>3. \A y \in T : y \in Int /\ x \in Int
  OBVIOUS
<1>4. QED
  BY <1>2, <1>3

(* What holds of 0, and of each number if of the one before, holds of all. *)
LEMMA CountingUp ==
  ASSUME NEW N \in Nat, NEW Q, 0 \in Q, \A n \in 1 .. N : n - 1 \in Q => n \in Q
  PROVE  \A n \in 0 .. N : n \in Q
<1> SUFFICES ASSUME (0 .. N) \ Q # {} PROVE FALSE
  OBVIOUS
<1>0. PICK T : T = (0 .. N) \ Q
  OBVIOUS
<1>1. T \in SUBSET Nat /\ T # {} /\ T = (0 .. N) \ Q
  BY <1>0
<1>2. PICK m \in T : \A k \in T : m <= k
  BY <1>1, LeastNatural
<1>3. m \in 1 .. N /\ m - 1 \in 0 .. N /\ m - 1 \notin T
  BY <1>1, <1>2
<1> QED
  BY <1>1, <1>2, <1>3

(* A set of numbers none of which exceeds some number has a greatest one.  *)
LEMMA GreatestNumber ==
  ASSUME NEW N \in Nat, NEW s \in SUBSET (1 .. N), s # {}
  PROVE  \E m \in s : \A k \in s : m >= k
<1>0. PICK T : T = {n \in 0 .. N : N - n \in s}
  OBVIOUS
<1>1. T \in SUBSET Nat /\ T = {n \in 0 .. N : N - n \in s}
  BY <1>0
<1>2. T # {}
  <2>1. PICK k \in s : TRUE
    OBVIOUS
  <2>2. N - k \in 0 .. N /\ N - (N - k) = k
    BY <2>1
  <2> QED
    BY <1>1, <2>2
<1>3. PICK m \in T : \A k \in T : m <= k
  BY <1>1, <1>2, LeastNatural
<1>4. N - m \in s /\ m \in 0 .. N
  BY <1>1, <1>3
<1>5. ASSUME NEW k \in s PROVE N - m >= k
  <2>1. k \in 1 .. N /\ N - k \in 0 .. N /\ N - (N - k) = k
    OBVIOUS
  <2>2. N - k \in T
    BY <1>1, <2>1
  <2> QED
    BY <1>3, <1>4, <2>1, <2>2
<1> QED
  BY <1>4, <1>5

-----------------------------------------------------------------------------
(* Selection: what is in order, and the entries at some places            *)

(* A strict total order of a set. *)
IsOrderOf(before, S) ==
  /\ \A m \in S : <<m, m>> \notin before
  /\ \A m, n \in S : m # n => <<m, n>> \in before \/ <<n, m>> \in before
  /\ \A l, m, n \in S : <<l, m>> \in before /\ <<m, n>> \in before => <<l, n>> \in before

(* What comes before is of lower rank, and a rank is a place in the list. *)
LEMMA RankIsPlace ==
  ASSUME NEW S, NEW before, IsFiniteSet(S), IsOrderOf(before, S)
  PROVE  /\ \A n \in S : Rank(n, S, before) \in 1 .. Cardinality(S)
         /\ \A m, n \in S : <<m, n>> \in before => Rank(m, S, before) < Rank(n, S, before)
<1> DEFINE Upto(n) == {m \in S : m = n \/ <<m, n>> \in before}
<1>1. \A n \in S : /\ IsFiniteSet(Upto(n)) /\ Cardinality(Upto(n)) \in Nat
                   /\ Cardinality(Upto(n)) <= Cardinality(S)
  <2> TAKE n \in S
  <2>1. Upto(n) \in SUBSET S
    OBVIOUS
  <2>2. QED
    BY <2>1, FS_Subset, FS_CardinalityType
<1>2. Cardinality(S) \in Nat
  BY FS_CardinalityType
<1>3. \A n \in S : Cardinality(Upto(n)) # 0
  <2> TAKE n \in S
  <2>1. n \in Upto(n)
    OBVIOUS
  <2>2. QED
    BY <2>1, <1>1, FS_EmptySet
<1>4. ASSUME NEW m \in S, NEW n \in S, <<m, n>> \in before
      PROVE  Cardinality(Upto(m)) < Cardinality(Upto(n))
  <2>1. Upto(m) \in SUBSET Upto(n)
    BY <1>4 DEF IsOrderOf
  <2>2. n \in Upto(n) /\ n \notin Upto(m)
    BY <1>4 DEF IsOrderOf
  <2>3. Upto(m) # Upto(n)
    BY <2>2
  <2>4. Cardinality(Upto(m)) <= Cardinality(Upto(n))
        /\ Cardinality(Upto(m)) # Cardinality(Upto(n))
    BY <2>1, <2>3, <1>1, FS_Subset
  <2>5. QED
    BY <2>4, <1>1
<1>5. \A n \in S : Cardinality(Upto(n)) \in 1 .. Cardinality(S)
  BY <1>1, <1>2, <1>3
<1>6. QED
  BY <1>4, <1>5, Zenon DEF Rank

(* The entries of a sorted list are in their ranks, and no two share one.  *)
LEMMA SortedByRank ==
  ASSUME NEW S, NEW before, IsFiniteSet(S), IsOrderOf(before, S)
  PROVE  /\ \A k \in 1 .. Cardinality(S) :
              Sorted(S, before)[k] \in S /\ Rank(Sorted(S, before)[k], S, before) = k
         /\ \A m, n \in S : Rank(m, S, before) = Rank(n, S, before) => m = n
<1> DEFINE N == Cardinality(S)
           rank == [n \in S |-> Rank(n, S, before)]
<1>0. N \in Nat
  BY FS_CardinalityType
<1>1. rank \in Injection(S, 1 .. N)
  <2>1. rank \in [S -> 1 .. N]
    BY RankIsPlace
  <2>2. ASSUME NEW m \in S, NEW n \in S, rank[m] = rank[n], m # n PROVE FALSE
    <3>1. <<m, n>> \in before \/ <<n, m>> \in before
      BY <2>2 DEF IsOrderOf
    <3>2. rank[m] < rank[n] \/ rank[n] < rank[m]
      BY <3>1, RankIsPlace
    <3>3. rank[m] \in Int /\ rank[n] \in Int
      BY <2>1
    <3>4. QED
      BY <3>2, <3>3, <2>2
  <2>3. QED
    BY <2>1, <2>2 DEF Injection, IsInjective
<1>2. IsFiniteSet(1 .. N) /\ Cardinality(1 .. N) = N
  BY <1>0, FS_Interval
<1>3. rank \in Surjection(S, 1 .. N)
  BY <1>1, <1>2, FS_Injection
<1>4. \A k \in 1 .. N : \E n \in S : Rank(n, S, before) = k
  BY <1>3 DEF Surjection
<1>5. \A k \in 1 .. N : Sorted(S, before)[k] \in S
                        /\ Rank(Sorted(S, before)[k], S, before) = k
  BY <1>4 DEF Sorted
<1>6. \A m, n \in S : Rank(m, S, before) = Rank(n, S, before) => m = n
  BY <1>1 DEF Injection, IsInjective
<1> QED
  BY <1>5, <1>6

(* sorted() lists each element once. *)
LEMMA SortedLists ==
  ASSUME NEW S, NEW before, IsFiniteSet(S), IsOrderOf(before, S)
  PROVE  /\ Sorted(S, before) \in [1 .. Cardinality(S) -> S]
         /\ \A n \in S : \E k \in 1 .. Cardinality(S) : Sorted(S, before)[k] = n
         /\ \A k, l \in 1 .. Cardinality(S) :
              Sorted(S, before)[k] = Sorted(S, before)[l] => k = l
<1> DEFINE N == Cardinality(S)
<1>1. \A n \in S : Rank(n, S, before) \in 1 .. N
  BY RankIsPlace
<1>2. Sorted(S, before) \in [1 .. N -> S]
  <2>1. Sorted(S, before) = [k \in 1 .. N |-> Sorted(S, before)[k]]
    BY DEF Sorted
  <2>2. QED
    BY <2>1, SortedByRank
<1>3. /\ \A k \in 1 .. N : Sorted(S, before)[k] \in S
                           /\ Rank(Sorted(S, before)[k], S, before) = k
      /\ \A m, n \in S : Rank(m, S, before) = Rank(n, S, before) => m = n
  BY SortedByRank
<1>4. QED
  BY <1>1, <1>2, <1>3

(* Sets that correspond, their orders too, have lists that correspond.     *)
LEMMA SortedAlike ==
  ASSUME NEW S, NEW T, IsFiniteSet(S), IsFiniteSet(T),
         NEW before, IsOrderOf(before, S), NEW ahead, IsOrderOf(ahead, T),
         NEW h \in Bijection(S, T),
         \A m, n \in S : <<m, n>> \in before <=> <<h[m], h[n]>> \in ahead
  PROVE  /\ Cardinality(T) = Cardinality(S)
         /\ \A k \in 1 .. Cardinality(S) : Sorted(T, ahead)[k] = h[Sorted(S, before)[k]]
<1>1. /\ h \in [S -> T]
      /\ \A m, n \in S : h[m] = h[n] => m = n
      /\ \A x \in T : \E m \in S : h[m] = x
  BY DEF Bijection, Injection, Surjection, IsInjective
<1>2. Cardinality(T) = Cardinality(S)
  BY FS_Bijection DEF ExistsBijection
<1>3. ASSUME NEW n \in S PROVE Rank(h[n], T, ahead) = Rank(n, S, before)
  <2>1. PICK P : P = {m \in S : m = n \/ <<m, n>> \in before}
    OBVIOUS
  <2>2. PICK Q : Q = {m \in T : m = h[n] \/ <<m, h[n]>> \in ahead}
    OBVIOUS
  <2>3. PICK g : g = [m \in P |-> h[m]]
    OBVIOUS
  <2>4. \A m \in P : g[m] \in Q
    BY <1>1, <2>1, <2>2, <2>3
  <2>5. \A m, l \in P : g[m] = g[l] => m = l
    BY <1>1, <2>1, <2>3
  <2>6. \A x \in Q : \E m \in P : g[m] = x
    BY <1>1, <2>1, <2>2, <2>3
  <2>7. g \in Bijection(P, Q)
    BY <2>3, <2>4, <2>5, <2>6 DEF Bijection, Injection, Surjection, IsInjective
  <2>8. IsFiniteSet(P)
    BY <2>1, FS_Subset
  <2>9. Cardinality(Q) = Cardinality(P)
    BY <2>7, <2>8, FS_Bijection DEF ExistsBijection
  <2> QED
    BY <2>1, <2>2, <2>9, Zenon DEF Rank
<1>4. ASSUME NEW k \in 1 .. Cardinality(S) PROVE Sorted(T, ahead)[k] = h[Sorted(S, before)[k]]
  <2>1. PICK n \in S : n = Sorted(S, before)[k] /\ Rank(n, S, before) = k
    BY SortedByRank
  <2>2. PICK x \in T : x = Sorted(T, ahead)[k] /\ Rank(x, T, ahead) = k
    BY <1>2, SortedByRank
  <2>3. h[n] \in T /\ Rank(h[n], T, ahead) = k
    BY <1>1, <1>3, <2>1
  <2>4. x = h[n]
    BY <2>2, <2>3, SortedByRank
  <2> QED
    BY <2>1, <2>2, <2>4
<1> QED
  BY <1>2, <1>4

(* A set of places is in the order of the numbers. *)
Ascending(S) == {p \in S \X S : p[1] < p[2]}

(* In that order a set of places is sorted. *)
LEMMA InOrderIsSorted ==
  ASSUME NEW S \in SUBSET Int
  PROVE  InOrder(S) = Sorted(S, Ascending(S))
<1>0. \A m, n \in S : m = n \/ <<m, n>> \in Ascending(S) <=> m <= n
  BY DEF Ascending
<1> HIDE DEF Ascending
<1>1. \A n \in S : {m \in S : m = n \/ <<m, n>> \in Ascending(S)} = {m \in S : m <= n}
  BY <1>0
<1>2. \A n \in S : Rank(n, S, Ascending(S)) = Cardinality({m \in S : m <= n})
  BY <1>1, Zenon DEF Rank
<1> DEFINE asked(k) == CHOOSE n \in S : Cardinality({m \in S : m <= n}) = k
           ranked(k) == CHOOSE n \in S : Rank(n, S, Ascending(S)) = k
<1>3. ASSUME NEW k PROVE asked(k) = ranked(k)
  BY <1>2, Zenon
<1>4. InOrder(S) = [k \in 1 .. Cardinality(S) |-> asked(k)]
  BY Zenon DEF InOrder
<1>5. Sorted(S, Ascending(S)) = [k \in 1 .. Cardinality(S) |-> ranked(k)]
  BY Zenon DEF Sorted
<1> HIDE DEF asked, ranked
<1> QED
  BY <1>3, <1>4, <1>5

(* Places are in their own order, each once. *)
LEMMA InOrderLists ==
  ASSUME NEW S \in SUBSET Int, IsFiniteSet(S)
  PROVE  /\ Cardinality(S) \in Nat
         /\ InOrder(S) \in [1 .. Cardinality(S) -> S]
         /\ InOrder(S) \in Seq(S) /\ DOMAIN InOrder(S) = 1 .. Cardinality(S)
         /\ \A n \in S : \E k \in 1 .. Cardinality(S) : InOrder(S)[k] = n
         /\ \A k, l \in 1 .. Cardinality(S) : InOrder(S)[k] = InOrder(S)[l] => k = l
<1>1. IsOrderOf(Ascending(S), S)
  BY DEF IsOrderOf, Ascending
<1>2. Cardinality(S) \in Nat
  BY FS_CardinalityType
<1>3. PICK list : list = InOrder(S) /\ list = Sorted(S, Ascending(S))
  BY InOrderIsSorted
<1>4. /\ list \in [1 .. Cardinality(S) -> S]
      /\ \A n \in S : \E k \in 1 .. Cardinality(S) : list[k] = n
      /\ \A k, l \in 1 .. Cardinality(S) : list[k] = list[l] => k = l
  BY <1>1, <1>3, SortedLists
<1>5. list \in Seq(S) /\ DOMAIN list = 1 .. Cardinality(S)
  BY <1>2, <1>4
<1> QED
  BY <1>2, <1>3, <1>4, <1>5

(* Some places of a sequence. *)
LEMMA PlacesList ==
  ASSUME NEW E, NEW s \in Seq(E), NEW P \in SUBSET DOMAIN s
  PROVE  /\ IsFiniteSet(P) /\ P \in SUBSET Int /\ Cardinality(P) \in Nat
         /\ InOrder(P) \in Seq(P) /\ DOMAIN InOrder(P) = 1 .. Cardinality(P)
         /\ \A n \in P : \E k \in 1 .. Cardinality(P) : InOrder(P)[k] = n
         /\ \A k, l \in 1 .. Cardinality(P) : InOrder(P)[k] = InOrder(P)[l] => k = l
<1>1. DOMAIN s = 1 .. Len(s) /\ Len(s) \in Nat
  OBVIOUS
<1>2. IsFiniteSet(1 .. Len(s))
  BY <1>1, FS_Interval
<1>3. IsFiniteSet(P) /\ P \in SUBSET Int
  BY <1>1, <1>2, FS_Subset
<1>4. QED
  BY <1>3, InOrderLists

(* The entries at some places of a sequence are these and no others. *)
LEMMA EntriesAtPlaces ==
  ASSUME NEW E, NEW s \in Seq(E), NEW P \in SUBSET DOMAIN s
  PROVE  /\ EntriesAt(s, P) \in Seq(E)
         /\ DOMAIN EntriesAt(s, P) = 1 .. Cardinality(P)
         /\ Len(EntriesAt(s, P)) = Cardinality(P)
         /\ \A k \in DOMAIN EntriesAt(s, P) : \E n \in P : EntriesAt(s, P)[k] = s[n]
         /\ \A n \in P : \E k \in DOMAIN EntriesAt(s, P) : EntriesAt(s, P)[k] = s[n]
<1>1. CASE P = DOMAIN s
  <2>1. EntriesAt(s, P) = s /\ P = 1 .. Len(s) /\ Len(s) \in Nat
    BY <1>1 DEF EntriesAt
  <2>2. Cardinality(P) = Len(s)
    <3>1. PICK n \in Nat : n = Len(s)
      BY <2>1
    <3>2. Cardinality(1 .. n) = n
      BY FS_Interval
    <3> QED
      BY <2>1, <3>1, <3>2
  <2> QED
    BY <2>1, <2>2
<1>2. CASE P # DOMAIN s
  <2>1. PICK order, n : order = InOrder(P) /\ n = Cardinality(P)
    OBVIOUS
  <2>2. n \in Nat /\ order \in [1 .. n -> P] /\ \A p \in P : \E k \in 1 .. n : order[k] = p
    BY <2>1, PlacesList
  <2>3. EntriesAt(s, P) = [k \in 1 .. n |-> s[order[k]]]
    BY <1>2, <2>1, Zenon DEF EntriesAt
  <2>4. \A p \in P : s[p] \in E
    OBVIOUS
  <2>5. EntriesAt(s, P) \in [1 .. n -> E]
    BY <2>2, <2>3, <2>4
  <2>6. EntriesAt(s, P) \in Seq(E) /\ Len(EntriesAt(s, P)) = n
    BY <2>2, <2>5
  <2>7. \A k \in 1 .. n : EntriesAt(s, P)[k] = s[order[k]] /\ order[k] \in P
    BY <2>2, <2>3
  <2> QED
    BY <2>1, <2>2, <2>5, <2>6, <2>7
<1> QED
  BY <1>1, <1>2

-----------------------------------------------------------------------------
(* Lists that an entry is added to or taken from, and counting in them     *)

(* A list without one of its entries. *)
LEMMA EntryRemoved ==
  ASSUME NEW E, NEW s \in Seq(E), NEW i \in DOMAIN s
  PROVE  /\ RemoveAt(s, i) \in Seq(E)
         /\ Len(RemoveAt(s, i)) = Len(s) - 1
         /\ DOMAIN RemoveAt(s, i) = 1 .. Len(s) - 1
         /\ \A k \in 1 .. Len(s) - 1 :
              RemoveAt(s, i)[k] = IF k < i THEN s[k] ELSE s[k + 1]
<1>1. i \in 1 .. Len(s) /\ Len(s) \in Nat
  OBVIOUS
<1>2. PICK head : head = SubSeq(s, 1, i - 1)
  OBVIOUS
<1>3. PICK tail : tail = SubSeq(s, i + 1, Len(s))
  OBVIOUS
<1>4. /\ head \in Seq(E) /\ Len(head) = i - 1
      /\ \A k \in 1 .. i - 1 : head[k] = s[k]
  BY <1>1, <1>2
<1>5. /\ tail \in Seq(E) /\ Len(tail) = Len(s) - i
      /\ \A k \in 1 .. Len(s) - i : tail[k] = s[k + i]
  BY <1>1, <1>3
<1>6. RemoveAt(s, i) = head \o tail
  BY <1>2, <1>3 DEF RemoveAt
<1>7. /\ head \o tail \in Seq(E) /\ Len(head \o tail) = Len(s) - 1
      /\ \A k \in 1 .. Len(s) - 1 :
           (head \o tail)[k] = IF k < i THEN s[k] ELSE s[k + 1]
  BY <1>1, <1>4, <1>5
<1> QED
  BY <1>6, <1>7

(* Where in a list the entries of a kind are. *)
PlacesOf(s, kind) == {k \in DOMAIN s : s[k] \in kind}

(* There are finitely many. *)
LEMMA PlacesAreFew ==
  ASSUME NEW E, NEW s \in Seq(E), NEW kind
  PROVE  /\ IsFiniteSet(PlacesOf(s, kind)) /\ Cardinality(PlacesOf(s, kind)) \in Nat
         /\ Cardinality(PlacesOf(s, kind)) <= Len(s)
<1>1. PICK n \in Nat : n = Len(s)
  OBVIOUS
<1>2. PlacesOf(s, kind) \in SUBSET (1 .. n)
  BY <1>1 DEF PlacesOf
<1>3. IsFiniteSet(1 .. n) /\ Cardinality(1 .. n) = n
  BY FS_Interval
<1> QED
  BY <1>1, <1>2, <1>3, FS_Subset, FS_CardinalityType

(* Without an entry there is one less of its kind, and as many of others.  *)
LEMMA OneLessOfKind ==
  ASSUME NEW E, NEW s \in Seq(E), NEW i \in DOMAIN s, NEW kind
  PROVE  Cardinality(PlacesOf(RemoveAt(s, i), kind)) =
           IF s[i] \in kind THEN Cardinality(PlacesOf(s, kind)) - 1
           ELSE Cardinality(PlacesOf(s, kind))
<1> DEFINE t == RemoveAt(s, i)
           A == PlacesOf(t, kind)
           B == PlacesOf(s, kind) \ {i}
           f == [k \in A |-> IF k < i THEN k ELSE k + 1]
<1>1. /\ t \in Seq(E) /\ DOMAIN t = 1 .. Len(s) - 1 /\ DOMAIN s = 1 .. Len(s)
      /\ i \in 1 .. Len(s) /\ Len(s) \in Nat
      /\ \A k \in 1 .. Len(s) - 1 : t[k] = IF k < i THEN s[k] ELSE s[k + 1]
  BY EntryRemoved
<1> HIDE DEF t
<1>2. f \in [A -> B]
  BY <1>1 DEF PlacesOf
<1>3. \A k, m \in A : f[k] = f[m] => k = m
  BY <1>1 DEF PlacesOf
<1>4. \A n \in B : \E k \in A : f[k] = n
  <2> TAKE n \in B
  <2>1. CASE n < i
    <3>1. n \in A /\ f[n] = n
      BY <1>1, <2>1 DEF PlacesOf
    <3> QED
      BY <3>1
  <2>2. CASE n > i
    <3>1. n - 1 \in A /\ f[n - 1] = n
      BY <1>1, <2>2 DEF PlacesOf
    <3> QED
      BY <3>1
  <2> QED
    BY <1>1, <2>1, <2>2 DEF PlacesOf
<1>5. f \in Bijection(A, B)
  <2>1. f \in Injection(A, B)
    BY <1>2, <1>3 DEF Injection, IsInjective
  <2>2. f \in Surjection(A, B)
    BY <1>2, <1>4 DEF Surjection
  <2> QED
    BY <2>1, <2>2 DEF Bijection
<1>6. IsFiniteSet(A) /\ IsFiniteSet(PlacesOf(s, kind))
  BY <1>1, PlacesAreFew
<1>7. Cardinality(A) = Cardinality(B)
  BY <1>5, <1>6, FS_Bijection DEF ExistsBijection
<1>8. Cardinality(B) = IF i \in PlacesOf(s, kind) THEN Cardinality(PlacesOf(s, kind)) - 1
                       ELSE Cardinality(PlacesOf(s, kind))
  BY <1>6, FS_RemoveElement
<1>9. i \in PlacesOf(s, kind) <=> s[i] \in kind
  BY DEF PlacesOf
<1> QED
  BY <1>7, <1>8, <1>9 DEF t

(* With an entry more there is one more of its kind. *)
LEMMA OneMoreOfKind ==
  ASSUME NEW E, NEW s \in Seq(E), NEW e \in E, NEW kind
  PROVE  Cardinality(PlacesOf(Append(s, e), kind)) =
           IF e \in kind THEN Cardinality(PlacesOf(s, kind)) + 1
           ELSE Cardinality(PlacesOf(s, kind))
<1>1. PICK n \in Nat : n = Len(s)
  OBVIOUS
<1>2. PICK t : t = Append(s, e)
  OBVIOUS
<1>3. /\ DOMAIN s = 1 .. n /\ DOMAIN t = 1 .. n + 1 /\ t[n + 1] = e
      /\ \A k \in 1 .. n : t[k] = s[k]
  BY <1>1, <1>2
<1>4. PlacesOf(t, kind) = IF e \in kind THEN PlacesOf(s, kind) \cup {n + 1}
                          ELSE PlacesOf(s, kind)
  BY <1>3 DEF PlacesOf
<1>5. n + 1 \notin PlacesOf(s, kind)
  BY <1>3 DEF PlacesOf
<1>6. Cardinality(PlacesOf(s, kind) \cup {n + 1}) = Cardinality(PlacesOf(s, kind)) + 1
  BY <1>5, PlacesAreFew, FS_AddElement
<1> QED
  BY <1>2, <1>4, <1>6

-----------------------------------------------------------------------------
(* Folds over a finite set *)

(* Folding by a step from some base, taking out one element at a time.     *)
IsFold(f, sets, base, pick, step) ==
  f = [s \in sets |-> IF s = {} THEN base ELSE step[<<pick[s], f[s \ {pick[s]}]>>]]

(* There is such a function. *)
LEMMA FoldExists ==
  ASSUME NEW S, IsFiniteSet(S), NEW V, NEW base \in V,
         NEW pick, \A s \in SUBSET S : s # {} => pick[s] \in s,
         NEW step \in [S \X V -> V]
  PROVE  \E f \in [SUBSET S -> V] : IsFold(f, SUBSET S, base, pick, step)
<1> DEFINE UpTo(n) == {s \in SUBSET S : Cardinality(s) <= n}
           Good(n) == \E f \in [UpTo(n) -> V] : IsFold(f, UpTo(n), base, pick, step)
<1>1. \A s \in SUBSET S : /\ IsFiniteSet(s) /\ Cardinality(s) \in Nat
                          /\ Cardinality(s) <= Cardinality(S)
                          /\ (s = {} <=> Cardinality(s) = 0)
  BY FS_Subset, FS_CardinalityType, FS_EmptySet
<1>2. \A s \in SUBSET S : s # {} =>
        /\ s \ {pick[s]} \in SUBSET S
        /\ Cardinality(s \ {pick[s]}) = Cardinality(s) - 1
  BY <1>1, FS_RemoveElement
<1>3. Good(0)
  <2> DEFINE f == [s \in UpTo(0) |-> base]
  <2>1. \A s \in UpTo(0) : s = {}
    BY <1>1
  <2>2. f \in [UpTo(0) -> V]
    OBVIOUS
  <2>3. f = [s \in UpTo(0) |-> IF s = {} THEN base ELSE step[<<pick[s], f[s \ {pick[s]}]>>]]
    BY <2>1
  <2>4. QED
    BY <2>2, <2>3 DEF IsFold
<1>4. ASSUME NEW n \in Nat, Good(n) PROVE Good(n + 1)
  <2>1. PICK f \in [UpTo(n) -> V] : IsFold(f, UpTo(n), base, pick, step)
    BY <1>4
  <2> DEFINE g == [s \in UpTo(n + 1) |->
                     IF s = {} THEN base ELSE step[<<pick[s], f[s \ {pick[s]}]>>]]
  <2>2. \A s \in UpTo(n + 1) : s # {} => s \ {pick[s]} \in UpTo(n) /\ pick[s] \in S
    BY <1>1, <1>2
  <2>3. UpTo(n) \subseteq UpTo(n + 1)
    BY <1>1
  <2>4. \A s \in UpTo(n) : g[s] = f[s]
    <3>1. \A s \in UpTo(n) :
            f[s] = IF s = {} THEN base ELSE step[<<pick[s], f[s \ {pick[s]}]>>]
      BY <2>1 DEF IsFold
    <3> QED
      BY <2>3, <3>1
  <2>5. g \in [UpTo(n + 1) -> V]
    <3>1. ASSUME NEW s \in UpTo(n + 1) PROVE g[s] \in V
      <4>1. CASE s = {}
        BY <4>1
      <4>2. CASE s # {}
        <5>1. f[s \ {pick[s]}] \in V /\ pick[s] \in S
          BY <2>2, <4>2
        <5>2. step[<<pick[s], f[s \ {pick[s]}]>>] \in V
          BY <5>1
        <5> QED
          BY <4>2, <5>2
      <4> QED
        BY <4>1, <4>2
    <3> QED
      BY <3>1
  <2>6. g = [s \in UpTo(n + 1) |->
               IF s = {} THEN base ELSE step[<<pick[s], g[s \ {pick[s]}]>>]]
    <3> HIDE DEF UpTo
    <3>1. \A s \in UpTo(n + 1) : s # {} => g[s \ {pick[s]}] = f[s \ {pick[s]}]
      BY <2>2, <2>4
    <3> QED
      BY <3>1
  <2> QED
    BY <2>5, <2>6 DEF IsFold
<1> HIDE DEF Good
<1>5. \A n \in Nat : Good(n)
  <2> SUFFICES ASSUME {n \in Nat : ~Good(n)} # {} PROVE FALSE
    OBVIOUS
  <2>1. PICK m \in {n \in Nat : ~Good(n)} : \A k \in {n \in Nat : ~Good(n)} : m <= k
    BY LeastNatural
  <2>2. m # 0
    BY <1>3
  <2>3. m - 1 \in Nat /\ Good(m - 1) /\ m = (m - 1) + 1
    BY <2>1, <2>2
  <2> QED
    BY <1>4, <2>1, <2>3
<1>6. UpTo(Cardinality(S)) = SUBSET S
  BY <1>1
<1> QED
  <2>1. Good(Cardinality(S))
    BY <1>5, FS_CardinalityType
  <2> HIDE DEF UpTo
  <2>2. PICK sets : sets = UpTo(Cardinality(S))
    OBVIOUS
  <2>3. \E f \in [sets -> V] : IsFold(f, sets, base, pick, step)
    BY <2>1, <2>2 DEF Good
  <2> QED
    BY <1>6, <2>2, <2>3
=============================================================================
