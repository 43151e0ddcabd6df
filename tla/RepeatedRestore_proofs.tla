----------------------- MODULE RepeatedRestore_proofs -----------------------
(***************************************************************************)
(* Proofs about WindowMatching, for every score there could be: of the     *)
(* title similarity nothing is used but that it is a function; about the   *)
(* restores that act on it, for every number of windows and restores; and  *)
(* about plans of one desktop stacked otherwise, which do depend on the    *)
(* titles.                                                                 *)
(***************************************************************************)
EXTENDS RepeatedRestore, Selection_proofs

-----------------------------------------------------------------------------
(* The matching (WindowMatching)                                           *)

(* What has been considered is taken, or was refused, or looks too little  *)
(* alike.                                                                  *)
Settled ==
  \A c \in Candidates \ rest :
    LooksAlike(c) => c \in ambiguous \/ IsTaken(c)

IInv == TypeOK /\ MatchingInv /\ Settled

LEMMA Frame ==
  ASSUME UNCHANGED <<saved, live>>
  PROVE  /\ Candidates' = Candidates
         /\ \A c : LooksAlike(c)' <=> LooksAlike(c)
         /\ \A c, d : Precedes(c, d)' <=> Precedes(c, d)
<1>1. Candidates' = Candidates
  BY DEF Candidates, Score
<1>2. \A c : Score(c)' = Score(c)
  BY DEF Score
<1>3. \A c, d : Precedes(c, d)' <=> Precedes(c, d)
  BY <1>2 DEF Precedes
<1>4. \A c : LooksAlike(c)' <=> LooksAlike(c)
  BY <1>2 DEF LooksAlike
<1>5. QED
  BY <1>1, <1>3, <1>4

LEMMA InitIInv == Init => IInv
<1> SUFFICES ASSUME NEW input \in Inputs, Start(input) PROVE IInv
  BY DEF Init
<1>1. TypeOK
  BY InputsAssumption DEF Start, TypeOK
<1>2. OneToOne /\ Stable /\ BestFirst /\ Settled
  BY DEF Start, OneToOne, Stable, BestFirst, Settled
<1>3. QED
  BY <1>1, <1>2 DEF IInv, MatchingInv

LEMMA StepIInv == IInv /\ [Next]_matchVars => IInv'
<1> SUFFICES ASSUME IInv, [Next]_matchVars PROVE IInv'
  OBVIOUS
<1>1. CASE UNCHANGED matchVars
  <2>1. UNCHANGED <<saved, live, rest, matches, ambiguous>>
    BY <1>1 DEF matchVars
  <2>2. TypeOK'
    BY <2>1, Frame DEF IInv, TypeOK
  <2>3. OneToOne' /\ BestFirst'
    BY <2>1, Frame DEF IInv, MatchingInv, OneToOne, BestFirst
  <2>4. Stable'
    BY <2>1, Frame DEF IInv, MatchingInv, Stable
  <2>5. Settled'
    BY <2>1, Frame DEF IInv, Settled, IsTaken, TakenSaved, TakenLive
  <2>6. QED
    BY <2>2, <2>3, <2>4, <2>5 DEF IInv, MatchingInv
<1>2. ASSUME NEW c \in rest, Consider(c)
      PROVE  IInv'
  <2> USE <1>2
  <2>1. /\ c \in Candidates
        /\ rest' = rest \ {c}
        /\ matches \subseteq matches' /\ matches' \subseteq matches \cup {c}
        /\ ambiguous \subseteq ambiguous' /\ ambiguous' \subseteq ambiguous \cup {c}
        /\ UNCHANGED <<saved, live>>
    BY DEF Consider, Pass, Refuse, Take, IInv, TypeOK
  <2>2. Candidates' = Candidates
        /\ (\A d : LooksAlike(d)' <=> LooksAlike(d))
        /\ (\A d, e : Precedes(d, e)' <=> Precedes(d, e))
    BY <2>1, Frame
  <2>3. \A d \in rest : d # c => Precedes(c, d)
    BY DEF Consider, IsBestOfRest
  <2>4. \/ c \in ambiguous'
        \/ c \in matches'
        \/ IsTaken(c)
        \/ ~(LooksAlike(c))
    BY DEF Consider, Pass, Refuse, Take
  <2>5. \A d : IsTaken(d) => IsTaken(d)'
    BY <2>1 DEF IsTaken, TakenSaved, TakenLive
  <2>6. c \in matches' => IsTaken(c)'
    BY DEF IsTaken, TakenSaved, TakenLive
  <2>7. TypeOK'
    BY <2>1, <2>2 DEF IInv, TypeOK
  <2>8. OneToOne'
    <3>1. CASE matches' = matches
      BY <3>1 DEF IInv, MatchingInv, OneToOne
    <3>2. CASE Take(c)
      <4>1. \A d \in matches : c[1] # d[1] /\ c[2] # d[2]
        BY <3>2 DEF Take, IsTaken, TakenSaved, TakenLive
      <4>2. QED
        BY <3>2, <4>1 DEF Take, IInv, MatchingInv, OneToOne
    <3>3. QED
      BY <3>1, <3>2 DEF Consider, Pass, Refuse
  <2>9. BestFirst'
    <3> SUFFICES ASSUME NEW d \in rest', NEW e \in matches' \cup ambiguous'
                 PROVE  Precedes(e, d)
      BY <2>2 DEF BestFirst
    <3>1. d \in rest /\ d # c
      BY <2>1
    <3>2. CASE e = c
      BY <2>3, <3>1, <3>2
    <3>3. CASE e # c
      <4>1. e \in matches \cup ambiguous
        BY <2>1, <3>3
      <4>2. QED
        BY <3>1, <4>1 DEF IInv, MatchingInv, BestFirst
    <3>4. QED
      BY <3>2, <3>3
  <2>10. Stable'
    <3> SUFFICES ASSUME NEW e \in Candidates, e \notin ambiguous', e \notin rest',
                        LooksAlike(e)
                 PROVE  \E d \in matches' :
                          /\ d[1] = e[1] \/ d[2] = e[2]
                          /\ d = e \/ Precedes(d, e)
      BY <2>2 DEF Stable
    <3>1. CASE e # c
      <4>1. e \notin rest /\ e \notin ambiguous
        BY <2>1, <3>1
      <4>2. QED
        BY <2>1, <4>1 DEF IInv, MatchingInv, Stable
    <3>2. CASE e = c /\ c \in matches'
      BY <3>2
    <3>3. CASE e = c /\ IsTaken(c)
      <4>1. PICK d \in matches : d[1] = c[1] \/ d[2] = c[2]
        BY <3>3 DEF IsTaken, TakenSaved, TakenLive
      <4>2. Precedes(d, c)
        BY DEF IInv, MatchingInv, BestFirst
      <4>3. QED
        BY <2>1, <3>3, <4>1, <4>2
    <3>4. QED
      BY <2>4, <3>1, <3>2, <3>3
  <2>11. Settled'
    <3> SUFFICES ASSUME NEW e \in Candidates, e \notin rest',
                        LooksAlike(e)
                 PROVE  e \in ambiguous' \/ IsTaken(e)'
      BY <2>2 DEF Settled
    <3>1. CASE e = c
      BY <2>4, <2>5, <2>6, <3>1
    <3>2. CASE e # c
      <4>1. e \in ambiguous \/ IsTaken(e)
        BY <2>1, <3>2 DEF IInv, Settled
      <4>2. QED
        BY <2>1, <2>5, <4>1
    <3>3. QED
      BY <3>1, <3>2
  <2>12. QED
    BY <2>7, <2>8, <2>9, <2>10, <2>11 DEF IInv, MatchingInv
<1>3. QED
  BY <1>1, <1>2 DEF Next

LEMMA InvariantHolds == Spec => []IInv
  BY InitIInv, StepIInv, PTL DEF Spec

(* Type correctness: the pairs are pairs of a saved and a live window that *)
(* look alike at all (matcher.py:137-187).                                 *)
THEOREM MatchingTypeCorrect == Spec => []TypeOK
<1>1. IInv => TypeOK
  BY DEF IInv
<1>2. QED
  BY <1>1, InvariantHolds, PTL

(* A saved window is moved at most once, and a live one for at most one    *)
(* saved window (matcher.py:150-180).                                      *)
THEOREM OneToOneAlways == Spec => []OneToOne
<1>1. IInv => OneToOne
  BY DEF IInv, MatchingInv
<1>2. QED
  BY <1>1, InvariantHolds, PTL

(* The pairing is stable and in the order of the scores, however the       *)
(* windows are scored (matcher.py:143-180).                                *)
THEOREM MatchingInvariant == Spec => []MatchingInv
<1>1. IInv => MatchingInv
  BY DEF IInv
<1>2. QED
  BY <1>1, InvariantHolds, PTL

(* What looks alike enough and stays apart is reported as ambiguous        *)
(* (matcher.py:153-176).                                                   *)
THEOREM NothingLeftSilentlyAlways == Spec => []NothingLeftSilently
<1>1. IInv => NothingLeftSilently
  BY DEF IInv, Settled, NothingLeftSilently
<1>2. QED
  BY <1>1, InvariantHolds, PTL

-----------------------------------------------------------------------------
(* How alike two titles are *)

(* The sums over all sets of places: each is that of one place less and    *)
(* what is at that place.                                                  *)
AreSums(g, S, f) ==
  \A s \in SUBSET S :
    g[s] = IF s = {} THEN 0
           ELSE f[CHOOSE x \in s : TRUE] + g[s \ {CHOOSE x \in s : TRUE}]

(* A sum is the last of them. *)
LEMMA SumUnfolds ==
  ASSUME NEW S, IsFiniteSet(S), NEW f \in [S -> Nat]
  PROVE  \E g : AreSums(g, S, f) /\ SumFunction(f) = g[S]
<1> DEFINE body(g) == [s \in SUBSET DOMAIN f |->
                         IF s = {} THEN 0
                         ELSE f[CHOOSE x \in s : TRUE] + g[s \ {CHOOSE x \in s : TRUE}]]
           iter == CHOOSE g : g = body(g)
<1>1. SumFunction(f) = iter[DOMAIN f]
  BY Zenon DEF SumFunction, SumFunctionOnSet, FoldFunctionOnSet, MapThenFoldSet
<1>2. DOMAIN f = S
  OBVIOUS
<1>3. \A s \in SUBSET S : s # {} => (CHOOSE x \in s : TRUE) \in s
  OBVIOUS
<1>4. \E g \in [SUBSET S -> Nat] : g = body(g)
  <2> DEFINE pick == [s \in SUBSET S |-> CHOOSE x \in s : TRUE]
             step == [p \in S \X Nat |-> f[p[1]] + p[2]]
  <2>1. step \in [S \X Nat -> Nat]
    OBVIOUS
  <2>2. \A s \in SUBSET S : s # {} => pick[s] \in s
    BY <1>3
  <2> HIDE DEF step, pick
  <2>3. PICK g \in [SUBSET S -> Nat] : IsFold(g, SUBSET S, 0, pick, step)
    BY <2>1, <2>2, FoldExists
  <2>4. g = [s \in SUBSET S |-> IF s = {} THEN 0 ELSE step[<<pick[s], g[s \ {pick[s]}]>>]]
    BY <2>3 DEF IsFold
  <2> DEFINE next(s) == f[CHOOSE x \in s : TRUE] + g[s \ {CHOOSE x \in s : TRUE}]
  <2>5. \A s \in SUBSET S : s # {} => step[<<pick[s], g[s \ {pick[s]}]>>] = next(s)
    <3> TAKE s \in SUBSET S
    <3> HAVE s # {}
    <3>1. PICK x \in s : x = (CHOOSE y \in s : TRUE) /\ x = pick[s]
      BY <1>3 DEF pick
    <3>2. g[s \ {x}] \in Nat
      OBVIOUS
    <3>3. step[<<x, g[s \ {x}]>>] = f[x] + g[s \ {x}]
      BY <3>2 DEF step
    <3> QED
      BY <3>1, <3>3
  <2> HIDE DEF next
  <2>6. g = [s \in SUBSET S |-> IF s = {} THEN 0 ELSE next(s)]
    BY <2>4, <2>5
  <2>7. g = body(g)
    BY <1>2, <2>6 DEF next
  <2> QED
    BY <2>7
<1>5. iter = body(iter)
  <2>1. \E g : g = body(g)
    BY <1>4
  <2> HIDE DEF body
  <2> QED
    BY <2>1
<1>6. \A s \in SUBSET S :
        iter[s] = IF s = {} THEN 0
                  ELSE f[CHOOSE x \in s : TRUE] + iter[s \ {CHOOSE x \in s : TRUE}]
  <2> HIDE DEF iter
  <2> QED
    BY <1>2, <1>5
<1> HIDE DEF iter, body
<1> QED
  BY <1>1, <1>2, <1>6 DEF AreSums

(* A sum of natural numbers is one, and zero only if all of them are.      *)
LEMMA SumOfNaturals ==
  ASSUME NEW S, IsFiniteSet(S), NEW f \in [S -> Nat]
  PROVE  SumFunction(f) \in Nat /\ (SumFunction(f) = 0 <=> \A c \in S : f[c] = 0)
<1>1. PICK iter : AreSums(iter, S, f) /\ SumFunction(f) = iter[S]
  BY SumUnfolds
<1>3. \A s \in SUBSET S : s # {} => (CHOOSE x \in s : TRUE) \in s
  OBVIOUS
<1>6. \A s \in SUBSET S :
        iter[s] = IF s = {} THEN 0
                  ELSE f[CHOOSE x \in s : TRUE] + iter[s \ {CHOOSE x \in s : TRUE}]
  BY <1>1 DEF AreSums
<1> DEFINE Good(s) == iter[s] \in Nat /\ (iter[s] = 0 <=> \A c \in s : f[c] = 0)
<1>7. \A s \in SUBSET S : IsFiniteSet(s) /\ Cardinality(s) \in Nat
  BY FS_Subset, FS_CardinalityType
<1>8. PICK N \in Nat : N = Cardinality(S)
  BY <1>7
<1>9. PICK Q : Q = {n \in 0 .. N : \A s \in SUBSET S : Cardinality(s) = n => Good(s)}
  OBVIOUS
<1>10. 0 \in Q
  <2>1. ASSUME NEW s \in SUBSET S, Cardinality(s) = 0 PROVE Good(s)
    <3>1. s = {}
      BY <1>7, <2>1, FS_EmptySet
    <3>2. iter[s] = 0
      BY <1>6, <3>1
    <3> QED
      BY <3>1, <3>2
  <2> QED
    BY <1>9, <2>1
<1>11. ASSUME NEW n \in 1 .. N, n - 1 \in Q PROVE n \in Q
  <2>1. ASSUME NEW s \in SUBSET S, Cardinality(s) = n PROVE Good(s)
    <3>1. s # {}
      BY <2>1, FS_EmptySet
    <3>2. PICK x \in s : x = (CHOOSE y \in s : TRUE)
      BY <1>3, <3>1
    <3>3. PICK t \in SUBSET S : t = s \ {x}
      OBVIOUS
    <3>4. Cardinality(t) = n - 1
      BY <1>7, <2>1, <3>2, <3>3, FS_RemoveElement
    <3>5. Good(t)
      BY <1>9, <1>11, <3>4
    <3>6. iter[s] = f[x] + iter[t] /\ f[x] \in Nat
      BY <1>6, <3>1, <3>2, <3>3
    <3>7. s = t \cup {x}
      BY <3>2, <3>3
    <3> QED
      BY <3>5, <3>6, <3>7
  <2> QED
    BY <1>9, <2>1
<1>12. \A n \in 0 .. N : n \in Q
  BY <1>10, <1>11, CountingUp
<1>13. Good(S)
  BY <1>8, <1>9, <1>12
<1> QED
  BY <1>1, <1>13

(* Sums of what is in proportion are in that proportion. *)
LEMMA SumsScale ==
  ASSUME NEW S, IsFiniteSet(S), NEW f \in [S -> Nat], NEW g \in [S -> Nat],
         NEW a \in Nat, NEW b \in Nat, \A c \in S : a * f[c] = b * g[c]
  PROVE  a * SumFunction(f) = b * SumFunction(g)
<1>1. PICK F : AreSums(F, S, f) /\ SumFunction(f) = F[S]
  BY SumUnfolds
<1>2. PICK G : AreSums(G, S, g) /\ SumFunction(g) = G[S]
  BY SumUnfolds
<1>3. \A s \in SUBSET S : s # {} => (CHOOSE x \in s : TRUE) \in s
  OBVIOUS
<1> DEFINE Good(s) == F[s] \in Nat /\ G[s] \in Nat /\ a * F[s] = b * G[s]
<1>4. \A s \in SUBSET S : IsFiniteSet(s) /\ Cardinality(s) \in Nat
  BY FS_Subset, FS_CardinalityType
<1>5. PICK N \in Nat : N = Cardinality(S)
  BY <1>4
<1>6. PICK Q : Q = {n \in 0 .. N : \A s \in SUBSET S : Cardinality(s) = n => Good(s)}
  OBVIOUS
<1>7. 0 \in Q
  <2>1. ASSUME NEW s \in SUBSET S, Cardinality(s) = 0 PROVE Good(s)
    <3>1. s = {}
      BY <1>4, <2>1, FS_EmptySet
    <3>2. F[s] = 0 /\ G[s] = 0
      BY <1>1, <1>2, <3>1 DEF AreSums
    <3> QED
      BY <3>2
  <2> QED
    BY <1>6, <2>1
<1>8. ASSUME NEW n \in 1 .. N, n - 1 \in Q PROVE n \in Q
  <2>1. ASSUME NEW s \in SUBSET S, Cardinality(s) = n PROVE Good(s)
    <3>1. s # {}
      <4>1. n # 0
        OBVIOUS
      <4> QED
        BY <2>1, <4>1, FS_EmptySet
    <3>2. PICK x \in s : x = (CHOOSE y \in s : TRUE)
      BY <1>3, <3>1
    <3>3. PICK t \in SUBSET S : t = s \ {x}
      OBVIOUS
    <3>4. Cardinality(t) = n - 1
      BY <1>4, <2>1, <3>2, <3>3, FS_RemoveElement
    <3>5. Good(t)
      BY <1>6, <1>8, <3>4
    <3>6. F[s] = f[x] + F[t] /\ G[s] = g[x] + G[t]
      BY <1>1, <1>2, <3>1, <3>2, <3>3 DEF AreSums
    <3>7. PICK p \in Nat, q \in Nat, y \in Nat, z \in Nat :
            p = f[x] /\ q = g[x] /\ y = F[t] /\ z = G[t]
      BY <3>5
    <3>8. a * p = b * q /\ a * y = b * z
      BY <3>5, <3>7
    <3>9. a * (p + y) = b * (q + z)
      BY <3>8
    <3> QED
      BY <3>6, <3>7, <3>9
  <2> QED
    BY <1>6, <2>1
<1>9. \A n \in 0 .. N : n \in Q
  BY <1>7, <1>8, CountingUp
<1>10. Good(S)
  BY <1>5, <1>6, <1>9
<1> QED
  BY <1>1, <1>2, <1>10

(* A fraction stays what it is when both its parts are multiplied. *)
LEMMA ExpandedQuotient ==
  ASSUME NEW x \in Int, NEW y \in Nat, y > 0, NEW k \in Nat, k > 0
  PROVE  (k * x) \div (k * y) = x \div y
<1>1. PICK q \in Int, r \in 0 .. y - 1 : q = x \div y /\ x = y * q + r
  OBVIOUS
<1>2. PICK z \in Nat, u \in Nat : z = k * y /\ z > 0 /\ u = k * r
  OBVIOUS
<1>3. u < z
  <2>1. PICK e \in Nat : y = r + 1 + e
    <3>1. y - r - 1 \in Nat /\ y = r + 1 + (y - r - 1)
      BY <1>1
    <3> QED
      BY <3>1
  <2>2. k * y = k * r + k + k * e
    BY <2>1
  <2>3. k * e \in Nat
    BY <2>1
  <2> QED
    BY <1>2, <2>2, <2>3
<1>4. k * x = z * q + u
  <2>1. k * x = k * (y * q) + k * r
    BY <1>1
  <2>2. k * (y * q) = (k * y) * q
    OBVIOUS
  <2> QED
    BY <1>2, <2>1, <2>2
<1>5. PICK p \in Int, v \in 0 .. z - 1 : p = (k * x) \div z /\ k * x = z * p + v
  BY <1>2
<1>6. p = q
  <2>1. z * p + v = z * q + u
    BY <1>4, <1>5
  <2>2. ASSUME p >= q + 1 PROVE FALSE
    <3>1. z * p >= z * (q + 1)
      BY <1>2, <2>2
    <3>2. z * p >= z * q + z
      BY <3>1
    <3>3. PICK i \in Int, j \in Int : i = z * p /\ j = z * q
      OBVIOUS
    <3> QED
      BY <1>2, <1>3, <2>1, <3>2, <3>3
  <2>3. ASSUME q >= p + 1 PROVE FALSE
    <3>1. z * q >= z * (p + 1)
      BY <1>2, <2>3
    <3>2. z * q >= z * p + z
      BY <3>1
    <3>3. PICK i \in Int, j \in Int : i = z * p /\ j = z * q
      OBVIOUS
    <3> QED
      BY <1>2, <1>5, <2>1, <3>2, <3>3
  <2> QED
    BY <2>2, <2>3
<1> QED
  BY <1>1, <1>2, <1>5, <1>6

(* Per cent of what is left of a whole.                                    *)
LEMMA PerCentLeft ==
  ASSUME NEW x \in Nat, x > 0, NEW d \in Nat
  PROVE  /\ (100 * (x - d)) \div x \in Int
         /\ (100 * (x - d)) \div x <= 100
         /\ (100 * (x - d)) \div x = 100 <=> d = 0
<1> DEFINE q == (100 * (x - d)) \div x
           r == (100 * (x - d)) % x
<1>1. q \in Int /\ r \in 0 .. x - 1 /\ 100 * (x - d) = x * q + r
  OBVIOUS
<1> HIDE DEF q, r
<1>2. q <= 100
  <2>1. ASSUME q >= 101 PROVE FALSE
    <3>1. x * q >= x * 101
      BY <1>1, <2>1
    <3> QED
      BY <1>1, <3>1
  <2> QED
    BY <1>1, <2>1
<1>3. ASSUME q = 100 PROVE d = 0
  <2>1. 100 * (x - d) = x * 100 + r
    BY <1>1, <1>3
  <2> QED
    BY <1>1, <2>1
<1>4. ASSUME d = 0 PROVE q = 100
  <2>1. 100 * x = x * q + r
    BY <1>1, <1>4
  <2>2. ASSUME q <= 99 PROVE FALSE
    <3>1. x * q <= x * 99
      BY <1>1, <2>2
    <3> QED
      BY <1>1, <2>1, <3>1
  <2> QED
    BY <1>1, <1>2, <2>2
<1> QED
  BY <1>1, <1>2, <1>3, <1>4 DEF q

(* Two titles with the same share of every character are alike, and no     *)
(* others are.                                                             *)
LEMMA SameShares ==
  ASSUME NEW t \in Title, NEW u \in Title
  PROVE  /\ TitleSimilarity(t, u) \in Int
         /\ TitleSimilarity(t, u) <= Exact
         /\ TitleSimilarity(t, u) = Exact <=>
              \A c \in Char : t.count[c] * Divisor(u) = u.count[c] * Divisor(t)
<1>1. /\ t.count \in [Char -> Nat] /\ u.count \in [Char -> Nat]
      /\ t.length \in Nat /\ u.length \in Nat
  BY TitleAssumption DEF TitleRecord
<1>2. PICK l \in Nat, m \in Nat : l = Divisor(t) /\ m = Divisor(u) /\ l > 0 /\ m > 0
  BY <1>1 DEF Divisor
<1>3. PICK f : f = [c \in Char |-> Distance(t.count[c] * m, u.count[c] * l)]
  OBVIOUS
<1>4. \A c \in Char : t.count[c] * m \in Nat /\ u.count[c] * l \in Nat
  BY <1>1
<1>5. \A c \in Char : f[c] \in Nat /\ (f[c] = 0 <=> t.count[c] * m = u.count[c] * l)
  BY <1>3, <1>4 DEF Distance
<1>6. f \in [Char -> Nat]
  BY <1>3, <1>5
<1>7. PICK d \in Nat : d = SumFunction(f) /\ (d = 0 <=> \A c \in Char : f[c] = 0)
  BY <1>6, TitleAssumption, SumOfNaturals
<1>8. PICK x \in Nat : x = 2 * l * m /\ x > 0
  BY <1>2
<1>9. TitleSimilarity(t, u) = (100 * (x - d)) \div x
  BY <1>2, <1>3, <1>7, <1>8, Zenon DEF TitleSimilarity
<1>10. PICK q : q = (100 * (x - d)) \div x
  OBVIOUS
<1>11. q \in Int /\ q <= 100 /\ (q = 100 <=> d = 0)
  BY <1>8, <1>10, PerCentLeft
<1>12. d = 0 <=> \A c \in Char : t.count[c] * Divisor(u) = u.count[c] * Divisor(t)
  BY <1>2, <1>5, <1>7
<1> QED
  BY <1>9, <1>10, <1>11, <1>12 DEF Exact

(* Titles that are identical to match_windows().                           *)
Identical(t, u) == t = u \/ TitleSimilarity(t, u) = Exact

(* Being identical is mutual ... *)
LEMMA IdenticalIsMutual ==
  ASSUME NEW t \in Title, NEW u \in Title, Identical(t, u)
  PROVE  Identical(u, t)
<1>1. CASE t = u
  BY <1>1 DEF Identical
<1>2. CASE TitleSimilarity(t, u) = Exact
  BY <1>2, SameShares DEF Identical
<1> QED
  BY <1>1, <1>2 DEF Identical

(* ... and what is identical to the same is identical. *)
LEMMA IdenticalIsShared ==
  ASSUME NEW t \in Title, NEW u \in Title, NEW v \in Title,
         Identical(t, u), Identical(u, v)
  PROVE  Identical(t, v)
<1>1. CASE t = u \/ u = v
  BY <1>1 DEF Identical
<1>2. CASE TitleSimilarity(t, u) = Exact /\ TitleSimilarity(u, v) = Exact
  <2>1. /\ t.count \in [Char -> Nat] /\ u.count \in [Char -> Nat] /\ v.count \in [Char -> Nat]
        /\ t.length \in Nat /\ u.length \in Nat /\ v.length \in Nat
    BY TitleAssumption DEF TitleRecord
  <2>2. PICK l \in Nat, m \in Nat, n \in Nat :
          /\ l = Divisor(t) /\ m = Divisor(u) /\ n = Divisor(v)
          /\ l > 0 /\ m > 0 /\ n > 0
    BY <2>1 DEF Divisor
  <2>3. ASSUME NEW c \in Char PROVE t.count[c] * n = v.count[c] * l
    <3>1. PICK p \in Nat, q \in Nat, r \in Nat :
            p = t.count[c] /\ q = u.count[c] /\ r = v.count[c]
      BY <2>1
    <3>2. p * m = q * l /\ q * n = r * m
      BY <1>2, <2>2, <3>1, SameShares
    <3>3. (p * n) * m = (r * l) * m
      <4>1. (p * m) * n = (q * l) * n /\ (q * n) * l = (r * m) * l
        BY <3>2
      <4>2. (p * n) * m = (p * m) * n /\ (q * l) * n = (q * n) * l /\ (r * m) * l = (r * l) * m
        OBVIOUS
      <4> QED
        BY <4>1, <4>2
    <3>4. p * n = r * l
      <4>1. PICK x \in Int, y \in Int : x = p * n /\ y = r * l
        OBVIOUS
      <4>2. (x - y) * m = 0
        BY <3>3, <4>1
      <4>3. x - y = 0
        BY <2>2, <4>2
      <4> QED
        BY <4>1, <4>3
    <3> QED
      BY <3>1, <3>4
  <2> QED
    BY <2>2, <2>3, SameShares DEF Identical
<1> QED
  BY <1>1, <1>2 DEF Identical

(* A score is a number, and no more than that of an exact match.           *)
LEMMA ScoreIsNumber ==
  ASSUME NEW s \in WindowRecord, NEW w \in WindowRecord
  PROVE  /\ WindowScore(s, w) \in Int /\ WindowScore(s, w) <= Exact
         /\ WindowScore(s, w) = Exact <=>
              SameApplication(s, w) /\ Identical(s.title, w.title)
<1>1. s.title \in Title /\ w.title \in Title
  BY DEF WindowRecord
<1>2. PICK p \in Int : /\ p = TitleSimilarity(s.title, w.title) /\ p <= Exact
  BY <1>1, SameShares
<1>3. WindowScore(s, w) = IF ~SameApplication(s, w) THEN 0
                          ELSE IF s.title = w.title \/ p = Exact THEN Exact
                          ELSE IF IsPlaceholder(s.title, w.title) THEN p \div 2
                          ELSE p
  BY <1>2 DEF WindowScore
<1>4. p \div 2 \in Int /\ p \div 2 < Exact
  BY <1>2 DEF Exact
<1> QED
  BY <1>2, <1>3, <1>4 DEF Exact, Identical

(* Of one application, with titles that are identical. *)
Kin(s, w) == s.app = w.app /\ Identical(s.title, w.title)

(* If the applications are known, such windows, and no others, have an     *)
(* exact score.                                                            *)
LEMMA ExactIsKin ==
  ASSUME NEW s \in WindowRecord, NEW w \in WindowRecord, s.app # NoApp, w.app # NoApp
  PROVE  WindowScore(s, w) = Exact <=> Kin(s, w)
BY ScoreIsNumber DEF SameApplication, Kin

-----------------------------------------------------------------------------
(* The plan and its types *)

(* What is true of a restore at any time: the plan of the daemon is of     *)
(* what session.json says.                                                 *)
RestoreInv ==
  /\ RestoreTypeOK
  /\ IInv
  /\ Len(stored) <= Len(Workspace) /\ Len(saved) <= Len(Workspace)
  /\ pc # "idle" => saved = stored
  /\ pc # "launching" => launched = {}
  /\ pc = "planning" \/ (pc = "idle" /\ shown # <<>>) => restores < MaxRestores
  /\ pc = "planning" => only = {} /\ agreed = {}

(* An action is of a saved window; a launch, of one without a match.       *)
LEMMA ActionsAreFew ==
  ASSUME TypeOK
  PROVE  /\ IsFiniteSet(Actions) /\ Actions \subseteq Action
         /\ \A a \in Actions :
              /\ a.of \in DOMAIN saved
              /\ a.window # 0 => <<a.of, a.window>> \in matches
              /\ a.window = 0 => a.of \in ToLaunch
<1>1. PICK n \in Nat, m \in Nat : DOMAIN saved = 1 .. n /\ DOMAIN live = 1 .. m
  BY DEF TypeOK
<1>2. \A c \in matches : c = <<c[1], c[2]>> /\ c[1] \in DOMAIN saved /\ c[2] \in DOMAIN live
  BY DEF TypeOK, Candidates
<1>3. \A a \in Actions :
        /\ a.of \in DOMAIN saved /\ a.window \in 0 .. m
        /\ a = [of |-> a.of, window |-> a.window]
        /\ a.window # 0 => <<a.of, a.window>> \in matches
        /\ a.window = 0 => a.of \in ToLaunch
  BY <1>1, <1>2 DEF Actions, ToLaunch, UnmatchedSaved
<1>4. Actions \subseteq Action
  <2>1. ASSUME NEW a \in Actions PROVE a \in Action
    <3>1. PICK of, window : of = a.of /\ window = a.window
      OBVIOUS
    <3>2. of \in 1 .. n /\ window \in 0 .. m /\ a = [of |-> of, window |-> window]
      BY <1>1, <1>3, <3>1
    <3>3. of \in Nat /\ window \in Nat
      BY <3>2
    <3> QED
      BY <3>2, <3>3 DEF Action
  <2> QED
    BY <2>1
<1>5. IsFiniteSet(Actions)
  <2> DEFINE T == (1 .. n) \X (0 .. m)
             f == [a \in Actions |-> <<a.of, a.window>>]
  <2>1. IsFiniteSet(T)
    <3>1. IsFiniteSet(1 .. n) /\ IsFiniteSet(0 .. m)
      BY FS_Interval
    <3> QED
      BY <3>1, FS_Product
  <2>2. f \in Injection(Actions, T)
    BY <1>1, <1>3 DEF Injection, IsInjective
  <2> HIDE DEF T, f
  <2> QED
    BY <2>1, <2>2, FS_Injection
<1> QED
  BY <1>3, <1>4, <1>5

(* plan.actions.sort() has an order: no two actions are alike to it.       *)
LEMMA ActionsAreOrdered ==
  ASSUME TypeOK, Len(saved) <= Len(Workspace)
  PROVE  IsOrderOf({p \in Actions \X Actions : IsAhead(p[1], p[2])}, Actions)
<1>1. /\ saved \in Seq(WindowRecord) /\ live \in Seq(WindowRecord)
      /\ matches \subseteq Candidates
  BY DEF TypeOK
<1>2. \A c \in Candidates : Score(c) \in Int /\ c[1] \in Int /\ c[2] \in Int
  <2> TAKE c \in Candidates
  <2>1. PICK i \in DOMAIN saved, k \in DOMAIN live : c = <<i, k>>
    BY DEF Candidates
  <2>2. saved[i] \in WindowRecord /\ live[k] \in WindowRecord /\ i \in Int /\ k \in Int
    BY <1>1
  <2> QED
    BY <2>1, <2>2, ScoreIsNumber DEF Score
<1>3. \A i \in DOMAIN saved : Workspace[i] \in Int
  BY <1>1, SnapshotsAssumption
<1>4. PICK A : A = Actions
  OBVIOUS
<1>5. PICK at : at = [a \in A |-> Workspace[a.of]]
  OBVIOUS
<1>6. PICK score : score = [a \in A |-> Score(<<a.of, a.window>>)]
  OBVIOUS
<1>7. \A a \in A : /\ a = [of |-> a.of, window |-> a.window]
                   /\ a.of \in Int /\ a.window \in Int /\ at[a] \in Int
                   /\ a.window # 0 => score[a] \in Int
  <2> TAKE a \in A
  <2>1. a \in Action /\ a.of \in DOMAIN saved /\ (a.window # 0 => <<a.of, a.window>> \in matches)
    BY <1>4, ActionsAreFew
  <2> QED
    BY <1>1, <1>2, <1>3, <1>5, <1>6, <2>1 DEF Action
<1>8. \A a, b \in A :
        IsAhead(a, b) <=>
          \/ a.window # 0 /\ b.window = 0
          \/ /\ a.window # 0 <=> b.window # 0
             /\ \/ at[a] < at[b]
                \/ /\ at[a] = at[b]
                   /\ IF a.window # 0
                      THEN \/ score[a] > score[b]
                           \/ score[a] = score[b] /\ a.of < b.of
                           \/ score[a] = score[b] /\ a.of = b.of /\ a.window < b.window
                      ELSE a.of < b.of
  BY <1>5, <1>6 DEF IsAhead, Precedes
<1> HIDE DEF IsAhead
<1>9. PICK before : before = {p \in A \X A : IsAhead(p[1], p[2])}
  OBVIOUS
<1>10. \A a, b \in A : <<a, b>> \in before <=> IsAhead(a, b)
  BY <1>9
<1>11. \A a \in A : ~IsAhead(a, a)
  BY <1>7, <1>8
<1>12. \A a, b \in A : a # b => IsAhead(a, b) \/ IsAhead(b, a)
  <2> TAKE a, b \in A
  <2> HAVE a # b
  <2>1. a.of # b.of \/ a.window # b.window
    BY <1>7
  <2> QED
    BY <1>7, <1>8, <2>1
<1>13. \A a, b, c \in A : IsAhead(a, b) /\ IsAhead(b, c) => IsAhead(a, c)
  BY <1>7, <1>8
<1>14. IsOrderOf(before, A)
  BY <1>10, <1>11, <1>12, <1>13 DEF IsOrderOf
<1> QED
  BY <1>4, <1>9, <1>14

(* The plan is a list of its actions.                                      *)
LEMMA PlanIsList ==
  ASSUME TypeOK, Len(saved) <= Len(Workspace)
  PROVE  /\ PlannedActions \in Seq(Action)
         /\ \A k \in DOMAIN PlannedActions : PlannedActions[k] \in Actions
<1>1. PICK n \in Nat : n = Cardinality(Actions)
  BY ActionsAreFew, FS_CardinalityType
<1>2. PlannedActions \in [1 .. n -> Actions]
  BY <1>1, ActionsAreFew, ActionsAreOrdered, SortedLists, Zenon DEF PlannedActions
<1>3. PICK p \in [1 .. n -> Actions] : p = PlannedActions
  BY <1>2
<1>4. p \in Seq(Action) /\ \A k \in DOMAIN p : p[k] \in Actions
  BY <1>3, ActionsAreFew
<1> QED
  BY <1>3, <1>4


(* Every listing of the desktop is one of its windows, restacked.          *)
LEMMA ListingsAreLists ==
  ASSUME RestoreTypeOK, NEW list \in Listings
  PROVE  /\ list \in Seq(WindowRecord) /\ Len(list) = Len(desktop)
         /\ \E stacked \in Bijection(DOMAIN desktop, DOMAIN desktop) :
              list = [k \in DOMAIN desktop |-> desktop[stacked[k]].window]
<1>1. PICK stacked \in Bijection(DOMAIN desktop, DOMAIN desktop) :
        list = [k \in DOMAIN desktop |-> desktop[stacked[k]].window]
  BY DEF Listings
<1>2. desktop \in Seq(DesktopWindow)
  BY DEF RestoreTypeOK
<1>3. stacked \in [DOMAIN desktop -> DOMAIN desktop]
  BY DEF Bijection, Injection
<1>4. \A k \in DOMAIN desktop : desktop[stacked[k]].window \in WindowRecord
  <2> TAKE k \in DOMAIN desktop
  <2>1. desktop[stacked[k]] \in DesktopWindow
    BY <1>2, <1>3
  <2> QED
    BY <2>1 DEF DesktopWindow
<1>5. PICK n \in Nat : DOMAIN desktop = 1 .. n /\ n = Len(desktop)
  BY <1>2
<1>6. list \in [1 .. n -> WindowRecord]
  BY <1>1, <1>4, <1>5
<1>7. list \in Seq(WindowRecord) /\ Len(list) = n
  BY <1>6
<1> QED
  BY <1>1, <1>5, <1>7

(* A plan begins with nothing matched, of what session.json says.          *)
LEMMA StartPlanInv ==
  ASSUME RestoreInv, StartPlan
  PROVE  /\ IInv' /\ saved' = stored
         /\ \E stacked \in Bijection(DOMAIN desktop, DOMAIN desktop) :
              live' = [k \in DOMAIN desktop |-> desktop[stacked[k]].window]
<1>1. /\ saved' = stored /\ rest' = Candidates' /\ matches' = {} /\ ambiguous' = {}
      /\ live' \in Listings
  BY DEF StartPlan
<1>2. /\ live' \in Seq(WindowRecord)
      /\ \E stacked \in Bijection(DOMAIN desktop, DOMAIN desktop) :
           live' = [k \in DOMAIN desktop |-> desktop[stacked[k]].window]
  BY <1>1, ListingsAreLists DEF RestoreInv
<1>3. stored \in Seq(WindowRecord)
  BY DEF RestoreInv, RestoreTypeOK
<1>4. TypeOK'
  BY <1>1, <1>2, <1>3 DEF TypeOK
<1>5. MatchingInv' /\ Settled'
  BY <1>1 DEF MatchingInv, OneToOne, Stable, BestFirst, Settled
<1> QED
  BY <1>1, <1>2, <1>4, <1>5 DEF IInv

(* With the plan gone there is nothing to match.                           *)
LEMMA DropPlanInv ==
  ASSUME DropPlan
  PROVE  IInv' /\ saved' = <<>>
<1>1. /\ saved' = <<>> /\ live' = <<>> /\ rest' = {} /\ matches' = {} /\ ambiguous' = {}
  BY DEF DropPlan
<1>2. TypeOK'
  BY <1>1 DEF TypeOK
<1>3. Candidates' = {}
  BY <1>1 DEF Candidates
<1>4. MatchingInv' /\ Settled'
  BY <1>1, <1>3 DEF MatchingInv, OneToOne, Stable, BestFirst, Settled
<1> QED
  BY <1>1, <1>2, <1>4 DEF IInv

(* A round of the matching keeps what is known of it. *)
LEMMA MatchInv ==
  ASSUME IInv, Match
  PROVE  IInv' /\ saved' = saved /\ live' = live
<1>1. Next /\ saved' = saved /\ live' = live
  BY DEF Match, Next, Consider
<1> QED
  BY <1>1, StepIInv

(* Nor does anything else disturb it. *)
LEMMA MatchingStays == IInv /\ UNCHANGED matchVars => IInv'
BY StepIInv

(* In the beginning nothing is open and nothing is shown. *)
LEMMA RestoreInvInit == RestoreInit => RestoreInv
<1> SUFFICES ASSUME RestoreInit PROVE RestoreInv
  OBVIOUS
<1>1. stored \in Seq(WindowRecord) /\ Len(stored) <= Len(Workspace)
  BY SnapshotsAssumption DEF RestoreInit
<1>2. saved = <<>> /\ live = <<>> /\ rest = Candidates /\ matches = {} /\ ambiguous = {}
  BY DEF RestoreInit, Start
<1>3. TypeOK
  BY <1>2 DEF TypeOK
<1>4. MatchingInv /\ Settled
  BY <1>2 DEF MatchingInv, OneToOne, Stable, BestFirst, Settled
<1>5. RestoreTypeOK
  <2>1. /\ shown \in Seq(Action) /\ desktop \in Seq(DesktopWindow)
        /\ listed \in Seq(WindowRecord) /\ DOMAIN shown = {}
    BY DEF RestoreInit
  <2>2. restores \in 0 .. MaxRestores /\ events \in 0 .. MaxEvents
    BY RestoreBoundsAssumption DEF RestoreInit
  <2>3. /\ pc = "idle" /\ client = "nobody" /\ only = {} /\ starting = {}
        /\ agreed = {} /\ launched = {} /\ changed = TRUE
    BY DEF RestoreInit
  <2> QED
    BY <1>1, <1>3, <2>1, <2>2, <2>3 DEF RestoreTypeOK
<1>6. Len(Workspace) \in Nat
  BY SnapshotsAssumption
<1> QED
  BY <1>1, <1>2, <1>3, <1>4, <1>5, <1>6 DEF RestoreInit, RestoreInv, IInv

(* Every step keeps the types.  That there is a restore left when a plan   *)
(* is shown is known since it was asked for.                               *)
LEMMA RestoreInvNext == RestoreInv /\ [RestoreNext]_vars => RestoreInv'
<1> SUFFICES ASSUME RestoreInv, [RestoreNext]_vars PROVE RestoreInv'
  OBVIOUS
<1> USE DEF clientVars, desktopVars
<1>0. /\ IInv /\ TypeOK
      /\ stored \in Seq(WindowRecord)
      /\ pc \in {"idle", "planning", "restoring", "launching"}
      /\ client \in {"nobody", "terminal", "review", "presented"}
      /\ shown \in Seq(Action) /\ only \subseteq DOMAIN shown
      /\ \A k \in DOMAIN shown : shown[k].of \in DOMAIN listed
      /\ desktop \in Seq(DesktopWindow)
      /\ starting \subseteq Starting
      /\ restores \in 0 .. MaxRestores /\ events \in 0 .. MaxEvents
      /\ listed \in Seq(WindowRecord) /\ changed \in BOOLEAN
      /\ agreed \subseteq DOMAIN listed /\ launched \subseteq DOMAIN saved
      /\ Len(stored) <= Len(Workspace) /\ Len(saved) <= Len(Workspace)
      /\ pc # "idle" => saved = stored
      /\ pc # "launching" => launched = {}
      /\ pc = "planning" \/ (pc = "idle" /\ shown # <<>>) => restores < MaxRestores
      /\ pc = "planning" => only = {} /\ agreed = {}
      /\ saved \in Seq(WindowRecord) /\ live \in Seq(WindowRecord)
  BY DEF RestoreInv, RestoreTypeOK, IInv, TypeOK
<1>N. MaxRestores \in Nat /\ MaxEvents \in Nat /\ Len(Workspace) \in Nat
  BY RestoreBoundsAssumption, SnapshotsAssumption
<1>M. ASSUME UNCHANGED matchVars PROVE IInv' /\ saved' = saved
  BY <1>0, <1>M, MatchingStays DEF matchVars
<1>I. IInv' => TypeOK'
  BY DEF IInv
<1>F. Forsaken \subseteq Starting
  <2>1. ASSUME NEW start \in starting PROVE [start EXCEPT !.awaited = FALSE] \in Starting
    BY <1>0 DEF Starting
  <2> QED
    BY <2>1 DEF Forsaken
<1>1. CASE PlanRestore
  <2>1. IInv' /\ saved' = stored
    BY <1>1, StartPlanInv DEF PlanRestore
  <2>2. /\ pc' = "planning" /\ changed' = FALSE /\ restores < MaxRestores
        /\ client' \in {"terminal", "review"} /\ listed' = <<>>
        /\ shown' = <<>> /\ only' = {} /\ agreed' = {} /\ launched' = {}
        /\ UNCHANGED <<stored, desktop, starting, restores, events>>
    BY <1>1 DEF PlanRestore
  <2>3. shown' \in Seq(Action) /\ DOMAIN shown' = {} /\ listed' \in Seq(WindowRecord)
    BY <2>2
  <2> QED
    BY <1>0, <1>I, <2>1, <2>2, <2>3 DEF RestoreInv, RestoreTypeOK
<1>2. CASE Match
  BY <1>0, <1>I, <1>2, MatchInv DEF Match, RestoreInv, RestoreTypeOK
<1>3. CASE ShowPlan
  <2>1. shown' \in Seq(Action) /\ \A k \in DOMAIN shown' : shown'[k].of \in DOMAIN saved
    <3>1. PICK p : p = PlannedActions
      OBVIOUS
    <3>2. p \in Seq(Action) /\ \A k \in DOMAIN p : p[k] \in Actions
      BY <1>0, <3>1, PlanIsList
    <3>3. \A k \in DOMAIN p : p[k].of \in DOMAIN saved
      BY <1>0, <3>2, ActionsAreFew
    <3>4. shown' = p
      BY <1>3, <3>1 DEF ShowPlan
    <3> QED
      BY <3>2, <3>3, <3>4
  <2>2. /\ pc = "planning" /\ pc' = "idle" /\ listed' = saved
        /\ UNCHANGED <<stored, client, only, agreed, launched, desktopVars, restores,
                       events, changed>>
    BY <1>3 DEF ShowPlan
  <2>3. IInv' /\ saved' = <<>>
    BY <1>3, DropPlanInv DEF ShowPlan
  <2>4. Len(saved') <= Len(Workspace) /\ DOMAIN saved' = {}
    BY <1>N, <2>3
  <2> QED
    BY <1>0, <1>I, <2>1, <2>2, <2>3, <2>4 DEF RestoreInv, RestoreTypeOK
<1>4. CASE PresentReview
  <2>1. desktop' \in Seq(DesktopWindow)
    <3>1. [window |-> Review, restored |-> FALSE] \in DesktopWindow
      BY DesktopAssumption DEF DesktopWindow
    <3> QED
      BY <1>0, <1>4, <3>1 DEF PresentReview
  <2>2. changed' \in BOOLEAN
    <3>1. changed' = (changed \/ IsLikeSaved(Review))
      BY <1>4 DEF PresentReview
    <3>2. (changed \/ IsLikeSaved(Review)) \in BOOLEAN
      BY <1>0 DEF IsLikeSaved
    <3> QED
      BY <3>1, <3>2
  <2> QED
    BY <1>0, <1>I, <1>M, <1>4, <2>1, <2>2 DEF PresentReview, RestoreInv, RestoreTypeOK
<1>R. ASSUME Restore PROVE
        /\ IInv' /\ saved' = stored /\ pc' = "restoring"
        /\ restores' \in 0 .. MaxRestores /\ starting' \subseteq Starting
        /\ launched' = {}
  BY <1>0, <1>N, <1>F, <1>R, StartPlanInv DEF Restore
<1>5. CASE SayYes
  <2>1. only' = {} /\ agreed' \subseteq DOMAIN listed
    BY <1>0, <1>5 DEF SayYes
  <2> QED
    BY <1>0, <1>I, <1>R, <1>5, <2>1 DEF SayYes, Restore, RestoreInv, RestoreTypeOK
<1>6. CASE ClickRestore
  <2>1. only' \subseteq DOMAIN shown /\ agreed' \subseteq DOMAIN listed
    BY <1>0, <1>6 DEF ClickRestore
  <2> QED
    BY <1>0, <1>I, <1>R, <1>6, <2>1 DEF ClickRestore, Restore, RestoreInv, RestoreTypeOK
<1>7. CASE Launch
  <2>1. launched' \subseteq DOMAIN saved
    <3>1. Chosen \subseteq Actions
      BY <1>0, PlanIsList DEF Chosen
    <3> QED
      BY <1>0, <1>7, <3>1, ActionsAreFew DEF Launch
  <2>2. starting' \subseteq Starting
    <3>1. /\ starting' = starting \cup
               {[restore |-> restores, for |-> i, window |-> saved[i], awaited |-> TRUE] :
                  i \in launched'}
          /\ restores \in Nat /\ DOMAIN saved \subseteq Nat
      BY <1>0, <1>7 DEF Launch
    <3>2. \A i \in launched' :
            [restore |-> restores, for |-> i, window |-> saved[i], awaited |-> TRUE] \in Starting
      <4> TAKE i \in launched'
      <4>1. i \in Nat /\ saved[i] \in WindowRecord
        BY <1>0, <2>1, <3>1
      <4> QED
        BY <3>1, <4>1 DEF Starting
    <3> QED
      BY <1>0, <3>1, <3>2
  <2>3. /\ UNCHANGED <<matchVars, stored, client, shown, only, listed, agreed, desktop,
                       events, restores, changed>>
        /\ pc = "restoring" /\ pc' = "launching"
    BY <1>7 DEF Launch
  <2> QED
    BY <1>0, <1>I, <1>M, <2>1, <2>2, <2>3 DEF RestoreInv, RestoreTypeOK
<1>8. CASE EndRestore
  <2>1. /\ pc' = "idle" /\ client' = "nobody" /\ changed' = TRUE /\ DOMAIN shown' = {}
        /\ shown' = <<>> /\ listed' = <<>> /\ only' = {} /\ agreed' = {} /\ launched' = {}
        /\ UNCHANGED <<stored, desktopVars, restores, events>>
    BY <1>8 DEF EndRestore
  <2>2. IInv' /\ saved' = <<>>
    BY <1>8, DropPlanInv DEF EndRestore
  <2>3. shown' \in Seq(Action) /\ listed' \in Seq(WindowRecord) /\ Len(saved') <= Len(Workspace)
    BY <1>N, <2>1, <2>2
  <2> QED
    BY <1>0, <1>I, <2>1, <2>2, <2>3 DEF RestoreInv, RestoreTypeOK
<1>9. CASE WriteSnapshot
  <2>1. stored' \in Seq(WindowRecord) /\ Len(stored') <= Len(Workspace)
    <3>1. stored' \in Listings /\ Len(desktop) <= Len(Workspace)
      BY <1>9 DEF WriteSnapshot
    <3>2. stored' \in Seq(WindowRecord) /\ Len(stored') = Len(desktop)
      BY <3>1, ListingsAreLists DEF RestoreInv
    <3> QED
      BY <3>1, <3>2
  <2>2. /\ pc = "idle" /\ starting' \subseteq Starting /\ events' \in 0 .. MaxEvents
        /\ changed' \in BOOLEAN
        /\ UNCHANGED <<matchVars, pc, clientVars, desktop, restores>>
    BY <1>0, <1>N, <1>F, <1>9 DEF WriteSnapshot
  <2> QED
    BY <1>0, <1>I, <1>M, <2>1, <2>2 DEF RestoreInv, RestoreTypeOK
<1>D. ASSUME DesktopChanges, desktop' \in Seq(DesktopWindow), starting' \subseteq starting,
             client' \in {"nobody", "terminal", "review", "presented"},
             events' \in 0 .. MaxEvents
      PROVE  RestoreInv'
  <2>1. changed' \in BOOLEAN
    BY <1>0, <1>D DEF DesktopChanges
  <2> QED
    BY <1>0, <1>I, <1>M, <1>D, <2>1 DEF DesktopChanges, RestoreInv, RestoreTypeOK
<1>10. CASE ApplicationOpensWindow
  <2>1. PICK start \in starting :
          /\ desktop' = Append(desktop, [window |-> start.window, restored |-> start.awaited])
          /\ starting' = starting \ {start}
    BY <1>10 DEF ApplicationOpensWindow
  <2>2. [window |-> start.window, restored |-> start.awaited] \in DesktopWindow
    BY <1>0 DEF Starting, DesktopWindow
  <2>3. desktop' \in Seq(DesktopWindow)
    BY <1>0, <2>1, <2>2
  <2> QED
    BY <1>0, <1>10, <1>D, <2>1, <2>3 DEF ApplicationOpensWindow
<1>E. events < MaxEvents /\ events' = events + 1 => events' \in 0 .. MaxEvents
  BY <1>0, <1>N
<1>11. CASE UserOpensWindow
  <2>1. PICK window \in UserWindows :
          desktop' = Append(desktop, [window |-> window, restored |-> FALSE])
    BY <1>11 DEF UserOpensWindow
  <2>2. [window |-> window, restored |-> FALSE] \in DesktopWindow
    BY DesktopAssumption DEF DesktopWindow
  <2>3. desktop' \in Seq(DesktopWindow)
    BY <1>0, <2>1, <2>2
  <2> QED
    BY <1>0, <1>11, <1>D, <1>E, <2>3 DEF UserOpensWindow
<1>12. CASE WindowIsRetitled
  <2>1. desktop' \in Seq(DesktopWindow)
    <3>1. PICK k \in DOMAIN desktop, title \in NewTitles :
            desktop' = [desktop EXCEPT ![k] = [window |-> [@.window EXCEPT !.title = title],
                                               restored |-> FALSE]]
      BY <1>12 DEF WindowIsRetitled
    <3>2. desktop[k] \in DesktopWindow /\ title \in Title
      BY <1>0, DesktopAssumption
    <3>3. [window |-> [desktop[k].window EXCEPT !.title = title], restored |-> FALSE]
            \in DesktopWindow
      BY <3>2 DEF DesktopWindow, WindowRecord
    <3> QED
      BY <1>0, <3>1, <3>3
  <2> QED
    BY <1>0, <1>12, <1>D, <1>E, <2>1 DEF WindowIsRetitled
<1>13. CASE UserClosesWindow
  <2>1. desktop' \in Seq(DesktopWindow)
    BY <1>0, <1>13, EntryRemoved DEF UserClosesWindow
  <2>2. client' \in {"nobody", "terminal", "review", "presented"}
    BY <1>0, <1>13 DEF UserClosesWindow
  <2> QED
    BY <1>0, <1>13, <1>D, <2>1, <2>2 DEF UserClosesWindow
<1>14. CASE UNCHANGED vars
  BY <1>0, <1>I, <1>M, <1>14 DEF vars, RestoreInv, RestoreTypeOK
<1> QED
  BY <1>1, <1>2, <1>3, <1>4, <1>5, <1>6, <1>7, <1>8, <1>9, <1>10, <1>11, <1>12, <1>13,
     <1>14 DEF RestoreNext

(* Type correctness of the restores: what a client shows and hands back    *)
(* are actions of saved windows, whatever is open by then.                 *)
THEOREM RestoreTypeCorrect == RestoreSpec => []RestoreTypeOK
<1>1. RestoreInv => RestoreTypeOK
  BY DEF RestoreInv
<1> QED
  BY <1>1, RestoreInvInit, RestoreInvNext, PTL DEF RestoreSpec

-----------------------------------------------------------------------------
(* How many windows a restore opens *)

(* The windows of an application that a restore has opened. *)
Opened(app) ==
  {k \in DOMAIN desktop : desktop[k].restored /\ desktop[k].window.app = app}

(* Each of them stands for a saved window of its own, to which it is an    *)
(* exact match and which is not being launched.                            *)
Accounted(app) ==
  \E f \in Injection(Opened(app), DOMAIN stored) :
    \A k \in Opened(app) :
      /\ WindowScore(stored[f[k]], desktop[k].window) = Exact
      /\ \A start \in starting :
           start.awaited /\ start.window.app = app => f[k] # start.for

(* They are among the windows the plan was made of. *)
Listed(app) ==
  \E g \in Injection(Opened(app), DOMAIN live) :
    \A k \in Opened(app) : live[g[k]] = desktop[k].window

(* An exact match is never refused, and only the last restore has windows  *)
(* under way that are awaited, each for a saved window of its own.         *)
CountInv ==
  /\ \A c \in ambiguous : Score(c) # Exact
  /\ \A k \in DOMAIN desktop : desktop[k].restored => desktop[k].window.app # NoApp
  /\ \A start \in starting :
       /\ start.window.app # NoApp
       /\ start.awaited => /\ start.restore = restores
                           /\ start.for \in DOMAIN stored
                           /\ start.window = stored[start.for]
                           /\ pc # "restoring"
  /\ \A app \in App : Accounted(app)
  /\ pc = "restoring" => \A app \in App : Listed(app)

(* Kinship of windows is mutual and shared. *)
LEMMA KinIsShared ==
  ASSUME NEW s \in WindowRecord, NEW t \in WindowRecord, NEW u \in WindowRecord
  PROVE  /\ Kin(s, s)
         /\ Kin(s, t) => Kin(t, s)
         /\ Kin(s, t) /\ Kin(t, u) => Kin(s, u)
<1>1. s.title \in Title /\ t.title \in Title /\ u.title \in Title
  BY DEF WindowRecord
<1>2. Kin(s, s)
  BY DEF Kin, Identical
<1>3. Kin(s, t) => Kin(t, s)
  BY <1>1, IdenticalIsMutual DEF Kin
<1>4. Kin(s, t) /\ Kin(t, u) => Kin(s, u)
  BY <1>1, IdenticalIsShared DEF Kin
<1> QED
  BY <1>2, <1>3, <1>4

(* A window is an exact match to itself. *)
LEMMA SelfIsExact ==
  ASSUME NEW w \in WindowRecord
  PROVE  WindowScore(w, w) = Exact
BY ScoreIsNumber DEF SameApplication, Identical

(* Of windows that are there still, what was known is known.               *)
LEMMA OpenedStay ==
  ASSUME NEW app,
         NEW h \in Injection(Opened(app)', Opened(app)),
         \A k \in Opened(app)' : desktop'[k] = desktop[h[k]],
         stored' = stored,
         \A start \in starting' : start.awaited => start \in starting
  PROVE  /\ Accounted(app) => Accounted(app)'
         /\ Listed(app) /\ live' = live => Listed(app)'
<1>0. PICK O, P : O = Opened(app) /\ P = Opened(app)'
  OBVIOUS
<1>1. /\ h \in [P -> O] /\ \A k, l \in P : h[k] = h[l] => k = l
      /\ \A k \in P : desktop'[k] = desktop[h[k]]
  BY <1>0 DEF Injection, IsInjective
<1>2. ASSUME Accounted(app) PROVE Accounted(app)'
  <2>1. PICK f \in Injection(O, DOMAIN stored) :
          \A k \in O :
            /\ WindowScore(stored[f[k]], desktop[k].window) = Exact
            /\ \A start \in starting :
                 start.awaited /\ start.window.app = app => f[k] # start.for
    BY <1>0, <1>2 DEF Accounted
  <2>2. f \in [O -> DOMAIN stored] /\ \A k, l \in O : f[k] = f[l] => k = l
    BY DEF Injection, IsInjective
  <2>3. PICK e : e = [k \in P |-> f[h[k]]]
    OBVIOUS
  <2>4. e \in [P -> DOMAIN stored'] /\ \A k, l \in P : e[k] = e[l] => k = l
    BY <1>1, <2>2, <2>3
  <2>5. e \in Injection(P, DOMAIN stored')
    BY <2>4 DEF Injection, IsInjective
  <2>6. \A k \in P : WindowScore(stored'[e[k]], desktop'[k].window) = Exact
    BY <1>1, <2>1, <2>3
  <2>7. \A k \in P, start \in starting' :
          start.awaited /\ start.window.app = app => e[k] # start.for
    BY <1>1, <2>1, <2>3
  <2> QED
    BY <1>0, <2>5, <2>6, <2>7 DEF Accounted
<1>3. ASSUME Listed(app), live' = live PROVE Listed(app)'
  <2>1. PICK g \in Injection(O, DOMAIN live) : \A k \in O : live[g[k]] = desktop[k].window
    BY <1>0, <1>3 DEF Listed
  <2>2. g \in [O -> DOMAIN live] /\ \A k, l \in O : g[k] = g[l] => k = l
    BY DEF Injection, IsInjective
  <2>3. PICK e : e = [k \in P |-> g[h[k]]]
    OBVIOUS
  <2>4. e \in [P -> DOMAIN live'] /\ \A k, l \in P : e[k] = e[l] => k = l
    BY <1>1, <1>3, <2>2, <2>3
  <2>5. e \in Injection(P, DOMAIN live')
    BY <2>4 DEF Injection, IsInjective
  <2>6. \A k \in P : live'[e[k]] = desktop'[k].window
    BY <1>1, <1>3, <2>1, <2>3
  <2> QED
    BY <1>0, <2>5, <2>6 DEF Listed
<1> QED
  BY <1>2, <1>3

(* If a saved window is left without a match, every open window that would *)
(* be an exact match to it is an exact match to another.                   *)
LEMMA ExactAreMatched ==
  ASSUME IInv, rest = {}, \A c \in ambiguous : Score(c) # Exact,
         NEW i \in UnmatchedSaved, NEW w \in DOMAIN live,
         WindowScore(saved[i], live[w]) = Exact
  PROVE  \E j \in TakenSaved : /\ <<j, w>> \in matches
                               /\ WindowScore(saved[j], live[w]) = Exact
<1>1. /\ saved \in Seq(WindowRecord) /\ live \in Seq(WindowRecord)
      /\ matches \subseteq Candidates
  BY DEF IInv, TypeOK
<1>2. i \in DOMAIN saved /\ i \notin TakenSaved
  BY DEF UnmatchedSaved
<1>3. PICK c : c = <<i, w>>
  OBVIOUS
<1>4. Score(c) = Exact
  BY <1>3 DEF Score
<1>5. c \in Candidates /\ LooksAlike(c) /\ c \notin ambiguous
  BY <1>2, <1>3, <1>4 DEF Candidates, LooksAlike, Exact, Threshold
<1>6. PICK d \in matches : (d[1] = c[1] \/ d[2] = c[2]) /\ (d = c \/ Precedes(d, c))
  BY <1>5 DEF IInv, MatchingInv, Stable
<1>7. PICK j \in DOMAIN saved, v \in DOMAIN live : d = <<j, v>>
  BY <1>1 DEF Candidates
<1>8. j \in TakenSaved
  BY <1>6, <1>7 DEF TakenSaved
<1>9. v = w /\ Precedes(d, c)
  BY <1>2, <1>3, <1>6, <1>7, <1>8
<1>10. Score(d) \in Int /\ Score(d) <= Exact
  BY <1>1, <1>7, ScoreIsNumber DEF Score
<1>11. Score(d) = Exact
  BY <1>4, <1>9, <1>10 DEF Precedes, Exact
<1> QED
  BY <1>7, <1>8, <1>9, <1>11 DEF Score

(* What a restore launches has no exact match among what restores have     *)
(* opened before that is not needed for another saved window.              *)
LEMMA LaunchIsAccounted ==
  ASSUME RestoreInv, CountInv, Launch, NEW app \in App
  PROVE  Accounted(app)'
<1>0. /\ IInv /\ rest = {} /\ pc = "restoring" /\ saved = stored
      /\ starting' = starting \cup
           {[restore |-> restores, for |-> i, window |-> saved[i], awaited |-> TRUE] :
              i \in launched'}
      /\ stored' = stored /\ desktop' = desktop
  BY DEF RestoreInv, Launch
<1>1. \A start \in starting : ~start.awaited
  <2>1. \A start \in starting : start.awaited \in BOOLEAN
    BY DEF RestoreInv, RestoreTypeOK, Starting
  <2> QED
    BY <1>0, <2>1 DEF CountInv
<1>2. launched' \subseteq ToLaunch
  <2>1. Chosen \subseteq Actions
    BY PlanIsList DEF Chosen, RestoreInv, RestoreTypeOK
  <2>2. \A a \in Actions : a.window = 0 => a.of \in ToLaunch
    BY ActionsAreFew DEF RestoreInv, RestoreTypeOK
  <2> QED
    BY <2>1, <2>2 DEF Launch
<1>3. /\ saved \in Seq(WindowRecord) /\ live \in Seq(WindowRecord)
      /\ \A k \in DOMAIN desktop : desktop[k].window \in WindowRecord
  <2>1. /\ saved \in Seq(WindowRecord) /\ live \in Seq(WindowRecord)
        /\ desktop \in Seq(DesktopWindow)
    BY DEF RestoreInv, RestoreTypeOK, TypeOK
  <2>2. \A k \in DOMAIN desktop : desktop[k] \in DesktopWindow
    BY <2>1
  <2> QED
    BY <2>1, <2>2 DEF DesktopWindow
<1>4. PICK O : O = Opened(app)
  OBVIOUS
<1>5. \A k \in O : /\ desktop[k].window \in WindowRecord
                   /\ desktop[k].window.app = app /\ app # NoApp
  BY <1>3, <1>4 DEF Opened, CountInv
<1>6. PICK f \in Injection(O, DOMAIN saved) :
        \A k \in O : WindowScore(saved[f[k]], desktop[k].window) = Exact
  BY <1>0, <1>4 DEF CountInv, Accounted
<1>7. f \in [O -> DOMAIN saved] /\ \A k, l \in O : f[k] = f[l] => k = l
  BY DEF Injection, IsInjective
<1>8. PICK g \in Injection(O, DOMAIN live) : \A k \in O : live[g[k]] = desktop[k].window
  BY <1>0, <1>4 DEF CountInv, Listed
<1>9. g \in [O -> DOMAIN live] /\ \A k, l \in O : g[k] = g[l] => k = l
  BY DEF Injection, IsInjective
<1> DEFINE Short(k) == \E i \in UnmatchedSaved : Kin(saved[i], desktop[k].window)
           IsPartner(j, k) == /\ j \in TakenSaved /\ j \in DOMAIN saved
                              /\ <<j, g[k]>> \in matches
                              /\ WindowScore(saved[j], desktop[k].window) = Exact
           e == [k \in O |-> IF Short(k) THEN CHOOSE j : IsPartner(j, k) ELSE f[k]]
<1>10. ASSUME NEW k \in O, Short(k) PROVE \E j : IsPartner(j, k)
  <2>1. PICK i \in UnmatchedSaved : Kin(saved[i], desktop[k].window)
    BY <1>10
  <2>2. saved[i] \in WindowRecord /\ saved[i].app # NoApp
    BY <1>3, <1>5, <2>1 DEF UnmatchedSaved, Kin
  <2>3. WindowScore(saved[i], live[g[k]]) = Exact /\ g[k] \in DOMAIN live
    BY <1>5, <1>8, <1>9, <2>1, <2>2, ExactIsKin
  <2>4. PICK j \in TakenSaved : /\ <<j, g[k]>> \in matches
                                /\ WindowScore(saved[j], live[g[k]]) = Exact
    BY <1>0, <2>3, ExactAreMatched DEF CountInv
  <2>5. j \in DOMAIN saved
    BY <1>0, <2>4 DEF IInv, TypeOK, Candidates
  <2> QED
    BY <1>8, <2>4, <2>5
<1> HIDE DEF IsPartner, Short
<1>11. \A k \in O : Short(k) => IsPartner(e[k], k)
  BY <1>10
<1>12. \A k \in O : ~Short(k) => e[k] = f[k]
  OBVIOUS
<1> HIDE DEF e
<1>13. \A k \in O : /\ e[k] \in DOMAIN saved
                    /\ WindowScore(saved[e[k]], desktop[k].window) = Exact
  <2> TAKE k \in O
  <2>1. CASE Short(k)
    BY <1>11, <2>1 DEF IsPartner
  <2>2. CASE ~Short(k)
    BY <1>6, <1>7, <1>12, <2>2
  <2> QED
    BY <2>1, <2>2
<1>14. e \in [O -> DOMAIN saved]
  BY <1>13 DEF e
<1>15. \A k \in O : /\ saved[e[k]] \in WindowRecord
                    /\ Identical(saved[e[k]].title, desktop[k].window.title)
  <2> TAKE k \in O
  <2>1. PICK s \in WindowRecord, w \in WindowRecord : s = saved[e[k]] /\ w = desktop[k].window
    BY <1>3, <1>5, <1>13
  <2> QED
    BY <1>13, <2>1, ScoreIsNumber
<1>16. ASSUME NEW k \in O, NEW l \in O, e[k] = e[l], Short(k) PROVE Short(l)
  <2>1. PICK i \in UnmatchedSaved : Kin(saved[i], desktop[k].window)
    BY <1>16 DEF Short
  <2>2. PICK s \in WindowRecord, t \in WindowRecord, u \in WindowRecord, v \in WindowRecord :
          s = saved[i] /\ t = desktop[k].window /\ u = saved[e[k]] /\ v = desktop[l].window
    BY <1>3, <1>5, <1>15, <2>1 DEF UnmatchedSaved
  <2>3. /\ s.title \in Title /\ t.title \in Title /\ u.title \in Title /\ v.title \in Title
        /\ s.app = t.app /\ t.app = v.app
    BY <1>5, <2>1, <2>2 DEF WindowRecord, Kin
  <2>4. /\ Identical(s.title, t.title) /\ Identical(u.title, t.title)
        /\ Identical(u.title, v.title)
    BY <1>15, <1>16, <2>1, <2>2 DEF Kin
  <2>5. Identical(t.title, u.title)
    BY <2>3, <2>4, IdenticalIsMutual
  <2>6. Identical(s.title, u.title)
    BY <2>3, <2>4, <2>5, IdenticalIsShared
  <2>7. Identical(s.title, v.title)
    BY <2>3, <2>4, <2>6, IdenticalIsShared
  <2> QED
    BY <2>2, <2>3, <2>7 DEF Short, Kin
<1>17. ASSUME NEW k \in O, NEW l \in O, e[k] = e[l] PROVE k = l
  <2>1. Short(k) <=> Short(l)
    BY <1>16, <1>17
  <2>2. CASE Short(k)
    <3>1. <<e[k], g[k]>> \in matches /\ <<e[k], g[l]>> \in matches
      BY <1>11, <1>17, <2>1, <2>2 DEF IsPartner
    <3>2. <<e[k], g[k]>> = <<e[k], g[l]>>
      BY <1>0, <3>1 DEF IInv, MatchingInv, OneToOne
    <3> QED
      BY <1>9, <3>2
  <2>3. CASE ~Short(k)
    BY <1>7, <1>12, <1>17, <2>1, <2>3
  <2> QED
    BY <2>2, <2>3
<1>18. ASSUME NEW i \in UnmatchedSaved, NEW k \in O, saved[i].app = app PROVE e[k] # i
  <2>1. CASE Short(k)
    BY <1>11, <2>1 DEF IsPartner, UnmatchedSaved
  <2>2. CASE ~Short(k)
    <3>1. e[k] = i => Kin(saved[i], desktop[k].window)
      BY <1>5, <1>15, <1>18 DEF Kin
    <3> QED
      BY <2>2, <3>1 DEF Short
  <2> QED
    BY <2>1, <2>2
<1>19. e \in Injection(O, DOMAIN saved)
  BY <1>14, <1>17 DEF Injection, IsInjective
<1>20. \A start \in starting', k \in O :
         start.awaited /\ start.window.app = app => e[k] # start.for
  BY <1>0, <1>1, <1>2, <1>18 DEF ToLaunch
<1>21. Opened(app)' = O
  BY <1>0, <1>4 DEF Opened
<1> QED
  BY <1>0, <1>13, <1>19, <1>20, <1>21 DEF Accounted

(* Nothing is open in the beginning. *)
LEMMA CountInvInit == RestoreInit => CountInv
<1> SUFFICES ASSUME RestoreInit PROVE CountInv
  OBVIOUS
<1>1. desktop = <<>> /\ starting = {} /\ pc = "idle" /\ ambiguous = {}
  BY DEF RestoreInit, Start
<1>2. ASSUME NEW app \in App PROVE Accounted(app)
  <2>1. Opened(app) = {}
    BY <1>1 DEF Opened
  <2>2. PICK f : f = [k \in {} |-> 0]
    OBVIOUS
  <2>3. f \in Injection(Opened(app), DOMAIN stored)
    BY <2>1, <2>2 DEF Injection, IsInjective
  <2> QED
    BY <2>1, <2>3 DEF Accounted
<1> QED
  BY <1>1, <1>2 DEF CountInv

(* Every step keeps the account: a restore launches no more than it has    *)
(* room for, a window that comes while it is awaited takes the room of its *)
(* launch, and session.json is written with a room for every window.       *)
LEMMA CountInvNext == RestoreInv /\ CountInv /\ [RestoreNext]_vars => CountInv'
<1> SUFFICES ASSUME RestoreInv, CountInv, [RestoreNext]_vars PROVE CountInv'
  OBVIOUS
<1> USE DEF clientVars, desktopVars, matchVars
<1>0. /\ \A c \in ambiguous : Score(c) # Exact
      /\ \A k \in DOMAIN desktop : desktop[k].restored => desktop[k].window.app # NoApp
      /\ \A start \in starting :
           /\ start.window.app # NoApp
           /\ start.awaited => /\ start.restore = restores
                               /\ start.for \in DOMAIN stored
                               /\ start.window = stored[start.for]
                               /\ pc # "restoring"
      /\ \A app \in App : Accounted(app)
      /\ pc = "restoring" => \A app \in App : Listed(app)
  BY DEF CountInv
<1>T. /\ saved \in Seq(WindowRecord) /\ stored \in Seq(WindowRecord)
      /\ desktop \in Seq(DesktopWindow) /\ starting \subseteq Starting
      /\ restores \in Nat
  BY DEF RestoreInv, RestoreTypeOK, TypeOK
<1>W. \A k \in DOMAIN desktop : /\ desktop[k] \in DesktopWindow
                                /\ desktop[k].window \in WindowRecord
  <2>1. \A k \in DOMAIN desktop : desktop[k] \in DesktopWindow
    BY <1>T
  <2> QED
    BY <2>1 DEF DesktopWindow
<1>S. ASSUME desktop' = desktop, stored' = stored,
             \A start \in starting' : start.awaited => start \in starting
      PROVE  \A app \in App : /\ Accounted(app)'
                              /\ Listed(app) /\ live' = live => Listed(app)'
  <2> TAKE app \in App
  <2>1. Opened(app)' = Opened(app)
    BY <1>S DEF Opened
  <2>2. PICK h : h = [k \in Opened(app)' |-> k]
    OBVIOUS
  <2>3. /\ h \in Injection(Opened(app)', Opened(app))
        /\ \A k \in Opened(app)' : desktop'[k] = desktop[h[k]]
    BY <1>S, <2>1, <2>2 DEF Injection, IsInjective
  <2> QED
    BY <1>0, <1>S, <2>3, OpenedStay
<1>A. ASSUME saved' = saved, live' = live, UNCHANGED ambiguous
      PROVE  \A c \in ambiguous' : Score(c)' # Exact
  BY <1>0, <1>A DEF Score
<1>F. /\ \A start \in Forsaken : start.window.app # NoApp /\ ~start.awaited
  <2>1. ASSUME NEW start \in starting
        PROVE  /\ [start EXCEPT !.awaited = FALSE].window.app # NoApp
               /\ ~[start EXCEPT !.awaited = FALSE].awaited
    BY <1>0, <1>T DEF Starting
  <2> QED
    BY <2>1 DEF Forsaken
<1>P. ASSUME StartPlan, desktop' = desktop
      PROVE  /\ ambiguous' = {}
             /\ \A app \in App : Listed(app)'
  <2>1. PICK stacked \in Bijection(DOMAIN desktop, DOMAIN desktop) :
          live' = [k \in DOMAIN desktop |-> desktop[stacked[k]].window]
    BY <1>P, StartPlanInv
  <2>2. /\ stacked \in [DOMAIN desktop -> DOMAIN desktop]
        /\ \A k, l \in DOMAIN desktop : stacked[k] = stacked[l] => k = l
        /\ \A k \in DOMAIN desktop : \E l \in DOMAIN desktop : stacked[l] = k
    BY DEF Bijection, Injection, Surjection, IsInjective
  <2>3. ASSUME NEW app \in App PROVE Listed(app)'
    <3>0. PICK O : O = Opened(app) /\ O = Opened(app)'
      BY <1>P DEF Opened
    <3>1. PICK g : g = [k \in O |-> CHOOSE l \in DOMAIN desktop : stacked[l] = k]
      OBVIOUS
    <3>2. \A k \in O : g[k] \in DOMAIN desktop /\ stacked[g[k]] = k
      BY <2>2, <3>0, <3>1 DEF Opened
    <3>3. g \in [O -> DOMAIN desktop] /\ \A k, l \in O : g[k] = g[l] => k = l
      BY <3>1, <3>2
    <3>4. g \in Injection(O, DOMAIN live')
      BY <2>1, <3>3 DEF Injection, IsInjective
    <3>5. \A k \in O : live'[g[k]] = desktop'[k].window
      BY <1>P, <2>1, <3>2
    <3> QED
      BY <3>0, <3>4, <3>5 DEF Listed
  <2> QED
    BY <1>P, <2>3 DEF StartPlan
<1>D. ASSUME DropPlan PROVE ambiguous' = {}
  BY <1>D DEF DropPlan
<1>1. CASE PlanRestore
  <2>1. /\ StartPlan /\ pc' = "planning"
        /\ UNCHANGED <<stored, desktop, starting, restores>>
    BY <1>1 DEF PlanRestore
  <2>2. (\A app \in App : Accounted(app)') /\ ambiguous' = {}
    BY <1>P, <1>S, <2>1
  <2> QED
    BY <1>0, <2>1, <2>2 DEF CountInv
<1>2. CASE Match
  <2>1. PICK c \in rest : Consider(c)
    BY <1>2 DEF Match
  <2>2. /\ saved' = saved /\ live' = live
        /\ UNCHANGED <<stored, pc, desktop, starting, restores>>
    BY <1>2, <2>1 DEF Match, Consider
  <2>3. ambiguous' = ambiguous \/ (ambiguous' = ambiguous \cup {c} /\ Score(c) # Exact)
    <3>1. TooClose(c) => Score(c) # Exact
      <4>1. ASSUME TooClose(c), Score(c) = Exact PROVE FALSE
        BY <4>1 DEF TooClose, Exact
      <4> QED
        BY <4>1
    <3> QED
      BY <2>1, <3>1 DEF Consider, Pass, Refuse, Take
  <2>4. \A d : Score(d)' = Score(d)
    BY <2>2 DEF Score
  <2>5. \A d \in ambiguous' : Score(d)' # Exact
    BY <1>0, <2>3, <2>4
  <2>6. \A app \in App : Accounted(app)' /\ (Listed(app) => Listed(app)')
    BY <1>S, <2>2
  <2> QED
    BY <1>0, <2>2, <2>5, <2>6 DEF CountInv
<1>3. CASE ShowPlan \/ EndRestore
  <2>1. DropPlan /\ pc' = "idle" /\ UNCHANGED <<stored, desktop, starting, restores>>
    BY <1>3 DEF ShowPlan, EndRestore
  <2>2. (\A app \in App : Accounted(app)') /\ ambiguous' = {}
    BY <1>D, <1>S, <2>1
  <2> QED
    BY <1>0, <2>1, <2>2 DEF CountInv
<1>4. CASE SayYes \/ ClickRestore
  <2>1. /\ StartPlan /\ pc' = "restoring" /\ starting' = Forsaken
        /\ UNCHANGED <<stored, desktop>>
    BY <1>4 DEF SayYes, ClickRestore, Restore
  <2>2. (\A app \in App : Accounted(app)' /\ Listed(app)') /\ ambiguous' = {}
    BY <1>F, <1>P, <1>S, <2>1
  <2> QED
    BY <1>0, <1>F, <2>1, <2>2 DEF CountInv
<1>5. CASE Launch
  <2>1. /\ pc = "restoring" /\ pc' = "launching" /\ saved = stored
        /\ starting' = starting \cup
             {[restore |-> restores, for |-> i, window |-> saved[i], awaited |-> TRUE] :
                i \in launched'}
        /\ UNCHANGED <<matchVars, stored, desktop, restores>>
    BY <1>5 DEF Launch, RestoreInv
  <2>2. \A app \in App : Accounted(app)'
    BY <1>5, LaunchIsAccounted
  <2>3. launched' \subseteq ToLaunch
    <3>1. Chosen \subseteq Actions
      BY PlanIsList DEF Chosen, RestoreInv, RestoreTypeOK
    <3>2. \A a \in Actions : a.window = 0 => a.of \in ToLaunch
      BY ActionsAreFew DEF RestoreInv, RestoreTypeOK
    <3> QED
      BY <1>5, <3>1, <3>2 DEF Launch
  <2>4. \A start \in starting' :
          /\ start.window.app # NoApp
          /\ start.awaited => /\ start.restore = restores'
                              /\ start.for \in DOMAIN stored'
                              /\ start.window = stored'[start.for]
    <3> TAKE start \in starting'
    <3>1. CASE start \in starting
      BY <1>0, <2>1, <3>1
    <3>2. CASE start \notin starting
      <4>1. PICK i \in launched' :
              start = [restore |-> restores, for |-> i, window |-> saved[i], awaited |-> TRUE]
        BY <2>1, <3>2
      <4>2. i \in DOMAIN saved /\ saved[i].app # NoApp
        BY <2>3, <4>1 DEF ToLaunch, UnmatchedSaved
      <4> QED
        BY <2>1, <4>1, <4>2
    <3> QED
      BY <3>1, <3>2
  <2> QED
    BY <1>0, <1>A, <2>1, <2>2, <2>4 DEF CountInv
<1>6. CASE WriteSnapshot
  <2>1. /\ stored' \in Listings /\ starting' = Forsaken /\ pc = "idle"
        /\ UNCHANGED <<matchVars, pc, desktop, restores>>
    BY <1>6 DEF WriteSnapshot
  <2>2. PICK stacked \in Bijection(DOMAIN desktop, DOMAIN desktop) :
          stored' = [k \in DOMAIN desktop |-> desktop[stacked[k]].window]
    BY <2>1 DEF Listings
  <2>3. /\ stacked \in [DOMAIN desktop -> DOMAIN desktop]
        /\ \A k, l \in DOMAIN desktop : stacked[k] = stacked[l] => k = l
        /\ \A k \in DOMAIN desktop : \E l \in DOMAIN desktop : stacked[l] = k
    BY DEF Bijection, Injection, Surjection, IsInjective
  <2>4. ASSUME NEW app \in App PROVE Accounted(app)'
    <3>0. PICK O : O = Opened(app) /\ O = Opened(app)' /\ O \subseteq DOMAIN desktop
      BY <2>1 DEF Opened
    <3>1. PICK f : f = [k \in O |-> CHOOSE l \in DOMAIN desktop : stacked[l] = k]
      OBVIOUS
    <3>2. \A k \in O : f[k] \in DOMAIN desktop /\ stacked[f[k]] = k
      BY <2>3, <3>0, <3>1
    <3>3. f \in [O -> DOMAIN desktop] /\ \A k, l \in O : f[k] = f[l] => k = l
      BY <3>1, <3>2
    <3>4. f \in Injection(O, DOMAIN stored')
      BY <2>2, <3>3 DEF Injection, IsInjective
    <3>5. \A k \in O : WindowScore(stored'[f[k]], desktop'[k].window) = Exact
      <4> TAKE k \in O
      <4>1. PICK w \in WindowRecord : w = desktop[k].window
        BY <1>W, <3>0
      <4>2. stored'[f[k]] = w /\ desktop'[k].window = w
        BY <2>1, <2>2, <3>2, <4>1
      <4> QED
        BY <4>2, SelfIsExact
    <3> QED
      BY <1>F, <2>1, <3>0, <3>4, <3>5 DEF Accounted
  <2> QED
    BY <1>0, <1>A, <1>F, <2>1, <2>4 DEF CountInv
<1>C. ASSUME DesktopChanges
      PROVE  /\ UNCHANGED <<matchVars, stored, pc, restores>> /\ pc # "restoring"
             /\ \A c \in ambiguous' : Score(c)' # Exact
  BY <1>A, <1>C DEF DesktopChanges
(* The windows that a restore has opened are those, or fewer.              *)
<1>K. ASSUME DesktopChanges \/ PresentReview, starting' = starting,
             NEW h, \A k \in DOMAIN desktop' : desktop'[k].restored =>
                      h[k] \in DOMAIN desktop /\ desktop'[k] = desktop[h[k]],
             \A k, l \in DOMAIN desktop' :
               desktop'[k].restored /\ desktop'[l].restored /\ h[k] = h[l] => k = l
      PROVE  CountInv'
  <2>1. /\ UNCHANGED <<matchVars, stored, pc, restores>> /\ pc # "restoring"
        /\ \A c \in ambiguous' : Score(c)' # Exact
    BY <1>A, <1>C, <1>K DEF PresentReview
  <2>2. ASSUME NEW app \in App PROVE Accounted(app)'
    <3>1. PICK j : j = [k \in Opened(app)' |-> h[k]]
      OBVIOUS
    <3>2. \A k \in Opened(app)' : /\ j[k] = h[k] /\ j[k] \in Opened(app)
                                  /\ desktop'[k] = desktop[j[k]]
                                  /\ k \in DOMAIN desktop' /\ desktop'[k].restored
      BY <1>K, <3>1 DEF Opened
    <3>3. /\ j \in [Opened(app)' -> Opened(app)]
          /\ \A k, l \in Opened(app)' : j[k] = j[l] => k = l
      BY <1>K, <3>1, <3>2
    <3>4. j \in Injection(Opened(app)', Opened(app))
      BY <3>3 DEF Injection, IsInjective
    <3> QED
      BY <1>0, <1>K, <2>1, <3>2, <3>4, OpenedStay
  <2>3. \A k \in DOMAIN desktop' : desktop'[k].restored => desktop'[k].window.app # NoApp
    BY <1>0, <1>K
  <2> QED
    BY <1>0, <1>K, <2>1, <2>2, <2>3 DEF CountInv
<1>7. CASE ApplicationOpensWindow
  <2>1. PICK start \in starting :
          /\ desktop' = Append(desktop, [window |-> start.window, restored |-> start.awaited])
          /\ starting' = starting \ {start}
    BY <1>7 DEF ApplicationOpensWindow
  <2>2. DesktopChanges
    BY <1>7 DEF ApplicationOpensWindow
  <2>3. PICK n \in Nat : DOMAIN desktop = 1 .. n /\ n = Len(desktop)
    BY <1>T
  <2>4. /\ DOMAIN desktop' = 1 .. n + 1
        /\ desktop'[n + 1] = [window |-> start.window, restored |-> start.awaited]
        /\ \A k \in 1 .. n : desktop'[k] = desktop[k]
    BY <1>T, <2>1, <2>3
  <2>5. \A k \in DOMAIN desktop' : desktop'[k].restored => desktop'[k].window.app # NoApp
    BY <1>0, <2>3, <2>4
  <2>6. ASSUME NEW app \in App PROVE Accounted(app)'
    <3>0. PICK O, P : O = Opened(app) /\ P = Opened(app)' /\ O \subseteq 1 .. n
      BY <2>3 DEF Opened
    <3>1. CASE start.awaited /\ start.window.app = app
      <4>1. P = O \cup {n + 1} /\ n + 1 \notin O
        BY <2>3, <2>4, <3>0, <3>1 DEF Opened
      <4>2. PICK f \in Injection(O, DOMAIN stored) :
              \A k \in O :
                /\ WindowScore(stored[f[k]], desktop[k].window) = Exact
                /\ \A s \in starting : s.awaited /\ s.window.app = app => f[k] # s.for
        BY <1>0, <3>0 DEF Accounted
      <4>3. f \in [O -> DOMAIN stored] /\ \A k, l \in O : f[k] = f[l] => k = l
        BY DEF Injection, IsInjective
      <4>4. PICK i : /\ i = start.for /\ i \in DOMAIN stored /\ start.window = stored[i]
                     /\ start.restore = restores /\ stored[i] \in WindowRecord
        BY <1>0, <1>T, <3>1
      <4>5. PICK e : e = [k \in P |-> IF k = n + 1 THEN i ELSE f[k]]
        OBVIOUS
      <4>6. e[n + 1] = i /\ \A k \in O : e[k] = f[k]
        BY <4>1, <4>5
      <4>7. e \in [P -> DOMAIN stored]
        BY <4>1, <4>3, <4>4, <4>5
      <4>8. \A k, l \in P : e[k] = e[l] => k = l
        BY <3>1, <4>1, <4>2, <4>3, <4>4, <4>6
      <4>9. e \in Injection(P, DOMAIN stored)
        BY <4>7, <4>8 DEF Injection, IsInjective
      <4>10. \A k \in P : WindowScore(stored[e[k]], desktop'[k].window) = Exact
        <5>1. WindowScore(stored[i], stored[i]) = Exact
          BY <4>4, SelfIsExact
        <5> QED
          BY <2>4, <3>0, <4>1, <4>2, <4>4, <4>6, <5>1
      <4>11. \A s \in starting', k \in P : s.awaited /\ s.window.app = app => e[k] # s.for
        <5> TAKE s \in starting', k \in P
        <5> HAVE s.awaited /\ s.window.app = app
        <5>1. s \in starting /\ s # start
          BY <2>1
        <5>2. s.for # i
          <6>1. /\ s \in Starting /\ start \in Starting /\ s.restore = start.restore
                /\ s.awaited /\ start.awaited /\ s.window = stored[s.for]
            BY <1>0, <1>T, <3>1, <4>4, <5>1
          <6> QED
            BY <4>4, <5>1, <6>1 DEF Starting
        <5> QED
          BY <4>1, <4>2, <4>6, <5>1, <5>2
      <4> QED
        BY <1>C, <2>2, <3>0, <4>9, <4>10, <4>11 DEF Accounted
    <3>2. CASE ~(start.awaited /\ start.window.app = app)
      <4>1. P = O /\ \A k \in O : desktop'[k] = desktop[k]
        BY <2>3, <2>4, <3>0, <3>2 DEF Opened
      <4>2. PICK h : h = [k \in P |-> k]
        OBVIOUS
      <4>3. h \in Injection(P, O) /\ \A k \in P : desktop'[k] = desktop[h[k]]
        BY <4>1, <4>2 DEF Injection, IsInjective
      <4> QED
        BY <1>0, <1>C, <2>1, <2>2, <3>0, <4>3, OpenedStay
    <3> QED
      BY <3>1, <3>2
  <2> QED
    BY <1>0, <1>C, <2>1, <2>2, <2>5, <2>6 DEF CountInv
<1>8. CASE UserOpensWindow \/ PresentReview
  <2>1. PICK window : desktop' = Append(desktop, [window |-> window, restored |-> FALSE])
    BY <1>8 DEF UserOpensWindow, PresentReview
  <2>2. PICK n \in Nat : DOMAIN desktop = 1 .. n /\ n = Len(desktop)
    BY <1>T
  <2>3. /\ DOMAIN desktop' = 1 .. n + 1
        /\ desktop'[n + 1] = [window |-> window, restored |-> FALSE]
        /\ \A k \in 1 .. n : desktop'[k] = desktop[k]
    BY <1>T, <2>1, <2>2
  <2>4. PICK h : h = [k \in 1 .. n + 1 |-> k]
    OBVIOUS
  <2>5. \A k \in DOMAIN desktop' : desktop'[k].restored =>
          h[k] = k /\ h[k] \in DOMAIN desktop /\ desktop'[k] = desktop[h[k]]
    BY <2>2, <2>3, <2>4
  <2> QED
    BY <1>8, <1>K, <2>5 DEF UserOpensWindow, PresentReview
<1>9. CASE WindowIsRetitled
  <2>1. PICK i \in DOMAIN desktop, title \in NewTitles :
          desktop' = [desktop EXCEPT ![i] =
            [window |-> [desktop[i].window EXCEPT !.title = title], restored |-> FALSE]]
    BY <1>9 DEF WindowIsRetitled
  <2>2. PICK h : h = [k \in DOMAIN desktop |-> k]
    OBVIOUS
  <2>3. \A k \in DOMAIN desktop' : desktop'[k].restored =>
          h[k] = k /\ h[k] \in DOMAIN desktop /\ desktop'[k] = desktop[h[k]]
    BY <1>T, <2>1, <2>2
  <2> QED
    BY <1>9, <1>K, <2>3 DEF WindowIsRetitled
<1>10. CASE UserClosesWindow
  <2>1. PICK i \in DOMAIN desktop : desktop' = RemoveAt(desktop, i)
    BY <1>10 DEF UserClosesWindow
  <2>2. PICK n \in Nat : DOMAIN desktop = 1 .. n /\ n = Len(desktop)
    BY <1>T
  <2>3. /\ DOMAIN desktop' = 1 .. n - 1
        /\ \A k \in 1 .. n - 1 : desktop'[k] = IF k < i THEN desktop[k] ELSE desktop[k + 1]
    BY <1>T, <2>1, <2>2, EntryRemoved
  <2>4. PICK h : h = [k \in 1 .. n - 1 |-> IF k < i THEN k ELSE k + 1]
    OBVIOUS
  <2>5. \A k \in DOMAIN desktop' : /\ h[k] = IF k < i THEN k ELSE k + 1
                                   /\ h[k] \in DOMAIN desktop /\ desktop'[k] = desktop[h[k]]
                                   /\ k \in Int /\ i \in Int
    BY <2>2, <2>3, <2>4
  <2>6. \A k, l \in DOMAIN desktop' : h[k] = h[l] => k = l
    BY <2>5
  <2> QED
    BY <1>10, <1>K, <2>5, <2>6 DEF UserClosesWindow
<1>11. CASE UNCHANGED vars
  BY <1>0, <1>S, <1>A, <1>11 DEF vars, CountInv
<1> QED
  BY <1>1, <1>2, <1>3, <1>4, <1>5, <1>6, <1>7, <1>8, <1>9, <1>10, <1>11 DEF RestoreNext

(* With every window a restore has opened accounted for, there are not too *)
(* many of any application.                                                *)
LEMMA AccountedIsEnough ==
  ASSUME RestoreInv, CountInv
  PROVE  NeverTooMany
<1> SUFFICES ASSUME NEW app \in App
    PROVE  Cardinality(Opened(app))
             <= Cardinality({i \in DOMAIN stored : stored[i].app \in {app, NoApp}})
  BY DEF NeverTooMany, Opened
<1>1. PICK O : O = Opened(app)
  OBVIOUS
<1>2. PICK T : T = {i \in DOMAIN stored : stored[i].app \in {app, NoApp}}
  OBVIOUS
<1>3. PICK f \in Injection(O, DOMAIN stored) :
        \A k \in O : WindowScore(stored[f[k]], desktop[k].window) = Exact
  BY <1>1 DEF CountInv, Accounted
<1>4. f \in [O -> DOMAIN stored] /\ \A k, l \in O : f[k] = f[l] => k = l
  BY DEF Injection, IsInjective
<1>5. stored \in Seq(WindowRecord) /\ desktop \in Seq(DesktopWindow)
  BY DEF RestoreInv, RestoreTypeOK
<1>6. ASSUME NEW k \in O PROVE f[k] \in T
  <2>1. PICK s \in WindowRecord, w \in WindowRecord : s = stored[f[k]] /\ w = desktop[k].window
    <3>1. k \in DOMAIN desktop /\ desktop[k] \in DesktopWindow
      BY <1>1, <1>5 DEF Opened
    <3> QED
      BY <1>4, <1>5, <3>1 DEF DesktopWindow
  <2>2. SameApplication(s, w)
    BY <1>3, <2>1, ScoreIsNumber
  <2>3. w.app = app /\ w.app # NoApp
    BY <1>1, <2>1 DEF Opened, CountInv
  <2> QED
    BY <1>2, <1>4, <2>1, <2>2, <2>3 DEF SameApplication
<1>7. f \in Injection(O, T)
  <2>1. f \in [O -> T]
    BY <1>4, <1>6
  <2> QED
    BY <1>4, <2>1 DEF Injection, IsInjective
<1>8. IsFiniteSet(T)
  <2>1. PICK n \in Nat : DOMAIN stored = 1 .. n
    BY <1>5
  <2>2. T \in SUBSET (1 .. n) /\ IsFiniteSet(1 .. n)
    BY <1>2, <2>1, FS_Interval
  <2> QED
    BY <2>2, FS_Subset
<1>9. Cardinality(O) <= Cardinality(T)
  BY <1>7, <1>8, FS_Injection
<1> QED
  BY <1>1, <1>2, <1>9

(* A second restore is a no-op and a half-finished one is completed: no    *)
(* application ever has more restored windows than session.json has of it, *)
(* whatever windows the snapshot and the desktop have, whatever the user   *)
(* agrees to, opens, closes and the daemon writes, and however many        *)
(* restores there are (build_plan(), match_windows()).                     *)
THEOREM NeverTooManyAlways == RestoreSpec => []NeverTooMany
<1>1. RestoreInit => RestoreInv /\ CountInv
  BY RestoreInvInit, CountInvInit
<1>2. RestoreInv /\ CountInv /\ [RestoreNext]_vars => (RestoreInv /\ CountInv)'
  BY RestoreInvNext, CountInvNext
<1>3. RestoreInv /\ CountInv => NeverTooMany
  BY AccountedIsEnough
<1> QED
  BY <1>1, <1>2, <1>3, PTL DEF RestoreSpec


-----------------------------------------------------------------------------
(* What match_windows() returns, whatever the order of the windows         *)

(* The scores of all pairs are a function F.  The pairs that score at all. *)
Paired(F) == {c \in DOMAIN F : F[c] > 0}

(* Which of two pairs is considered earlier. *)
Earlier(F, c, d) ==
  \/ F[c] > F[d]
  \/ F[c] = F[d] /\ c[1] < d[1]
  \/ F[c] = F[d] /\ c[1] = d[1] /\ c[2] < d[2]

(* A pair is taken if it looks alike, neither window was taken earlier and *)
(* the live windows that come within the spread all were.                  *)
IsDue(F, M, c) ==
  /\ F[c] >= Threshold
  /\ \A d \in M : Earlier(F, d, c) => d[1] # c[1] /\ d[2] # c[2]
  /\ F[c] < Exact =>
       \A d \in Paired(F) :
         d[1] = c[1] /\ d[2] # c[2] /\ 100 * F[d] > MinSpread * F[c] =>
           \E e \in M : Earlier(F, e, c) /\ e[2] = d[2]

(* The pairs that are taken are those that are due. *)
IsOutcome(F, M) == M = {c \in Paired(F) : IsDue(F, M, c)}

(* Scores and then saved windows, counted together. *)
Turn(n, F) == [c \in DOMAIN F |-> (Exact - F[c]) * n + c[1]]

(* A turn is of one score and one saved window, and the live windows are   *)
(* looked at in their order within it.                                     *)
IsTurn(n, m, F, T) ==
  /\ T \in [(1 .. n) \X (1 .. m) -> Int]
  /\ \A c, d \in (1 .. n) \X (1 .. m) :
       /\ T[c] = T[d] <=> F[c] = F[d] /\ c[1] = d[1]
       /\ Earlier(F, c, d) <=> T[c] < T[d] \/ (T[c] = T[d] /\ c[2] < d[2])

(* How two pairs of numbers are ordered that are counted together. *)
LEMMA CountedTogether ==
  ASSUME NEW n \in Nat, NEW a \in Int, NEW b \in Int, NEW i \in 1 .. n, NEW j \in 1 .. n
  PROVE  /\ a * n + i < b * n + j <=> a < b \/ (a = b /\ i < j)
         /\ a * n + i = b * n + j <=> a = b /\ i = j
<1>1. \A x, y \in Int, k, l \in 1 .. n : x < y => x * n + k < y * n + l
  <2> TAKE x, y \in Int, k, l \in 1 .. n
  <2> HAVE x < y
  <2>1. PICK d \in Nat : y = x + 1 + d
    <3>1. y - x - 1 \in Nat /\ y = x + 1 + (y - x - 1)
      OBVIOUS
    <3> QED
      BY <3>1
  <2>2. y * n = x * n + n + d * n
    BY <2>1
  <2>3. d * n \in Nat
    BY <2>1
  <2>4. PICK p \in Int, q \in Nat : p = x * n /\ q = d * n
    BY <2>3
  <2> QED
    BY <2>2, <2>4
<1>2. CASE a = b
  BY <1>2
<1>3. CASE a < b
  <2>1. a * n + i < b * n + j
    BY <1>1, <1>3
  <2>2. PICK p \in Int, q \in Int : p = a * n + i /\ q = b * n + j
    OBVIOUS
  <2> QED
    BY <1>3, <2>1, <2>2
<1>4. CASE b < a
  <2>1. b * n + j < a * n + i
    BY <1>1, <1>4
  <2>2. PICK p \in Int, q \in Int : p = a * n + i /\ q = b * n + j
    OBVIOUS
  <2> QED
    BY <1>4, <2>1, <2>2
<1> QED
  BY <1>2, <1>3, <1>4

(* Counted together they are such turns. *)
LEMMA TurnsAreInOrder ==
  ASSUME NEW n \in Nat, NEW m \in Nat, NEW F \in [(1 .. n) \X (1 .. m) -> Int]
  PROVE  IsTurn(n, m, F, Turn(n, F))
<1>1. PICK T : T = Turn(n, F)
  OBVIOUS
<1>2. \A c \in (1 .. n) \X (1 .. m) :
        /\ T[c] = (Exact - F[c]) * n + c[1] /\ Exact - F[c] \in Int /\ c[1] \in 1 .. n
        /\ F[c] \in Int /\ c[2] \in Int
  BY <1>1 DEF Turn, Exact
<1>3. T \in [(1 .. n) \X (1 .. m) -> Int]
  <2>1. \A c \in (1 .. n) \X (1 .. m) : T[c] \in Int
    BY <1>2
  <2>2. DOMAIN F = (1 .. n) \X (1 .. m)
    OBVIOUS
  <2> QED
    BY <1>1, <2>1, <2>2 DEF Turn
<1>4. ASSUME NEW c \in (1 .. n) \X (1 .. m), NEW d \in (1 .. n) \X (1 .. m)
      PROVE  /\ T[c] = T[d] <=> F[c] = F[d] /\ c[1] = d[1]
             /\ T[c] < T[d] <=> F[c] > F[d] \/ (F[c] = F[d] /\ c[1] < d[1])
  <2>1. PICK a \in Int, b \in Int, i \in 1 .. n, j \in 1 .. n :
          a = Exact - F[c] /\ b = Exact - F[d] /\ i = c[1] /\ j = d[1]
    BY <1>2
  <2>2. T[c] = a * n + i /\ T[d] = b * n + j
    BY <1>2, <2>1
  <2>3. /\ T[c] < T[d] <=> a < b \/ (a = b /\ i < j)
        /\ T[c] = T[d] <=> a = b /\ i = j
    BY <2>2, CountedTogether
  <2>4. (a < b <=> F[c] > F[d]) /\ (a = b <=> F[c] = F[d])
    BY <1>2, <2>1 DEF Exact
  <2> QED
    BY <2>1, <2>3, <2>4
<1> QED
  BY <1>1, <1>2, <1>3, <1>4 DEF Earlier, IsTurn

(* A window that no pair of an earlier turn has taken. *)
LiveIsFree(T, M, t, k) == \A c \in M : c[2] = k => T[c] >= t
SavedIsFree(T, M, t, i) == \A c \in M : c[1] = i => T[c] >= t

(* No window that is still free in the turn of a pair comes too close. *)
HasNoRival(m, F, M, T, i, k) ==
  \A l \in 1 .. m :
    l # k /\ F[<<i, l>>] > 0 /\ 100 * F[<<i, l>>] > MinSpread * F[<<i, k>>]
      => ~LiveIsFree(T, M, T[<<i, k>>], l)

(* When its turn comes, a pair is taken if it looks alike, both windows    *)
(* are free, no window before was taken in that turn, and none is a rival. *)
IsTakenInTurn(m, F, M, T, i, k) ==
  /\ F[<<i, k>>] >= Threshold
  /\ SavedIsFree(T, M, T[<<i, k>>], i) /\ LiveIsFree(T, M, T[<<i, k>>], k)
  /\ \A l \in 1 .. m : T[<<i, l>>] = T[<<i, k>>] /\ l < k => <<i, l>> \notin M
  /\ F[<<i, k>>] < Exact => HasNoRival(m, F, M, T, i, k)

(* So it is with every outcome. *)
LEMMA DueInTurn ==
  ASSUME NEW n \in Nat, NEW m \in Nat, NEW F \in [(1 .. n) \X (1 .. m) -> Int],
         NEW M, IsOutcome(F, M), NEW T, IsTurn(n, m, F, T),
         NEW i \in 1 .. n, NEW k \in 1 .. m
  PROVE  <<i, k>> \in M <=> IsTakenInTurn(m, F, M, T, i, k)
<1>0. PICK t : t = T[<<i, k>>]
  OBVIOUS
<1>1. /\ \A c \in (1 .. n) \X (1 .. m) : T[c] \in Int /\ F[c] \in Int
      /\ \A c, d \in (1 .. n) \X (1 .. m) :
           /\ T[c] = T[d] <=> F[c] = F[d] /\ c[1] = d[1]
           /\ Earlier(F, c, d) <=> T[c] < T[d] \/ (T[c] = T[d] /\ c[2] < d[2])
  BY DEF IsTurn
<1>2. PICK c : c = <<i, k>>
  OBVIOUS
<1>3. c \in (1 .. n) \X (1 .. m) /\ c[1] = i /\ c[2] = k /\ T[c] = t /\ t \in Int
  BY <1>0, <1>1, <1>2
<1>4. M \subseteq (1 .. n) \X (1 .. m)
  BY DEF IsOutcome, Paired
<1>5. c \in M <=> IsDue(F, M, c)
  BY <1>1, <1>3 DEF IsOutcome, IsDue, Paired, Threshold
<1>6. ASSUME c \in M
      PROVE  /\ F[c] >= Threshold
             /\ SavedIsFree(T, M, t, i) /\ LiveIsFree(T, M, t, k)
             /\ \A l \in 1 .. m : T[<<i, l>>] = t /\ l < k => <<i, l>> \notin M
             /\ F[c] < Exact =>
                  \A l \in 1 .. m :
                    /\ l # k /\ F[<<i, l>>] > 0
                    /\ 100 * F[<<i, l>>] > MinSpread * F[c]
                    => ~LiveIsFree(T, M, t, l)
  <2>1. IsDue(F, M, c)
    BY <1>5, <1>6
  <2>2. \A d \in M : Earlier(F, d, c) => d[1] # i /\ d[2] # k
    BY <1>3, <2>1 DEF IsDue
  <2>3. SavedIsFree(T, M, t, i) /\ LiveIsFree(T, M, t, k)
    BY <1>1, <1>3, <1>4, <2>2 DEF SavedIsFree, LiveIsFree
  <2>4. \A l \in 1 .. m : T[<<i, l>>] = t /\ l < k => <<i, l>> \notin M
    BY <1>1, <1>3, <2>2
  <2>5. ASSUME F[c] < Exact, NEW l \in 1 .. m, l # k, F[<<i, l>>] > 0,
               100 * F[<<i, l>>] > MinSpread * F[c]
        PROVE  ~LiveIsFree(T, M, t, l)
    <3>1. PICK d : d = <<i, l>>
      OBVIOUS
    <3>2. d \in Paired(F) /\ d[1] = c[1] /\ d[2] = l /\ d[2] # c[2]
      BY <1>3, <2>5, <3>1 DEF Paired
    <3>3. PICK e \in M : Earlier(F, e, c) /\ e[2] = l
      BY <2>1, <2>5, <3>1, <3>2 DEF IsDue
    <3>4. T[e] # t
      <4>1. ASSUME T[e] = t PROVE FALSE
        <5>1. e[1] = i
          BY <1>1, <1>3, <1>4, <4>1
        <5> QED
          BY <2>2, <3>3, <5>1
      <4> QED
        BY <4>1
    <3>5. T[e] < t
      BY <1>1, <1>3, <1>4, <3>3, <3>4
    <3> QED
      BY <1>1, <1>3, <1>4, <3>3, <3>5 DEF LiveIsFree
  <2> QED
    BY <2>1, <2>3, <2>4, <2>5 DEF IsDue
<1>7. ASSUME F[c] >= Threshold,
             SavedIsFree(T, M, t, i), LiveIsFree(T, M, t, k),
             \A l \in 1 .. m : T[<<i, l>>] = t /\ l < k => <<i, l>> \notin M,
             F[c] < Exact =>
                  \A l \in 1 .. m :
                    /\ l # k /\ F[<<i, l>>] > 0
                    /\ 100 * F[<<i, l>>] > MinSpread * F[c]
                    => ~LiveIsFree(T, M, t, l)
      PROVE  c \in M
  <2>1. ASSUME NEW d \in M, Earlier(F, d, c) PROVE d[1] # i /\ d[2] # k
    <3>1. d \in (1 .. n) \X (1 .. m) /\ d = <<d[1], d[2]>> /\ T[d] \in Int
      BY <1>1, <1>4
    <3>2. CASE T[d] < t
      BY <1>3, <1>7, <3>1, <3>2 DEF SavedIsFree, LiveIsFree
    <3>3. CASE T[d] = t /\ d[2] < k
      <4>1. d[1] # i
        <5>1. ASSUME d[1] = i PROVE FALSE
          <6>1. PICK l \in 1 .. m : l = d[2]
            BY <3>1
          <6>2. d = <<i, l>>
            BY <3>1, <5>1, <6>1
          <6> QED
            BY <1>7, <3>3, <6>1, <6>2
        <5> QED
          BY <5>1
      <4> QED
        BY <3>1, <3>3, <4>1
    <3> QED
      BY <1>1, <1>3, <2>1, <3>1, <3>2, <3>3
  <2>2. ASSUME F[c] < Exact, NEW d \in Paired(F), d[1] = i, d[2] # k,
               100 * F[d] > MinSpread * F[c]
        PROVE  \E e \in M : Earlier(F, e, c) /\ e[2] = d[2]
    <3>1. PICK l \in 1 .. m : d = <<i, l>> /\ d[2] = l
      BY <2>2 DEF Paired
    <3>2. ~LiveIsFree(T, M, t, l)
      BY <1>7, <2>2, <3>1 DEF Paired
    <3>3. PICK e \in M : e[2] = l /\ ~(T[e] >= t)
      BY <3>2 DEF LiveIsFree
    <3>4. Earlier(F, e, c)
      BY <1>1, <1>3, <1>4, <3>3
    <3> QED
      BY <3>1, <3>3, <3>4
  <2>3. IsDue(F, M, c)
    BY <1>3, <1>7, <2>1, <2>2 DEF IsDue
  <2> QED
    BY <1>5, <2>3
<1> QED
  BY <1>0, <1>2, <1>6, <1>7 DEF IsTakenInTurn, HasNoRival

(* If it is no exact match, nothing else of its turn can be in its way.    *)
LEMMA UnlikeInTurn ==
  ASSUME NEW n \in Nat, NEW m \in Nat, NEW F \in [(1 .. n) \X (1 .. m) -> Int],
         NEW M, IsOutcome(F, M), NEW T, IsTurn(n, m, F, T),
         NEW i \in 1 .. n, NEW k \in 1 .. m, F[<<i, k>>] < Exact
  PROVE  <<i, k>> \in M <=>
           /\ F[<<i, k>>] >= Threshold
           /\ SavedIsFree(T, M, T[<<i, k>>], i) /\ LiveIsFree(T, M, T[<<i, k>>], k)
           /\ HasNoRival(m, F, M, T, i, k)
<1>1. ASSUME F[<<i, k>>] >= Threshold, HasNoRival(m, F, M, T, i, k),
             NEW l \in 1 .. m, T[<<i, l>>] = T[<<i, k>>], l < k
      PROVE  <<i, l>> \notin M
  <2>1. PICK s \in Int : s = F[<<i, k>>] /\ s = F[<<i, l>>]
    BY <1>1 DEF IsTurn
  <2>2. 100 * F[<<i, l>>] > MinSpread * F[<<i, k>>] /\ F[<<i, l>>] > 0 /\ l # k
    BY <1>1, <2>1 DEF Threshold, MinSpread
  <2>3. ~LiveIsFree(T, M, T[<<i, k>>], l)
    BY <1>1, <2>2 DEF HasNoRival
  <2>4. ~LiveIsFree(T, M, T[<<i, l>>], l)
    BY <1>1, <2>3
  <2>5. <<i, l>> \in M <=> IsTakenInTurn(m, F, M, T, i, l)
    BY DueInTurn
  <2> QED
    BY <2>4, <2>5 DEF IsTakenInTurn
<1>2. <<i, k>> \in M <=> IsTakenInTurn(m, F, M, T, i, k)
  BY DueInTurn
<1> QED
  BY <1>1, <1>2 DEF IsTakenInTurn

(* If it is one, the first free window of its turn is taken. *)
IsFirstFree(m, F, T, M, t, i, u) ==
  /\ SavedIsFree(T, M, t, i)
  /\ u \in 1 .. m /\ T[<<i, u>>] = t /\ F[<<i, u>>] = Exact /\ LiveIsFree(T, M, t, u)
  /\ \A l \in 1 .. m : T[<<i, l>>] = t /\ LiveIsFree(T, M, t, l) => u <= l

(* And no other is taken in that turn. *)
IsOnlyOne(m, T, M, t, i, u) ==
  \A k \in 1 .. m : T[<<i, k>>] = t => (<<i, k>> \in M <=> k = u)

(* So it is if the pairs of the turn are exact matches. *)
LEMMA ExactInTurn ==
  ASSUME NEW n \in Nat, NEW m \in Nat, NEW F \in [(1 .. n) \X (1 .. m) -> Int],
         NEW M, IsOutcome(F, M), NEW T, IsTurn(n, m, F, T), NEW t,
         NEW i \in 1 .. n, NEW u, IsFirstFree(m, F, T, M, t, i, u)
  PROVE  IsOnlyOne(m, T, M, t, i, u)
<1> USE DEF IsFirstFree, IsOnlyOne
<1>1. \A k \in 1 .. m : T[<<i, k>>] = t => F[<<i, k>>] = Exact
  BY DEF IsTurn
<1>2. ASSUME NEW k \in 1 .. m, T[<<i, k>>] = t
      PROVE  <<i, k>> \in M <=>
               /\ LiveIsFree(T, M, t, k)
               /\ \A l \in 1 .. m : T[<<i, l>>] = t /\ l < k => <<i, l>> \notin M
  <2>1. ~(F[<<i, k>>] < Exact) /\ F[<<i, k>>] >= Threshold
    BY <1>1, <1>2 DEF Exact, Threshold
  <2>2. <<i, k>> \in M <=> IsTakenInTurn(m, F, M, T, i, k)
    BY DueInTurn
  <2> QED
    BY <1>2, <2>1, <2>2 DEF IsTakenInTurn
<1>3. <<i, u>> \in M
  <2>1. ASSUME NEW l \in 1 .. m, T[<<i, l>>] = t, l < u PROVE <<i, l>> \notin M
    BY <1>2, <2>1
  <2> QED
    BY <1>2, <2>1
<1>4. ASSUME NEW k \in 1 .. m, T[<<i, k>>] = t, k # u PROVE <<i, k>> \notin M
  BY <1>2, <1>3, <1>4
<1> QED
  BY <1>3, <1>4

(* One after the other: the windows of one list stand for those of the     *)
(* other, with the same scores, and up to some turn the same were taken.   *)
IsAlikeUpTo(n, m, F, G, M, N, T, t, r) ==
  /\ r \in Bijection(1 .. m, 1 .. m)
  /\ \A i \in 1 .. n, k \in 1 .. m : F[<<i, k>>] = G[<<i, r[k]>>]
  /\ \A i \in 1 .. n, k \in 1 .. m : T[<<i, k>>] < t => (<<i, k>> \in M <=> <<i, r[k]>> \in N)

(* Two live windows that are exact matches of one saved window are the     *)
(* same to all.                                                            *)
EitherIsRight(n, m, G) ==
  \A i \in 1 .. n, k, l \in 1 .. m :
    G[<<i, k>>] = Exact /\ G[<<i, l>>] = Exact => \A j \in 1 .. n : G[<<j, k>>] = G[<<j, l>>]

(* They have the same turns. *)
TurnsAgree(n, m, T, U, r) == \A i \in 1 .. n, k \in 1 .. m : T[<<i, k>>] = U[<<i, r[k]>>]

(* The windows that are free stand for each other. *)
LEMMA FreeAlike ==
  ASSUME NEW n \in Nat, NEW m \in Nat, NEW F, NEW G,
         NEW M, IsOutcome(F, M), NEW N, IsOutcome(G, N),
         NEW T, IsTurn(n, m, F, T), NEW U, IsTurn(n, m, G, U),
         DOMAIN F = (1 .. n) \X (1 .. m), DOMAIN G = (1 .. n) \X (1 .. m),
         NEW t \in Int, NEW r, IsAlikeUpTo(n, m, F, G, M, N, T, t, r),
         TurnsAgree(n, m, T, U, r)
  PROVE  /\ \A k \in 1 .. m : LiveIsFree(T, M, t, k) <=> LiveIsFree(U, N, t, r[k])
         /\ \A i \in 1 .. n : SavedIsFree(T, M, t, i) <=> SavedIsFree(U, N, t, i)
<1>0. /\ M \in SUBSET ((1 .. n) \X (1 .. m)) /\ N \in SUBSET ((1 .. n) \X (1 .. m))
      /\ T \in [(1 .. n) \X (1 .. m) -> Int] /\ U \in [(1 .. n) \X (1 .. m) -> Int]
  BY DEF IsOutcome, Paired, IsTurn
<1>1. /\ r \in [1 .. m -> 1 .. m]
      /\ \A k, l \in 1 .. m : r[k] = r[l] => k = l
      /\ \A l \in 1 .. m : \E k \in 1 .. m : r[k] = l
  BY DEF IsAlikeUpTo, Bijection, Injection, Surjection, IsInjective
<1>2. \A i \in 1 .. n, k \in 1 .. m :
        T[<<i, k>>] < t => (<<i, k>> \in M <=> <<i, r[k]>> \in N)
  BY DEF IsAlikeUpTo
<1> USE DEF TurnsAgree
<1>3. ASSUME NEW c \in M, T[c] < t
      PROVE  \E d \in N : d[1] = c[1] /\ d[2] = r[c[2]] /\ U[d] < t
  <2>1. PICK i \in 1 .. n, k \in 1 .. m : c = <<i, k>>
    BY <1>0
  <2>2. <<i, r[k]>> \in N /\ U[<<i, r[k]>>] < t
    BY <1>2, <1>3, <2>1
  <2> QED
    BY <2>1, <2>2
<1>4. ASSUME NEW d \in N, U[d] < t
      PROVE  \E c \in M : d[1] = c[1] /\ d[2] = r[c[2]] /\ T[c] < t
  <2>1. PICK i \in 1 .. n, l \in 1 .. m : d = <<i, l>>
    BY <1>0
  <2>2. PICK k \in 1 .. m : r[k] = l
    BY <1>1
  <2>3. <<i, k>> \in M /\ T[<<i, k>>] < t
    BY <1>2, <1>4, <2>1, <2>2
  <2> QED
    BY <2>1, <2>2, <2>3
<1>5. /\ \A c \in M : T[c] \in Int /\ c[1] \in 1 .. n /\ c[2] \in 1 .. m
      /\ \A d \in N : U[d] \in Int
  BY <1>0
<1>6. ASSUME NEW i \in 1 .. n PROVE SavedIsFree(T, M, t, i) <=> SavedIsFree(U, N, t, i)
  BY <1>3, <1>4, <1>5 DEF SavedIsFree
<1>7. ASSUME NEW k \in 1 .. m PROVE LiveIsFree(T, M, t, k) <=> LiveIsFree(U, N, t, r[k])
  <2>1. ASSUME NEW c \in M, c[2] = k, ~(T[c] >= t)
        PROVE  \E d \in N : d[2] = r[k] /\ ~(U[d] >= t)
    <3>1. T[c] < t
      BY <1>5, <2>1
    <3>2. PICK d \in N : d[2] = r[c[2]] /\ U[d] < t
      BY <1>3, <3>1
    <3> QED
      BY <1>5, <2>1, <3>2
  <2>2. ASSUME NEW d \in N, d[2] = r[k], ~(U[d] >= t)
        PROVE  \E c \in M : c[2] = k /\ ~(T[c] >= t)
    <3>1. U[d] < t
      BY <1>5, <2>2
    <3>2. PICK c \in M : d[2] = r[c[2]] /\ T[c] < t
      BY <1>4, <3>1
    <3>3. PICK l \in 1 .. m : l = c[2]
      BY <1>5
    <3>4. r[l] = r[k]
      BY <2>2, <3>2, <3>3
    <3>5. c[2] = k
      BY <1>1, <3>3, <3>4
    <3> QED
      BY <1>5, <3>2, <3>5
  <2> QED
    BY <2>1, <2>2 DEF LiveIsFree
<1> QED
  BY <1>6, <1>7

(* No score exceeds that of an exact match.                                *)
AreScores(F) == \A c \in DOMAIN F : F[c] <= Exact

(* What scores the same with a saved window has the same turn with it.     *)
SameTurns(n, m, F, G, T, U) ==
  \A i \in 1 .. n, k, l \in 1 .. m : F[<<i, k>>] = G[<<i, l>>] => T[<<i, k>>] = U[<<i, l>>]

(* It can be kept up for one more turn: if the two lists do not agree on   *)
(* the window taken, either was right, and the other stands for it.        *)
LEMMA OneTurnMore ==
  ASSUME NEW n \in Nat, NEW m \in Nat,
         NEW F \in [(1 .. n) \X (1 .. m) -> Int], NEW G \in [(1 .. n) \X (1 .. m) -> Int],
         AreScores(F), EitherIsRight(n, m, G),
         NEW M, IsOutcome(F, M), NEW N, IsOutcome(G, N),
         NEW T, IsTurn(n, m, F, T), NEW U, IsTurn(n, m, G, U),
         NEW t \in Int, NEW r, IsAlikeUpTo(n, m, F, G, M, N, T, t, r),
         SameTurns(n, m, F, G, T, U)
  PROVE  \E q : IsAlikeUpTo(n, m, F, G, M, N, T, t + 1, q)
<1>1. /\ r \in [1 .. m -> 1 .. m]
      /\ \A k, l \in 1 .. m : r[k] = r[l] => k = l
      /\ \A l \in 1 .. m : \E k \in 1 .. m : r[k] = l
  BY DEF IsAlikeUpTo, Bijection, Injection, Surjection, IsInjective
<1>2. /\ \A i \in 1 .. n, k \in 1 .. m : F[<<i, k>>] = G[<<i, r[k]>>]
      /\ \A i \in 1 .. n, k \in 1 .. m :
           T[<<i, k>>] < t => (<<i, k>> \in M <=> <<i, r[k]>> \in N)
  BY DEF IsAlikeUpTo
<1>3. \A i \in 1 .. n, k \in 1 .. m : /\ T[<<i, k>>] = U[<<i, r[k]>>]
                                      /\ T[<<i, k>>] \in Int /\ U[<<i, k>>] \in Int
                                      /\ F[<<i, k>>] \in Int /\ F[<<i, k>>] <= Exact
  <2> TAKE i \in 1 .. n, k \in 1 .. m
  <2>1. r[k] \in 1 .. m /\ F[<<i, k>>] = G[<<i, r[k]>>]
    BY <1>1, <1>2
  <2>2. T[<<i, k>>] = U[<<i, r[k]>>]
    BY <2>1 DEF SameTurns
  <2>3. PICK c \in (1 .. n) \X (1 .. m) : c = <<i, k>>
    OBVIOUS
  <2>4. T[c] \in Int /\ U[c] \in Int /\ F[c] \in Int /\ F[c] <= Exact
    BY DEF IsTurn, AreScores
  <2> QED
    BY <2>2, <2>3, <2>4
<1>4. /\ \A k \in 1 .. m : LiveIsFree(T, M, t, k) <=> LiveIsFree(U, N, t, r[k])
      /\ \A i \in 1 .. n : SavedIsFree(T, M, t, i) <=> SavedIsFree(U, N, t, i)
  <2>1. TurnsAgree(n, m, T, U, r)
    BY <1>3 DEF TurnsAgree
  <2>2. DOMAIN F = (1 .. n) \X (1 .. m) /\ DOMAIN G = (1 .. n) \X (1 .. m)
    OBVIOUS
  <2> QED
    BY <2>1, <2>2, FreeAlike
<1>R. ASSUME \A i \in 1 .. n, k \in 1 .. m :
               T[<<i, k>>] = t => (<<i, k>> \in M <=> <<i, r[k]>> \in N)
      PROVE  IsAlikeUpTo(n, m, F, G, M, N, T, t + 1, r)
  <2>1. \A i \in 1 .. n, k \in 1 .. m :
          T[<<i, k>>] < t + 1 => (<<i, k>> \in M <=> <<i, r[k]>> \in N)
    <3> TAKE i \in 1 .. n, k \in 1 .. m
    <3> HAVE T[<<i, k>>] < t + 1
    <3>1. PICK y \in Int : y = T[<<i, k>>] /\ y < t + 1
      BY <1>3
    <3>2. y < t \/ y = t
      BY <3>1
    <3> QED
      BY <1>2, <1>R, <3>1, <3>2
  <2> QED
    BY <1>2, <2>1 DEF IsAlikeUpTo
<1>5. CASE \A i \in 1 .. n, k \in 1 .. m : T[<<i, k>>] # t
  BY <1>5, <1>R
<1>6. CASE \E i \in 1 .. n, k \in 1 .. m : T[<<i, k>>] = t
  <2>1. PICK i \in 1 .. n, k0 \in 1 .. m : T[<<i, k0>>] = t
    BY <1>6
  <2>2. PICK s \in Int : s = F[<<i, k0>>] /\ s <= Exact
    BY <1>3
  <2>3. \A j \in 1 .. n, k \in 1 .. m : T[<<j, k>>] = t <=> j = i /\ F[<<j, k>>] = s
    BY <2>1, <2>2 DEF IsTurn
  <2>4. \A j \in 1 .. n, k \in 1 .. m : U[<<j, k>>] = t <=> j = i /\ G[<<j, k>>] = s
    <3>1. U[<<i, r[k0]>>] = t /\ G[<<i, r[k0]>>] = s /\ r[k0] \in 1 .. m
      BY <1>1, <1>2, <1>3, <2>1, <2>2
    <3> QED
      BY <3>1 DEF IsTurn
  <2>5. CASE s < Exact
    <3>1. ASSUME NEW k \in 1 .. m, T[<<i, k>>] = t
          PROVE  <<i, k>> \in M <=> <<i, r[k]>> \in N
      <4>1. F[<<i, k>>] = s /\ G[<<i, r[k]>>] = s /\ U[<<i, r[k]>>] = t /\ r[k] \in 1 .. m
        <5>1. F[<<i, k>>] = s /\ r[k] \in 1 .. m
          BY <1>1, <2>3, <3>1
        <5>2. F[<<i, k>>] = G[<<i, r[k]>>] /\ T[<<i, k>>] = U[<<i, r[k]>>]
          BY <1>2, <1>3
        <5> QED
          BY <3>1, <5>1, <5>2
      <4>2. HasNoRival(m, F, M, T, i, k) <=> HasNoRival(m, G, N, U, i, r[k])
        <5>1. ASSUME HasNoRival(m, F, M, T, i, k), NEW l \in 1 .. m,
                     l # r[k], G[<<i, l>>] > 0, 100 * G[<<i, l>>] > MinSpread * s
              PROVE  ~LiveIsFree(U, N, t, l)
          <6>1. PICK p \in 1 .. m : r[p] = l
            BY <1>1
          <6>2. p # k /\ F[<<i, p>>] = G[<<i, l>>]
            BY <1>2, <5>1, <6>1
          <6>3. ~LiveIsFree(T, M, t, p)
            BY <3>1, <4>1, <5>1, <6>2 DEF HasNoRival
          <6> QED
            BY <1>4, <6>1, <6>3
        <5>2. ASSUME HasNoRival(m, G, N, U, i, r[k]), NEW p \in 1 .. m,
                     p # k, F[<<i, p>>] > 0, 100 * F[<<i, p>>] > MinSpread * s
              PROVE  ~LiveIsFree(T, M, t, p)
          <6>1. r[p] # r[k] /\ F[<<i, p>>] = G[<<i, r[p]>>] /\ r[p] \in 1 .. m
            BY <1>1, <1>2, <5>2
          <6>2. ~LiveIsFree(U, N, t, r[p])
            BY <4>1, <5>2, <6>1 DEF HasNoRival
          <6> QED
            BY <1>4, <6>2
        <5> QED
          BY <3>1, <4>1, <5>1, <5>2 DEF HasNoRival
      <4>3. <<i, k>> \in M <=>
              /\ F[<<i, k>>] >= Threshold
              /\ SavedIsFree(T, M, T[<<i, k>>], i) /\ LiveIsFree(T, M, T[<<i, k>>], k)
              /\ HasNoRival(m, F, M, T, i, k)
        BY <2>5, <4>1, UnlikeInTurn
      <4>4. <<i, r[k]>> \in N <=>
              /\ G[<<i, r[k]>>] >= Threshold
              /\ SavedIsFree(U, N, U[<<i, r[k]>>], i) /\ LiveIsFree(U, N, U[<<i, r[k]>>], r[k])
              /\ HasNoRival(m, G, N, U, i, r[k])
        <5>1. PICK l \in 1 .. m : l = r[k]
          BY <4>1
        <5>2. G[<<i, l>>] < Exact
          BY <2>5, <4>1, <5>1
        <5>3. <<i, l>> \in N <=>
                /\ G[<<i, l>>] >= Threshold
                /\ SavedIsFree(U, N, U[<<i, l>>], i) /\ LiveIsFree(U, N, U[<<i, l>>], l)
                /\ HasNoRival(m, G, N, U, i, l)
          BY <5>2, UnlikeInTurn
        <5> QED
          BY <5>1, <5>3
      <4> QED
        BY <1>4, <3>1, <4>1, <4>2, <4>3, <4>4
    <3> QED
      BY <1>R, <2>3, <3>1
  <2> DEFINE A == {k \in 1 .. m : T[<<i, k>>] = t /\ LiveIsFree(T, M, t, k)}
  <2>6. CASE s = Exact /\ (A = {} \/ ~SavedIsFree(T, M, t, i))
    <3>1. ASSUME NEW k \in 1 .. m, T[<<i, k>>] = t
          PROVE  <<i, k>> \notin M /\ <<i, r[k]>> \notin N
      <4>1. U[<<i, r[k]>>] = t /\ r[k] \in 1 .. m
        BY <1>1, <1>3, <3>1
      <4>2. ~(SavedIsFree(T, M, t, i) /\ LiveIsFree(T, M, t, k))
        BY <2>6, <3>1
      <4>3. ~(SavedIsFree(U, N, t, i) /\ LiveIsFree(U, N, t, r[k]))
        BY <1>4, <4>2
      <4>4. <<i, k>> \in M <=> IsTakenInTurn(m, F, M, T, i, k)
        BY DueInTurn
      <4>5. PICK l \in 1 .. m : l = r[k]
        BY <4>1
      <4>6. <<i, l>> \in N <=> IsTakenInTurn(m, G, N, U, i, l)
        BY DueInTurn
      <4> QED
        BY <3>1, <4>1, <4>2, <4>3, <4>4, <4>5, <4>6 DEF IsTakenInTurn
    <3> QED
      BY <1>R, <2>3, <3>1
  <2>7. CASE s = Exact /\ A # {} /\ SavedIsFree(T, M, t, i)
    <3> DEFINE B == {l \in 1 .. m : U[<<i, l>>] = t /\ LiveIsFree(U, N, t, l)}
    <3>1. B # {}
      <4>1. PICK k \in A : TRUE
        BY <2>7
      <4>2. r[k] \in 1 .. m /\ U[<<i, r[k]>>] = t /\ LiveIsFree(U, N, t, r[k])
        BY <1>1, <1>3, <1>4, <4>1
      <4> QED
        BY <4>2
    <3>2. A \in SUBSET Nat /\ B \in SUBSET Nat
      OBVIOUS
    <3>3. PICK u \in A : \A k \in A : u <= k
      BY <2>7, <3>2, LeastNatural
    <3>4. PICK v \in B : \A k \in B : v <= k
      BY <3>1, <3>2, LeastNatural
    <3>5. PICK x \in 1 .. m : r[x] = v
      BY <1>1
    <3>6. /\ u \in 1 .. m /\ v \in 1 .. m
          /\ T[<<i, u>>] = t /\ T[<<i, x>>] = t /\ U[<<i, v>>] = t /\ U[<<i, r[u]>>] = t
          /\ LiveIsFree(T, M, t, u) /\ LiveIsFree(T, M, t, x)
          /\ LiveIsFree(U, N, t, v) /\ LiveIsFree(U, N, t, r[u])
          /\ F[<<i, u>>] = Exact /\ G[<<i, v>>] = Exact /\ G[<<i, r[u]>>] = Exact
      <4>1. /\ u \in 1 .. m /\ T[<<i, u>>] = t /\ LiveIsFree(T, M, t, u)
            /\ v \in 1 .. m /\ U[<<i, v>>] = t /\ LiveIsFree(U, N, t, v)
        BY <3>3, <3>4
      <4>2. r[u] \in 1 .. m /\ U[<<i, r[u]>>] = t /\ LiveIsFree(U, N, t, r[u])
        BY <1>1, <1>3, <1>4, <4>1
      <4>3. T[<<i, x>>] = t /\ LiveIsFree(T, M, t, x)
        BY <1>3, <1>4, <3>5, <4>1
      <4>4. F[<<i, u>>] = Exact /\ G[<<i, v>>] = Exact /\ G[<<i, r[u]>>] = Exact
        BY <2>3, <2>4, <2>7, <4>1, <4>2
      <4> QED
        BY <4>1, <4>2, <4>3, <4>4
    <3>7. \A k \in 1 .. m : T[<<i, k>>] = t => (<<i, k>> \in M <=> k = u)
      <4>1. IsFirstFree(m, F, T, M, t, i, u)
        BY <2>7, <3>3, <3>6 DEF IsFirstFree
      <4>2. IsOnlyOne(m, T, M, t, i, u)
        BY <4>1, ExactInTurn
      <4> QED
        BY <4>2 DEF IsOnlyOne
    <3>8. \A l \in 1 .. m : U[<<i, l>>] = t => (<<i, l>> \in N <=> l = v)
      <4>1. SavedIsFree(U, N, t, i)
        BY <1>4, <2>7
      <4>2. IsFirstFree(m, G, U, N, t, i, v)
        BY <3>4, <3>6, <4>1 DEF IsFirstFree
      <4>3. IsOnlyOne(m, U, N, t, i, v)
        BY <4>2, ExactInTurn
      <4> QED
        BY <4>3 DEF IsOnlyOne
    <3>9. \A j \in 1 .. n : G[<<j, v>>] = G[<<j, r[u]>>]
      <4>1. PICK l \in 1 .. m : l = r[u]
        BY <1>1, <3>6
      <4>2. G[<<i, l>>] = Exact
        BY <3>6, <4>1
      <4>3. \A j \in 1 .. n : G[<<j, v>>] = G[<<j, l>>]
        BY <3>6, <4>2 DEF EitherIsRight
      <4> QED
        BY <4>1, <4>3
    <3>10. PICK q : q = [k \in 1 .. m |-> IF k = u THEN v ELSE IF k = x THEN r[u] ELSE r[k]]
      OBVIOUS
    <3>11. q \in Bijection(1 .. m, 1 .. m)
      <4>1. q \in [1 .. m -> 1 .. m]
        BY <1>1, <3>6, <3>10
      <4>2. \A k, l \in 1 .. m : q[k] = q[l] => k = l
        BY <1>1, <3>5, <3>6, <3>10
      <4>3. ASSUME NEW l \in 1 .. m PROVE \E k \in 1 .. m : q[k] = l
        <5>1. PICK k \in 1 .. m : r[k] = l
          BY <1>1
        <5>2. CASE l = v
          BY <3>6, <3>10, <5>2
        <5>3. CASE l # v /\ k = u
          <6>1. x # u
            BY <3>5, <5>1, <5>3
          <6> QED
            BY <3>10, <5>1, <5>3, <6>1
        <5>4. CASE l # v /\ k # u
          BY <3>5, <3>10, <5>1, <5>4
        <5> QED
          BY <5>2, <5>3, <5>4
      <4> HIDE DEF A, B
      <4>4. q \in [1 .. m -> 1 .. m] /\ (\A l \in 1 .. m : \E k \in 1 .. m : q[k] = l)
        BY <4>1, <4>3
      <4> QED
        BY ONLY <4>2, <4>4 DEF Bijection, Injection, Surjection, IsInjective
    <3>12. ASSUME NEW j \in 1 .. n, NEW k \in 1 .. m PROVE F[<<j, k>>] = G[<<j, q[k]>>]
      <4>1. F[<<j, k>>] = G[<<j, r[k]>>] /\ G[<<j, v>>] = G[<<j, r[u]>>]
        BY <1>2, <3>9
      <4> QED
        BY <3>5, <3>10, <4>1
    <3>13. ASSUME NEW j \in 1 .. n, NEW k \in 1 .. m, T[<<j, k>>] < t
           PROVE  <<j, k>> \in M <=> <<j, q[k]>> \in N
      <4>1. CASE k = u \/ k = x
        <5>1. <<j, k>> \notin M
          <6>1. LiveIsFree(T, M, t, k) /\ T[<<j, k>>] \in Int
            BY <1>3, <3>6, <4>1
          <6> QED
            BY <3>13, <6>1 DEF LiveIsFree
        <5>2. q[k] \in 1 .. m /\ LiveIsFree(U, N, t, q[k]) /\ U[<<j, q[k]>>] = T[<<j, k>>]
          <6>1. q[k] \in {v, r[u]}
            BY <3>10, <4>1
          <6>2. q[k] \in 1 .. m /\ F[<<j, k>>] = G[<<j, q[k]>>]
            <7>1. F[<<j, k>>] = G[<<j, q[k]>>]
              BY <3>12
            <7>2. q[k] \in 1 .. m
              <8>1. r[u] \in 1 .. m
                BY <1>1, <3>6
              <8> QED
                BY <3>6, <6>1, <8>1
            <7> QED
              BY <7>1, <7>2
          <6>3. U[<<j, q[k]>>] = T[<<j, k>>]
            BY <6>2 DEF SameTurns
          <6> QED
            BY <3>6, <6>1, <6>2, <6>3
        <5>3. <<j, q[k]>> \notin N
          <6>1. U[<<j, q[k]>>] \in Int
            BY <1>3, <5>2
          <6> QED
            BY <3>13, <5>2, <6>1 DEF LiveIsFree
        <5> QED
          BY <5>1, <5>3
      <4>2. CASE k # u /\ k # x
        BY <1>2, <3>10, <3>13, <4>2
      <4> QED
        BY <4>1, <4>2
    <3>14. ASSUME NEW j \in 1 .. n, NEW k \in 1 .. m, T[<<j, k>>] = t
           PROVE  <<j, k>> \in M <=> <<j, q[k]>> \in N
      <4>1. j = i
        BY <2>3, <3>14
      <4>2. q[k] \in 1 .. m /\ U[<<i, q[k]>>] = t
        <5>1. q[k] \in 1 .. m
          BY <3>11 DEF Bijection, Injection
        <5>2. F[<<i, k>>] = G[<<i, q[k]>>]
          BY <3>12, <4>1
        <5>3. T[<<i, k>>] = U[<<i, q[k]>>]
          BY <5>1, <5>2 DEF SameTurns
        <5> QED
          BY <3>14, <4>1, <5>1, <5>3
      <4>3. q[k] = v <=> k = u
        <5>1. q[u] = v
          BY <3>6, <3>10
        <5> QED
          BY <3>6, <3>11, <5>1 DEF Bijection, Injection, IsInjective
      <4> QED
        BY <3>7, <3>8, <3>14, <4>1, <4>2, <4>3
    <3>15. \A j \in 1 .. n, k \in 1 .. m :
             T[<<j, k>>] < t + 1 => (<<j, k>> \in M <=> <<j, q[k]>> \in N)
      <4> TAKE j \in 1 .. n, k \in 1 .. m
      <4> HAVE T[<<j, k>>] < t + 1
      <4>1. PICK y \in Int : y = T[<<j, k>>] /\ y < t + 1
        BY <1>3
      <4> HIDE DEF A, B
      <4>2. y < t \/ y = t
        BY ONLY <4>1, t \in Int
      <4> QED
        BY <3>13, <3>14, <4>1, <4>2
    <3> QED
      BY <3>11, <3>12, <3>15 DEF IsAlikeUpTo
  <2>8. s < Exact \/ s = Exact
    BY <2>2 DEF Exact
  <2> QED
    BY <2>5, <2>6, <2>7, <2>8
<1> QED
  BY <1>5, <1>6

(* Two lists of matches, the live windows of one of which stand for those  *)
(* of the other.                                                           *)
Correspond(n, m, F, G, M, N, r) ==
  /\ r \in Bijection(1 .. m, 1 .. m)
  /\ \A i \in 1 .. n, k \in 1 .. m :
       /\ F[<<i, k>>] = G[<<i, r[k]>>]
       /\ <<i, k>> \in M <=> <<i, r[k]>> \in N

(* The same windows in another order score the same. *)
InOrderOf(n, m, F, G, p) ==
  /\ p \in Bijection(1 .. m, 1 .. m)
  /\ \A i \in 1 .. n, k \in 1 .. m : F[<<i, k>>] = G[<<i, p[k]>>]

(* The same windows in another order are matched with the same saved       *)
(* windows, or with others that score the same.                            *)
LEMMA OutcomesAlike ==
  ASSUME NEW n \in Nat, NEW m \in Nat,
         NEW F \in [(1 .. n) \X (1 .. m) -> Int], NEW G \in [(1 .. n) \X (1 .. m) -> Int],
         AreScores(F), EitherIsRight(n, m, G),
         NEW M, IsOutcome(F, M), NEW N, IsOutcome(G, N),
         NEW p, InOrderOf(n, m, F, G, p)
  PROVE  \E r : Correspond(n, m, F, G, M, N, r)
<1>1. PICK T, U : T = Turn(n, F) /\ U = Turn(n, G)
  OBVIOUS
<1>2. IsTurn(n, m, F, T) /\ IsTurn(n, m, G, U)
  BY <1>1, TurnsAreInOrder
<1>3. /\ \A i \in 1 .. n, k \in 1 .. m : T[<<i, k>>] = (Exact - F[<<i, k>>]) * n + i
      /\ \A i \in 1 .. n, k \in 1 .. m : U[<<i, k>>] = (Exact - G[<<i, k>>]) * n + i
  BY <1>1 DEF Turn
<1>4. SameTurns(n, m, F, G, T, U)
  BY <1>3 DEF SameTurns
<1>5. PICK E \in Nat : E = Exact * n + n + 1
  BY DEF Exact
<1>6. ASSUME NEW i \in 1 .. n, NEW k \in 1 .. m
      PROVE  /\ T[<<i, k>>] \in Int /\ T[<<i, k>>] > 0
             /\ F[<<i, k>>] > 0 => T[<<i, k>>] < E
  <2>1. PICK c \in (1 .. n) \X (1 .. m) : c = <<i, k>>
    OBVIOUS
  <2>2. PICK f \in Int : f = F[<<i, k>>] /\ f <= 100
    BY <2>1 DEF Exact, AreScores
  <2>3. PICK z \in Nat : z = 100 - f
    BY <2>2
  <2>4. PICK y \in Nat : y = z * n
    OBVIOUS
  <2>5. PICK w \in Nat : w = 100 * n
    OBVIOUS
  <2>6. ASSUME f > 0 PROVE y <= w
    <3>1. PICK g \in Nat : g = f
      BY <2>2, <2>6
    <3>2. PICK x \in Nat : x = g * n
      OBVIOUS
    <3>3. 100 * n = z * n + g * n
      BY <2>3, <3>1
    <3> QED
      BY <2>4, <2>5, <3>2, <3>3
  <2>7. PICK v \in Int : v = T[<<i, k>>] /\ v = y + i
    <3>1. z = Exact - F[<<i, k>>]
      BY <2>2, <2>3 DEF Exact
    <3>2. T[<<i, k>>] = (Exact - F[<<i, k>>]) * n + i
      BY <1>3
    <3>3. T[<<i, k>>] = y + i
      BY <2>4, <3>1, <3>2
    <3> QED
      BY <3>3
  <2>8. E = w + n + 1
    BY <1>5, <2>5 DEF Exact
  <2>9. v > 0 /\ (f > 0 => v < E)
    BY <2>6, <2>7, <2>8
  <2> QED
    BY <2>2, <2>7, <2>9
<1>7. PICK Q : Q = {t \in 0 .. E : \E r : IsAlikeUpTo(n, m, F, G, M, N, T, t, r)}
  OBVIOUS
<1>8. 0 \in Q
  <2>1. \A i \in 1 .. n, k \in 1 .. m : ~(T[<<i, k>>] < 0)
    <3> TAKE i \in 1 .. n, k \in 1 .. m
    <3>1. PICK y \in Int : y = T[<<i, k>>] /\ y > 0
      BY <1>6
    <3> QED
      BY <3>1
  <2>2. IsAlikeUpTo(n, m, F, G, M, N, T, 0, p)
    BY <2>1 DEF IsAlikeUpTo, InOrderOf
  <2> QED
    BY <1>7, <2>2
<1>9. ASSUME NEW t \in 1 .. E, t - 1 \in Q PROVE t \in Q
  <2>1. PICK r : IsAlikeUpTo(n, m, F, G, M, N, T, t - 1, r)
    BY <1>7, <1>9
  <2>2. PICK s \in Int : s = t - 1 /\ t = s + 1
    OBVIOUS
  <2>3. IsAlikeUpTo(n, m, F, G, M, N, T, s, r)
    BY <2>1, <2>2
  <2>4. \E q : IsAlikeUpTo(n, m, F, G, M, N, T, s + 1, q)
    BY <1>2, <1>4, <2>3, OneTurnMore
  <2> QED
    BY <1>7, <2>2, <2>4
<1>10. \A t \in 0 .. E : t \in Q
  BY <1>8, <1>9, CountingUp
<1>11. PICK r : IsAlikeUpTo(n, m, F, G, M, N, T, E, r)
  BY <1>7, <1>10
<1>12. r \in Bijection(1 .. m, 1 .. m) /\ r \in [1 .. m -> 1 .. m]
  BY <1>11 DEF IsAlikeUpTo, Bijection, Injection
<1>13. ASSUME NEW i \in 1 .. n, NEW k \in 1 .. m
       PROVE  /\ F[<<i, k>>] = G[<<i, r[k]>>]
              /\ <<i, k>> \in M <=> <<i, r[k]>> \in N
  <2>1. F[<<i, k>>] = G[<<i, r[k]>>]
    BY <1>11 DEF IsAlikeUpTo
  <2>2. CASE F[<<i, k>>] > 0
    BY <1>6, <1>11, <2>1, <2>2 DEF IsAlikeUpTo
  <2>3. CASE ~(F[<<i, k>>] > 0)
    BY <2>1, <2>3 DEF IsOutcome, Paired
  <2> QED
    BY <2>1, <2>2, <2>3
<1> QED
  BY <1>12, <1>13 DEF Correspond

(* The scores of the windows that are matched. *)
Scores == [c \in (DOMAIN saved) \X (DOMAIN live) |-> Score(c)]

(* The best were considered first, and of them those were taken that are   *)
(* due.                                                                    *)
Decided ==
  /\ \A c \in Candidates \ rest, d \in rest : Precedes(c, d)
  /\ matches \cap rest = {}
  /\ \A c \in Candidates \ rest : c \in matches <=> IsDue(Scores, matches, c)

(* Scores are numbers, and the pairs that score are the candidates. *)
LEMMA ScoresAreNumbers ==
  ASSUME TypeOK
  PROVE  /\ Scores \in [(DOMAIN saved) \X (DOMAIN live) -> Int] /\ AreScores(Scores)
         /\ Paired(Scores) = Candidates
         /\ \A c \in Candidates : /\ Scores[c] = Score(c) /\ Score(c) \in Int
                                  /\ c[1] \in Int /\ c[2] \in Int
         /\ \A c, d \in Candidates : Earlier(Scores, c, d) <=> Precedes(c, d)
<1>1. saved \in Seq(WindowRecord) /\ live \in Seq(WindowRecord)
  BY DEF TypeOK
<1>2. ASSUME NEW c \in (DOMAIN saved) \X (DOMAIN live)
      PROVE  /\ Score(c) \in Int /\ Score(c) <= Exact
             /\ c[1] \in Int /\ c[2] \in Int
  <2>1. /\ saved[c[1]] \in WindowRecord /\ live[c[2]] \in WindowRecord
        /\ c[1] \in Int /\ c[2] \in Int
    BY <1>1
  <2> QED
    BY <2>1, ScoreIsNumber DEF Score
<1>3. /\ \A c \in (DOMAIN saved) \X (DOMAIN live) : Scores[c] = Score(c)
      /\ DOMAIN Scores = (DOMAIN saved) \X (DOMAIN live)
  BY DEF Scores
<1>4. Scores \in [(DOMAIN saved) \X (DOMAIN live) -> Int]
  BY <1>2 DEF Scores
<1>5. AreScores(Scores)
  BY <1>2, <1>3 DEF AreScores
<1>6. Paired(Scores) = Candidates
  BY <1>3 DEF Paired, Candidates
<1>7. Candidates \subseteq (DOMAIN saved) \X (DOMAIN live)
  BY DEF Candidates
<1>8. \A c, d \in Candidates : Earlier(Scores, c, d) <=> Precedes(c, d)
  BY <1>3, <1>7 DEF Earlier, Precedes
<1> QED
  BY <1>2, <1>3, <1>4, <1>5, <1>6, <1>7, <1>8

(* So it is before the first round ... *)
LEMMA DecidedAtFirst ==
  ASSUME rest = Candidates, matches = {}
  PROVE  Decided
BY DEF Decided

(* ... and after each. *)
LEMMA DecidedNext == IInv /\ Decided /\ [Next]_matchVars => Decided'
<1> SUFFICES ASSUME IInv, Decided, [Next]_matchVars PROVE Decided'
  OBVIOUS
<1>0. TypeOK /\ rest \subseteq Candidates /\ matches \subseteq Candidates
  BY DEF IInv, TypeOK
<1>1. CASE UNCHANGED matchVars
  <2>1. UNCHANGED <<saved, live, rest, matches>>
    BY <1>1 DEF matchVars
  <2>2. Scores' = Scores
    BY <2>1 DEF Scores, Score
  <2> QED
    BY <2>1, <2>2, Frame DEF Decided, IsDue, Earlier, Paired
<1>2. ASSUME NEW c \in rest, Consider(c) PROVE Decided'
  <2>1. /\ rest' = rest \ {c} /\ UNCHANGED <<saved, live>>
        /\ c \in Candidates /\ c \notin matches
        /\ \A d \in rest : d # c => Precedes(c, d)
    BY <1>0, <1>2 DEF Consider, IsBestOfRest, Decided
  <2>2. /\ Candidates' = Candidates
        /\ \A d, e : Precedes(d, e)' <=> Precedes(d, e)
    BY <2>1, Frame
  <2>3. PICK F : F = Scores /\ Scores' = F
    BY <2>1 DEF Scores, Score
  <2>4. /\ Paired(F) = Candidates
        /\ \A d \in Candidates : /\ F[d] = Score(d) /\ Score(d) \in Int
                                 /\ d[1] \in Int /\ d[2] \in Int
        /\ \A d, e \in Candidates : Earlier(F, d, e) <=> Precedes(d, e)
    BY <1>0, <2>3, ScoresAreNumbers
  <2>5. /\ \A d \in Candidates \ rest, e \in rest : Precedes(d, e)
        /\ matches \cap rest = {}
        /\ \A d \in Candidates \ rest : d \in matches <=> IsDue(F, matches, d)
    BY <2>3 DEF Decided
  <2>6. \A d, e \in Candidates : Precedes(d, e) => ~Precedes(e, d)
    BY <2>4 DEF Precedes
  <2>7. matches' = matches \/ matches' = matches \cup {c}
    BY <1>2 DEF Consider, Pass, Refuse, Take
  <2>8. ASSUME NEW d \in Candidates \ rest
        PROVE  d \in matches' <=> IsDue(F, matches', d)
    <3>1. Precedes(d, c) /\ d # c
      BY <2>5
    <3>2. ~Earlier(F, c, d)
      BY <2>1, <2>4, <2>6, <3>1
    <3>3. IsDue(F, matches', d) <=> IsDue(F, matches, d)
      BY <2>7, <3>2 DEF IsDue
    <3> QED
      BY <2>5, <2>7, <3>1, <3>3
  <2>9. c \in matches' <=> IsDue(F, matches', c)
    <3>1. c \in matches' <=> ~IsTaken(c) /\ LooksAlike(c) /\ ~TooClose(c)
      BY <1>2, <2>1 DEF Consider, Pass, Refuse, Take
    <3>2. ~Earlier(F, c, c)
      BY <2>1, <2>4, <2>6
    <3>3. \A d \in matches : Earlier(F, d, c)
      BY <1>0, <2>1, <2>4, <2>5
    <3>4. IsDue(F, matches', c) <=> IsDue(F, matches, c)
      BY <2>7, <3>2 DEF IsDue
    <3>5. ~IsTaken(c) <=> \A d \in matches : Earlier(F, d, c) => d[1] # c[1] /\ d[2] # c[2]
      BY <3>3 DEF IsTaken, TakenSaved, TakenLive
    <3>6. LooksAlike(c) <=> F[c] >= Threshold
      BY <2>1, <2>4 DEF LooksAlike
    <3>7. ~TooClose(c) <=>
            (F[c] < Exact =>
               \A d \in Paired(F) :
                 d[1] = c[1] /\ d[2] # c[2] /\ 100 * F[d] > MinSpread * F[c] =>
                   \E e \in matches : Earlier(F, e, c) /\ e[2] = d[2])
      <4>1. \A l : l \in TakenLive <=> \E e \in matches : Earlier(F, e, c) /\ e[2] = l
        BY <3>3 DEF TakenLive
      <4> QED
        BY <2>1, <2>4, <4>1 DEF TooClose
    <3> QED
      BY <3>1, <3>4, <3>5, <3>6, <3>7 DEF IsDue
  <2>10. \A d \in Candidates \ rest', e \in rest' : Precedes(d, e)
    BY <2>1, <2>5
  <2>11. matches' \cap rest' = {}
    BY <2>1, <2>5, <2>7
  <2>12. \A d \in Candidates \ rest' : d \in matches' <=> IsDue(F, matches', d)
    BY <2>1, <2>8, <2>9
  <2> QED
    BY <2>2, <2>3, <2>10, <2>11, <2>12 DEF Decided
<1> QED
  BY <1>1, <1>2 DEF Next

(* When all are considered the outcome is known by the scores alone. *)
LEMMA DecidedIsOutcome ==
  ASSUME TypeOK, Decided, rest = {}
  PROVE  IsOutcome(Scores, matches)
BY ScoresAreNumbers DEF IsOutcome, Decided, TypeOK

(* Which windows are matched is determined by the scores: a pair is a      *)
(* match if it looks alike, no earlier match has one of its windows, and   *)
(* unless its score is exact every rival was taken earlier.  Every step of *)
(* the loop keeps it (match_windows()).                                    *)
THEOREM MatchingIsDetermined == Spec => [](rest = {} => IsOutcome(Scores, matches))
<1>1. Init => Decided
  BY DecidedAtFirst DEF Init, Start
<1>2. IInv /\ Decided => (rest = {} => IsOutcome(Scores, matches))
  BY DecidedIsOutcome DEF IInv
<1> QED
  BY <1>1, <1>2, InitIInv, StepIInv, DecidedNext, PTL DEF Spec

-----------------------------------------------------------------------------
(* The plan that is carried out is the plan that was shown                 *)

(* Titles with the same shares of characters are a third title's           *)
(* placeholder together or not at all; they may have other lengths.  And   *)
(* every window has an application id.                                     *)
Recognised ==
  /\ \A snapshot \in Snapshots : \A i \in DOMAIN snapshot : snapshot[i].app # NoApp
  /\ \A window \in UserWindows \cup {Review} : window.app # NoApp
  /\ \A s, t, u \in Title :
       Identical(t, u) => (IsPlaceholder(s, t) <=> IsPlaceholder(s, u))

(* Titles that are identical are as like any other title.                  *)
LEMMA IdenticalAreAsLike ==
  ASSUME NEW t \in Title, NEW u \in Title, NEW v \in Title, Identical(u, v)
  PROVE  TitleSimilarity(t, u) = TitleSimilarity(t, v)
<1>1. CASE u = v
  BY <1>1
<1>2. CASE TitleSimilarity(u, v) = Exact
  <2>1. /\ t.count \in [Char -> Nat] /\ u.count \in [Char -> Nat] /\ v.count \in [Char -> Nat]
        /\ t.length \in Nat /\ u.length \in Nat /\ v.length \in Nat
    BY TitleAssumption DEF TitleRecord
  <2>2. PICK l \in Nat, m \in Nat, n \in Nat :
          /\ l = Divisor(t) /\ m = Divisor(u) /\ n = Divisor(v)
          /\ l > 0 /\ m > 0 /\ n > 0
    BY <2>1 DEF Divisor
  <2>3. PICK f : f = [c \in Char |-> Distance(t.count[c] * m, u.count[c] * l)]
    OBVIOUS
  <2>4. PICK g : g = [c \in Char |-> Distance(t.count[c] * n, v.count[c] * l)]
    OBVIOUS
  <2>5. ASSUME NEW c \in Char
        PROVE  f[c] \in Nat /\ g[c] \in Nat /\ n * f[c] = m * g[c]
    <3>1. PICK p \in Nat, q \in Nat, r \in Nat :
            p = t.count[c] /\ q = u.count[c] /\ r = v.count[c]
      BY <2>1
    <3>2. q * n = r * m
      BY <1>2, <2>2, <3>1, SameShares
    <3>3. PICK x \in Nat, y \in Nat, z \in Nat, w \in Nat :
            x = p * m /\ y = q * l /\ z = p * n /\ w = r * l
      OBVIOUS
    <3>4. n * x = m * z
      BY <3>3
    <3>5. n * y = m * w
      <4>1. n * (q * l) = (q * n) * l /\ m * (r * l) = (r * m) * l
        OBVIOUS
      <4> QED
        BY <3>2, <3>3, <4>1
    <3>6. f[c] = Distance(x, y) /\ g[c] = Distance(z, w)
      BY <2>3, <2>4, <3>1, <3>3
    <3>7. n * (y - x) = m * (w - z) /\ n * (x - y) = m * (z - w)
      BY <3>4, <3>5
    <3>8. x < y <=> z < w
      <4>1. PICK i \in Int, j \in Int : i = y - x /\ j = w - z /\ n * i = m * j
        BY <3>7
      <4>2. i > 0 <=> j > 0
        <5>1. ASSUME i > 0, ~(j > 0) PROVE FALSE
          <6>1. n * i > 0 /\ m * j <= 0
            BY <2>2, <5>1
          <6> QED
            BY <4>1, <6>1
        <5>2. ASSUME j > 0, ~(i > 0) PROVE FALSE
          <6>1. m * j > 0 /\ n * i <= 0
            BY <2>2, <5>2
          <6> QED
            BY <4>1, <6>1
        <5> QED
          BY <5>1, <5>2
      <4> QED
        BY <4>1, <4>2
    <3> QED
      BY <3>6, <3>7, <3>8 DEF Distance
  <2>6. f \in [Char -> Nat] /\ g \in [Char -> Nat]
    BY <2>3, <2>4, <2>5
  <2>7. PICK d \in Nat, e \in Nat : d = SumFunction(f) /\ e = SumFunction(g) /\ n * d = m * e
    <3>1. SumFunction(f) \in Nat /\ SumFunction(g) \in Nat
      BY <2>6, TitleAssumption, SumOfNaturals
    <3>2. n * SumFunction(f) = m * SumFunction(g)
      BY <2>5, <2>6, TitleAssumption, SumsScale
    <3> QED
      BY <3>1, <3>2
  <2>8. PICK x \in Nat, y \in Nat : x = 2 * l * m /\ y = 2 * l * n /\ x > 0 /\ y > 0
    BY <2>2
  <2>9. /\ TitleSimilarity(t, u) = (100 * (x - d)) \div x
        /\ TitleSimilarity(t, v) = (100 * (y - e)) \div y
    BY <2>2, <2>3, <2>4, <2>7, <2>8, Zenon DEF TitleSimilarity
  <2>10. PICK a \in Int, b \in Int : a = 100 * (x - d) /\ b = 100 * (y - e)
    OBVIOUS
  <2>11. n * x = m * y /\ n * a = m * b
    <3>1. n * x = m * y
      BY <2>8
    <3>2. n * (x - d) = m * (y - e)
      BY <2>7, <3>1
    <3>3. n * a = 100 * (n * (x - d)) /\ m * b = 100 * (m * (y - e))
      BY <2>10
    <3> QED
      BY <3>1, <3>2, <3>3
  <2>12. (n * a) \div (n * x) = a \div x /\ (m * b) \div (m * y) = b \div y
    BY <2>2, <2>8, ExpandedQuotient
  <2> QED
    BY <2>9, <2>10, <2>11, <2>12
<1> QED
  BY <1>1, <1>2 DEF Identical

(* Windows of one application with identical titles are the same to every  *)
(* saved window.                                                           *)
LEMMA KinScoreAlike ==
  ASSUME Recognised,
         NEW s \in WindowRecord, NEW v \in WindowRecord, NEW w \in WindowRecord,
         s.app # NoApp, v.app # NoApp, w.app # NoApp, Kin(v, w)
  PROVE  WindowScore(s, v) = WindowScore(s, w)
<1>1. s.title \in Title /\ v.title \in Title /\ w.title \in Title
  BY DEF WindowRecord
<1>2. SameApplication(s, v) <=> SameApplication(s, w)
  BY DEF SameApplication, Kin
<1>3. PICK p : p = TitleSimilarity(s.title, v.title)
  OBVIOUS
<1>4. p = TitleSimilarity(s.title, w.title)
  BY <1>1, <1>3, IdenticalAreAsLike DEF Kin
<1>5. IsPlaceholder(s.title, v.title) <=> IsPlaceholder(s.title, w.title)
  BY <1>1 DEF Recognised, Kin
<1>6. s.title = v.title \/ s.title = w.title => p = Exact
  <2>1. TitleSimilarity(s.title, s.title) = Exact
    BY <1>1, SameShares
  <2> QED
    BY <1>3, <1>4, <2>1
<1> QED
  BY <1>2, <1>3, <1>4, <1>5, <1>6 DEF WindowScore

(* So whichever of them is taken for an exact match, it is right. *)
LEMMA EitherLiveIsRight ==
  ASSUME Recognised,
         NEW S \in Seq(WindowRecord), NEW L \in Seq(WindowRecord),
         \A i \in DOMAIN S : S[i].app # NoApp, \A k \in DOMAIN L : L[k].app # NoApp,
         NEW F, F = [c \in (DOMAIN S) \X (DOMAIN L) |-> WindowScore(S[c[1]], L[c[2]])]
  PROVE  EitherIsRight(Len(S), Len(L), F)
<1>1. DOMAIN S = 1 .. Len(S) /\ DOMAIN L = 1 .. Len(L)
  OBVIOUS
<1>2. \A i \in 1 .. Len(S), k \in 1 .. Len(L) : F[<<i, k>>] = WindowScore(S[i], L[k])
  BY <1>1
<1>3. ASSUME NEW i \in 1 .. Len(S), NEW k \in 1 .. Len(L), NEW l \in 1 .. Len(L),
             F[<<i, k>>] = Exact, F[<<i, l>>] = Exact, NEW j \in 1 .. Len(S)
      PROVE  F[<<j, k>>] = F[<<j, l>>]
  <2>1. PICK s \in WindowRecord, t \in WindowRecord, v \in WindowRecord, w \in WindowRecord :
          s = S[i] /\ t = S[j] /\ v = L[k] /\ w = L[l]
    BY <1>1
  <2>2. s.app # NoApp /\ t.app # NoApp /\ v.app # NoApp /\ w.app # NoApp
    BY <1>1, <2>1
  <2>3. Kin(s, v) /\ Kin(s, w)
    BY <1>2, <1>3, <2>1, <2>2, ExactIsKin
  <2>4. Kin(v, w)
    BY <2>3, KinIsShared
  <2>5. WindowScore(t, v) = WindowScore(t, w)
    BY <2>2, <2>4, KinScoreAlike
  <2> QED
    BY <1>2, <2>1, <2>5
<1> QED
  BY <1>3 DEF EitherIsRight

(* The scores of every saved window with each window of a list. *)
ScoresOf(S, L) == [c \in (DOMAIN S) \X (DOMAIN L) |-> WindowScore(S[c[1]], L[c[2]])]

(* The actions, given the pairs that are matches. *)
ActionsOf(S, M) ==
  {[of |-> c[1], window |-> c[2]] : c \in M}
    \cup {[of |-> i, window |-> 0] :
            i \in {j \in DOMAIN S : S[j].app # NoApp /\ \A c \in M : c[1] # j}}

(* Which of two actions comes first in the plan: placements before         *)
(* launches, by workspace, and otherwise as the matching has them.         *)
IsAheadBy(F, a, b) ==
  \/ a.window # 0 /\ b.window = 0
  \/ /\ a.window # 0 <=> b.window # 0
     /\ \/ Workspace[a.of] < Workspace[b.of]
        \/ /\ Workspace[a.of] = Workspace[b.of]
           /\ IF a.window # 0 THEN Earlier(F, <<a.of, a.window>>, <<b.of, b.window>>)
              ELSE a.of < b.of

(* The plan of these actions. *)
PlanOf(S, F, M) ==
  Sorted(ActionsOf(S, M), {p \in ActionsOf(S, M) \X ActionsOf(S, M) : IsAheadBy(F, p[1], p[2])})

(* It is the plan of the daemon. *)
LEMMA PlannedByScores ==
  ASSUME TypeOK
  PROVE  ScoresOf(saved, live) = Scores /\ Actions = ActionsOf(saved, matches)
         /\ PlannedActions = PlanOf(saved, Scores, matches)
<1>1. ScoresOf(saved, live) = Scores
  BY DEF ScoresOf, Scores, Score
<1>2. Actions = ActionsOf(saved, matches)
  BY DEF Actions, ActionsOf, ToLaunch, UnmatchedSaved, TakenSaved
<1>3. \A a, b \in Actions : IsAhead(a, b) <=> IsAheadBy(Scores, a, b)
  <2> TAKE a, b \in Actions
  <2>1. /\ a.window # 0 => <<a.of, a.window>> \in Candidates
        /\ b.window # 0 => <<b.of, b.window>> \in Candidates
    BY ActionsAreFew DEF TypeOK
  <2>2. a.window # 0 /\ b.window # 0 =>
          (Precedes(<<a.of, a.window>>, <<b.of, b.window>>)
             <=> Earlier(Scores, <<a.of, a.window>>, <<b.of, b.window>>))
    BY <2>1, ScoresAreNumbers
  <2> HIDE DEF Precedes, Earlier
  <2> QED
    BY <2>2 DEF IsAhead, IsAheadBy
<1>4. {p \in Actions \X Actions : IsAhead(p[1], p[2])}
        = {p \in Actions \X Actions : IsAheadBy(Scores, p[1], p[2])}
  BY <1>3
<1> QED
  BY <1>1, <1>2, <1>4, Zenon DEF PlannedActions, PlanOf

(* What is true of a list of matches: of each saved window there is one.   *)
AreMatches(S, n, m, F, M) ==
  /\ n \in Nat /\ m \in Nat
  /\ DOMAIN S = 1 .. n /\ \A i \in 1 .. n : Workspace[i] \in Int
  /\ F \in [(1 .. n) \X (1 .. m) -> Int]
  /\ M \subseteq (1 .. n) \X (1 .. m)
  /\ \A c, d \in M : c[1] = d[1] => c = d

(* So it is of an outcome. *)
LEMMA OutcomeIsMatches ==
  ASSUME NEW S, NEW n \in Nat, NEW m \in Nat, NEW F \in [(1 .. n) \X (1 .. m) -> Int],
         NEW M, IsOutcome(F, M),
         DOMAIN S = 1 .. n, \A i \in 1 .. n : Workspace[i] \in Int
  PROVE  AreMatches(S, n, m, F, M)
<1>1. M \subseteq (1 .. n) \X (1 .. m)
  BY DEF IsOutcome, Paired
<1>2. ASSUME NEW c \in M, NEW d \in M, c[1] = d[1], c # d PROVE FALSE
  <2>1. /\ c = <<c[1], c[2]>> /\ d = <<d[1], d[2]>>
        /\ c[1] \in Int /\ c[2] \in Int /\ d[1] \in Int /\ d[2] \in Int
        /\ F[c] \in Int /\ F[d] \in Int
    BY <1>1
  <2>2. c[2] # d[2]
    BY <1>2, <2>1
  <2>3. Earlier(F, c, d) \/ Earlier(F, d, c)
    BY <1>2, <2>1, <2>2 DEF Earlier
  <2>4. IsDue(F, M, c) /\ IsDue(F, M, d)
    BY DEF IsOutcome
  <2> QED
    BY <1>2, <2>3, <2>4 DEF IsDue
<1> QED
  BY <1>1, <1>2 DEF AreMatches

(* No two actions of a plan are of one saved window, and it is in order. *)
LEMMA PlanIsOrdered ==
  ASSUME NEW S, NEW n, NEW m, NEW F, NEW M, AreMatches(S, n, m, F, M)
  PROVE  /\ IsFiniteSet(ActionsOf(S, M))
         /\ \A a \in ActionsOf(S, M) :
              /\ a = [of |-> a.of, window |-> a.window]
              /\ a.of \in 1 .. n /\ a.window \in 0 .. m
              /\ a.window # 0 => <<a.of, a.window>> \in M
         /\ \A a, b \in ActionsOf(S, M) : a.of = b.of => a = b
         /\ IsOrderOf({p \in ActionsOf(S, M) \X ActionsOf(S, M) : IsAheadBy(F, p[1], p[2])},
                      ActionsOf(S, M))
<1>0. PICK A : A = ActionsOf(S, M)
  OBVIOUS
<1>1. /\ DOMAIN S = 1 .. n /\ \A i \in 1 .. n : Workspace[i] \in Int
      /\ F \in [(1 .. n) \X (1 .. m) -> Int]
      /\ M \subseteq (1 .. n) \X (1 .. m)
      /\ \A c, d \in M : c[1] = d[1] => c = d
  BY DEF AreMatches
<1>2. \A c \in M : c = <<c[1], c[2]>> /\ c[1] \in 1 .. n /\ c[2] \in 1 .. m
  BY <1>1
<1>3. \A a \in A : /\ a = [of |-> a.of, window |-> a.window]
                   /\ a.of \in 1 .. n /\ a.window \in 0 .. m
                   /\ a.window # 0 => <<a.of, a.window>> \in M
                   /\ a.window = 0 => \A c \in M : c[1] # a.of
  <2> TAKE a \in A
  <2>1. CASE \E c \in M : a = [of |-> c[1], window |-> c[2]]
    <3>1. PICK c \in M, i \in 1 .. n, k \in 1 .. m :
            c = <<i, k>> /\ a = [of |-> i, window |-> k]
      BY <1>2, <2>1
    <3>2. a.of = i /\ a.window = k /\ k # 0 /\ k \in 0 .. m
      BY <3>1
    <3> QED
      BY <3>1, <3>2
  <2>2. CASE \E i \in DOMAIN S : a = [of |-> i, window |-> 0] /\ \A c \in M : c[1] # i
    <3>1. PICK i \in 1 .. n : a = [of |-> i, window |-> 0] /\ \A c \in M : c[1] # i
      BY <1>1, <2>2
    <3>2. a.of = i /\ a.window = 0 /\ 0 \in 0 .. m
      BY <3>1 DEF AreMatches
    <3> QED
      BY <3>1, <3>2
  <2> QED
    BY <1>0, <2>1, <2>2 DEF ActionsOf
<1>4. \A a, b \in A : a.of = b.of => a = b
  <2> TAKE a, b \in A
  <2> HAVE a.of = b.of
  <2>1. a.window = b.window
    <3>1. CASE a.window # 0 /\ b.window # 0
      <4>1. PICK c \in M, d \in M : c = <<a.of, a.window>> /\ d = <<b.of, b.window>>
        BY <1>3, <3>1
      <4>2. c = d
        BY <1>1, <4>1
      <4> QED
        BY <4>1, <4>2
    <3>2. CASE a.window = 0 /\ b.window # 0
      <4>1. PICK d \in M : d = <<b.of, b.window>>
        BY <1>3, <3>2
      <4> QED
        BY <1>3, <3>2, <4>1
    <3>3. CASE a.window # 0 /\ b.window = 0
      <4>1. PICK d \in M : d = <<a.of, a.window>>
        BY <1>3, <3>3
      <4> QED
        BY <1>3, <3>3, <4>1
    <3> QED
      BY <3>1, <3>2, <3>3
  <2> QED
    BY <1>3, <2>1
<1>5. IsFiniteSet(A)
  <2> DEFINE h == [a \in A |-> a.of]
  <2>1. h \in Injection(A, 1 .. n)
    BY <1>3, <1>4 DEF Injection, IsInjective
  <2> HIDE DEF h
  <2>2. IsFiniteSet(1 .. n)
    BY FS_Interval DEF AreMatches
  <2> QED
    BY <2>1, <2>2, FS_Injection
<1>6. PICK at : at = [a \in A |-> Workspace[a.of]]
  OBVIOUS
<1>7. PICK score : score = [a \in A |-> F[<<a.of, a.window>>]]
  OBVIOUS
<1>8. \A a \in A : /\ a.of \in Int /\ a.window \in Int /\ at[a] \in Int
                   /\ a.window # 0 => score[a] \in Int
  <2> TAKE a \in A
  <2>1. a.of \in Int /\ a.window \in Int /\ at[a] \in Int
    <3>1. PICK i \in 1 .. n, k \in 0 .. m : i = a.of /\ k = a.window
      BY <1>3
    <3>2. at[a] = Workspace[i] /\ Workspace[i] \in Int
      BY <1>1, <1>6, <3>1
    <3> QED
      BY <3>1, <3>2
  <2>2. ASSUME a.window # 0 PROVE score[a] \in Int
    <3>1. PICK c \in M : c = <<a.of, a.window>>
      BY <1>3, <2>2
    <3>2. F[c] \in Int
      BY <1>1
    <3> QED
      BY <1>7, <3>1, <3>2
  <2> QED
    BY <2>1, <2>2
<1>9. \A a, b \in A :
        IsAheadBy(F, a, b) <=>
          \/ a.window # 0 /\ b.window = 0
          \/ /\ a.window # 0 <=> b.window # 0
             /\ \/ at[a] < at[b]
                \/ /\ at[a] = at[b]
                   /\ IF a.window # 0
                      THEN \/ score[a] > score[b]
                           \/ score[a] = score[b] /\ a.of < b.of
                           \/ score[a] = score[b] /\ a.of = b.of /\ a.window < b.window
                      ELSE a.of < b.of
  BY <1>6, <1>7 DEF IsAheadBy, Earlier
<1>10. PICK before : before = {p \in A \X A : IsAheadBy(F, p[1], p[2])}
  OBVIOUS
<1>11. \A a, b \in A : <<a, b>> \in before <=> IsAheadBy(F, a, b)
  BY <1>10
<1> HIDE DEF IsAheadBy
<1>12. \A a \in A : ~IsAheadBy(F, a, a)
  BY <1>8, <1>9
<1>13. \A a, b \in A : a # b => IsAheadBy(F, a, b) \/ IsAheadBy(F, b, a)
  <2> TAKE a, b \in A
  <2> HAVE a # b
  <2>1. a.of # b.of
    BY <1>4
  <2> QED
    BY <1>8, <1>9, <2>1
<1>14. \A a, b, c \in A : IsAheadBy(F, a, b) /\ IsAheadBy(F, b, c) => IsAheadBy(F, a, c)
  BY <1>8, <1>9
<1>15. IsOrderOf(before, A)
  BY <1>11, <1>12, <1>13, <1>14 DEF IsOrderOf
<1> QED
  BY <1>0, <1>3, <1>4, <1>5, <1>10, <1>15

(* A list of a plan. *)
LEMMA PlanOfIsList ==
  ASSUME NEW S, NEW n, NEW m, NEW F, NEW M, AreMatches(S, n, m, F, M)
  PROVE  /\ DOMAIN PlanOf(S, F, M) = 1 .. Cardinality(ActionsOf(S, M))
         /\ \A k \in DOMAIN PlanOf(S, F, M) : PlanOf(S, F, M)[k] \in ActionsOf(S, M)
         /\ \A k, l \in DOMAIN PlanOf(S, F, M) :
              PlanOf(S, F, M)[k].of = PlanOf(S, F, M)[l].of => k = l
<1>1. PICK A : A = ActionsOf(S, M)
  OBVIOUS
<1>2. PICK before : before = {p \in A \X A : IsAheadBy(F, p[1], p[2])}
  OBVIOUS
<1>3. PICK list : list = Sorted(A, before) /\ list = PlanOf(S, F, M)
  BY <1>1, <1>2 DEF PlanOf
<1>4. IsFiniteSet(A) /\ IsOrderOf(before, A) /\ (\A a, b \in A : a.of = b.of => a = b)
  BY <1>1, <1>2, PlanIsOrdered
<1>5. /\ list \in [1 .. Cardinality(A) -> A]
      /\ \A k, l \in 1 .. Cardinality(A) : list[k] = list[l] => k = l
  <2>1. /\ Sorted(A, before) \in [1 .. Cardinality(A) -> A]
        /\ \A k, l \in 1 .. Cardinality(A) :
             Sorted(A, before)[k] = Sorted(A, before)[l] => k = l
    BY <1>4, SortedLists
  <2> QED
    BY <1>3, <2>1
<1> QED
  BY <1>1, <1>3, <1>4, <1>5

(* What the user is told of an action: whose it is, and whether it is      *)
(* launched.                                                               *)
ReadsAlike(p, q) ==
  /\ DOMAIN p = DOMAIN q
  /\ \A k \in DOMAIN p : p[k].of = q[k].of /\ (p[k].window = 0 <=> q[k].window = 0)

(* Their plans read alike: an action is ahead of another by its kind, its  *)
(* workspace, its score and its saved window, and never by which live      *)
(* window is placed.                                                       *)
LEMMA PlansReadAlike ==
  ASSUME NEW S, NEW n, NEW m, NEW F, NEW G, NEW M, NEW N,
         AreMatches(S, n, m, F, M), AreMatches(S, n, m, G, N),
         NEW r, Correspond(n, m, F, G, M, N, r)
  PROVE  ReadsAlike(PlanOf(S, F, M), PlanOf(S, G, N))
<1>1. PICK A, B : A = ActionsOf(S, M) /\ B = ActionsOf(S, N)
  OBVIOUS
<1>2. PICK before : before = {p \in A \X A : IsAheadBy(F, p[1], p[2])}
  OBVIOUS
<1>3. PICK ahead : ahead = {p \in B \X B : IsAheadBy(G, p[1], p[2])}
  OBVIOUS
<1>4. /\ IsFiniteSet(A) /\ IsOrderOf(before, A)
      /\ \A a \in A : /\ a = [of |-> a.of, window |-> a.window]
                      /\ a.of \in 1 .. n /\ a.window \in 0 .. m
                      /\ a.window # 0 => <<a.of, a.window>> \in M
      /\ \A a, b \in A : a.of = b.of => a = b
  BY <1>1, <1>2, PlanIsOrdered
<1>5. /\ IsFiniteSet(B) /\ IsOrderOf(ahead, B)
      /\ \A a \in B : /\ a = [of |-> a.of, window |-> a.window]
                      /\ a.of \in 1 .. n /\ a.window \in 0 .. m
                      /\ a.window # 0 => <<a.of, a.window>> \in N
      /\ \A a, b \in B : a.of = b.of => a = b
  BY <1>1, <1>3, PlanIsOrdered
<1>6. /\ DOMAIN S = 1 .. n
      /\ M \subseteq (1 .. n) \X (1 .. m) /\ N \subseteq (1 .. n) \X (1 .. m)
  BY DEF AreMatches
<1>7. /\ r \in [1 .. m -> 1 .. m]
      /\ \A l \in 1 .. m : \E k \in 1 .. m : r[k] = l
  BY DEF Correspond, Bijection, Injection, Surjection
<1>8. \A i \in 1 .. n, k \in 1 .. m : /\ F[<<i, k>>] = G[<<i, r[k]>>]
                                      /\ <<i, k>> \in M <=> <<i, r[k]>> \in N
  BY DEF Correspond
<1>9. \A i \in 1 .. n : (\E c \in M : c[1] = i) <=> (\E d \in N : d[1] = i)
  <2> TAKE i \in 1 .. n
  <2>1. ASSUME NEW c \in M, c[1] = i PROVE \E d \in N : d[1] = i
    <3>1. PICK k \in 1 .. m : c = <<i, k>>
      BY <1>6, <2>1
    <3>2. PICK d \in N : d = <<i, r[k]>>
      BY <1>8, <3>1
    <3> QED
      BY <3>2
  <2>2. ASSUME NEW d \in N, d[1] = i PROVE \E c \in M : c[1] = i
    <3>1. PICK l \in 1 .. m : d = <<i, l>>
      BY <1>6, <2>2
    <3>2. PICK k \in 1 .. m : r[k] = l
      BY <1>7
    <3>3. PICK c \in M : c = <<i, k>>
      BY <1>8, <3>1, <3>2
    <3> QED
      BY <3>3
  <2> QED
    BY <2>1, <2>2
<1>10. PICK h : h = [a \in A |-> [of |-> a.of,
                                  window |-> IF a.window = 0 THEN 0 ELSE r[a.window]]]
  OBVIOUS
<1>11. ASSUME NEW a \in A
       PROVE  h[a] \in B /\ h[a].of = a.of /\ (h[a].window = 0 <=> a.window = 0)
              /\ (a.window # 0 => h[a].window = r[a.window] /\ a.window \in 1 .. m)
  <2>1. CASE a.window # 0
    <3>1. PICK i \in 1 .. n, k \in 1 .. m : i = a.of /\ k = a.window /\ <<i, k>> \in M
      <4>1. <<a.of, a.window>> \in M
        BY <1>4, <2>1
      <4> QED
        BY <1>6, <4>1
    <3>2. PICK l \in 1 .. m : l = r[k] /\ <<i, l>> \in N
      BY <1>7, <1>8, <3>1
    <3>3. h[a] = [of |-> i, window |-> l]
      BY <1>10, <2>1, <3>1, <3>2
    <3>4. [of |-> i, window |-> l] \in B
      <4>1. PICK d \in N : d = <<i, l>> /\ d[1] = i /\ d[2] = l
        BY <3>2
      <4> QED
        BY <1>1, <4>1 DEF ActionsOf
    <3> QED
      BY <2>1, <3>1, <3>2, <3>3, <3>4
  <2>2. CASE a.window = 0
    <3>1. PICK i \in 1 .. n : i = a.of /\ a = [of |-> i, window |-> 0]
      BY <1>4, <2>2
    <3>2. S[i].app # NoApp /\ \A c \in M : c[1] # i
      <4>1. \A c \in M : a # [of |-> c[1], window |-> c[2]]
        <5> TAKE c \in M
        <5>1. c[2] \in 1 .. m
          BY <1>6
        <5>2. c[2] # 0
          BY <5>1
        <5>3. [of |-> c[1], window |-> c[2]].window = c[2]
          OBVIOUS
        <5> QED
          BY <2>2, <5>2, <5>3
      <4>2. PICK j \in DOMAIN S : /\ a = [of |-> j, window |-> 0]
                                      /\ S[j].app # NoApp /\ \A c \in M : c[1] # j
        BY <1>1, <4>1 DEF ActionsOf
      <4>3. j = i
        BY <3>1, <4>2
      <4> QED
        BY <4>2, <4>3
    <3>3. \A d \in N : d[1] # i
      BY <1>9, <3>2
    <3>4. h[a] = [of |-> i, window |-> 0]
      BY <1>10, <2>2, <3>1
    <3>5. h[a] \in B
      BY <1>1, <1>6, <3>2, <3>3, <3>4 DEF ActionsOf
    <3> QED
      BY <2>2, <3>1, <3>4, <3>5
  <2> QED
    BY <2>1, <2>2
<1>12. h \in Bijection(A, B)
  <2>1. \A b \in B : \E a \in A : h[a] = b
    <3> TAKE b \in B
    <3>1. \E a \in A : a.of = b.of
      <4>1. PICK i \in 1 .. n : i = b.of
        BY <1>5
      <4>2. CASE \E c \in M : c[1] = i
        <5>1. PICK c \in M : c[1] = i
          BY <4>2
        <5>2. [of |-> c[1], window |-> c[2]] \in A
          BY <1>1 DEF ActionsOf
        <5> QED
          BY <4>1, <5>1, <5>2
      <4>3. CASE \A c \in M : c[1] # i
        <5>1. \A d \in N : d[1] # i
          BY <1>9, <4>3
        <5>2. S[i].app # NoApp
          <6>1. \A d \in N : b # [of |-> d[1], window |-> d[2]]
            <7> TAKE d \in N
            <7>1. [of |-> d[1], window |-> d[2]].of = d[1]
              OBVIOUS
            <7> QED
              BY <4>1, <5>1, <7>1
          <6>2. PICK j \in DOMAIN S : b = [of |-> j, window |-> 0] /\ S[j].app # NoApp
            BY <1>1, <6>1 DEF ActionsOf
          <6>3. j = i
            BY <4>1, <6>2
          <6> QED
            BY <6>2, <6>3
        <5>3. [of |-> i, window |-> 0] \in A
          BY <1>1, <1>6, <4>3, <5>2 DEF ActionsOf
        <5> QED
          BY <4>1, <5>3
      <4> QED
        BY <4>2, <4>3
    <3>2. PICK a \in A : a.of = b.of
      BY <3>1
    <3>3. h[a] = b
      BY <1>5, <1>11, <3>2
    <3> QED
      BY <3>3
  <2>2. \A a, b \in A : h[a] = h[b] => a = b
    <3> TAKE a, b \in A
    <3> HAVE h[a] = h[b]
    <3>1. h[a].of = a.of /\ h[b].of = b.of
      BY <1>11
    <3> QED
      BY <1>4, <3>1
  <2>3. h \in [A -> B]
    BY <1>10, <1>11
  <2> QED
    BY <2>1, <2>2, <2>3 DEF Bijection, Injection, Surjection, IsInjective
<1>13. ASSUME NEW a \in A, NEW b \in A
       PROVE  IsAheadBy(F, a, b) <=> IsAheadBy(G, h[a], h[b])
  <2>1. /\ h[a].of = a.of /\ (h[a].window = 0 <=> a.window = 0)
        /\ h[b].of = b.of /\ (h[b].window = 0 <=> b.window = 0)
    BY <1>11
  <2>2. ASSUME a.window # 0, b.window # 0
        PROVE  Earlier(F, <<a.of, a.window>>, <<b.of, b.window>>)
                 <=> Earlier(G, <<h[a].of, h[a].window>>, <<h[b].of, h[b].window>>)
    <3>1. PICK i \in 1 .. n, k \in 1 .. m : i = a.of /\ k = a.window
      BY <1>4, <1>11, <2>2
    <3>2. PICK j \in 1 .. n, l \in 1 .. m : j = b.of /\ l = b.window
      BY <1>4, <1>11, <2>2
    <3>3. h[a].window = r[k] /\ h[b].window = r[l]
      BY <1>11, <2>2, <3>1, <3>2
    <3>4. F[<<i, k>>] = G[<<i, r[k]>>] /\ F[<<j, l>>] = G[<<j, r[l]>>]
      BY <1>8
    <3>5. i = j => k = l
      <4>1. ASSUME i = j PROVE k = l
        <5>1. a = b
          BY <1>4, <3>1, <3>2, <4>1
        <5> QED
          BY <3>1, <3>2, <5>1
      <4> QED
        BY <4>1
    <3>6. PICK x, y : x = r[k] /\ y = r[l] /\ (i = j => x = y)
      BY <3>5
    <3>7. i \in Int /\ j \in Int /\ k \in Int /\ l \in Int /\ x \in Int /\ y \in Int
      <4>1. x \in 1 .. m /\ y \in 1 .. m
        BY <1>7, <3>6
      <4> QED
        BY <4>1
    <3>8. Earlier(F, <<i, k>>, <<j, l>>) <=> Earlier(G, <<i, x>>, <<j, y>>)
      BY <3>4, <3>5, <3>6, <3>7 DEF Earlier
    <3> QED
      BY <2>1, <3>1, <3>2, <3>3, <3>6, <3>8
  <2> HIDE DEF Earlier
  <2>3. PICK p, q : p = h[a] /\ q = h[b]
    OBVIOUS
  <2> QED
    BY <2>1, <2>2, <2>3 DEF IsAheadBy
<1>14. \A a, b \in A : <<a, b>> \in before <=> <<h[a], h[b]>> \in ahead
  BY <1>2, <1>3, <1>11, <1>13
<1>15. /\ Cardinality(B) = Cardinality(A)
       /\ \A k \in 1 .. Cardinality(A) : Sorted(B, ahead)[k] = h[Sorted(A, before)[k]]
  BY <1>4, <1>5, <1>12, <1>14, SortedAlike
<1>16. PICK p, q : /\ p = PlanOf(S, F, M) /\ q = PlanOf(S, G, N)
                   /\ p = Sorted(A, before) /\ q = Sorted(B, ahead)
  BY <1>1, <1>2, <1>3 DEF PlanOf
<1>17. /\ DOMAIN p = 1 .. Cardinality(A) /\ DOMAIN q = 1 .. Cardinality(B)
       /\ \A k \in DOMAIN p : p[k] \in A
  <2>1. /\ DOMAIN PlanOf(S, F, M) = 1 .. Cardinality(ActionsOf(S, M))
        /\ \A k \in DOMAIN PlanOf(S, F, M) : PlanOf(S, F, M)[k] \in ActionsOf(S, M)
    BY PlanOfIsList
  <2>2. DOMAIN PlanOf(S, G, N) = 1 .. Cardinality(ActionsOf(S, N))
    BY PlanOfIsList
  <2> QED
    BY <1>1, <1>16, <2>1, <2>2
<1> QED
  BY <1>11, <1>15, <1>16, <1>17 DEF ReadsAlike

(* The same windows in another order. *)
Restacked(L, K) ==
  \E p \in Bijection(DOMAIN K, DOMAIN K) : L = [k \in DOMAIN K |-> K[p[k]]]

(* Of two orders of the same windows each is one of the other's. *)
LEMMA RestackedAgain ==
  ASSUME NEW K, NEW L, NEW J, Restacked(L, K), Restacked(J, K)
  PROVE  Restacked(L, J)
<1>0. PICK D : D = DOMAIN K
  OBVIOUS
<1>1. PICK p \in Bijection(D, D) : L = [k \in D |-> K[p[k]]]
  BY <1>0 DEF Restacked
<1>2. PICK q \in Bijection(D, D) : J = [k \in D |-> K[q[k]]]
  BY <1>0 DEF Restacked
<1>3. /\ p \in [D -> D] /\ (\A k, l \in D : p[k] = p[l] => k = l)
      /\ \A x \in D : \E k \in D : p[k] = x
  BY <1>1 DEF Bijection, Injection, Surjection, IsInjective
<1>4. /\ q \in [D -> D] /\ (\A k, l \in D : q[k] = q[l] => k = l)
      /\ \A x \in D : \E k \in D : q[k] = x
  BY <1>2 DEF Bijection, Injection, Surjection, IsInjective
<1>5. PICK e : e = [k \in D |-> CHOOSE x \in D : q[x] = p[k]]
  OBVIOUS
<1>6. \A k \in D : e[k] \in D /\ q[e[k]] = p[k]
  BY <1>3, <1>4, <1>5
<1>7. \A k, l \in D : e[k] = e[l] => k = l
  BY <1>3, <1>6
<1>8. \A x \in D : \E k \in D : e[k] = x
  <2> TAKE x \in D
  <2>1. PICK k \in D : p[k] = q[x]
    BY <1>3, <1>4
  <2>2. e[k] = x
    BY <1>4, <1>6, <2>1
  <2> QED
    BY <2>2
<1>9. e \in Bijection(D, D)
  <2>1. e \in [D -> D]
    BY <1>5, <1>6
  <2> QED
    BY <1>7, <1>8, <2>1 DEF Bijection, Injection, Surjection, IsInjective
<1>10. DOMAIN J = D /\ L = [k \in D |-> J[e[k]]]
  BY <1>1, <1>2, <1>6
<1> QED
  BY <1>9, <1>10 DEF Restacked

(* However windows are restacked, the plans for them read alike, and each  *)
(* is of saved windows that differ.                                        *)
LEMMA RestackedPlans ==
  ASSUME Recognised, NEW S \in Seq(WindowRecord), Len(S) <= Len(Workspace),
         \A i \in DOMAIN S : S[i].app # NoApp,
         NEW K \in Seq(WindowRecord), \A k \in DOMAIN K : K[k].app # NoApp,
         NEW L, Restacked(L, K),
         NEW M, IsOutcome(ScoresOf(S, L), M), NEW N, IsOutcome(ScoresOf(S, K), N)
  PROVE  /\ ReadsAlike(PlanOf(S, ScoresOf(S, L), M), PlanOf(S, ScoresOf(S, K), N))
         /\ \A k, l \in DOMAIN PlanOf(S, ScoresOf(S, L), M) :
              PlanOf(S, ScoresOf(S, L), M)[k].of = PlanOf(S, ScoresOf(S, L), M)[l].of => k = l
<1>1. PICK n \in Nat, m \in Nat : /\ n = Len(S) /\ m = Len(K)
                                  /\ DOMAIN S = 1 .. n /\ DOMAIN K = 1 .. m
  OBVIOUS
<1>2. PICK p \in Bijection(1 .. m, 1 .. m) : L = [k \in 1 .. m |-> K[p[k]]]
  BY <1>1 DEF Restacked
<1>3. p \in [1 .. m -> 1 .. m]
  BY <1>2 DEF Bijection, Injection
<1>4. DOMAIN L = 1 .. m /\ \A k \in 1 .. m : L[k] = K[p[k]] /\ p[k] \in 1 .. m
  BY <1>2, <1>3
<1>5. PICK F, G : F = ScoresOf(S, L) /\ G = ScoresOf(S, K)
  OBVIOUS
<1>6. ASSUME NEW i \in 1 .. n, NEW k \in 1 .. m
      PROVE  /\ F[<<i, k>>] = G[<<i, p[k]>>]
             /\ F[<<i, k>>] \in Int /\ F[<<i, k>>] <= Exact /\ G[<<i, k>>] \in Int
  <2>1. /\ F[<<i, k>>] = WindowScore(S[i], L[k])
        /\ G[<<i, k>>] = WindowScore(S[i], K[k])
        /\ G[<<i, p[k]>>] = WindowScore(S[i], K[p[k]])
    BY <1>1, <1>4, <1>5 DEF ScoresOf
  <2>2. S[i] \in WindowRecord /\ K[k] \in WindowRecord /\ K[p[k]] \in WindowRecord
    BY <1>1, <1>4
  <2> QED
    BY <1>4, <2>1, <2>2, ScoreIsNumber
<1>7. /\ DOMAIN F = (1 .. n) \X (1 .. m) /\ DOMAIN G = (1 .. n) \X (1 .. m)
      /\ F \in [(1 .. n) \X (1 .. m) -> Int] /\ G \in [(1 .. n) \X (1 .. m) -> Int]
  <2>1. /\ DOMAIN F = (1 .. n) \X (1 .. m) /\ DOMAIN G = (1 .. n) \X (1 .. m)
        /\ F = [c \in DOMAIN F |-> F[c]] /\ G = [c \in DOMAIN G |-> G[c]]
    BY <1>1, <1>4, <1>5 DEF ScoresOf
  <2>2. \A c \in (1 .. n) \X (1 .. m) : F[c] \in Int /\ G[c] \in Int
    <3> TAKE c \in (1 .. n) \X (1 .. m)
    <3>1. PICK i \in 1 .. n, k \in 1 .. m : c = <<i, k>>
      OBVIOUS
    <3> QED
      BY <1>6, <3>1
  <2> QED
    BY <2>1, <2>2
<1>8. AreScores(F)
  <2>1. ASSUME NEW c \in (1 .. n) \X (1 .. m) PROVE F[c] <= Exact
    <3>1. PICK i \in 1 .. n, k \in 1 .. m : c = <<i, k>>
      OBVIOUS
    <3> QED
      BY <1>6, <3>1
  <2> QED
    BY <1>7, <2>1 DEF AreScores
<1>9. EitherIsRight(n, m, G)
  <2>1. G = [c \in (DOMAIN S) \X (DOMAIN K) |-> WindowScore(S[c[1]], K[c[2]])]
    BY <1>5 DEF ScoresOf
  <2> QED
    BY <1>1, <2>1, EitherLiveIsRight
<1>10. IsOutcome(F, M) /\ IsOutcome(G, N)
  BY <1>5
<1>11. InOrderOf(n, m, F, G, p)
  BY <1>2, <1>6 DEF InOrderOf
<1>12. \E r : Correspond(n, m, F, G, M, N, r)
  BY <1>7, <1>8, <1>9, <1>10, <1>11, OutcomesAlike
<1>13. PICK r : Correspond(n, m, F, G, M, N, r)
  BY <1>12
<1>14. \A i \in 1 .. n : Workspace[i] \in Int
  BY <1>1, SnapshotsAssumption
<1>15. AreMatches(S, n, m, F, M) /\ AreMatches(S, n, m, G, N)
  BY <1>1, <1>7, <1>10, <1>14, OutcomeIsMatches
<1>16. ReadsAlike(PlanOf(S, F, M), PlanOf(S, G, N))
  BY <1>13, <1>15, PlansReadAlike
<1>17. \A k, l \in DOMAIN PlanOf(S, F, M) : PlanOf(S, F, M)[k].of = PlanOf(S, F, M)[l].of => k = l
  BY <1>15, PlanOfIsList
<1> QED
  BY <1>5, <1>16, <1>17

(* A window that no saved window is taken for changes neither what is      *)
(* matched nor the plan.                                                   *)
LEMMA StrangerIsIgnored ==
  ASSUME NEW S, NEW L \in Seq(WindowRecord), NEW w \in WindowRecord,
         \A i \in DOMAIN S : ~(WindowScore(S[i], w) > 0),
         NEW M, IsOutcome(ScoresOf(S, L), M)
  PROVE  /\ IsOutcome(ScoresOf(S, Append(L, w)), M)
         /\ PlanOf(S, ScoresOf(S, Append(L, w)), M) = PlanOf(S, ScoresOf(S, L), M)
<1>1. PICK F, G : F = ScoresOf(S, L) /\ G = ScoresOf(S, Append(L, w))
  OBVIOUS
<1>2. PICK m \in Nat : /\ DOMAIN L = 1 .. m
                       /\ DOMAIN Append(L, w) = 1 .. m + 1
                       /\ Append(L, w)[m + 1] = w
                       /\ \A k \in 1 .. m : Append(L, w)[k] = L[k]
  OBVIOUS
<1>3. DOMAIN F = (DOMAIN S) \X (1 .. m) /\ DOMAIN G = (DOMAIN S) \X (1 .. m + 1)
  BY <1>1, <1>2 DEF ScoresOf
<1>4. ASSUME NEW c \in DOMAIN F PROVE c \in DOMAIN G /\ G[c] = F[c]
  <2>1. c \in DOMAIN G
    BY <1>3
  <2>2. F[c] = WindowScore(S[c[1]], L[c[2]]) /\ G[c] = WindowScore(S[c[1]], Append(L, w)[c[2]])
    BY <1>1, <1>2, <1>3, <2>1 DEF ScoresOf
  <2> QED
    BY <1>2, <1>3, <2>1, <2>2
<1>5. ASSUME NEW c \in DOMAIN G, c \notin DOMAIN F PROVE ~(G[c] > 0)
  <2>1. c[1] \in DOMAIN S /\ c[2] = m + 1
    BY <1>3, <1>5
  <2>2. G[c] = WindowScore(S[c[1]], w)
    BY <1>1, <1>2, <1>3, <2>1 DEF ScoresOf
  <2> QED
    BY <2>1, <2>2
<1>6. Paired(G) = Paired(F)
  BY <1>4, <1>5 DEF Paired
<1>7. M \subseteq Paired(F) /\ \A c \in Paired(F) : G[c] = F[c]
  BY <1>1, <1>4 DEF IsOutcome, Paired
<1>8. \A c, d \in Paired(F) : Earlier(G, c, d) <=> Earlier(F, c, d)
  BY <1>7 DEF Earlier
<1>9. \A c \in Paired(F) : IsDue(G, M, c) <=> IsDue(F, M, c)
  <2> TAKE c \in Paired(F)
  <2> HIDE DEF Earlier
  <2> QED
    BY <1>6, <1>7, <1>8 DEF IsDue
<1>10. IsOutcome(G, M)
  BY <1>1, <1>6, <1>9 DEF IsOutcome
<1>11. PICK A : A = ActionsOf(S, M)
  OBVIOUS
<1>12. \A a \in A : a.window # 0 => <<a.of, a.window>> \in M
  <2> TAKE a \in A
  <2>1. CASE \E c \in M : a = [of |-> c[1], window |-> c[2]]
    <3>1. PICK c \in M : a = [of |-> c[1], window |-> c[2]]
      BY <2>1
    <3>2. c = <<c[1], c[2]>>
      BY <1>3, <1>7 DEF Paired
    <3> QED
      BY <3>1, <3>2
  <2>2. CASE \E i : a = [of |-> i, window |-> 0]
    BY <2>2
  <2> QED
    BY <1>11, <2>1, <2>2 DEF ActionsOf
<1>13. \A a, b \in A : IsAheadBy(G, a, b) <=> IsAheadBy(F, a, b)
  <2> TAKE a, b \in A
  <2>1. a.window # 0 /\ b.window # 0 =>
          (Earlier(G, <<a.of, a.window>>, <<b.of, b.window>>)
             <=> Earlier(F, <<a.of, a.window>>, <<b.of, b.window>>))
    BY <1>7, <1>8, <1>12
  <2> HIDE DEF Earlier
  <2> QED
    BY <2>1 DEF IsAheadBy
<1>14. {p \in A \X A : IsAheadBy(G, p[1], p[2])} = {p \in A \X A : IsAheadBy(F, p[1], p[2])}
  BY <1>13
<1>15. PlanOf(S, G, M) = PlanOf(S, F, M)
  BY <1>11, <1>14 DEF PlanOf
<1> QED
  BY <1>1, <1>10, <1>15

(* It comes after the others in whatever order these are.                  *)
LEMMA RestackedLonger ==
  ASSUME NEW K \in Seq(WindowRecord), NEW L, Restacked(L, K), NEW w \in WindowRecord
  PROVE  L \in Seq(WindowRecord) /\ Restacked(Append(L, w), Append(K, w))
<1>1. PICK m \in Nat : DOMAIN K = 1 .. m /\ m = Len(K)
  OBVIOUS
<1>2. PICK p \in Bijection(1 .. m, 1 .. m) : L = [k \in 1 .. m |-> K[p[k]]]
  BY <1>1 DEF Restacked
<1>3. /\ p \in [1 .. m -> 1 .. m] /\ (\A k, l \in 1 .. m : p[k] = p[l] => k = l)
      /\ \A x \in 1 .. m : \E k \in 1 .. m : p[k] = x
  BY <1>2 DEF Bijection, Injection, Surjection, IsInjective
<1>4. L \in [1 .. m -> WindowRecord] /\ L \in Seq(WindowRecord) /\ Len(L) = m
  <2>1. L \in [1 .. m -> WindowRecord]
    BY <1>1, <1>2, <1>3
  <2> QED
    BY <1>1, <2>1
<1>5. PICK n, Both : n = m + 1 /\ Both = 1 .. n
  OBVIOUS
<1>6. /\ n \in Both /\ 1 .. m \subseteq Both /\ n \notin 1 .. m
      /\ \A k \in Both : k = n \/ k \in 1 .. m
  BY <1>5
<1>7. PICK q : q = [k \in Both |-> IF k = n THEN n ELSE p[k]]
  OBVIOUS
<1>8. q[n] = n /\ \A k \in 1 .. m : q[k] = p[k] /\ q[k] \in 1 .. m
  BY <1>3, <1>6, <1>7, Zenon
<1>9. q \in Bijection(Both, Both)
  <2>1. q \in [Both -> Both]
    BY <1>3, <1>6, <1>7, Zenon
  <2>2. \A k, l \in Both : q[k] = q[l] => k = l
    <3> TAKE k, l \in Both
    <3>1. CASE k = n
      BY <1>6, <1>8, <3>1, Zenon
    <3>2. CASE l = n
      BY <1>6, <1>8, <3>2, Zenon
    <3>3. CASE k \in 1 .. m /\ l \in 1 .. m
      BY <1>3, <1>8, <3>3, Zenon
    <3> QED
      BY <1>6, <3>1, <3>2, <3>3, Zenon
  <2>3. \A x \in Both : \E k \in Both : q[k] = x
    BY <1>3, <1>6, <1>8, Zenon
  <2> QED
    BY <2>1, <2>2, <2>3 DEF Bijection, Injection, Surjection, IsInjective
<1>10. PICK J, H : J = Append(K, w) /\ H = Append(L, w)
  OBVIOUS
<1>11. /\ DOMAIN J = Both /\ J[n] = w /\ \A k \in 1 .. m : J[k] = K[k]
  BY <1>1, <1>5, <1>10
<1>12. /\ H \in Seq(WindowRecord) /\ DOMAIN H = Both
       /\ H[n] = w /\ \A k \in 1 .. m : H[k] = L[k]
  BY <1>4, <1>5, <1>10
<1>13. \A k \in Both : H[k] = J[q[k]]
  <2>1. \A k \in 1 .. m : L[k] = K[p[k]]
    BY <1>2
  <2> QED
    BY <1>6, <1>8, <1>11, <1>12, <2>1
<1>14. H = [k \in Both |-> J[q[k]]]
  <2>1. H = [k \in DOMAIN H |-> H[k]]
    BY <1>12
  <2> QED
    BY <1>12, <1>13, <2>1
<1>15. Restacked(H, J)
  BY <1>9, <1>11, <1>14 DEF Restacked
<1> QED
  BY <1>4, <1>10, <1>15

(* The windows that are open. *)
DesktopWindows == [k \in DOMAIN desktop |-> desktop[k].window]

(* What is shown is a plan for these windows, in some order. *)
ShowsPlanFor(K) ==
  \E L, M : /\ Restacked(L, K)
            /\ IsOutcome(ScoresOf(listed, L), M)
            /\ shown = PlanOf(listed, ScoresOf(listed, L), M)

(* As long as nothing has changed that the plan depends on, the windows    *)
(* that are matched are those that are open, and what is shown is a plan   *)
(* for them.                                                               *)
ShownInv ==
  /\ Decided
  /\ \A i \in DOMAIN stored : stored[i].app # NoApp
  /\ \A k \in DOMAIN desktop : desktop[k].window.app # NoApp
  /\ \A k \in DOMAIN live : live[k].app # NoApp
  /\ \A start \in starting : start.window.app # NoApp
  /\ pc = "planning" => Restacked(live, DesktopWindows)
  /\ pc = "idle" /\ shown # <<>> /\ ~changed => listed = stored /\ ShowsPlanFor(DesktopWindows)
  /\ pc = "restoring" /\ ~changed => listed = saved /\ ShowsPlanFor(live)
  /\ ListedIsLaunched

(* What is launched then is what is listed at the indices. *)
LEMMA LaunchedIsListed ==
  ASSUME Recognised, RestoreInv, ShownInv, Launch
  PROVE  ListedIsLaunched'
<1> SUFFICES ASSUME ~changed PROVE launched' = {shown[k].of : k \in AskedFor}
  BY DEF Launch, ListedIsLaunched, AskedFor
<1>1. pc = "restoring" /\ rest = {} /\ saved = stored
  BY DEF Launch, RestoreInv
<1>2. /\ TypeOK /\ saved \in Seq(WindowRecord) /\ live \in Seq(WindowRecord)
      /\ Len(saved) <= Len(Workspace) /\ only \subseteq DOMAIN shown
  BY DEF RestoreInv, RestoreTypeOK, TypeOK
<1>3. PICK L, M : /\ Restacked(L, live)
                  /\ IsOutcome(ScoresOf(saved, L), M)
                  /\ shown = PlanOf(saved, ScoresOf(saved, L), M)
  BY <1>1 DEF ShownInv, ShowsPlanFor
<1>4. PICK planned : planned = PlannedActions
  OBVIOUS
<1>5. /\ planned = PlanOf(saved, ScoresOf(saved, live), matches)
      /\ IsOutcome(ScoresOf(saved, live), matches)
  BY <1>1, <1>2, <1>4, PlannedByScores, DecidedIsOutcome DEF ShownInv
<1>6. ReadsAlike(shown, planned)
  <2>1. /\ \A i \in DOMAIN saved : saved[i].app # NoApp
        /\ \A k \in DOMAIN live : live[k].app # NoApp
    BY <1>1 DEF ShownInv
  <2> QED
    BY <1>2, <1>3, <1>5, <2>1, RestackedPlans
<1>7. /\ DOMAIN planned = DOMAIN shown
      /\ \A k \in DOMAIN shown : /\ planned[k].of = shown[k].of
                                 /\ planned[k].window = 0 <=> shown[k].window = 0
  BY <1>6 DEF ReadsAlike
<1>8. PICK P : P = IF only = {} THEN DOMAIN shown ELSE only
  OBVIOUS
<1>9. Chosen = {planned[k] : k \in P} /\ P \subseteq DOMAIN shown
  <2>1. only \cap DOMAIN planned = only
    BY <1>2, <1>7
  <2> QED
    BY <1>2, <1>4, <1>7, <1>8, <2>1 DEF Chosen
<1>10. launched' = {shown[k].of : k \in {l \in P : shown[l].window = 0}}
  BY <1>7, <1>9 DEF Launch
<1> QED
  BY <1>8, <1>10 DEF AskedFor

(* At first nothing is shown. *)
LEMMA ShownInvInit == Recognised /\ RestoreInit => ShownInv
<1> SUFFICES ASSUME Recognised, RestoreInit PROVE ShownInv
  OBVIOUS
<1>1. live = <<>> /\ rest = Candidates /\ matches = {}
  BY DEF RestoreInit, Start
<1>2. desktop = <<>> /\ starting = {} /\ pc = "idle" /\ shown = <<>>
  BY DEF RestoreInit
<1>3. \A i \in DOMAIN stored : stored[i].app # NoApp
  BY DEF Recognised, RestoreInit
<1>4. ListedIsLaunched
  BY <1>2 DEF ListedIsLaunched
<1> QED
  BY <1>1, <1>2, <1>3, <1>4, DecidedAtFirst DEF ShownInv

(* Every step keeps it: restacking changes neither plan, nor does the      *)
(* review's own window, and whatever else happens is noticed.              *)
LEMMA ShownInvNext == Recognised /\ RestoreInv /\ ShownInv /\ [RestoreNext]_vars => ShownInv'
<1> SUFFICES ASSUME Recognised, RestoreInv, ShownInv, [RestoreNext]_vars PROVE ShownInv'
  OBVIOUS
<1> USE DEF clientVars, desktopVars
<1>0. /\ Decided
      /\ \A i \in DOMAIN stored : stored[i].app # NoApp
      /\ \A k \in DOMAIN desktop : desktop[k].window.app # NoApp
      /\ \A k \in DOMAIN live : live[k].app # NoApp
      /\ \A start \in starting : start.window.app # NoApp
      /\ pc = "planning" => Restacked(live, DesktopWindows)
      /\ pc = "idle" /\ shown # <<>> /\ ~changed =>
           listed = stored /\ ShowsPlanFor(DesktopWindows)
      /\ pc = "restoring" /\ ~changed => listed = saved /\ ShowsPlanFor(live)
      /\ ListedIsLaunched
  BY DEF ShownInv
<1>T. /\ IInv /\ TypeOK
      /\ stored \in Seq(WindowRecord) /\ desktop \in Seq(DesktopWindow)
      /\ pc \in {"idle", "planning", "restoring", "launching"}
      /\ starting \subseteq Starting
  BY DEF RestoreInv, RestoreTypeOK, TypeOK
<1>M. ASSUME UNCHANGED matchVars
      PROVE  /\ Decided' /\ saved' = saved /\ live' = live
             /\ \A k \in DOMAIN live' : live'[k].app # NoApp
  <2>1. Decided'
    BY <1>0, <1>T, <1>M, DecidedNext
  <2>2. saved' = saved /\ live' = live
    BY <1>M DEF matchVars
  <2> QED
    BY <1>0, <2>1, <2>2
<1>F. \A start \in Forsaken : start.window.app # NoApp
  <2>1. ASSUME NEW start \in starting
        PROVE  [start EXCEPT !.awaited = FALSE].window.app # NoApp
    BY <1>0, <1>T DEF Starting
  <2> QED
    BY <2>1 DEF Forsaken
<1>L. \A list \in Listings : \A k \in DOMAIN list : list[k].app # NoApp
  <2> TAKE list \in Listings
  <2>1. PICK stacked \in Bijection(DOMAIN desktop, DOMAIN desktop) :
          list = [k \in DOMAIN desktop |-> desktop[stacked[k]].window]
    BY DEF Listings
  <2>2. stacked \in [DOMAIN desktop -> DOMAIN desktop]
    BY DEF Bijection, Injection
  <2> QED
    BY <1>0, <2>1, <2>2
<1>P. ASSUME StartPlan, UNCHANGED desktop
      PROVE  /\ Decided' /\ saved' = stored
             /\ \A k \in DOMAIN live' : live'[k].app # NoApp
             /\ Restacked(live', DesktopWindows)
             /\ DesktopWindows' = DesktopWindows
  <2>1. saved' = stored /\ rest' = Candidates' /\ matches' = {} /\ live' \in Listings
    BY <1>P DEF StartPlan
  <2>2. Decided'
    BY <2>1 DEF Decided
  <2>3. PICK stacked \in Bijection(DOMAIN desktop, DOMAIN desktop) :
          live' = [k \in DOMAIN desktop |-> desktop[stacked[k]].window]
    BY <2>1 DEF Listings
  <2>4. stacked \in [DOMAIN desktop -> DOMAIN desktop]
    BY DEF Bijection, Injection
  <2>5. \A k \in DOMAIN live' : live'[k].app # NoApp
    BY <1>L, <2>1
  <2>6. Restacked(live', DesktopWindows)
    <3>1. DOMAIN DesktopWindows = DOMAIN desktop
      BY DEF DesktopWindows
    <3>2. live' = [k \in DOMAIN desktop |-> DesktopWindows[stacked[k]]]
      BY <2>3, <2>4 DEF DesktopWindows
    <3> QED
      BY <3>1, <3>2 DEF Restacked
  <2>7. DesktopWindows' = DesktopWindows
    BY <1>P DEF DesktopWindows
  <2> QED
    BY <2>1, <2>2, <2>5, <2>6, <2>7
<1>G. ASSUME DropPlan
      PROVE  Decided' /\ \A k \in DOMAIN live' : live'[k].app # NoApp
  <2>1. saved' = <<>> /\ live' = <<>> /\ rest' = {} /\ matches' = {}
    BY <1>G DEF DropPlan
  <2>2. Candidates' = {}
    BY <2>1 DEF Candidates
  <2> QED
    BY <2>1, <2>2 DEF Decided
(* A plan that is shown is one for the same windows still.                 *)
<1>S. ASSUME NEW K, ShowsPlanFor(K), shown' = shown, listed' = listed
      PROVE  \E L, M : /\ Restacked(L, K)
                       /\ IsOutcome(ScoresOf(listed', L), M)
                       /\ shown' = PlanOf(listed', ScoresOf(listed', L), M)
  BY <1>S DEF ShowsPlanFor
<1>1. CASE PlanRestore
  <2>1. /\ StartPlan /\ UNCHANGED <<stored, desktop, starting>> /\ pc' = "planning"
    BY <1>1 DEF PlanRestore
  <2>2. ListedIsLaunched'
    BY <2>1 DEF ListedIsLaunched
  <2> QED
    BY <1>0, <1>P, <2>1, <2>2 DEF ShownInv
<1>2. CASE Match
  <2>1. /\ Next /\ saved' = saved /\ live' = live
        /\ UNCHANGED <<stored, pc, shown, only, listed, launched, desktop, starting, changed>>
        /\ pc \in {"planning", "restoring"}
    BY <1>2 DEF Match, Next, Consider
  <2>2. Decided'
    BY <1>0, <1>T, <2>1, DecidedNext
  <2>3. pc' = "planning" => Restacked(live', DesktopWindows')
    BY <1>0, <2>1 DEF DesktopWindows
  <2>4. pc' = "restoring" /\ ~changed' => ShowsPlanFor(live)'
    BY <1>0, <1>S, <2>1 DEF ShowsPlanFor
  <2>5. ListedIsLaunched'
    BY <2>1 DEF ListedIsLaunched
  <2> QED
    BY <1>0, <2>1, <2>2, <2>3, <2>4, <2>5 DEF ShownInv
<1>3. CASE ShowPlan
  <2>1. /\ pc = "planning" /\ rest = {} /\ shown' = PlannedActions /\ pc' = "idle"
        /\ listed' = saved /\ saved = stored /\ DropPlan
        /\ UNCHANGED <<stored, desktop, starting>>
    BY <1>3 DEF ShowPlan, RestoreInv
  <2>2. ShowsPlanFor(DesktopWindows)'
    <3>1. Restacked(live, DesktopWindows) /\ DesktopWindows' = DesktopWindows
      BY <1>0, <2>1 DEF DesktopWindows
    <3>2. /\ IsOutcome(ScoresOf(saved, live), matches)
          /\ PlannedActions = PlanOf(saved, ScoresOf(saved, live), matches)
      BY <1>0, <1>T, <2>1, PlannedByScores, DecidedIsOutcome
    <3>3. PICK S, L, M : S = saved /\ L = live /\ M = matches
      OBVIOUS
    <3>4. /\ Restacked(L, DesktopWindows') /\ IsOutcome(ScoresOf(S, L), M)
          /\ shown' = PlanOf(S, ScoresOf(S, L), M) /\ listed' = S
      BY <2>1, <3>1, <3>2, <3>3
    <3> QED
      BY <3>4 DEF ShowsPlanFor
  <2>3. ListedIsLaunched'
    BY <2>1 DEF ListedIsLaunched
  <2> QED
    BY <1>0, <1>G, <2>1, <2>2, <2>3 DEF ShownInv
<1>4. CASE PresentReview
  <2>1. /\ pc = "idle" /\ desktop' = Append(desktop, [window |-> Review, restored |-> FALSE])
        /\ changed' = (changed \/ IsLikeSaved(Review))
        /\ UNCHANGED <<matchVars, stored, pc, shown, only, listed, launched, starting>>
    BY <1>4 DEF PresentReview
  <2>2. PICK n \in Nat : DOMAIN desktop = 1 .. n /\ n = Len(desktop)
    BY <1>T
  <2>3. /\ DOMAIN desktop' = 1 .. n + 1
        /\ desktop'[n + 1] = [window |-> Review, restored |-> FALSE]
        /\ \A k \in 1 .. n : desktop'[k] = desktop[k]
    BY <1>T, <2>1, <2>2
  <2>4. \A k \in DOMAIN desktop' : desktop'[k].window.app # NoApp
    BY <1>0, <2>2, <2>3 DEF Recognised
  <2>5. shown' # <<>> /\ ~changed' => listed' = stored' /\ ShowsPlanFor(DesktopWindows)'
    <3> SUFFICES ASSUME shown # <<>>, ~changed' PROVE listed = stored /\ ShowsPlanFor(DesktopWindows)'
      BY <2>1
    <3>1. /\ listed = stored /\ ShowsPlanFor(DesktopWindows)
          /\ \A i \in DOMAIN listed : ~(WindowScore(listed[i], Review) > 0)
      BY <1>0, <2>1 DEF IsLikeSaved
    <3>2. PICK K : K = DesktopWindows
      OBVIOUS
    <3>3. K \in Seq(WindowRecord) /\ DesktopWindows' = Append(K, Review)
      <4>1. \A k \in DOMAIN desktop : desktop[k] \in DesktopWindow
        BY <1>T
      <4>2. K = [k \in 1 .. n |-> desktop[k].window] /\ K \in [1 .. n -> WindowRecord]
        BY <2>2, <3>2, <4>1 DEF DesktopWindows, DesktopWindow
      <4>3. K \in Seq(WindowRecord) /\ Len(K) = n
        BY <4>2
      <4>4. DesktopWindows' = [k \in 1 .. n + 1 |-> desktop'[k].window]
        BY <2>3 DEF DesktopWindows
      <4>5. PICK J : J = Append(K, Review)
        OBVIOUS
      <4>6. /\ J \in Seq(WindowRecord) /\ DOMAIN J = 1 .. n + 1
            /\ J[n + 1] = Review /\ \A k \in 1 .. n : J[k] = K[k]
        BY <4>3, <4>5, DesktopAssumption
      <4>7. \A k \in 1 .. n + 1 : desktop'[k].window = J[k]
        BY <2>3, <4>2, <4>6
      <4>8. J = [k \in 1 .. n + 1 |-> J[k]]
        BY <4>6
      <4> QED
        BY <4>3, <4>4, <4>5, <4>7, <4>8
    <3>4. PICK S, p : S = listed /\ p = shown
      OBVIOUS
    <3>5. PICK L, M : /\ Restacked(L, K)
                      /\ IsOutcome(ScoresOf(S, L), M)
                      /\ p = PlanOf(S, ScoresOf(S, L), M)
      BY <3>1, <3>2, <3>4 DEF ShowsPlanFor
    <3>6. L \in Seq(WindowRecord) /\ Restacked(Append(L, Review), Append(K, Review))
      BY <3>3, <3>5, RestackedLonger, DesktopAssumption
    <3>7. /\ IsOutcome(ScoresOf(S, Append(L, Review)), M)
          /\ p = PlanOf(S, ScoresOf(S, Append(L, Review)), M)
      BY <3>1, <3>4, <3>5, <3>6, StrangerIsIgnored, DesktopAssumption
    <3> QED
      BY <2>1, <3>1, <3>3, <3>4, <3>6, <3>7 DEF ShowsPlanFor
  <2>6. ListedIsLaunched'
    BY <2>1 DEF ListedIsLaunched
  <2> QED
    BY <1>0, <1>M, <2>1, <2>4, <2>5, <2>6 DEF ShownInv
<1>5. CASE SayYes \/ ClickRestore
  <2>1. /\ pc = "idle" /\ shown # <<>> /\ StartPlan /\ pc' = "restoring"
        /\ starting' = Forsaken
        /\ UNCHANGED <<stored, shown, listed, desktop, changed>>
    BY <1>5 DEF SayYes, ClickRestore, Restore
  <2>2. ~changed' => listed' = saved' /\ ShowsPlanFor(live)'
    <3> SUFFICES ASSUME ~changed PROVE listed = stored /\ ShowsPlanFor(live)'
      BY <1>P, <2>1
    <3>1. listed = stored /\ ShowsPlanFor(DesktopWindows)
      BY <1>0, <2>1
    <3>2. PICK L, M : /\ Restacked(L, DesktopWindows)
                      /\ IsOutcome(ScoresOf(listed, L), M)
                      /\ shown = PlanOf(listed, ScoresOf(listed, L), M)
      BY <3>1 DEF ShowsPlanFor
    <3>3. Restacked(L, live')
      BY <1>P, <2>1, <3>2, RestackedAgain
    <3> QED
      BY <2>1, <3>1, <3>2, <3>3 DEF ShowsPlanFor
  <2>3. ListedIsLaunched'
    BY <2>1 DEF ListedIsLaunched
  <2> QED
    BY <1>0, <1>F, <1>P, <2>1, <2>2, <2>3 DEF ShownInv
<1>6. CASE Launch
  <2>1. /\ pc' = "launching" /\ saved = stored /\ UNCHANGED <<matchVars, stored, desktop>>
        /\ starting' = starting \cup
             {[restore |-> restores, for |-> i, window |-> saved[i], awaited |-> TRUE] :
                i \in launched'}
    BY <1>6 DEF Launch, RestoreInv
  <2>2. ListedIsLaunched'
    BY <1>6, LaunchedIsListed
  <2>3. launched' \subseteq DOMAIN saved
    <3>1. Chosen \subseteq Actions
      BY PlanIsList DEF Chosen, RestoreInv, RestoreTypeOK
    <3> QED
      BY <1>6, <1>T, <3>1, ActionsAreFew DEF Launch
  <2>4. \A start \in starting' : start.window.app # NoApp
    BY <1>0, <2>1, <2>3
  <2> QED
    BY <1>0, <1>M, <2>1, <2>2, <2>4 DEF ShownInv
<1>7. CASE EndRestore
  <2>1. pc' = "idle" /\ shown' = <<>> /\ DropPlan /\ UNCHANGED <<stored, desktop, starting>>
    BY <1>7 DEF EndRestore
  <2>2. ListedIsLaunched'
    BY <2>1 DEF ListedIsLaunched
  <2> QED
    BY <1>0, <1>G, <2>1, <2>2 DEF ShownInv
<1>8. CASE WriteSnapshot
  <2>1. /\ stored' \in Listings /\ starting' = Forsaken /\ pc = "idle"
        /\ changed' = (changed \/ stored' # stored)
        /\ UNCHANGED <<matchVars, pc, shown, only, listed, launched, desktop>>
    BY <1>8 DEF WriteSnapshot
  <2>2. shown' # <<>> /\ ~changed' => listed' = stored' /\ ShowsPlanFor(DesktopWindows)'
    <3>1. DesktopWindows' = DesktopWindows
      BY <2>1 DEF DesktopWindows
    <3> QED
      BY <1>0, <1>S, <2>1, <3>1 DEF ShowsPlanFor
  <2>3. ListedIsLaunched'
    BY <2>1 DEF ListedIsLaunched
  <2> QED
    BY <1>0, <1>F, <1>L, <1>M, <2>1, <2>2, <2>3 DEF ShownInv
<1>D. ASSUME DesktopChanges, \A k \in DOMAIN desktop' : desktop'[k].window.app # NoApp,
             starting' \subseteq starting
      PROVE  ShownInv'
  <2>1. /\ UNCHANGED <<matchVars, stored, pc, shown, only, listed, launched>>
        /\ pc \in {"idle", "launching"} /\ changed' = (changed \/ pc = "idle")
    BY <1>D DEF DesktopChanges
  <2>2. ListedIsLaunched'
    BY <1>0, <2>1 DEF ListedIsLaunched, AskedFor
  <2> QED
    BY <1>0, <1>D, <1>M, <2>1, <2>2 DEF ShownInv
<1>9. CASE ApplicationOpensWindow \/ UserOpensWindow
  <2>1. PICK window, restored :
          /\ desktop' = Append(desktop, [window |-> window, restored |-> restored])
          /\ window.app # NoApp
    BY <1>0, <1>9 DEF ApplicationOpensWindow, UserOpensWindow, Recognised
  <2>2. PICK n \in Nat : DOMAIN desktop = 1 .. n /\ n = Len(desktop)
    BY <1>T
  <2>3. /\ DOMAIN desktop' = 1 .. n + 1
        /\ desktop'[n + 1] = [window |-> window, restored |-> restored]
        /\ \A k \in 1 .. n : desktop'[k] = desktop[k]
    BY <1>T, <2>1, <2>2
  <2>4. \A k \in DOMAIN desktop' : desktop'[k].window.app # NoApp
    BY <1>0, <2>1, <2>2, <2>3
  <2> QED
    BY <1>9, <1>D, <2>4 DEF ApplicationOpensWindow, UserOpensWindow
<1>10. CASE WindowIsRetitled
  <2>1. PICK i \in DOMAIN desktop, title \in NewTitles :
          desktop' = [desktop EXCEPT ![i] =
            [window |-> [desktop[i].window EXCEPT !.title = title], restored |-> FALSE]]
    BY <1>10 DEF WindowIsRetitled
  <2>2. [desktop[i].window EXCEPT !.title = title].app = desktop[i].window.app
    <3>1. desktop[i] \in DesktopWindow
      BY <1>T
    <3> QED
      BY <3>1 DEF DesktopWindow, WindowRecord
  <2>3. \A k \in DOMAIN desktop' : desktop'[k].window.app # NoApp
    BY <1>0, <1>T, <2>1, <2>2
  <2> QED
    BY <1>10, <1>D, <2>3 DEF WindowIsRetitled
<1>11. CASE UserClosesWindow
  <2>1. PICK i \in DOMAIN desktop : desktop' = RemoveAt(desktop, i)
    BY <1>11 DEF UserClosesWindow
  <2>2. PICK n \in Nat : DOMAIN desktop = 1 .. n /\ n = Len(desktop)
    BY <1>T
  <2>3. /\ DOMAIN desktop' = 1 .. n - 1
        /\ \A k \in 1 .. n - 1 : desktop'[k] = IF k < i THEN desktop[k] ELSE desktop[k + 1]
    BY <1>T, <2>1, <2>2, EntryRemoved
  <2>4. \A k \in DOMAIN desktop' : desktop'[k].window.app # NoApp
    BY <1>0, <2>2, <2>3
  <2> QED
    BY <1>11, <1>D, <2>4 DEF UserClosesWindow
<1>12. CASE UNCHANGED vars
  <2>1. UNCHANGED <<matchVars, stored, pc, shown, only, listed, launched, desktop, starting,
                    changed>>
    BY <1>12 DEF vars
  <2>2. DesktopWindows' = DesktopWindows
    BY <2>1 DEF DesktopWindows
  <2>3. pc' = "idle" /\ shown' # <<>> /\ ~changed' => ShowsPlanFor(DesktopWindows)'
    BY <1>0, <1>S, <2>1, <2>2 DEF ShowsPlanFor
  <2>4. pc' = "restoring" /\ ~changed' => ShowsPlanFor(live)'
    BY <1>0, <1>M, <1>S, <2>1 DEF ShowsPlanFor
  <2>5. ListedIsLaunched'
    BY <1>0, <2>1 DEF ListedIsLaunched, AskedFor
  <2> QED
    BY <1>0, <1>M, <2>1, <2>2, <2>3, <2>4, <2>5 DEF ShownInv
<1> QED
  BY <1>1, <1>2, <1>3, <1>4, <1>5, <1>6, <1>7, <1>8, <1>9, <1>10, <1>11, <1>12 DEF RestoreNext

(* Restore launches what was listed at the indices it is told, however the *)
(* windows are restacked between the plan that is shown and the plan that  *)
(* is carried out, and with the review's own window among them: as long as *)
(* session.json says what it said and no other window came, went or        *)
(* changed its title, for every number of windows, if titles with the same *)
(* shares of characters are placeholders of the same titles                *)
(* (handle_restore(), match_windows(), plan.actions.sort()).               *)
THEOREM ListedIsLaunchedAlways ==
  ASSUME Recognised
  PROVE  RestoreSpec => []ListedIsLaunched
<1>1. RestoreInit => RestoreInv /\ ShownInv
  BY RestoreInvInit, ShownInvInit
<1>2. RestoreInv /\ ShownInv /\ [RestoreNext]_vars => (RestoreInv /\ ShownInv)'
  BY RestoreInvNext, ShownInvNext
<1>3. RestoreInv /\ ShownInv => ListedIsLaunched
  BY DEF ShownInv
<1> QED
  BY <1>1, <1>2, <1>3, PTL DEF RestoreSpec
=============================================================================
