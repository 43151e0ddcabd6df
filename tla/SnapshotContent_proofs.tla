----------------------- MODULE SnapshotContent_proofs -----------------------
(***************************************************************************)
(* Proofs about SnapshotContent and the parts it is made of, for whatever  *)
(* session there is, however deep the processes are, however many windows, *)
(* monitors, VPNs and reports, and whatever happens in between.            *)
(*                                                                         *)
(* Each part has an inductive invariant of its own: TerminalInv of the     *)
(* tree of processes, VpnInv, CorrelationInv of the tabs; ContentInv adds  *)
(* the monitors and what is recorded of each window, PlanInv what is made  *)
(* of that after a reboot.                                                 *)
(***************************************************************************)
EXTENDS SnapshotContent, Selection_proofs

-----------------------------------------------------------------------------
(* TabCorrelation: tab sets are given to windows                          *)

(* What was given tabs comes before what is still to be considered.        *)
GivenInOrder == \A c \in undecided, p \in pairs : ComesBefore(p.of, c)

(* The inductive invariant of the correlation.                             *)
CorrelationInv == TabsTypeOK /\ TabsFairlyGiven /\ GivenInOrder

-----------------------------------------------------------------------------
(* So many parts of a title and so many of a size are per cent. *)
LEMMA MixIsPerCent ==
  ASSUME NEW t \in 0 .. 100, NEW s \in 0 .. 100
  PROVE  (85 * t + 15 * s) \div 100 \in 0 .. 100
<1>1. PICK x \in Int : x = 85 * t + 15 * s
  OBVIOUS
<1>2. 0 <= x /\ x <= 10000
  BY <1>1
<1>3. x \div 100 \in 0 .. 100
  BY <1>2
<1>4. QED
  BY <1>1, <1>3

(* A score is per cent. *)
LEMMA ScoreIsPerCent ==
  ASSUME TabsTypeOK, NEW c \in (DOMAIN screen) \X (DOMAIN blocks)
  PROVE  TabScore(c) \in 0 .. 100
<1>1. screen[c[1]] \in Seen /\ blocks[c[2]] \in Block
  BY DEF TabsTypeOK
<1>2. TitleScore(c) \in 0 .. 100
  BY <1>1, CorrelationAssumption DEF TitleScore, Seen, Block
<1>3. SizeScore(c) \in 0 .. 100
  BY <1>1, CorrelationAssumption DEF SizeScore, Seen, Block
<1>4. QED
  BY <1>2, <1>3, MixIsPerCent DEF TabScore

(* Of some candidates there is a strongest, as max() finds it. *)
LEMMA StrongestExists ==
  ASSUME TabsTypeOK, NEW S \in SUBSET TabCandidates, S # {}
  PROVE  \E d \in S : IsStrongest(d, S)
<1>0. \A d \in S : d[2] \in 1 .. Len(blocks)
  BY DEF TabCandidates, TabsTypeOK
<1>1. \A d \in S : TabScore(d) \in Int /\ 0 <= TabScore(d) /\ TabScore(d) <= 100
  <2> TAKE d \in S
  <2>1. TabScore(d) \in 0 .. 100
    BY ScoreIsPerCent DEF TabCandidates
  <2>2. QED
    BY <2>1
<1> Len(blocks) \in Nat
  BY DEF TabsTypeOK
<1> DEFINE Short == {100 - TabScore(d) : d \in S}
<1>2. PICK m \in Short : \A k \in Short : m <= k
  <2>0. \A d \in S : 100 - TabScore(d) \in Nat
    BY <1>1
  <2>1. Short \in SUBSET Nat /\ Short # {}
    BY <2>0
  <2>2. QED
    BY <2>1, LeastNatural
<1> DEFINE Top == {d \in S : TabScore(d) = 100 - m}
<1>3. \A d \in S : TabScore(d) <= 100 - m
  <2> TAKE d \in S
  <2>1. m <= 100 - TabScore(d)
    BY <1>2
  <2>2. m \in Int /\ TabScore(d) \in Int
    BY <1>1
  <2>3. QED
    BY <2>1, <2>2
<1>4. Top # {}
  <2>1. PICK d \in S : m = 100 - TabScore(d)
    BY <1>2
  <2>2. TabScore(d) = 100 - m
    BY <2>1, <1>1
  <2>3. QED
    BY <2>2
<1> DEFINE Behind == {Len(blocks) - d[2] : d \in Top}
<1>5. PICK n \in Behind : \A k \in Behind : n <= k
  <2>0. \A d \in S : Len(blocks) - d[2] \in Nat
    BY <1>0
  <2>1. Behind \in SUBSET Nat /\ Behind # {}
    BY <2>0, <1>4
  <2>2. QED
    BY <2>1, LeastNatural
<1>6. PICK d \in Top : n = Len(blocks) - d[2]
  BY <1>5
<1>7. \A e \in Top : e[2] <= d[2]
  <2> TAKE e \in Top
  <2>1. n <= Len(blocks) - e[2]
    BY <1>5
  <2>2. e[2] \in Int /\ d[2] \in Int
    BY <1>0
  <2>3. QED
    BY <2>1, <2>2, <1>6
<1>8. ASSUME NEW e \in S
      PROVE  \/ TabScore(e) < TabScore(d)
             \/ TabScore(e) = TabScore(d) /\ e[2] <= d[2]
  <2>1. TabScore(e) \in Int /\ TabScore(d) \in Int /\ TabScore(d) = 100 - m
    BY <1>1
  <2>2. CASE TabScore(e) = 100 - m
    BY <2>1, <2>2, <1>7
  <2>3. CASE TabScore(e) # 100 - m
    BY <2>1, <2>3, <1>3
  <2>4. QED
    BY <2>2, <2>3
<1>9. QED
  BY <1>8 DEF IsStrongest

-----------------------------------------------------------------------------
(* Scores do not change as long as neither list does. *)
LEMMA ListsStay ==
  ASSUME UNCHANGED <<screen, blocks>>
  PROVE  /\ TabCandidates' = TabCandidates
         /\ \A c : TabScore(c)' = TabScore(c)
         /\ \A c, d : ComesBefore(c, d)' <=> ComesBefore(c, d)
         /\ \A c, d : WithinSpread(c, d)' <=> WithinSpread(c, d)
         /\ \A c, d : SameTabs(c, d)' <=> SameTabs(c, d)
<1>1. \A c : TabScore(c)' = TabScore(c)
  BY DEF TabScore, TitleScore, SizeScore
<1>2. TabCandidates' = TabCandidates
  BY <1>1 DEF TabCandidates
<1>3. \A c, d : ComesBefore(c, d)' <=> ComesBefore(c, d)
  BY <1>1 DEF ComesBefore
<1>4. \A c, d : WithinSpread(c, d)' <=> WithinSpread(c, d)
  BY <1>1 DEF WithinSpread
<1>5. \A c, d : SameTabs(c, d)' <=> SameTabs(c, d)
  BY DEF SameTabs
<1>6. QED
  BY <1>1, <1>2, <1>3, <1>4, <1>5

(* Nothing is decided in the beginning. *)
LEMMA CorrelationInvInit == CorrelationInit => CorrelationInv
<1> SUFFICES ASSUME NEW windows \in Seq(Seen), NEW reported \in Seq(Block),
                    StartCorrelation(windows, reported)
             PROVE  CorrelationInv
  BY DEF CorrelationInit
<1>1. TabsTypeOK
  BY DEF StartCorrelation, TabsTypeOK
<1>2. TabsFairlyGiven /\ GivenInOrder
  BY DEF StartCorrelation, TabsFairlyGiven, OneTabSetEach, NoCoinToss,
         WithheldForReason, GivenInOrder
<1>3. QED
  BY <1>1, <1>2 DEF CorrelationInv

(* A candidate that gets nothing. *)
LEMMA NothingGiven ==
  ASSUME CorrelationInv, NEW c \in undecided, Decide(c), UNCHANGED pairs,
         PassOver(c) \/ Withhold(c)
  PROVE  CorrelationInv'
<1>1. UNCHANGED <<screen, blocks>> /\ undecided' = undecided \ {c}
  BY DEF Decide
<1>2. TabsTypeOK' /\ OneTabSetEach' /\ GivenInOrder'
  BY <1>1, ListsStay DEF CorrelationInv, TabsFairlyGiven, TabsTypeOK, OneTabSetEach,
                         GivenInOrder
<1>3. NoCoinToss'
  BY <1>1, ListsStay DEF CorrelationInv, TabsFairlyGiven, NoCoinToss, TakenBlocks
<1>4. ASSUME TabScore(c) >= MatchThreshold
      PROVE  \/ \E p \in pairs : (p.of[1] = c[1] \/ p.of[2] = c[2])
                                 /\ (p.of = c \/ ComesBefore(p.of, c))
             \/ \E d \in TabCandidates :
                  d[1] = c[1] /\ d[2] # c[2] /\ WithinSpread(c, d) /\ ~SameTabs(c, d)
  <2>1. CASE HasPartner(c)
    BY <2>1 DEF HasPartner, TakenWindows, TakenBlocks, CorrelationInv, GivenInOrder
  <2>2. CASE IsCoinToss(c)
    BY <2>2 DEF IsCoinToss, Rivals
  <2>3. CASE TabScore(c) < MatchThreshold
    <3>1. TabScore(c) \in 0 .. 100
      BY ScoreIsPerCent DEF CorrelationInv, TabsTypeOK, TabCandidates
    <3>2. QED
      BY <3>1, <2>3, <1>4 DEF MatchThreshold
  <2>4. QED
    BY <2>1, <2>2, <2>3 DEF PassOver, Withhold
<1>5. WithheldForReason'
  <2> SUFFICES ASSUME NEW d \in TabCandidates, d \notin undecided',
                      TabScore(d) >= MatchThreshold
               PROVE  \/ \E p \in pairs : (p.of[1] = d[1] \/ p.of[2] = d[2])
                                          /\ (p.of = d \/ ComesBefore(p.of, d))
                      \/ \E e \in TabCandidates :
                           d[1] = e[1] /\ e[2] # d[2] /\ WithinSpread(d, e)
                           /\ ~SameTabs(d, e)
    BY <1>1, ListsStay DEF WithheldForReason
  <2>1. CASE d = c
    BY <2>1, <1>4
  <2>2. CASE d # c
    BY <2>2, <1>1 DEF CorrelationInv, TabsFairlyGiven, WithheldForReason
  <2>3. QED
    BY <2>1, <2>2
<1>6. QED
  BY <1>2, <1>3, <1>5 DEF CorrelationInv, TabsFairlyGiven

(* A candidate that gets its tabs. *)
LEMMA TabsGiven ==
  ASSUME CorrelationInv, NEW c \in undecided, Decide(c), Give(c)
  PROVE  CorrelationInv'
<1> DEFINE new == [of |-> c, confidence |-> TabScore(c)]
<1>1. /\ UNCHANGED <<screen, blocks>> /\ undecided' = undecided \ {c}
      /\ \A d \in undecided \ {c} : ComesBefore(c, d)
      /\ pairs' = pairs \cup {new}
  BY DEF Decide, Give
<1>2. c \in TabCandidates /\ TabScore(c) \in 0 .. 100
  BY ScoreIsPerCent DEF CorrelationInv, TabsTypeOK, TabCandidates
<1>3. TabsTypeOK'
  <2>1. new \in [of : (DOMAIN screen) \X (DOMAIN blocks), confidence : 0 .. 100]
    BY <1>2 DEF TabCandidates
  <2>2. QED
    BY <2>1, <1>1, ListsStay DEF CorrelationInv, TabsTypeOK
<1>4. OneTabSetEach'
  <2>1. \A p \in pairs : p.of[1] # c[1] /\ p.of[2] # c[2]
    BY DEF Give, HasPartner, TakenWindows, TakenBlocks
  <2>2. QED
    BY <2>1, <1>1 DEF CorrelationInv, TabsFairlyGiven, OneTabSetEach
<1>5. GivenInOrder'
  BY <1>1, ListsStay DEF CorrelationInv, GivenInOrder
<1>6. WithheldForReason'
  BY <1>1, ListsStay DEF CorrelationInv, TabsFairlyGiven, WithheldForReason
<1>7. NoCoinToss'
  <2> SUFFICES ASSUME NEW p \in pairs', NEW d \in TabCandidates,
                      p.confidence >= MatchThreshold, d[1] = p.of[1], d[2] # p.of[2],
                      d[2] \notin TakenBlocks', WithinSpread(p.of, d)
               PROVE  \E e \in TabCandidates :
                        /\ e[1] = p.of[1] /\ e[2] # p.of[2] /\ SameTabs(p.of, e)
                        /\ TabScore(e) >= TabScore(d)
    BY <1>1, ListsStay DEF NoCoinToss
  <2>1. d[2] \notin TakenBlocks
    BY <1>1 DEF TakenBlocks
  <2>2. CASE p \in pairs
    BY <2>1, <2>2 DEF CorrelationInv, TabsFairlyGiven, NoCoinToss
  <2>3. CASE p = new
    <3>1. d \in Rivals(c) /\ Rivals(c) \in SUBSET TabCandidates
      BY <2>1, <2>3 DEF Rivals
    <3>2. PICK e \in Rivals(c) : IsStrongest(e, Rivals(c))
      BY <3>1, StrongestExists DEF CorrelationInv
    <3>3. /\ TabScore(d) \in 0 .. 100 /\ TabScore(e) \in 0 .. 100
      BY <3>1, ScoreIsPerCent DEF CorrelationInv, TabCandidates
    <3>4. TabScore(d) <= TabScore(e)
      BY <3>1, <3>2, <3>3 DEF IsStrongest
    <3>5. WithinSpread(c, e)
      BY <3>3, <3>4, <1>2, <2>3 DEF WithinSpread, MinimalSpread
    <3>6. SameTabs(c, e)
      BY <3>2, <3>5 DEF Give, IsCoinToss
    <3>7. e \in TabCandidates /\ e[1] = c[1] /\ e[2] # c[2]
      BY <3>2 DEF Rivals
    <3>8. QED
      BY <3>3, <3>4, <3>6, <3>7, <2>3
  <2>4. QED
    BY <2>2, <2>3, <1>1
<1>8. QED
  BY <1>3, <1>4, <1>5, <1>6, <1>7 DEF CorrelationInv, TabsFairlyGiven

(* The only window gets the only tab set. *)
LEMMA OnlyOneGiven ==
  ASSUME CorrelationInv, GiveTheOnlyOne
  PROVE  CorrelationInv'
<1>1. /\ UNCHANGED <<screen, blocks, undecided>> /\ undecided = {} /\ pairs = {}
      /\ Len(screen) = 1 /\ Len(blocks) = 1
      /\ pairs' = {[of |-> <<1, 1>>, confidence |-> OnlyCandidate]}
  BY DEF GiveTheOnlyOne, OnlyOneEach
<1>2. TabsTypeOK'
  <2>1. <<1, 1>> \in (DOMAIN screen) \X (DOMAIN blocks)
    BY <1>1 DEF CorrelationInv, TabsTypeOK
  <2>2. QED
    BY <2>1, <1>1, ListsStay DEF CorrelationInv, TabsTypeOK, OnlyCandidate
<1>3. OneTabSetEach' /\ GivenInOrder'
  BY <1>1 DEF OneTabSetEach, GivenInOrder
<1>4. NoCoinToss'
  BY <1>1 DEF NoCoinToss, OnlyCandidate, MatchThreshold
<1>5. WithheldForReason'
  BY <1>1, ListsStay DEF CorrelationInv, TabsFairlyGiven, WithheldForReason
<1>6. QED
  BY <1>2, <1>3, <1>4, <1>5 DEF CorrelationInv, TabsFairlyGiven

(* Every step keeps the invariant. *)
LEMMA CorrelationInvNext ==
  CorrelationInv /\ [CorrelationNext]_tabVars => CorrelationInv'
<1> SUFFICES ASSUME CorrelationInv, [CorrelationNext]_tabVars PROVE CorrelationInv'
  OBVIOUS
<1>1. ASSUME NEW c \in undecided, Decide(c) PROVE CorrelationInv'
  <2>1. CASE PassOver(c)
    BY <1>1, <2>1, NothingGiven DEF PassOver
  <2>2. CASE Withhold(c)
    BY <1>1, <2>2, NothingGiven DEF Withhold
  <2>3. CASE Give(c)
    BY <1>1, <2>3, TabsGiven
  <2>4. QED
    BY <1>1, <2>1, <2>2, <2>3 DEF Decide
<1>2. CASE GiveTheOnlyOne
  BY <1>2, OnlyOneGiven
<1>3. CASE UNCHANGED tabVars
  <2>1. UNCHANGED <<screen, blocks>> /\ UNCHANGED undecided /\ UNCHANGED pairs
    BY <1>3 DEF tabVars
  <2>2. TabsTypeOK' /\ OneTabSetEach' /\ GivenInOrder'
    BY <2>1, ListsStay DEF CorrelationInv, TabsFairlyGiven, TabsTypeOK, OneTabSetEach,
                           GivenInOrder
  <2>3. NoCoinToss' /\ WithheldForReason'
    BY <2>1, ListsStay DEF CorrelationInv, TabsFairlyGiven, NoCoinToss, TakenBlocks,
                           WithheldForReason
  <2>4. QED
    BY <2>2, <2>3 DEF CorrelationInv, TabsFairlyGiven
<1>4. QED
  BY <1>1, <1>2, <1>3 DEF CorrelationNext

-----------------------------------------------------------------------------
(* The lists, the candidates and the matches are what they should be       *)
(* (browsercorrelate.py:106-178).                                          *)
THEOREM CorrelationTypeCorrect == CorrelationSpec => []TabsTypeOK
<1>1. CorrelationInv => TabsTypeOK
  BY DEF CorrelationInv
<1>2. QED
  BY <1>1, CorrelationInvInit, CorrelationInvNext, PTL DEF CorrelationSpec

(* However many windows and tab sets there are and however alike: no tab   *)
(* set is in two windows, none is given on a coin toss between those of a  *)
(* window, and none is withheld without reason (browsercorrelate.py:130).  *)
THEOREM TabsFairlyGivenAlways == CorrelationSpec => []TabsFairlyGiven
<1>1. CorrelationInv => TabsFairlyGiven
  BY DEF CorrelationInv
<1>2. QED
  BY <1>1, CorrelationInvInit, CorrelationInvNext, PTL DEF CorrelationSpec

-----------------------------------------------------------------------------
(* TerminalTabs: processes, and the tree that is read of them             *)

(* The processes there are, as a kernel has them.                          *)
Sane == AreProcesses(procs, foreground, lastPid)

(* Every process in the foreground is in the history.                      *)
History == \A p \in Alive : IsInForeground(p) => p \in wasForeground

(* Who is in a group that was in the foreground when its tab was read was  *)
(* in the foreground itself, or comes from one that is in it.              *)
OfJob(g) ==
  \A p \in Alive : procs[p].group = g =>
    \/ p \in wasForeground
    \/ procs[p].parent = 0
    \/ procs[p].parent \in Alive \ Shell /\ procs[procs[p].parent].group = g

(* Nobody will give it a group of that name anew.                          *)
Settled(g) == \A p \in Alive : procs[p].group # p => p # g

(* What the processes there are consist of. *)
LEMMA SaneTypes ==
  ASSUME Sane
  PROVE  /\ lastPid \in 1 .. MaxPid /\ MaxPid \in Nat /\ lastPid \in Nat
         /\ Alive \subseteq 1 .. lastPid /\ Server \in Alive
         /\ foreground \in [Shell -> -1 .. lastPid]
         /\ \A p \in Alive :
              /\ procs[p] \in Process /\ p \in Nat /\ p # 0
              /\ procs[p].group \in Nat /\ procs[p].group <= lastPid
              /\ procs[p].session \in Nat /\ procs[p].session <= lastPid
              /\ procs[p].parent \in 0 .. MaxPid /\ procs[p].tty \in Shell \cup {NoTty}
              /\ procs[p].argv \in Seq(Argument) /\ procs[p].cwd \in Directory
         /\ Shell \subseteq (1 .. MaxPid) \ {NoTty}
BY PidAssumption DEF Sane, AreProcesses, Process, NoTty, Alive

(* A process with another parent, group, command line or directory. *)
LEMMA ChangedProcess ==
  ASSUME NEW a \in Process, NEW q \in 0 .. MaxPid
  PROVE  /\ [a EXCEPT !.parent = q] \in Process /\ [a EXCEPT !.group = q] \in Process
         /\ \A argv \in Seq(Argument) : [a EXCEPT !.argv = argv] \in Process
         /\ \A d \in Directory : [a EXCEPT !.cwd = d] \in Process
         /\ [a EXCEPT !.parent = q].parent = q
         /\ [a EXCEPT !.parent = q].group = a.group
         /\ [a EXCEPT !.parent = q].session = a.session
         /\ [a EXCEPT !.parent = q].tty = a.tty
BY DEF Process

(* What an event does to who is in which group.                            *)
LEMMA ForkKeeps ==
  ASSUME Sane, NEW p \in Alive, Fork(p)
  PROVE  /\ Sane'
         /\ \A g \in 0 .. lastPid : OfJob(g) /\ Settled(g) => OfJob(g)' /\ Settled(g)'
         /\ lastPid <= lastPid'
         /\ \A q \in Alive' : q <= lastPid => q \in Alive /\ procs'[q] = procs[q]
<1>0. PICK new \in Nat : new = lastPid + 1
  BY SaneTypes
<1> USE DEF Alive
<1>1. /\ p # Server /\ lastPid < MaxPid /\ (p \in Shell => IsInForeground(p))
      /\ lastPid' = new /\ foreground' = foreground
      /\ procs' = [q \in Alive \cup {new} |->
                     IF q \in Alive THEN procs[q] ELSE [procs[p] EXCEPT !.parent = p]]
      /\ wasForeground' = wasForeground \cup {q \in Alive' : IsInForeground(q)'}
  BY <1>0, Zenon DEF Fork, Happens
<1>2. /\ lastPid \in 1 .. MaxPid /\ MaxPid \in Nat /\ lastPid \in Nat
      /\ Alive \subseteq 1 .. lastPid /\ foreground \in [Shell -> -1 .. lastPid]
  BY SaneTypes
<1>3. /\ Alive' = Alive \cup {new} /\ new \notin Alive /\ new \in 1 .. MaxPid
      /\ \A q \in Alive : procs'[q] = procs[q]
  BY <1>0, <1>1, <1>2
<1>4. procs'[new] = [procs[p] EXCEPT !.parent = p]
  BY <1>1, <1>3
<1>5. /\ procs'[new].group = procs[p].group /\ procs'[new].session = procs[p].session
      /\ procs'[new].tty = procs[p].tty /\ procs'[new].parent = p
      /\ procs'[new] \in Process
  <2>1. procs[p] \in Process /\ p \in 0 .. MaxPid
    BY <1>2, SaneTypes
  <2>2. QED
    BY <2>1, <1>4, ChangedProcess DEF Process
<1>6. Sane'
  <2>1. foreground' \in [Shell -> -1 .. lastPid']
    BY <1>0, <1>1, <1>2
  <2>2. Alive' \subseteq 1 .. lastPid' /\ lastPid' \in 1 .. MaxPid
    BY <1>0, <1>1, <1>2, <1>3
  <2>3. \A q \in Alive' : /\ procs'[q] \in Process /\ procs'[q].group <= lastPid'
                          /\ procs'[q].session <= lastPid'
                          /\ procs'[q].session = q /\ procs'[q].tty # NoTty => q \in Shell
    BY <1>0, <1>1, <1>3, <1>5, SaneTypes DEF Sane, AreProcesses
  <2>4. \A q \in Alive' : procs'[q].group # q =>
          /\ \A r \in Alive' : procs'[r].group # q
          /\ \A s \in Shell : foreground'[s] # q
    <3> SUFFICES ASSUME NEW q \in Alive', procs'[q].group # q
                 PROVE  /\ \A r \in Alive' : procs'[r].group # q
                        /\ \A s \in Shell : foreground'[s] # q
      OBVIOUS
    <3>1. CASE q \in Alive
      BY <3>1, <1>1, <1>3, <1>5 DEF Sane, AreProcesses
    <3>2. CASE q = new
      <4>1. \A r \in Alive : procs[r].group <= lastPid /\ procs[r].group \in Nat
        BY SaneTypes
      <4>2. \A r \in Alive' : procs'[r].group # q
        BY <4>1, <3>2, <1>0, <1>2, <1>3, <1>5
      <4>3. \A s \in Shell : foreground'[s] # q
        BY <3>2, <1>0, <1>1, <1>2
      <4>4. QED
        BY <4>2, <4>3
    <3>3. QED
      BY <3>1, <3>2, <1>3
  <2>5. \A q \in Alive' :
          /\ \A r \in Alive' : procs'[r].group = procs'[q].group => procs'[r].tty = procs'[q].tty
          /\ \A s \in Shell : procs'[q].group = foreground'[s] => procs'[q].tty = s
    BY <1>1, <1>3, <1>5 DEF Sane, AreProcesses
  <2>6. QED
    BY <1>3, <2>1, <2>2, <2>3, <2>4, <2>5 DEF Sane, AreProcesses
<1>7. ASSUME NEW g \in 0 .. lastPid, OfJob(g), Settled(g) PROVE OfJob(g)' /\ Settled(g)'
  <2>1. Settled(g)'
    BY <1>0, <1>2, <1>3, <1>7 DEF Settled
  <2>2. ASSUME p \in Shell PROVE new \in wasForeground'
    <3>1. IsInForeground(p)
      BY <2>2, <1>1
    <3>2. IsInForeground(new)'
      BY <3>1, <1>1, <1>5 DEF IsInForeground
    <3>3. QED
      BY <3>2, <1>1, <1>3
  <2>3. OfJob(g)'
    <3> SUFFICES ASSUME NEW q \in Alive', procs'[q].group = g
                 PROVE  \/ q \in wasForeground'
                        \/ procs'[q].parent = 0
                        \/ procs'[q].parent \in Alive' \ Shell
                           /\ procs'[procs'[q].parent].group = g
      BY DEF OfJob
    <3>1. CASE q \in Alive
      BY <3>1, <1>1, <1>3, <1>7 DEF OfJob
    <3>2. CASE q = new
      BY <3>2, <2>2, <1>3, <1>5
    <3>3. QED
      BY <3>1, <3>2, <1>3
  <2>4. QED
    BY <2>1, <2>3
<1>8. \A q \in Alive' : q <= lastPid => q \in Alive /\ procs'[q] = procs[q]
  BY <1>0, <1>2, <1>3
<1>9. QED
  BY <1>0, <1>1, <1>2, <1>6, <1>7, <1>8

(* A process gets a group of its own. *)
LEMMA NewGroupKeeps ==
  ASSUME Sane, NEW p \in Alive, NewGroup(p)
  PROVE  /\ Sane'
         /\ \A g \in 0 .. lastPid : OfJob(g) /\ Settled(g) => OfJob(g)' /\ Settled(g)'
         /\ lastPid <= lastPid'
         /\ \A q \in Alive' : q \in Alive
         /\ \A g \in 0 .. lastPid, q \in Alive' :
              Settled(g) /\ procs'[q].group = g => procs[q].group = g
<1> USE DEF Alive
<1>1. /\ foreground' = foreground /\ lastPid' = lastPid
      /\ procs' = [procs EXCEPT ![p].group = p]
      /\ wasForeground' = wasForeground \cup {q \in Alive' : IsInForeground(q)'}
      /\ \A q \in Alive : procs[q].parent # p
  BY Zenon DEF NewGroup, Happens
<1>2. /\ lastPid \in 1 .. MaxPid /\ MaxPid \in Nat /\ lastPid \in Nat
      /\ Alive \subseteq 1 .. lastPid /\ foreground \in [Shell -> -1 .. lastPid]
  BY SaneTypes
<1>3. Alive' = Alive /\ \A q \in Alive : q # p => procs'[q] = procs[q]
  BY <1>1
<1>4. procs'[p] = [procs[p] EXCEPT !.group = p]
  BY <1>1
<1>5. procs[p] \in Process /\ p \in 0 .. MaxPid /\ p <= lastPid
  BY <1>2, SaneTypes
<1>6. /\ procs'[p].group = p /\ procs'[p].session = procs[p].session
      /\ procs'[p].tty = procs[p].tty /\ procs'[p].parent = procs[p].parent
      /\ procs'[p] \in Process
  BY <1>4, <1>5, ChangedProcess DEF Process
<1>7. Sane'
  <2>1. \A q \in Alive : /\ procs'[q] \in Process /\ procs'[q].group <= lastPid
                         /\ procs'[q].session <= lastPid
                         /\ procs'[q].session = q /\ procs'[q].tty # NoTty => q \in Shell
    BY <1>3, <1>5, <1>6 DEF Sane, AreProcesses
  <2>2. \A q \in Alive : procs'[q].group # q =>
          /\ \A r \in Alive : procs'[r].group # q
          /\ \A s \in Shell : foreground[s] # q
    BY <1>3, <1>6 DEF Sane, AreProcesses
  <2>3. \A q \in Alive : procs'[q].tty = procs[q].tty
    BY <1>3, <1>6
  <2>4. CASE procs[p].group = p
    <3>1. \A q \in Alive : procs'[q].group = procs[q].group
      BY <2>4, <1>3, <1>6
    <3>2. \A q \in Alive :
            /\ \A r \in Alive : procs'[r].group = procs'[q].group => procs'[r].tty = procs'[q].tty
            /\ \A s \in Shell : procs'[q].group = foreground[s] => procs'[q].tty = s
      BY <2>3, <3>1 DEF Sane, AreProcesses
    <3>3. QED
      BY <1>1, <1>2, <1>3, <2>1, <2>2, <3>2 DEF Sane, AreProcesses
  <2>5. CASE procs[p].group # p
    <3>1. /\ \A q \in Alive : procs[q].group # p
          /\ \A s \in Shell : foreground[s] # p
      BY <2>5 DEF Sane, AreProcesses
    <3>2. \A q \in Alive :
            /\ \A r \in Alive : procs'[r].group = procs'[q].group => procs'[r].tty = procs'[q].tty
            /\ \A s \in Shell : procs'[q].group = foreground[s] => procs'[q].tty = s
      BY <2>3, <3>1, <1>3, <1>6 DEF Sane, AreProcesses
    <3>3. QED
      BY <1>1, <1>2, <1>3, <2>1, <2>2, <3>2 DEF Sane, AreProcesses
  <2>6. QED
    BY <2>4, <2>5
<1>8. ASSUME NEW g \in 0 .. lastPid, OfJob(g), Settled(g) PROVE OfJob(g)' /\ Settled(g)'
  <2>1. \A q \in Alive : procs'[q].parent = procs[q].parent
    BY <1>3, <1>6
  <2>2. \A q \in Alive : q # p => procs'[q].group = procs[q].group
    BY <1>3
  <2>3. procs'[p].group = g => procs[p].group = g
    BY <1>6, <1>8 DEF Settled
  <2>4. QED
    BY <1>1, <1>3, <1>6, <1>8, <2>1, <2>2, <2>3 DEF OfJob, Settled
<1>9. ASSUME NEW g \in 0 .. lastPid, Settled(g), NEW q \in Alive', procs'[q].group = g
      PROVE  procs[q].group = g
  BY <1>3, <1>6, <1>9 DEF Settled
<1>10. QED
  BY <1>1, <1>2, <1>3, <1>7, <1>8, <1>9

(* A process ends, and what it has started is nobody's. *)
LEMMA ExitKeeps ==
  ASSUME Sane, NEW p \in Alive, Exit(p)
  PROVE  /\ Sane'
         /\ \A g \in 0 .. lastPid : OfJob(g) /\ Settled(g) => OfJob(g)' /\ Settled(g)'
         /\ lastPid <= lastPid'
         /\ \A q \in Alive' : q \in Alive /\ procs'[q].group = procs[q].group
<1> USE DEF Alive
<1>1. /\ foreground' = foreground /\ lastPid' = lastPid /\ p # Server
      /\ procs' = [q \in Alive \ {p} |->
                     IF procs[q].parent = p THEN [procs[q] EXCEPT !.parent = 0] ELSE procs[q]]
      /\ wasForeground' = wasForeground \cup {q \in Alive' : IsInForeground(q)'}
  BY Zenon DEF Exit, Happens
<1>2. /\ lastPid \in 1 .. MaxPid /\ MaxPid \in Nat /\ lastPid \in Nat
      /\ Alive \subseteq 1 .. lastPid /\ foreground \in [Shell -> -1 .. lastPid]
      /\ 0 \in 0 .. MaxPid /\ Server \in Alive
  BY SaneTypes
<1>3. Alive' = Alive \ {p}
  BY <1>1
<1>4. \A q \in Alive' : /\ procs'[q] \in Process /\ procs'[q].group = procs[q].group
                        /\ procs'[q].session = procs[q].session /\ procs'[q].tty = procs[q].tty
                        /\ \/ procs'[q].parent = 0
                           \/ procs'[q].parent = procs[q].parent /\ procs[q].parent # p
  <2> TAKE q \in Alive'
  <2>1. procs[q] \in Process /\ q \in Alive
    BY <1>3, SaneTypes
  <2>2. CASE procs[q].parent = p
    <3>1. procs'[q] = [procs[q] EXCEPT !.parent = 0]
      BY <2>2, <1>1, <1>3
    <3>2. [procs[q] EXCEPT !.parent = 0] \in Process
      BY <2>1, <1>2, ChangedProcess
    <3>3. procs'[q].parent = 0 /\ procs'[q].group = procs[q].group
          /\ procs'[q].session = procs[q].session /\ procs'[q].tty = procs[q].tty
      BY <2>1, <3>1 DEF Process
    <3>4. QED
      BY <3>1, <3>2, <3>3
  <2>3. CASE procs[q].parent # p
    BY <2>1, <2>3, <1>1, <1>3
  <2>4. QED
    BY <2>2, <2>3
<1>5. Sane'
  BY <1>1, <1>2, <1>3, <1>4 DEF Sane, AreProcesses
<1>6. ASSUME NEW g \in 0 .. lastPid, OfJob(g), Settled(g) PROVE OfJob(g)' /\ Settled(g)'
  BY <1>1, <1>3, <1>4, <1>6 DEF OfJob, Settled
<1>7. QED
  BY <1>1, <1>2, <1>3, <1>4, <1>5, <1>6

(* Another group is in the foreground, or none. *)
LEMMA ForegroundKeeps ==
  ASSUME Sane, NEW s \in Shell, SetForeground(s) \/ HangUp(s)
  PROVE  /\ Sane'
         /\ \A g \in 0 .. lastPid : OfJob(g) /\ Settled(g) => OfJob(g)' /\ Settled(g)'
         /\ lastPid' = lastPid /\ procs' = procs
<1> USE DEF Alive
<1>1. /\ procs' = procs /\ lastPid' = lastPid /\ foreground[s] >= 0
      /\ wasForeground' = wasForeground \cup {q \in Alive' : IsInForeground(q)'}
  BY Zenon DEF SetForeground, HangUp, Happens
<1>2. /\ lastPid \in 1 .. MaxPid /\ MaxPid \in Nat /\ lastPid \in Nat
      /\ Alive \subseteq 1 .. lastPid /\ foreground \in [Shell -> -1 .. lastPid]
  BY SaneTypes
<1>3. PICK g : /\ foreground' = [foreground EXCEPT ![s] = g]
               /\ g = -1 \/ \E p \in Alive : procs[p].tty = s /\ procs[p].group = g
  BY Zenon DEF SetForeground, HangUp
<1>4. g \in -1 .. lastPid
  BY <1>2, <1>3, SaneTypes
<1>5. foreground' \in [Shell -> -1 .. lastPid]
  BY <1>2, <1>3, <1>4
<1>6. \A p \in Alive : procs[p].group \in Nat
  BY SaneTypes
<1>7. \A p \in Alive : procs[p].group # p => \A t \in Shell : foreground'[t] # p
  BY <1>2, <1>3, <1>6, SaneTypes DEF Sane, AreProcesses
<1>8. \A p \in Alive, t \in Shell : procs[p].group = foreground'[t] => procs[p].tty = t
  BY <1>2, <1>3, <1>6 DEF Sane, AreProcesses
<1>9. Sane'
  BY <1>1, <1>5, <1>7, <1>8 DEF Sane, AreProcesses
<1>10. \A g1 \in 0 .. lastPid : OfJob(g1) /\ Settled(g1) => OfJob(g1)' /\ Settled(g1)'
  BY <1>1 DEF OfJob, Settled
<1>11. QED
  BY <1>1, <1>9, <1>10

(* A process runs something else, or is somewhere else. *)
LEMMA ChangeKeeps ==
  ASSUME Sane, NEW p \in Alive, Exec(p) \/ ChangeDirectory(p)
  PROVE  /\ Sane'
         /\ \A g \in 0 .. lastPid : OfJob(g) /\ Settled(g) => OfJob(g)' /\ Settled(g)'
         /\ lastPid' = lastPid /\ Alive' = Alive
         /\ \A q \in Alive : procs'[q].group = procs[q].group
<1> USE DEF Alive
<1>1. /\ foreground' = foreground /\ lastPid' = lastPid
      /\ wasForeground' = wasForeground \cup {q \in Alive' : IsInForeground(q)'}
  BY Zenon DEF Exec, ChangeDirectory, Happens
<1>2. procs[p] \in Process /\ 0 \in 0 .. MaxPid
  BY SaneTypes
<1>3. PICK changed \in Process :
        /\ procs' = [procs EXCEPT ![p] = changed]
        /\ changed.group = procs[p].group /\ changed.session = procs[p].session
        /\ changed.tty = procs[p].tty /\ changed.parent = procs[p].parent
  <2>1. CASE Exec(p)
    <3>1. PICK argv \in CommandLine : procs' = [procs EXCEPT ![p].argv = argv]
      BY <2>1 DEF Exec
    <3>2. argv \in Seq(Argument)
      BY ArgumentAssumption
    <3>3. [procs[p] EXCEPT !.argv = argv] \in Process
      BY <1>2, <3>2, ChangedProcess
    <3>4. /\ [procs[p] EXCEPT !.argv = argv].group = procs[p].group
          /\ [procs[p] EXCEPT !.argv = argv].session = procs[p].session
          /\ [procs[p] EXCEPT !.argv = argv].tty = procs[p].tty
          /\ [procs[p] EXCEPT !.argv = argv].parent = procs[p].parent
      BY <1>2 DEF Process
    <3>5. QED
      BY <3>1, <3>3, <3>4
  <2>2. CASE ChangeDirectory(p)
    <3>1. PICK d \in Directory : procs' = [procs EXCEPT ![p].cwd = d]
      BY <2>2 DEF ChangeDirectory
    <3>3. [procs[p] EXCEPT !.cwd = d] \in Process
      BY <1>2, ChangedProcess
    <3>4. /\ [procs[p] EXCEPT !.cwd = d].group = procs[p].group
          /\ [procs[p] EXCEPT !.cwd = d].session = procs[p].session
          /\ [procs[p] EXCEPT !.cwd = d].tty = procs[p].tty
          /\ [procs[p] EXCEPT !.cwd = d].parent = procs[p].parent
      BY <1>2 DEF Process
    <3>5. QED
      BY <3>1, <3>3, <3>4
  <2>3. QED
    BY <2>1, <2>2
<1>4. Alive' = Alive
  BY <1>3
<1>5. \A q \in Alive : /\ procs'[q] \in Process /\ procs'[q].group = procs[q].group
                       /\ procs'[q].session = procs[q].session /\ procs'[q].tty = procs[q].tty
                       /\ procs'[q].parent = procs[q].parent
  BY <1>3, SaneTypes
<1>6. Sane'
  BY <1>1, <1>4, <1>5 DEF Sane, AreProcesses
<1>7. ASSUME NEW g \in 0 .. lastPid, OfJob(g), Settled(g) PROVE OfJob(g)' /\ Settled(g)'
  BY <1>1, <1>4, <1>5, <1>7 DEF OfJob, Settled
<1>8. QED
  BY <1>1, <1>4, <1>5, <1>6, <1>7

(* What every event keeps. *)
LEMMA EventKeeps ==
  ASSUME Sane, TerminalEvent
  PROVE  /\ Sane'
         /\ \A g \in 0 .. lastPid : OfJob(g) /\ Settled(g) => OfJob(g)' /\ Settled(g)'
         /\ lastPid <= lastPid'
         /\ \A g \in 0 .. lastPid, q \in Alive' :
              Settled(g) /\ procs'[q].group = g /\ q <= lastPid
                => q \in Alive /\ procs[q].group = g
         /\ History' /\ wasForeground \subseteq wasForeground'
         /\ wasForeground' \subseteq wasForeground \cup Alive'
         /\ UNCHANGED <<todo, tree>>
<1>0. lastPid \in Nat
  BY SaneTypes
<1>1. ASSUME Happens
      PROVE  /\ History' /\ wasForeground \subseteq wasForeground'
             /\ wasForeground' \subseteq wasForeground \cup Alive'
             /\ UNCHANGED <<todo, tree>>
  BY <1>1 DEF Happens, History, readerVars
<1>2. ASSUME NEW p \in Alive, Fork(p) PROVE UNCHANGED <<todo, tree>>
  BY <1>2 DEF Fork, Happens, readerVars
<1>3. CASE \E p \in Alive : Fork(p)
  <2>1. Happens
    BY <1>3 DEF Fork
  <2>2. QED
    BY <2>1, <1>1, <1>3, ForkKeeps
<1>4. CASE \E p \in Alive : NewGroup(p)
  <2>1. Happens
    BY <1>4 DEF NewGroup
  <2>2. QED
    BY <2>1, <1>1, <1>4, NewGroupKeeps
<1>5. CASE \E p \in Alive : Exit(p)
  <2>1. Happens
    BY <1>5 DEF Exit
  <2>2. QED
    BY <2>1, <1>1, <1>5, ExitKeeps
<1>6. CASE \E p \in Alive : Exec(p) \/ ChangeDirectory(p)
  <2>1. Happens
    BY <1>6 DEF Exec, ChangeDirectory
  <2>2. QED
    BY <2>1, <1>0, <1>1, <1>6, ChangeKeeps
<1>7. CASE \E s \in Shell : SetForeground(s) \/ HangUp(s)
  <2>1. Happens
    BY <1>7 DEF SetForeground, HangUp
  <2>2. QED
    BY <2>1, <1>0, <1>1, <1>7, ForegroundKeeps DEF Alive
<1>8. QED
  BY <1>3, <1>4, <1>5, <1>6, <1>7 DEF TerminalEvent

(* A tab whose terminal had a group in the foreground when it was read.    *)
HasTerminal(i) == IsTabLeader(i) /\ tree[i].tpgid >= 0

(* The tab that is being read. *)
IsLastTab(i) ==
  tree[i].depth = 1 /\ \A j \in i + 1 .. Len(tree) : tree[j].depth > 1

(* Something in the group of its terminal has been read.                   *)
JobIsRead(i) == \E j \in i + 1 .. Len(tree) : tree[j].group = tree[i].tpgid

(* Who is in a group now. *)
IsIn(p, g) == p \in Alive /\ procs[p].group = g

(* What is still to be read and what has been is of processes there were.  *)
ReaderTypes ==
  /\ todo \in Seq(Task) /\ tree \in Seq(Node) /\ wasForeground \subseteq 1 .. MaxPid
  /\ \A k \in DOMAIN todo :
       todo[k].pid <= lastPid /\ (todo[k].read = "children" => todo[k].depth < MaxDepth)
  /\ \A i \in DOMAIN tree : tree[i].tpgid <= lastPid

(* What is still to be read: what has been started by the last one of each *)
(* level, and of the first level the tabs that are left.                   *)
DepthFirst ==
  /\ \A k, m \in DOMAIN todo :
       /\ k < m
       /\ \/ todo[k].read = "stat" /\ todo[k].depth <= 1
          \/ todo[k].read = "children" /\ todo[k].depth = 0
       => todo[m].read = "stat" /\ todo[m].depth = 1
  /\ \A k \in DOMAIN todo, i \in DOMAIN tree :
       todo[k].read = "children" /\ todo[k].depth = 1 /\ IsLastTab(i)
         => todo[k].pid = tree[i].pid

(* Only a shell leads a tab.                                               *)
TabsAreShells == \A i \in DOMAIN tree : IsTabLeader(i) => tree[i].pid \in Shell

(* Who is in the group of a tab's terminal was in the foreground, or was   *)
(* started by another of the group, or by one that is gone; and who leads  *)
(* no group of its own has not named that one.                             *)
JobsOfTabs ==
  \A i \in DOMAIN tree :
    HasTerminal(i) => OfJob(tree[i].tpgid) /\ Settled(tree[i].tpgid)

(* Who is in the group of the tab's terminal but was not in the foreground *)
(* is read after one who is in it.                                         *)
ParentIsRead ==
  \A k \in DOMAIN todo, i \in DOMAIN tree :
    /\ todo[k].read = "children" /\ todo[k].depth > 1
    /\ HasTerminal(i) /\ IsLastTab(i) /\ IsIn(todo[k].pid, tree[i].tpgid)
    => JobIsRead(i)

(* Who is to be read and is in that group was in the foreground, or         *)
(* something of the group comes before.                                     *)
ChildComesLater ==
  \A k \in DOMAIN todo, i \in DOMAIN tree :
    /\ todo[k].read = "stat" /\ todo[k].depth > 1
    /\ HasTerminal(i) /\ IsLastTab(i) /\ IsIn(todo[k].pid, tree[i].tpgid)
    => todo[k].pid \in wasForeground \/ JobIsRead(i)

(* So the first of the group that is read was in the foreground.           *)
FirstWasForeground ==
  \A i \in DOMAIN tree : HasTerminal(i) =>
    \A j \in Below(i) : tree[j].group = tree[i].tpgid =>
      \/ tree[j].pid \in wasForeground
      \/ \E m \in Below(i) : m < j /\ tree[m].group = tree[i].tpgid

(* The inductive invariant of the reading.                                 *)
TerminalInv ==
  /\ Sane /\ ReaderTypes /\ (todo # <<>> => History)
  /\ DepthFirst /\ TabsAreShells /\ JobsOfTabs
  /\ ParentIsRead /\ ChildComesLater /\ FirstWasForeground

-----------------------------------------------------------------------------
(* What is put before the rest of a list. *)
LEMMA PutBefore ==
  ASSUME NEW new \in Seq(Task), NEW old \in Seq(Task), old # <<>>,
         NEW list, list = new \o Tail(old)
  PROVE  /\ list \in Seq(Task) /\ Len(new) \in Nat /\ Len(old) \in Nat
         /\ \A k \in DOMAIN list :
              \/ k \in DOMAIN new /\ list[k] = new[k]
              \/ /\ k > Len(new) /\ k - Len(new) + 1 \in DOMAIN old
                 /\ list[k] = old[k - Len(new) + 1]
<1>1. Tail(old) \in Seq(Task) /\ Len(Tail(old)) = Len(old) - 1 /\ Len(old) > 0
      /\ Len(old) \in Nat /\ Len(new) \in Nat
  OBVIOUS
<1>2. list \in Seq(Task) /\ Len(list) = Len(new) + Len(old) - 1
      /\ DOMAIN list = 1 .. Len(new) + Len(old) - 1
  BY <1>1
<1>3. ASSUME NEW k \in DOMAIN list
      PROVE  \/ k \in DOMAIN new /\ list[k] = new[k]
             \/ /\ k > Len(new) /\ k - Len(new) + 1 \in DOMAIN old
                /\ list[k] = old[k - Len(new) + 1]
  <2>1. CASE k <= Len(new)
    BY <2>1, <1>1, <1>2
  <2>2. CASE k > Len(new)
    <3>1. k - Len(new) \in 1 .. Len(Tail(old))
      BY <2>2, <1>1, <1>2
    <3>2. list[k] = Tail(old)[k - Len(new)]
      BY <2>2, <3>1, <1>1, <1>2
    <3>3. Tail(old)[k - Len(new)] = old[k - Len(new) + 1]
      BY <3>1, <1>1
    <3>4. QED
      BY <2>2, <3>1, <3>2, <3>3, <1>1
  <2>3. QED
    BY <2>1, <2>2, <1>1, <1>2
<1>4. QED
  BY <1>1, <1>2, <1>3

(* The rest of a list. *)
LEMMA TheRest ==
  ASSUME NEW old \in Seq(Task), old # <<>>
  PROVE  /\ Tail(old) \in Seq(Task) /\ 1 \in DOMAIN old /\ Head(old) = old[1]
         /\ old[1] \in Task
         /\ \A k \in DOMAIN Tail(old) :
              k + 1 \in DOMAIN old /\ Tail(old)[k] = old[k + 1] /\ k \in Nat
OBVIOUS

(* Only the command line or the directory of an entry is filled in. *)
LEMMA SameShape ==
  ASSUME tree \in Seq(Node), tree' \in Seq(Node), DOMAIN tree' = DOMAIN tree,
         \A i \in DOMAIN tree :
           /\ tree'[i].pid = tree[i].pid /\ tree'[i].depth = tree[i].depth
           /\ tree'[i].group = tree[i].group /\ tree'[i].session = tree[i].session
           /\ tree'[i].tty = tree[i].tty /\ tree'[i].tpgid = tree[i].tpgid
  PROVE  /\ Len(tree') = Len(tree)
         /\ \A i \in DOMAIN tree :
              /\ IsTabLeader(i)' <=> IsTabLeader(i)
              /\ HasTerminal(i)' <=> HasTerminal(i)
              /\ IsLastTab(i)' <=> IsLastTab(i)
              /\ JobIsRead(i)' <=> JobIsRead(i)
              /\ Below(i)' = Below(i)
<1>1. Len(tree') = Len(tree) /\ Len(tree) \in Nat /\ DOMAIN tree = 1 .. Len(tree)
  OBVIOUS
<1> SUFFICES ASSUME NEW i \in DOMAIN tree
             PROVE  /\ IsTabLeader(i)' <=> IsTabLeader(i)
                    /\ HasTerminal(i)' <=> HasTerminal(i)
                    /\ IsLastTab(i)' <=> IsLastTab(i)
                    /\ JobIsRead(i)' <=> JobIsRead(i)
                    /\ Below(i)' = Below(i)
  BY <1>1
<1>2. \A j \in i + 1 .. Len(tree) : j \in DOMAIN tree
  BY <1>1
<1>3. IsTabLeader(i)' <=> IsTabLeader(i)
  BY DEF IsTabLeader
<1>4. HasTerminal(i)' <=> HasTerminal(i)
  BY <1>3 DEF HasTerminal
<1>5. IsLastTab(i)' <=> IsLastTab(i)
  BY <1>1, <1>2 DEF IsLastTab
<1>6. JobIsRead(i)' <=> JobIsRead(i)
  BY <1>1, <1>2 DEF JobIsRead
<1>7. Below(i)' = Below(i)
  <2>1. \A j \in i + 1 .. Len(tree) : \A k \in i + 1 .. j : k \in DOMAIN tree
    BY <1>1
  <2>2. QED
    BY <1>1, <2>1 DEF Below
<1>8. QED
  BY <1>3, <1>4, <1>5, <1>6, <1>7

-----------------------------------------------------------------------------
(* The beginning, and the end of a tree. *)
LEMMA EmptyTreeKeeps ==
  ASSUME Sane', ReaderTypes', todo' # <<>> => History', tree' = <<>>,
         \A k \in DOMAIN todo' : todo'[k].read = "stat" /\ todo'[k].depth = 0 /\ k = 1
  PROVE  TerminalInv'
<1>1. DOMAIN tree' = {}
  OBVIOUS
<1>2. DepthFirst'
  BY <1>1 DEF DepthFirst
<1>3. TabsAreShells' /\ JobsOfTabs' /\ ParentIsRead' /\ ChildComesLater' /\ FirstWasForeground'
  BY <1>1 DEF TabsAreShells, JobsOfTabs, ParentIsRead, ChildComesLater, FirstWasForeground
<1>4. QED
  BY <1>2, <1>3 DEF TerminalInv

(* Reading begins with the emulator. *)
LEMMA StartKeeps ==
  ASSUME TerminalInv, StartTree
  PROVE  TerminalInv'
<1>1. /\ todo' = <<Reading("stat", Server, 0)>> /\ tree' = <<>>
      /\ wasForeground' = {p \in Alive : IsInForeground(p)}
      /\ procs' = procs /\ foreground' = foreground /\ lastPid' = lastPid
  BY DEF StartTree, processVars
<1>2. /\ lastPid \in 1 .. MaxPid /\ Alive \subseteq 1 .. lastPid /\ Server \in Alive
      /\ MaxPid \in Nat
  BY SaneTypes DEF TerminalInv
<1>3. PICK first \in Task : first = Reading("stat", Server, 0)
  <2>1. Reading("stat", Server, 0) \in Task
    BY PidAssumption DEF Reading, Task
  <2>2. QED
    BY <2>1
<1>4. History'
  BY <1>1 DEF History, IsInForeground, Alive
<1>5. Sane'
  BY <1>1 DEF TerminalInv, Sane
<1>6. /\ todo' \in Seq(Task)
      /\ \A k \in DOMAIN todo' : todo'[k] = first /\ k = 1
  BY <1>1, <1>3
<1>7. first.read = "stat" /\ first.depth = 0 /\ first.pid = Server
  BY <1>3 DEF Reading
<1>8. wasForeground' \subseteq 1 .. MaxPid
  <2>1. wasForeground' \subseteq Alive
    BY <1>1
  <2>2. QED
    BY <2>1, <1>2
<1>9. ReaderTypes'
  BY <1>1, <1>2, <1>6, <1>7, <1>8 DEF ReaderTypes
<1>10. QED
  BY <1>1, <1>4, <1>5, <1>6, <1>7, <1>9, EmptyTreeKeeps

(* The tree has been made into a block. *)
LEMMA EndKeeps ==
  ASSUME TerminalInv, todo = <<>>, tree' = <<>>,
         UNCHANGED <<todo, processVars, wasForeground>>
  PROVE  TerminalInv'
<1>1. /\ procs' = procs /\ foreground' = foreground /\ lastPid' = lastPid
      /\ todo' = <<>> /\ wasForeground' = wasForeground
  BY DEF processVars
<1>2. Sane' /\ ReaderTypes'
  BY <1>1 DEF TerminalInv, Sane, ReaderTypes
<1>3. QED
  BY <1>1, <1>2, EmptyTreeKeeps

(* Something happens while the tree is read. *)
LEMMA EventKeepsReading ==
  ASSUME TerminalInv, TerminalEvent
  PROVE  TerminalInv'
<1>1. /\ Sane' /\ History' /\ todo' = todo /\ tree' = tree
      /\ lastPid <= lastPid' /\ wasForeground \subseteq wasForeground'
      /\ wasForeground' \subseteq wasForeground \cup Alive'
  BY EventKeeps DEF TerminalInv
<1>2. lastPid \in Nat /\ lastPid' \in Nat /\ Alive' \subseteq 1 .. lastPid'
      /\ lastPid' <= MaxPid /\ MaxPid \in Nat
  <2>1. lastPid \in Nat
    BY SaneTypes DEF TerminalInv
  <2>2. lastPid' \in 1 .. MaxPid /\ Alive' \subseteq 1 .. lastPid'
    BY <1>1 DEF Sane, AreProcesses, Alive
  <2>3. QED
    BY <2>1, <2>2, PidAssumption
<1>3. /\ \A k \in DOMAIN todo : todo[k] \in Task /\ todo[k].pid \in Nat
      /\ \A i \in DOMAIN tree : tree[i].tpgid \in Int
  <2>1. /\ \A k \in DOMAIN todo : todo[k] \in Task
        /\ \A i \in DOMAIN tree : tree[i] \in Node
    BY DEF TerminalInv, ReaderTypes
  <2>2. QED
    BY <2>1 DEF Task, Node
<1>4. ReaderTypes'
  BY <1>1, <1>2, <1>3 DEF TerminalInv, ReaderTypes
<1>5. \A i \in DOMAIN tree :
        /\ IsTabLeader(i)' <=> IsTabLeader(i)
        /\ HasTerminal(i)' <=> HasTerminal(i)
        /\ IsLastTab(i)' <=> IsLastTab(i)
        /\ JobIsRead(i)' <=> JobIsRead(i)
        /\ Below(i)' = Below(i)
  BY <1>1, SameShape DEF TerminalInv, ReaderTypes
<1>6. DepthFirst' /\ TabsAreShells'
  BY <1>1, <1>5 DEF TerminalInv, DepthFirst, TabsAreShells
<1>7. ASSUME NEW i \in DOMAIN tree, HasTerminal(i)
      PROVE  tree[i].tpgid \in 0 .. lastPid /\ OfJob(tree[i].tpgid) /\ Settled(tree[i].tpgid)
  BY <1>2, <1>3, <1>7 DEF TerminalInv, ReaderTypes, HasTerminal, JobsOfTabs
<1>8. \A g \in 0 .. lastPid : OfJob(g) /\ Settled(g) => OfJob(g)' /\ Settled(g)'
  BY EventKeeps DEF TerminalInv
<1>9. JobsOfTabs'
  <2> SUFFICES ASSUME NEW i \in DOMAIN tree, HasTerminal(i), NEW g, g = tree[i].tpgid
               PROVE  OfJob(g)' /\ Settled(g)'
    BY <1>1, <1>5 DEF JobsOfTabs
  <2>1. QED
    BY <1>7, <1>8
<1>10. ASSUME NEW i \in DOMAIN tree, HasTerminal(i), NEW k \in DOMAIN todo,
              procs'[todo[k].pid].group = tree[i].tpgid, todo[k].pid \in Alive'
       PROVE  IsIn(todo[k].pid, tree[i].tpgid)
  <2>1. \A g \in 0 .. lastPid, q \in Alive' :
          Settled(g) /\ procs'[q].group = g /\ q <= lastPid => q \in Alive /\ procs[q].group = g
    BY EventKeeps DEF TerminalInv
  <2>2. todo[k].pid <= lastPid
    BY DEF TerminalInv, ReaderTypes
  <2>3. QED
    BY <1>7, <1>10, <2>1, <2>2 DEF IsIn
<1>11. ParentIsRead'
  BY <1>1, <1>5, <1>10 DEF TerminalInv, ParentIsRead, IsIn
<1>12. ChildComesLater'
  BY <1>1, <1>5, <1>10 DEF TerminalInv, ChildComesLater, IsIn
<1>13. FirstWasForeground'
  BY <1>1, <1>5 DEF TerminalInv, FirstWasForeground
<1>14. QED
  BY <1>1, <1>4, <1>6, <1>9, <1>11, <1>12, <1>13 DEF TerminalInv

(* One thing less to be read, and nothing new read of the structure. *)
LEMMA RestKeeps ==
  ASSUME TerminalInv, todo # <<>>, todo' = Tail(todo),
         UNCHANGED <<processVars, wasForeground>>,
         tree' \in Seq(Node), DOMAIN tree' = DOMAIN tree,
         \A i \in DOMAIN tree :
           /\ tree'[i].pid = tree[i].pid /\ tree'[i].depth = tree[i].depth
           /\ tree'[i].group = tree[i].group /\ tree'[i].session = tree[i].session
           /\ tree'[i].tty = tree[i].tty /\ tree'[i].tpgid = tree[i].tpgid
  PROVE  TerminalInv'
<1>1. /\ procs' = procs /\ foreground' = foreground /\ lastPid' = lastPid
      /\ wasForeground' = wasForeground /\ Alive' = Alive
  BY DEF processVars, Alive
<1>2. /\ todo' \in Seq(Task)
      /\ \A k \in DOMAIN todo' : k + 1 \in DOMAIN todo /\ todo'[k] = todo[k + 1] /\ k \in Nat
  BY TheRest DEF TerminalInv, ReaderTypes
<1>3. \A i \in DOMAIN tree :
        /\ IsTabLeader(i)' <=> IsTabLeader(i)
        /\ HasTerminal(i)' <=> HasTerminal(i)
        /\ IsLastTab(i)' <=> IsLastTab(i)
        /\ JobIsRead(i)' <=> JobIsRead(i)
        /\ Below(i)' = Below(i)
  BY SameShape DEF TerminalInv, ReaderTypes
<1>4. Sane' /\ History'
  BY <1>1 DEF TerminalInv, Sane, History, IsInForeground
<1>5. ReaderTypes'
  BY <1>1, <1>2 DEF TerminalInv, ReaderTypes
<1>6. DepthFirst'
  <2>1. \A k, m \in DOMAIN todo' : k < m => k + 1 < m + 1
    BY <1>2
  <2>2. QED
    BY <1>2, <1>3, <2>1 DEF TerminalInv, DepthFirst
<1>7. TabsAreShells'
  BY <1>3 DEF TerminalInv, TabsAreShells
<1>8. JobsOfTabs'
  BY <1>1, <1>3 DEF TerminalInv, JobsOfTabs, OfJob, Settled
<1>9. ParentIsRead'
  BY <1>1, <1>2, <1>3 DEF TerminalInv, ParentIsRead, IsIn
<1>10. ChildComesLater'
  BY <1>1, <1>2, <1>3 DEF TerminalInv, ChildComesLater, IsIn
<1>11. FirstWasForeground'
  <2>1. \A i \in DOMAIN tree : \A j \in Below(i) : j \in DOMAIN tree
    BY DEF Below, TerminalInv, ReaderTypes
  <2>2. QED
    BY <1>1, <1>3, <2>1 DEF TerminalInv, FirstWasForeground
<1>12. QED
  BY <1>4, <1>5, <1>6, <1>7, <1>8, <1>9, <1>10, <1>11 DEF TerminalInv

(* What is left of a command line is a command line. *)
LEMMA BlanksAreLeftOut ==
  ASSUME NEW argv \in Seq(Argument)
  PROVE  WithoutBlanks(argv) \in Seq(Argument)
<1>1. {k \in DOMAIN argv : argv[k] # Blank} \in SUBSET DOMAIN argv
  OBVIOUS
<1>2. QED
  BY <1>1, EntriesAtPlaces DEF WithoutBlanks

(* An entry of the tree with its command line or its directory. *)
LEMMA FilledIn ==
  ASSUME NEW list \in Seq(Node), NEW n,
         NEW argv \in Seq(Argument), NEW d \in Directory,
         NEW filled,
         filled = [list EXCEPT ![n].argv = argv] \/ filled = [list EXCEPT ![n].cwd = d]
  PROVE  /\ filled \in Seq(Node) /\ DOMAIN filled = DOMAIN list
         /\ \A i \in DOMAIN list :
              /\ filled[i].pid = list[i].pid /\ filled[i].depth = list[i].depth
              /\ filled[i].group = list[i].group /\ filled[i].session = list[i].session
              /\ filled[i].tty = list[i].tty /\ filled[i].tpgid = list[i].tpgid
<1>1. \A i \in DOMAIN list : list[i] \in Node
  OBVIOUS
<1>2. DOMAIN filled = DOMAIN list
  OBVIOUS
<1>3. ASSUME NEW i \in DOMAIN list
      PROVE  /\ filled[i] \in Node
             /\ filled[i].pid = list[i].pid /\ filled[i].depth = list[i].depth
             /\ filled[i].group = list[i].group /\ filled[i].session = list[i].session
             /\ filled[i].tty = list[i].tty /\ filled[i].tpgid = list[i].tpgid
  <2>1. \/ filled[i] = list[i]
        \/ filled[i] = [list[i] EXCEPT !.argv = argv]
        \/ filled[i] = [list[i] EXCEPT !.cwd = d]
    OBVIOUS
  <2>2. list[i] \in Node
    BY <1>1
  <2>3. QED
    BY <2>1, <2>2 DEF Node
<1>4. filled = [i \in DOMAIN list |-> filled[i]]
  OBVIOUS
<1>5. filled \in Seq(Node)
  BY <1>2, <1>3, <1>4
<1>6. QED
  BY <1>2, <1>3, <1>5

(* A command line or a directory is read. *)
LEMMA ReadFileKeeps ==
  ASSUME TerminalInv, ReadCmdline \/ ReadCwd
  PROVE  TerminalInv'
<1>1. todo # <<>> /\ todo' = Tail(todo) /\ UNCHANGED <<processVars, wasForeground>>
  BY DEF ReadCmdline, ReadCwd
<1>2. \/ tree' = tree
      \/ \E p \in Alive : \/ tree' = [tree EXCEPT ![Len(tree)].argv = WithoutBlanks(procs[p].argv)]
                          \/ tree' = [tree EXCEPT ![Len(tree)].cwd = procs[p].cwd]
  BY DEF ReadCmdline, ReadCwd
<1>3. tree \in Seq(Node)
  BY DEF TerminalInv, ReaderTypes
<1>4. \A p \in Alive : WithoutBlanks(procs[p].argv) \in Seq(Argument) /\ procs[p].cwd \in Directory
  BY SaneTypes, BlanksAreLeftOut DEF TerminalInv
<1>5. /\ tree' \in Seq(Node) /\ DOMAIN tree' = DOMAIN tree
      /\ \A i \in DOMAIN tree :
           /\ tree'[i].pid = tree[i].pid /\ tree'[i].depth = tree[i].depth
           /\ tree'[i].group = tree[i].group /\ tree'[i].session = tree[i].session
           /\ tree'[i].tty = tree[i].tty /\ tree'[i].tpgid = tree[i].tpgid
  <2>1. CASE tree' = tree
    BY <2>1, <1>3
  <2>2. ASSUME NEW p \in Alive,
               \/ tree' = [tree EXCEPT ![Len(tree)].argv = WithoutBlanks(procs[p].argv)]
               \/ tree' = [tree EXCEPT ![Len(tree)].cwd = procs[p].cwd]
        PROVE  /\ tree' \in Seq(Node) /\ DOMAIN tree' = DOMAIN tree
               /\ \A i \in DOMAIN tree :
                    /\ tree'[i].pid = tree[i].pid /\ tree'[i].depth = tree[i].depth
                    /\ tree'[i].group = tree[i].group /\ tree'[i].session = tree[i].session
                    /\ tree'[i].tty = tree[i].tty /\ tree'[i].tpgid = tree[i].tpgid
    BY <2>2, <1>3, <1>4, FilledIn
  <2>3. QED
    BY <1>2, <2>1, <2>2
<1>6. QED
  BY <1>1, <1>5, RestKeeps

(* A process that is gone is left out. *)
LEMMA GoneKeeps ==
  ASSUME TerminalInv, todo # <<>>, todo' = Tail(todo),
         UNCHANGED <<tree, processVars, wasForeground>>
  PROVE  TerminalInv'
<1>1. tree \in Seq(Node) /\ tree' = tree
  BY DEF TerminalInv, ReaderTypes
<1>2. QED
  BY <1>1, RestKeeps

(* The processes something has started are listed. *)
LEMMA ReadChildrenKeeps ==
  ASSUME TerminalInv, ReadChildren
  PROVE  TerminalInv'
<1> DEFINE q == Head(todo).pid
           d == Head(todo).depth
           kids == {p \in Alive : procs[p].parent = q}
           new == [k \in 1 .. Cardinality(kids) |-> Reading("stat", InOrder(kids)[k], d + 1)]
<1>1. /\ todo # <<>> /\ Head(todo).read = "children" /\ todo' = new \o Tail(todo)
      /\ tree' = tree /\ UNCHANGED <<processVars, wasForeground>>
  BY DEF ReadChildren
<1>2. /\ procs' = procs /\ foreground' = foreground /\ lastPid' = lastPid
      /\ wasForeground' = wasForeground /\ Alive' = Alive
  BY <1>1 DEF processVars, Alive
<1>3. /\ todo \in Seq(Task) /\ todo[1] \in Task /\ Head(todo) = todo[1] /\ 1 \in DOMAIN todo
  BY <1>1, TheRest DEF TerminalInv, ReaderTypes
<1>4. /\ q \in 1 .. MaxPid /\ d \in Nat /\ d < MaxDepth /\ MaxDepth \in Nat
      /\ todo[1].pid = q /\ todo[1].depth = d /\ todo[1].read = "children"
  BY <1>1, <1>3, PidAssumption DEF TerminalInv, ReaderTypes, Task
<1>5. /\ lastPid \in 1 .. MaxPid /\ MaxPid \in Nat /\ Alive \subseteq 1 .. lastPid
  BY SaneTypes DEF TerminalInv
<1>6. /\ Cardinality(kids) \in Nat /\ InOrder(kids) \in [1 .. Cardinality(kids) -> kids]
  <2>0. lastPid \in Int /\ 1 \in Int
    BY <1>5
  <2>a. IsFiniteSet(1 .. lastPid)
    BY <2>0, FS_Interval
  <2>b. kids \in SUBSET (1 .. lastPid)
    BY <1>5
  <2>c. kids \in SUBSET Int
    BY <2>b
  <2>1. kids \in SUBSET (1 .. lastPid) /\ IsFiniteSet(1 .. lastPid) /\ kids \in SUBSET Int
    BY <2>a, <2>b, <2>c
  <2>2. IsFiniteSet(kids)
    BY <2>1, FS_Subset
  <2>3. QED
    BY <2>1, <2>2, InOrderLists
<1>7. ASSUME NEW p \in kids PROVE Reading("stat", p, d + 1) \in Task
  BY <1>4, <1>5 DEF Reading, Task
<1>8. /\ new \in Seq(Task) /\ DOMAIN new = 1 .. Cardinality(kids) /\ Len(new) = Cardinality(kids)
      /\ \A k \in DOMAIN new :
           /\ new[k].read = "stat" /\ new[k].depth = d + 1
           /\ new[k].pid \in kids /\ new[k].pid <= lastPid
  <2>1. \A k \in 1 .. Cardinality(kids) : new[k] \in Task
    BY <1>6, <1>7
  <2>2. new \in Seq(Task) /\ DOMAIN new = 1 .. Cardinality(kids)
        /\ Len(new) = Cardinality(kids)
    BY <1>6, <2>1
  <2>3. ASSUME NEW k \in 1 .. Cardinality(kids)
        PROVE  /\ new[k].read = "stat" /\ new[k].depth = d + 1
               /\ new[k].pid \in kids /\ new[k].pid <= lastPid
    <3>0. InOrder(kids)[k] \in kids
      BY <1>6
    <3>1. InOrder(kids)[k] \in kids /\ InOrder(kids)[k] <= lastPid
      <4>1. InOrder(kids)[k] \in 1 .. lastPid
        BY <3>0, <1>5
      <4>2. QED
        BY <3>0, <4>1
    <3>2. new[k] = [read |-> "stat", pid |-> InOrder(kids)[k], depth |-> d + 1]
      BY DEF Reading
    <3>3. QED
      BY <3>1, <3>2
  <2>4. QED
    BY <2>2, <2>3
<1> HIDE DEF new, d, q
<1>9. /\ todo' \in Seq(Task) /\ Len(new) \in Nat /\ Len(todo) \in Nat
      /\ \A k \in DOMAIN todo' :
           \/ k \in DOMAIN new /\ todo'[k] = new[k]
           \/ /\ k > Len(new) /\ k - Len(new) + 1 \in DOMAIN todo
              /\ todo'[k] = todo[k - Len(new) + 1]
  <2>1. todo' = new \o Tail(todo) /\ todo # <<>> /\ new \in Seq(Task) /\ todo \in Seq(Task)
    BY <1>1, <1>3, <1>8
  <2>2. QED
    BY <2>1, PutBefore
<1>10. DOMAIN new = 1 .. Len(new) /\ DOMAIN todo' \subseteq Nat
  BY <1>8, <1>9
<1>11. \A i \in DOMAIN tree :
        /\ IsTabLeader(i)' <=> IsTabLeader(i)
        /\ HasTerminal(i)' <=> HasTerminal(i)
        /\ IsLastTab(i)' <=> IsLastTab(i)
        /\ JobIsRead(i)' <=> JobIsRead(i)
        /\ Below(i)' = Below(i)
  BY <1>1, SameShape DEF TerminalInv, ReaderTypes
<1>12. Sane' /\ History'
  BY <1>1, <1>2 DEF TerminalInv, Sane, History, IsInForeground
<1>13. ReaderTypes'
  BY <1>1, <1>2, <1>8, <1>9 DEF TerminalInv, ReaderTypes
<1>14. DepthFirst'
  <2>1. ASSUME NEW k \in DOMAIN todo', NEW m \in DOMAIN todo', k < m,
               \/ todo'[k].read = "stat" /\ todo'[k].depth <= 1
               \/ todo'[k].read = "children" /\ todo'[k].depth = 0
        PROVE  todo'[m].read = "stat" /\ todo'[m].depth = 1
    <3>1. CASE k > Len(new)
      <4>1. m > Len(new) /\ k - Len(new) + 1 < m - Len(new) + 1
            /\ k \notin DOMAIN new /\ m \notin DOMAIN new
        BY <2>1, <3>1, <1>9, <1>10
      <4>2. /\ k - Len(new) + 1 \in DOMAIN todo /\ todo'[k] = todo[k - Len(new) + 1]
            /\ m - Len(new) + 1 \in DOMAIN todo /\ todo'[m] = todo[m - Len(new) + 1]
        BY <4>1, <1>9
      <4>3. QED
        BY <2>1, <4>1, <4>2 DEF TerminalInv, DepthFirst
    <3>2. CASE ~ (k > Len(new))
      <4>1. k \in DOMAIN new /\ todo'[k] = new[k]
        BY <3>2, <1>9
      <4>2. d = 0
        BY <2>1, <4>1, <1>4, <1>8
      <4>3. CASE m \in DOMAIN new /\ todo'[m] = new[m]
        BY <4>2, <4>3, <1>8
      <4>4. CASE m > Len(new) /\ m - Len(new) + 1 \in DOMAIN todo
                 /\ todo'[m] = todo[m - Len(new) + 1]
        <5>1. 1 < m - Len(new) + 1
          BY <4>4, <1>9, <1>10
        <5>2. QED
          BY <4>2, <4>4, <5>1, <1>3, <1>4 DEF TerminalInv, DepthFirst
      <4>5. QED
        BY <4>3, <4>4, <1>9
    <3>3. QED
      BY <3>1, <3>2
  <2>2. ASSUME NEW k \in DOMAIN todo', NEW i \in DOMAIN tree,
               todo'[k].read = "children", todo'[k].depth = 1, IsLastTab(i)
        PROVE  todo'[k].pid = tree[i].pid
    BY <2>2, <1>8, <1>9 DEF TerminalInv, DepthFirst
  <2>3. QED
    BY <2>1, <2>2, <1>1, <1>11 DEF DepthFirst
<1>15. TabsAreShells'
  BY <1>1, <1>11 DEF TerminalInv, TabsAreShells
<1>16. JobsOfTabs'
  BY <1>1, <1>2, <1>11 DEF TerminalInv, JobsOfTabs, OfJob, Settled
<1>17. ParentIsRead'
  BY <1>1, <1>2, <1>8, <1>9, <1>11 DEF TerminalInv, ParentIsRead, IsIn
<1>18. ASSUME NEW i \in DOMAIN tree, HasTerminal(i), IsLastTab(i), NEW p \in kids,
              procs[p].group = tree[i].tpgid, p \notin wasForeground, d > 0
       PROVE  JobIsRead(i)
  <2>1. procs[p].parent = q /\ p \in Alive /\ q # 0
    BY <1>4
  <2>2. q \in Alive \ Shell /\ procs[q].group = tree[i].tpgid
    BY <2>1, <1>18 DEF TerminalInv, JobsOfTabs, OfJob
  <2>3. d # 1
    <3>1. ASSUME d = 1 PROVE FALSE
      <4>1. q = tree[i].pid
        BY <3>1, <1>3, <1>4, <1>18 DEF TerminalInv, DepthFirst
      <4>2. tree[i].pid \in Shell
        BY <1>18 DEF TerminalInv, TabsAreShells, HasTerminal
      <4>3. QED
        BY <4>1, <4>2, <2>2
    <3>2. QED
      BY <3>1
  <2>4. todo[1].depth > 1
    BY <1>4, <1>18, <2>3
  <2>5. QED
    BY <2>2, <2>4, <1>3, <1>4, <1>18 DEF TerminalInv, ParentIsRead, IsIn
<1>19. ChildComesLater'
  <2> SUFFICES ASSUME NEW k \in DOMAIN todo', NEW i \in DOMAIN tree,
                      todo'[k].read = "stat", todo'[k].depth > 1, HasTerminal(i), IsLastTab(i),
                      IsIn(todo'[k].pid, tree[i].tpgid), todo'[k].pid \notin wasForeground
               PROVE  JobIsRead(i)
    BY <1>1, <1>2, <1>11 DEF ChildComesLater, IsIn
  <2>1. CASE k \in DOMAIN new /\ todo'[k] = new[k]
    <3>1. todo'[k].pid \in kids /\ todo'[k].depth = d + 1
      BY <2>1, <1>8
    <3>2. d > 0
      BY <3>1, <1>4
    <3>3. QED
      BY <3>1, <3>2, <1>18 DEF IsIn
  <2>2. CASE k - Len(new) + 1 \in DOMAIN todo /\ todo'[k] = todo[k - Len(new) + 1]
    BY <2>2 DEF TerminalInv, ChildComesLater
  <2>3. QED
    BY <2>1, <2>2, <1>9
<1>20. FirstWasForeground'
  BY <1>1, <1>2, <1>11 DEF TerminalInv, FirstWasForeground
<1>21. QED
  BY <1>12, <1>13, <1>14, <1>15, <1>16, <1>17, <1>19, <1>20 DEF TerminalInv

(* An entry is added to the tree. *)
LEMMA OneMore ==
  ASSUME tree \in Seq(Node), NEW node \in Node, tree' = Append(tree, node)
  PROVE  /\ tree' \in Seq(Node) /\ Len(tree) \in Nat /\ DOMAIN tree = 1 .. Len(tree)
         /\ Len(tree') = Len(tree) + 1 /\ DOMAIN tree' = DOMAIN tree \cup {Len(tree) + 1}
         /\ tree'[Len(tree) + 1] = node /\ \A i \in DOMAIN tree : tree'[i] = tree[i]
         /\ \A i \in DOMAIN tree :
              /\ IsTabLeader(i)' <=> IsTabLeader(i)
              /\ HasTerminal(i)' <=> HasTerminal(i)
              /\ IsLastTab(i)' <=> IsLastTab(i) /\ node.depth > 1
              /\ JobIsRead(i) \/ node.group = tree[i].tpgid => JobIsRead(i)'
              /\ Below(i) \subseteq Below(i)' /\ Below(i)' \subseteq Below(i) \cup {Len(tree) + 1}
              /\ IsTabLeader(i) /\ Len(tree) + 1 \in Below(i)' => node.depth > 1 /\ IsLastTab(i)
              /\ \A m \in i + 1 .. Len(tree) : IsLastTab(i) => m \in Below(i)'
<1>1. PICK n \in Nat : n = Len(tree)
  OBVIOUS
<1>2. /\ tree' \in Seq(Node) /\ DOMAIN tree = 1 .. n /\ Len(tree') = n + 1
      /\ DOMAIN tree' = DOMAIN tree \cup {n + 1}
      /\ tree'[n + 1] = node /\ \A i \in DOMAIN tree : tree'[i] = tree[i]
  BY <1>1
<1> SUFFICES ASSUME NEW i \in DOMAIN tree
             PROVE  /\ IsTabLeader(i)' <=> IsTabLeader(i)
                    /\ HasTerminal(i)' <=> HasTerminal(i)
                    /\ IsLastTab(i)' <=> IsLastTab(i) /\ node.depth > 1
                    /\ JobIsRead(i) \/ node.group = tree[i].tpgid => JobIsRead(i)'
                    /\ Below(i) \subseteq Below(i)' /\ Below(i)' \subseteq Below(i) \cup {n + 1}
                    /\ IsTabLeader(i) /\ n + 1 \in Below(i)' => node.depth > 1 /\ IsLastTab(i)
                    /\ \A m \in i + 1 .. n : IsLastTab(i) => m \in Below(i)'
  BY <1>1, <1>2
<1>3. /\ i \in 1 .. n /\ \A j \in i + 1 .. n : j \in DOMAIN tree
      /\ i + 1 .. n + 1 = (i + 1 .. n) \cup {n + 1}
  BY <1>2
<1>4. IsTabLeader(i)' <=> IsTabLeader(i)
  BY <1>2 DEF IsTabLeader
<1>5. HasTerminal(i)' <=> HasTerminal(i)
  BY <1>2, <1>4 DEF HasTerminal
<1>6. IsLastTab(i)' <=> IsLastTab(i) /\ node.depth > 1
  BY <1>1, <1>2, <1>3 DEF IsLastTab
<1>7. JobIsRead(i) \/ node.group = tree[i].tpgid => JobIsRead(i)'
  BY <1>1, <1>2, <1>3 DEF JobIsRead
<1>8. \A j \in i + 1 .. n : \A k \in i + 1 .. j : k \in i + 1 .. n /\ k \in DOMAIN tree
  BY <1>2, <1>3
<1>9. \A j \in i + 1 .. n : j \in Below(i)' <=> j \in Below(i)
  BY <1>1, <1>2, <1>3, <1>8 DEF Below
<1>10. Below(i) \subseteq Below(i)' /\ Below(i)' \subseteq Below(i) \cup {n + 1}
  <2>1. Below(i) \subseteq i + 1 .. n /\ Below(i)' \subseteq i + 1 .. n + 1
    BY <1>1, <1>2 DEF Below
  <2>2. QED
    BY <2>1, <1>3, <1>9
<1>11. ASSUME IsTabLeader(i), n + 1 \in Below(i)' PROVE node.depth > 1 /\ IsLastTab(i)
  <2>1. tree[i].depth = 1
    BY <1>11 DEF IsTabLeader
  <2>2. \A k \in i + 1 .. n + 1 : tree'[k].depth > tree'[i].depth
    BY <1>11 DEF Below
  <2>3. QED
    BY <2>1, <2>2, <1>1, <1>2, <1>3 DEF IsLastTab
<1>12. ASSUME NEW m \in i + 1 .. n, IsLastTab(i) PROVE m \in Below(i)'
  BY <1>1, <1>8, <1>9, <1>12 DEF IsLastTab, Below
<1>13. QED
  BY <1>4, <1>5, <1>6, <1>7, <1>10, <1>11, <1>12

(* A process is read. *)
LEMMA ReadStatKeeps ==
  ASSUME TerminalInv, ReadStat
  PROVE  TerminalInv'
<1>1. PICK p, d : p = Head(todo).pid /\ d = Head(todo).depth
  OBVIOUS
<1>2. /\ todo # <<>> /\ Head(todo).read = "stat" /\ UNCHANGED <<processVars, wasForeground>>
  BY DEF ReadStat
<1>3. CASE p \notin Alive
  <2>1. todo' = Tail(todo) /\ UNCHANGED tree
    BY <1>1, <1>3 DEF ReadStat
  <2>2. QED
    BY <2>1, <1>2, GoneKeeps
<1>4. CASE p \in Alive
  <2> DEFINE entry == [pid |-> p, depth |-> d, group |-> procs[p].group,
                       session |-> procs[p].session, tty |-> procs[p].tty,
                       tpgid |-> IF procs[p].tty = NoTty THEN -1
                                 ELSE foreground[procs[p].tty],
                       argv |-> <<>>, cwd |-> NoDirectory]
             pushed == <<Reading("cmdline", p, d), Reading("cwd", p, d)>>
                         \o (IF Descends(d) THEN <<Reading("children", p, d)>> ELSE <<>>)
  <2>1. tree' = Append(tree, entry) /\ todo' = pushed \o Tail(todo)
    BY <1>1, <1>4, Zenon DEF ReadStat
  <2>2. /\ procs' = procs /\ foreground' = foreground /\ lastPid' = lastPid
        /\ wasForeground' = wasForeground /\ Alive' = Alive
    BY <1>2 DEF processVars, Alive
  <2>3. /\ todo \in Seq(Task) /\ todo[1] \in Task /\ Head(todo) = todo[1] /\ 1 \in DOMAIN todo
        /\ tree \in Seq(Node)
    BY <1>2, TheRest DEF TerminalInv, ReaderTypes
  <2>4. /\ p \in 1 .. MaxPid /\ d \in 0 .. MaxDepth /\ MaxDepth \in Nat /\ p <= lastPid
        /\ todo[1].pid = p /\ todo[1].depth = d /\ todo[1].read = "stat"
    BY <1>1, <1>2, <2>3, PidAssumption DEF TerminalInv, ReaderTypes, Task
  <2>5. /\ lastPid \in 1 .. MaxPid /\ MaxPid \in Nat /\ foreground \in [Shell -> -1 .. lastPid]
        /\ procs[p].tty \in Shell \cup {NoTty} /\ procs[p].group \in Nat
        /\ procs[p].group <= lastPid /\ procs[p].session \in Nat /\ procs[p].session <= lastPid
        /\ NoTty \notin Shell
    BY <1>4, SaneTypes DEF TerminalInv
  <2>6. PICK node \in Node :
          /\ node = entry
          /\ node.pid = p /\ node.depth = d /\ node.group = procs[p].group
          /\ node.session = procs[p].session /\ node.tty = procs[p].tty
          /\ node.tpgid \in -1 .. lastPid
          /\ node.tpgid >= 0 => /\ procs[p].tty \in Shell
                                /\ node.tpgid = foreground[procs[p].tty]
    <3>1. entry \in Node
      BY <2>4, <2>5 DEF Node
    <3>2. entry.tpgid \in -1 .. lastPid
      BY <2>5
    <3>3. QED
      BY <3>1, <3>2, <2>5
  <2>7. PICK new \in Seq(Task) :
          /\ new = pushed
          /\ \A k \in DOMAIN new :
               /\ new[k].read # "stat" /\ new[k].pid = p /\ new[k].depth = d
               /\ new[k].read = "children" => k = Len(new) /\ d < MaxDepth
    <3>1. CASE Descends(d)
      <4>1. PICK x, y : /\ x = <<Reading("cmdline", p, d), Reading("cwd", p, d)>>
                        /\ y = <<Reading("children", p, d)>> /\ pushed = x \o y
        BY <3>1, Zenon
      <4>2. /\ Reading("cmdline", p, d) \in Task /\ Reading("cwd", p, d) \in Task
            /\ Reading("children", p, d) \in Task
        BY <2>4 DEF Reading, Task
      <4>3. /\ x \in Seq(Task) /\ y \in Seq(Task) /\ Len(x) = 2 /\ Len(y) = 1
            /\ x[1] = Reading("cmdline", p, d) /\ x[2] = Reading("cwd", p, d)
            /\ y[1] = Reading("children", p, d)
        BY <4>1, <4>2
      <4> HIDE DEF pushed
      <4>4. /\ pushed \in Seq(Task) /\ Len(pushed) = 3 /\ DOMAIN pushed = 1 .. 3
            /\ pushed[1] = x[1] /\ pushed[2] = x[2] /\ pushed[3] = y[1]
        BY <4>1, <4>3
      <4>5. \A k \in 1 .. 3 :
               /\ pushed[k].read # "stat" /\ pushed[k].pid = p /\ pushed[k].depth = d
               /\ pushed[k].read = "children" => k = 3
        BY <4>3, <4>4 DEF Reading
      <4>6. d < MaxDepth
        BY <3>1 DEF Descends
      <4>7. QED
        BY <4>4, <4>5, <4>6
    <3>2. CASE ~Descends(d)
      <4>1. pushed = <<Reading("cmdline", p, d), Reading("cwd", p, d)>>
        BY <3>2
      <4>2. /\ Reading("cmdline", p, d) \in Task /\ Reading("cwd", p, d) \in Task
        BY <2>4 DEF Reading, Task
      <4>3. pushed \in Seq(Task) /\ Len(pushed) = 2 /\ DOMAIN pushed = 1 .. 2
        BY <4>1, <4>2
      <4>4. \A k \in 1 .. 2 :
               /\ pushed[k].read # "stat" /\ pushed[k].pid = p /\ pushed[k].depth = d
               /\ pushed[k].read # "children"
        BY <4>1 DEF Reading
      <4>5. QED
        BY <4>3, <4>4
    <3>3. QED
      BY <3>1, <3>2
  <2>8. tree' = Append(tree, node) /\ todo' = new \o Tail(todo)
    BY <2>1, <2>6, <2>7
  <2> HIDE DEF entry, pushed
  <2>9. PICK n \in Nat : n = Len(tree)
    BY <2>3
  <2>10. /\ tree' \in Seq(Node) /\ DOMAIN tree = 1 .. n
         /\ DOMAIN tree' = DOMAIN tree \cup {n + 1} /\ Len(tree') = n + 1
         /\ tree'[n + 1] = node /\ \A i \in DOMAIN tree : tree'[i] = tree[i]
    BY <2>3, <2>8, <2>9, OneMore
  <2>11. \A i \in DOMAIN tree :
           /\ IsTabLeader(i)' <=> IsTabLeader(i)
           /\ HasTerminal(i)' <=> HasTerminal(i)
           /\ IsLastTab(i)' <=> IsLastTab(i) /\ d > 1
           /\ JobIsRead(i) \/ procs[p].group = tree[i].tpgid => JobIsRead(i)'
           /\ Below(i) \subseteq Below(i)' /\ Below(i)' \subseteq Below(i) \cup {n + 1}
           /\ IsTabLeader(i) /\ n + 1 \in Below(i)' => d > 1 /\ IsLastTab(i)
           /\ \A m \in i + 1 .. n : IsLastTab(i) => m \in Below(i)'
    BY <2>3, <2>6, <2>8, <2>9, OneMore
  <2>12. /\ todo' \in Seq(Task) /\ Len(new) \in Nat /\ Len(todo) \in Nat
         /\ DOMAIN new = 1 .. Len(new) /\ DOMAIN todo' \subseteq Nat
         /\ \A k \in DOMAIN todo' :
              \/ k \in DOMAIN new /\ todo'[k] = new[k]
              \/ /\ k > Len(new) /\ k - Len(new) + 1 \in DOMAIN todo
                 /\ todo'[k] = todo[k - Len(new) + 1]
    <3>1. todo # <<>> /\ new \in Seq(Task) /\ todo \in Seq(Task)
      BY <1>2, <2>3
    <3>2. QED
      BY <3>1, <2>8, PutBefore
  <2>13. ASSUME d <= 1, NEW k \in DOMAIN todo, k > 1
         PROVE  todo[k].read = "stat" /\ todo[k].depth = 1
    BY <2>3, <2>4, <2>13 DEF TerminalInv, DepthFirst
  <2>14. \A k \in DOMAIN todo' : k > Len(new) => k - Len(new) + 1 > 1
    BY <2>12
  <2>15. IsTabLeader(n + 1)' <=> d = 1 /\ procs[p].session = p /\ procs[p].tty # NoTty
    BY <2>6, <2>10 DEF IsTabLeader
  <2>16. IsLastTab(n + 1)' => d = 1
    BY <2>6, <2>10 DEF IsLastTab
  <2>17. Sane' /\ History'
    BY <1>2, <2>2 DEF TerminalInv, Sane, History, IsInForeground
  <2>18. ReaderTypes'
    <3>1. \A i \in DOMAIN tree' : tree'[i].tpgid <= lastPid
      BY <2>5, <2>6, <2>10 DEF TerminalInv, ReaderTypes
    <3>2. \A k \in DOMAIN todo' :
            /\ todo'[k].pid <= lastPid
            /\ todo'[k].read = "children" => todo'[k].depth < MaxDepth
      BY <2>4, <2>7, <2>12 DEF TerminalInv, ReaderTypes
    <3>3. QED
      BY <2>2, <2>10, <2>12, <3>1, <3>2 DEF TerminalInv, ReaderTypes
  <2>19. DepthFirst'
    <3>1. ASSUME NEW k \in DOMAIN todo', NEW m \in DOMAIN todo', k < m,
                 \/ todo'[k].read = "stat" /\ todo'[k].depth <= 1
                 \/ todo'[k].read = "children" /\ todo'[k].depth = 0
          PROVE  todo'[m].read = "stat" /\ todo'[m].depth = 1
      <4>1. CASE k > Len(new)
        <5>1. m > Len(new) /\ k - Len(new) + 1 < m - Len(new) + 1
              /\ k \notin DOMAIN new /\ m \notin DOMAIN new
          BY <3>1, <4>1, <2>12
        <5>2. /\ k - Len(new) + 1 \in DOMAIN todo /\ todo'[k] = todo[k - Len(new) + 1]
              /\ m - Len(new) + 1 \in DOMAIN todo /\ todo'[m] = todo[m - Len(new) + 1]
          BY <5>1, <2>12
        <5>3. QED
          BY <3>1, <5>1, <5>2 DEF TerminalInv, DepthFirst
      <4>2. CASE ~ (k > Len(new))
        <5>1. k \in DOMAIN new /\ todo'[k] = new[k]
          BY <4>2, <2>12
        <5>2. d = 0 /\ k = Len(new)
          BY <3>1, <5>1, <2>7
        <5>3. m > Len(new) /\ m - Len(new) + 1 \in DOMAIN todo
              /\ todo'[m] = todo[m - Len(new) + 1]
          BY <3>1, <5>2, <2>12
        <5>4. QED
          BY <5>2, <5>3, <2>13, <2>14
      <4>3. QED
        BY <4>1, <4>2
    <3>2. ASSUME NEW k \in DOMAIN todo', NEW i \in DOMAIN tree',
                 todo'[k].read = "children", todo'[k].depth = 1, IsLastTab(i)'
          PROVE  todo'[k].pid = tree'[i].pid
      <4>1. CASE k \in DOMAIN new /\ todo'[k] = new[k]
        <5>1. d = 1 /\ todo'[k].pid = p
          BY <3>2, <4>1, <2>7
        <5>2. i \notin DOMAIN tree
          BY <3>2, <5>1, <2>11
        <5>3. QED
          BY <5>1, <5>2, <2>6, <2>10
      <4>2. CASE /\ k > Len(new) /\ k - Len(new) + 1 \in DOMAIN todo
                 /\ todo'[k] = todo[k - Len(new) + 1]
        <5>1. d > 1
          BY <3>2, <4>2, <2>4, <2>13, <2>14
        <5>2. i \in DOMAIN tree
          BY <3>2, <5>1, <2>10, <2>16
        <5>3. QED
          BY <3>2, <4>2, <5>2, <2>10, <2>11 DEF TerminalInv, DepthFirst
      <4>3. QED
        BY <4>1, <4>2, <2>12
    <3>3. QED
      BY <3>1, <3>2 DEF DepthFirst
  <2>20. TabsAreShells'
    <3>1. IsTabLeader(n + 1)' => p \in Shell
      BY <1>4, <2>15 DEF TerminalInv, Sane, AreProcesses, Alive
    <3>2. QED
      BY <3>1, <2>6, <2>10, <2>11 DEF TerminalInv, TabsAreShells
  <2>21. JobsOfTabs'
    <3>1. \A g : OfJob(g) /\ Settled(g) => OfJob(g)' /\ Settled(g)'
      BY <2>2 DEF OfJob, Settled
    <3>2. ASSUME node.tpgid >= 0 PROVE OfJob(node.tpgid) /\ Settled(node.tpgid)
      <4>1. procs[p].tty \in Shell /\ node.tpgid = foreground[procs[p].tty]
        BY <2>6, <3>2
      <4>2. \A x \in Alive : procs[x].group = node.tpgid => x \in wasForeground
        BY <4>1, <1>2 DEF TerminalInv, Sane, AreProcesses, History, IsInForeground, Alive
      <4>3. Settled(node.tpgid)
        BY <4>1 DEF TerminalInv, Sane, AreProcesses, Settled, Alive
      <4>4. QED
        BY <4>2, <4>3 DEF OfJob
    <3>3. ASSUME NEW i \in DOMAIN tree', HasTerminal(i)', NEW g, g = tree'[i].tpgid
          PROVE  OfJob(g) /\ Settled(g)
      <4>1. CASE i \in DOMAIN tree
        BY <3>3, <4>1, <2>10, <2>11 DEF TerminalInv, JobsOfTabs
      <4>2. CASE i = n + 1
        BY <3>2, <3>3, <4>2, <2>10 DEF HasTerminal
      <4>3. QED
        BY <4>1, <4>2, <2>10
    <3>4. QED
      BY <3>1, <3>3 DEF JobsOfTabs
  <2>22. ASSUME NEW k \in DOMAIN todo', NEW i \in DOMAIN tree', todo'[k].depth > 1,
                IsLastTab(i)'
         PROVE  i \in DOMAIN tree /\ d > 1 /\ IsLastTab(i)
    <3>1. d > 1
      <4>1. CASE k \in DOMAIN new /\ todo'[k] = new[k]
        BY <4>1, <2>7, <2>22
      <4>2. CASE /\ k > Len(new) /\ k - Len(new) + 1 \in DOMAIN todo
                 /\ todo'[k] = todo[k - Len(new) + 1]
        BY <4>2, <2>4, <2>13, <2>14, <2>22
      <4>3. QED
        BY <4>1, <4>2, <2>12
    <3>2. QED
      BY <3>1, <2>10, <2>11, <2>16, <2>22
  <2>23. ParentIsRead'
    <3> SUFFICES ASSUME NEW k \in DOMAIN todo', NEW i \in DOMAIN tree',
                        todo'[k].read = "children", todo'[k].depth > 1, HasTerminal(i)',
                        IsLastTab(i)', IsIn(todo'[k].pid, tree'[i].tpgid)
                 PROVE  JobIsRead(i)'
      BY <2>2 DEF ParentIsRead, IsIn
    <3>1. i \in DOMAIN tree /\ IsLastTab(i) /\ HasTerminal(i) /\ tree'[i] = tree[i]
      BY <2>10, <2>11, <2>22
    <3>2. CASE k \in DOMAIN new /\ todo'[k] = new[k]
      BY <3>1, <3>2, <2>7, <2>11 DEF IsIn
    <3>3. CASE /\ k > Len(new) /\ k - Len(new) + 1 \in DOMAIN todo
               /\ todo'[k] = todo[k - Len(new) + 1]
      BY <3>1, <3>3, <2>11 DEF TerminalInv, ParentIsRead
    <3>4. QED
      BY <3>2, <3>3, <2>12
  <2>24. ChildComesLater'
    <3> SUFFICES ASSUME NEW k \in DOMAIN todo', NEW i \in DOMAIN tree',
                        todo'[k].read = "stat", todo'[k].depth > 1, HasTerminal(i)',
                        IsLastTab(i)', IsIn(todo'[k].pid, tree'[i].tpgid)
                 PROVE  todo'[k].pid \in wasForeground \/ JobIsRead(i)'
      BY <2>2 DEF ChildComesLater, IsIn
    <3>1. i \in DOMAIN tree /\ IsLastTab(i) /\ HasTerminal(i) /\ tree'[i] = tree[i]
      BY <2>10, <2>11, <2>22
    <3>2. k - Len(new) + 1 \in DOMAIN todo /\ todo'[k] = todo[k - Len(new) + 1]
      BY <2>7, <2>12
    <3>3. QED
      BY <3>1, <3>2, <2>11 DEF TerminalInv, ChildComesLater
  <2>25. FirstWasForeground'
    <3> SUFFICES ASSUME NEW i \in DOMAIN tree', HasTerminal(i)', NEW j \in Below(i)',
                        tree'[j].group = tree'[i].tpgid, tree'[j].pid \notin wasForeground
                 PROVE  \E m \in Below(i)' : m < j /\ tree'[m].group = tree'[i].tpgid
      BY <2>2 DEF FirstWasForeground
    <3>1. CASE i = n + 1
      BY <3>1, <2>9, <2>10 DEF Below
    <3>2. CASE i \in DOMAIN tree /\ j \in Below(i)
      <4>1. \A m \in Below(i) : m \in DOMAIN tree
        BY <3>2, <2>9, <2>10 DEF Below
      <4>2. QED
        BY <3>2, <4>1, <2>10, <2>11 DEF TerminalInv, FirstWasForeground
    <3>3. CASE i \in DOMAIN tree /\ j = n + 1
      <4>1. HasTerminal(i) /\ IsTabLeader(i) /\ IsLastTab(i) /\ d > 1 /\ tree'[i] = tree[i]
        BY <3>3, <2>10, <2>11 DEF HasTerminal
      <4>2. IsIn(p, tree[i].tpgid) /\ p \notin wasForeground
        BY <1>4, <3>3, <4>1, <2>6, <2>10 DEF IsIn
      <4>3. JobIsRead(i)
        BY <4>1, <4>2, <3>3, <2>3, <2>4 DEF TerminalInv, ChildComesLater
      <4>4. PICK m \in i + 1 .. n : tree[m].group = tree[i].tpgid
        BY <4>3, <2>9 DEF JobIsRead
      <4>5. m \in DOMAIN tree /\ m < n + 1
        BY <3>3, <2>10
      <4>6. QED
        BY <3>3, <4>1, <4>4, <4>5, <2>10, <2>11
    <3>4. QED
      BY <3>1, <3>2, <3>3, <2>10, <2>11
  <2>26. QED
    BY <2>17, <2>18, <2>19, <2>20, <2>21, <2>23, <2>24, <2>25 DEF TerminalInv
<1>5. QED
  BY <1>3, <1>4

(* The steps that are about processes and the tree of them. *)
TerminalStep ==
  \/ StartTree \/ ReadTree \/ TerminalEvent
  \/ todo = <<>> /\ tree' = <<>> /\ UNCHANGED <<todo, processVars, wasForeground>>
  \/ UNCHANGED terminalVars

(* Every other step leaves them alone. *)
LEMMA StepsOfTerminals ==
  ASSUME [Next]_vars
  PROVE  TerminalStep
<1>1. CASE BeginTree
  BY <1>1 DEF BeginTree, TerminalStep
<1>2. CASE ReadProcess
  BY <1>2 DEF ReadProcess, TerminalStep
<1>3. CASE AttachTerminal
  BY <1>3 DEF AttachTerminal, IsTreeRead, TerminalStep
<1>4. CASE SomeProcess
  BY <1>4 DEF SomeProcess, TerminalStep
<1>5. CASE ~ (BeginTree \/ ReadProcess \/ AttachTerminal \/ SomeProcess)
  <2>1. UNCHANGED terminalVars
    BY <1>5 DEF Next, vars, ListWindows, Capture, EnrichDocuments, NoCorrelation,
                BeginCorrelation, Correlate, AttachTabs, Record, CaptureAgain, Reboot,
                BuildPlan, AskWhatIsUp, PlanConnections, Connect, SomeMonitor, SomeConnection,
                MonitorsAnswer
  <2>2. QED
    BY <2>1 DEF TerminalStep
<1>6. QED
  BY <1>1, <1>2, <1>3, <1>4, <1>5

(* Nothing has been read in the beginning. *)
LEMMA TerminalInvInit == Init => TerminalInv
<1> SUFFICES ASSUME Init PROVE TerminalInv
  OBVIOUS
<1>1. /\ scene \in Scenes /\ procs = scene.procs /\ foreground = scene.foreground
      /\ lastPid = scene.lastPid /\ todo = <<>> /\ tree = <<>> /\ wasForeground = {}
  BY Zenon DEF Init
<1>2. Sane
  BY <1>1, SceneAssumption DEF Sane
<1>3. ReaderTypes
  BY <1>1 DEF ReaderTypes
<1>4. DepthFirst /\ TabsAreShells /\ JobsOfTabs /\ ParentIsRead /\ ChildComesLater
      /\ FirstWasForeground
  BY <1>1 DEF DepthFirst, TabsAreShells, JobsOfTabs, ParentIsRead, ChildComesLater,
              FirstWasForeground
<1>5. QED
  BY <1>1, <1>2, <1>3, <1>4 DEF TerminalInv

(* Every step keeps the invariant. *)
LEMMA TerminalInvNext == TerminalInv /\ [Next]_vars => TerminalInv'
<1> SUFFICES ASSUME TerminalInv, TerminalStep PROVE TerminalInv'
  BY StepsOfTerminals
<1>1. CASE StartTree
  BY <1>1, StartKeeps
<1>2. CASE ReadTree
  BY <1>2, ReadStatKeeps, ReadFileKeeps, ReadChildrenKeeps DEF ReadTree
<1>3. CASE TerminalEvent
  BY <1>3, EventKeepsReading
<1>4. CASE todo = <<>> /\ tree' = <<>> /\ UNCHANGED <<todo, processVars, wasForeground>>
  BY <1>4, EndKeeps
<1>5. CASE UNCHANGED terminalVars
  <2>1. /\ procs' = procs /\ foreground' = foreground /\ lastPid' = lastPid
        /\ todo' = todo /\ tree' = tree /\ wasForeground' = wasForeground
    BY <1>5 DEF terminalVars, processVars, readerVars
  <2>2. \A i \in DOMAIN tree :
          /\ IsTabLeader(i)' <=> IsTabLeader(i)
          /\ HasTerminal(i)' <=> HasTerminal(i)
          /\ IsLastTab(i)' <=> IsLastTab(i)
          /\ JobIsRead(i)' <=> JobIsRead(i)
          /\ Below(i)' = Below(i)
    BY <2>1, SameShape DEF TerminalInv, ReaderTypes
  <2>3. Sane' /\ ReaderTypes' /\ (todo' # <<>> => History')
    BY <2>1 DEF TerminalInv, Sane, ReaderTypes, History, IsInForeground, Alive
  <2>4. DepthFirst' /\ TabsAreShells'
    BY <2>1, <2>2 DEF TerminalInv, DepthFirst, TabsAreShells
  <2>5. JobsOfTabs' /\ ParentIsRead' /\ ChildComesLater'
    BY <2>1, <2>2 DEF TerminalInv, JobsOfTabs, OfJob, Settled, ParentIsRead, ChildComesLater,
                      IsIn, Alive
  <2>6. FirstWasForeground'
    BY <2>1, <2>2 DEF TerminalInv, FirstWasForeground
  <2>7. QED
    BY <2>3, <2>4, <2>5, <2>6 DEF TerminalInv
<1>6. QED
  BY <1>1, <1>2, <1>3, <1>4, <1>5 DEF TerminalStep

(* The invariant has the types in it. *)
LEMMA TerminalTypes == TerminalInv => TerminalTypeOK
<1> SUFFICES ASSUME TerminalInv PROVE TerminalTypeOK
  OBVIOUS
<1>1. /\ lastPid \in 1 .. MaxPid /\ MaxPid \in Nat /\ Alive \subseteq 1 .. lastPid
      /\ foreground \in [Shell -> -1 .. lastPid] /\ \A p \in Alive : procs[p] \in Process
  BY SaneTypes DEF TerminalInv
<1>2. Alive \subseteq 1 .. MaxPid
  BY <1>1
<1>3. foreground \in [Shell -> -1 .. MaxPid]
  BY <1>1
<1>4. QED
  BY <1>1, <1>2, <1>3 DEF TerminalInv, ReaderTypes, TerminalTypeOK

(* Whatever shells and jobs do while the tree is read file by file, and    *)
(* however deep it is: the process recorded as what a tab was doing was in *)
(* the foreground of that tab at some time meanwhile (terminals.py:120).   *)
THEOREM JobWasForegroundAlways == Spec => []JobWasForeground
<1>1. ASSUME TerminalInv PROVE JobWasForeground
  <2> SUFFICES ASSUME NEW i \in DOMAIN tree, IsTabLeader(i), NEW j \in ForegroundJob(i)
               PROVE  tree[j].pid \in wasForeground
    BY DEF JobWasForeground
  <2>1. /\ j \in Below(i) /\ tree[i].tpgid >= 0 /\ tree[j].group = tree[i].tpgid
        /\ \A k \in Below(i) : tree[k].group = tree[i].tpgid => j <= k
    BY DEF ForegroundJob
  <2>2. \A k \in Below(i) : k \in Int
    BY DEF Below
  <2>3. QED
    BY <1>1, <2>1, <2>2 DEF TerminalInv, FirstWasForeground, HasTerminal
<1>2. TerminalInv => JobWasForeground
  BY <1>1
<1>3. QED
  BY <1>2, TerminalInvInit, TerminalInvNext, PTL DEF Spec

(* The tabs are the places of their leaders in the tree. *)
LEMMA LeadersAreInTree ==
  ASSUME tree \in Seq(Node), NEW k \in DOMAIN TabLeaders
  PROVE  TabLeaders[k] \in DOMAIN tree
<1>1. {i \in DOMAIN tree : IsTabLeader(i)} \in SUBSET DOMAIN tree
  OBVIOUS
<1>2. QED
  BY <1>1, PlacesList DEF TabLeaders

(* Whatever is read of a window's terminal: a command that a restore would *)
(* run again is one a process of that tab ran, nothing of it was withheld, *)
(* it was not where nothing may be recorded, and the user lets its program *)
(* be run (policy.py:147).                                                 *)
THEOREM RunsWhatRanAlways == Spec => []RunsWhatRan
<1>1. ASSUME tree \in Seq(Node) PROVE RunsWhatRan
  <2> SUFFICES ASSUME NEW k \in DOMAIN TerminalBlock, Runs(TerminalBlock[k])
               PROVE  \E j \in Below(TabLeaders[k]) :
                        /\ tree[j].argv = TerminalBlock[k].command
                        /\ Redacted(tree[j].argv) = {}
                        /\ tree[j].cwd \notin ExcludedPlace
                        /\ TerminalBlock[k].command[1] \notin Denied
                        /\ TerminalBlock[k].command[1] \in Allowed \/ PolicyMode = "always"
    BY DEF RunsWhatRan
  <2>1. PICK i, tab : i = TabLeaders[k] /\ tab = TabOf(i)
    OBVIOUS
  <2>2. k \in DOMAIN TabLeaders /\ TerminalBlock[k] = WithoutExcluded(tab)
    BY <2>1 DEF TerminalBlock
  <2>3. i \in DOMAIN tree
    BY <1>1, <2>1, <2>2, LeadersAreInTree
  <2> DEFINE job == CHOOSE j \in ForegroundJob(i) : TRUE
  <2>4. /\ tab.cwd = IF \E j \in ForegroundJob(i) : tree[j].cwd # NoDirectory
                     THEN tree[job].cwd ELSE tree[i].cwd
        /\ tab.command = IF ForegroundJob(i) = {} THEN <<>> ELSE Redact(tree[job].argv)
        /\ tab.redacted = IF ForegroundJob(i) = {} THEN {} ELSE Redacted(tree[job].argv)
    BY <2>1 DEF TabOf
  <2>5. tab.cwd \notin ExcludedPlace /\ TerminalBlock[k] = tab
    <3>1. CASE tab.cwd \in ExcludedPlace
      <4>1. TerminalBlock[k].command = <<>>
        BY <2>1, <2>2, <3>1 DEF WithoutExcluded, TabOf
      <4>2. QED
        BY <4>1 DEF Runs
    <3>2. CASE tab.cwd \notin ExcludedPlace
      BY <2>2, <3>2 DEF WithoutExcluded
    <3>3. QED
      BY <3>1, <3>2
  <2>6. /\ tab.command # <<>> /\ tab.redacted = {} /\ tab.command[1] \notin Denied
        /\ tab.command[1] \in Allowed \/ PolicyMode = "always"
    BY <2>5 DEF Runs
  <2>7. ForegroundJob(i) # {}
    BY <2>4, <2>6
  <2>8. job \in ForegroundJob(i)
    BY <2>7
  <2> HIDE DEF job
  <2>9. job \in Below(i) /\ job \in DOMAIN tree /\ tree[job] \in Node
    BY <1>1, <2>3, <2>8 DEF ForegroundJob, Below
  <2>10. Redacted(tree[job].argv) = {} /\ tree[job].argv \in Seq(Argument)
    BY <2>4, <2>6, <2>7, <2>9 DEF Node
  <2>11. tab.command = tree[job].argv
    <3>1. PICK argv \in Seq(Argument) : argv = tree[job].argv
      BY <2>10
    <3>2. Redact(argv) = argv
      BY <2>10, <3>1 DEF Redact
    <3>3. QED
      BY <2>4, <2>7, <3>1, <3>2
  <2>12. tree[job].cwd \notin ExcludedPlace
    BY <2>4, <2>5, <2>8, <2>9, PlaceAssumption
  <2>13. QED
    BY <2>1, <2>5, <2>6, <2>9, <2>10, <2>11, <2>12
<1>2. TerminalInv => RunsWhatRan
  BY <1>1 DEF TerminalInv, ReaderTypes
<1>3. QED
  BY <1>2, TerminalInvInit, TerminalInvNext, PTL DEF Spec

-----------------------------------------------------------------------------
(* VpnConnections: what is remembered, recorded and planned               *)

(* The steps that are about VPNs. *)
VpnStep ==
  \/ ReadActive
  \/ at = "asking" /\ at' = "planned" /\ PlanVpns
  \/ /\ at' = "asking" => at = "asking"
     /\ \/ RecordVpns \/ StartVpns
        \/ \E c \in Connection : Activate(c) \/ ComesUp(c) \/ GoesDown(c) \/ IsDeleted(c)
        \/ TimePasses
        \/ UNCHANGED vpnVars

(* Every other step leaves them alone. *)
LEMMA StepsOfVpns ==
  ASSUME [Next]_vars
  PROVE  VpnStep
<1>1. CASE Record
  BY <1>1 DEF Record, VpnStep
<1>2. CASE Reboot
  BY <1>2 DEF Reboot, VpnStep
<1>3. CASE AskWhatIsUp \/ PlanConnections
  BY <1>3 DEF AskWhatIsUp, PlanConnections, VpnStep
<1>4. CASE Connect
  BY <1>4 DEF Connect, VpnStep
<1>5. CASE SomeConnection
  BY <1>5 DEF SomeConnection, Happening, VpnEvent, VpnStep
<1>6. CASE ~ (Record \/ Reboot \/ AskWhatIsUp \/ PlanConnections \/ Connect \/ SomeConnection)
  <2>1. UNCHANGED vpnVars /\ (at' = "asking" => at = "asking")
    BY <1>6 DEF Next, vars, ListWindows, Capture, BeginTree, ReadProcess, AttachTerminal,
                EnrichDocuments, NoCorrelation, BeginCorrelation, Correlate, AttachTabs,
                CaptureAgain, BuildPlan, SomeProcess, SomeMonitor, MonitorsAnswer, Happening
  <2>2. QED
    BY <2>1 DEF VpnStep
<1>7. QED
  BY <1>1, <1>2, <1>3, <1>4, <1>5, <1>6

(* How long ago a connection was up and down.                              *)
SinceIsRight ==
  \A c \in Connection : IF c \in up THEN sinceUp[c] = 0 ELSE sinceDown[c] = 0

(* What is remembered was so when it was asked for, or since.              *)
CacheIsOfThen ==
  sinceChecked # NeverChecked /\ ~misread =>
    \A c \in Connection :
      IF c \in cache THEN sinceUp[c] <= sinceChecked ELSE sinceDown[c] <= sinceChecked

(* What is to be activated, now or when the plan is made, was not up when  *)
(* that was asked for.                                                     *)
PlannedWasDown ==
  /\ at = "asking" /\ ~planMisread => up \subseteq wasUp \cup cameUp
  /\ \A c \in DOMAIN vpnPlan :
       vpnPlan[c] = "activate" /\ ~planMisread => c \notin up \/ c \in cameUp

(* The inductive invariant of what is known of the VPNs.                   *)
VpnInv == VpnTypeOK /\ SinceIsRight /\ CacheIsOfThen /\ PlannedWasDown

(* An answer, if nothing is missing of it, has everything. *)
LEMMA AnswerIsPart ==
  ASSUME NEW all, NEW answer \in Answered(all)
  PROVE  /\ answer.uuids \subseteq all /\ answer.missing \in BOOLEAN
         /\ ~answer.missing => answer.uuids = all
<1>1. PICK got \in SUBSET all : answer = [uuids |-> got, missing |-> got # all]
  BY DEF Answered
<1>2. answer.uuids = got
  BY <1>1
<1>3. answer.missing = (got # all)
  BY <1>1, Zenon
<1>4. answer.missing \in BOOLEAN
  BY <1>3, Zenon
<1>5. ~answer.missing => got = all
  BY <1>3, Zenon
<1>6. QED
  BY <1>2, <1>4, <1>5

(* Nothing is remembered in the beginning. *)
LEMMA VpnInvInit == Init => VpnInv
<1> SUFFICES ASSUME Init PROVE VpnInv
  OBVIOUS
<1> USE PollAssumption DEF NeverChecked, LongAgo
<1>1. /\ at = "idle" /\ known = scene.known /\ up = scene.up /\ scene \in Scenes
      /\ cache = {} /\ sinceChecked = NeverChecked /\ misread = FALSE
      /\ recorded = {} /\ wasUp = {} /\ vpnPlan = <<>> /\ planMisread = FALSE /\ cameUp = {}
      /\ sinceUp = [c \in Connection |-> IF c \in up THEN 0 ELSE LongAgo]
      /\ sinceDown = [c \in Connection |-> IF c \in up THEN LongAgo ELSE 0]
  BY Zenon DEF Init
<1>2. known \subseteq Connection /\ up \subseteq known
  BY <1>1, SceneAssumption
<1>3. VpnTypeOK
  <2>1. sinceUp \in [Connection -> 0 .. LongAgo] /\ sinceDown \in [Connection -> 0 .. LongAgo]
    BY <1>1
  <2>2. sinceChecked \in NeverChecked .. LongAgo
    BY <1>1
  <2>3. DOMAIN vpnPlan = {}
    BY <1>1
  <2>4. QED
    BY <1>1, <1>2, <2>1, <2>2, <2>3 DEF VpnTypeOK
<1>4. SinceIsRight /\ CacheIsOfThen /\ PlannedWasDown
  BY <1>1 DEF SinceIsRight, CacheIsOfThen, PlannedWasDown
<1>5. QED
  BY <1>3, <1>4 DEF VpnInv

(* One step of what is counted keeps its order. *)
LEMMA LaterIsMonotone ==
  ASSUME NEW m \in 0 .. LongAgo, NEW n \in 0 .. LongAgo, m <= n
  PROVE  Later(m) \in 0 .. LongAgo /\ Later(m) <= Later(n)
BY PollAssumption DEF Later, LongAgo

(* A plan is made of what was up when it was begun. *)
LEMMA PlanKeepsVpnInv ==
  ASSUME VpnInv, ReadActive \/ (at = "asking" /\ at' = "planned" /\ PlanVpns)
  PROVE  VpnInv'
<1> USE DEF VpnInv
<1>1. CASE ReadActive
  <2>1. PICK active \in Answered(up) : wasUp' = active.uuids /\ planMisread' = active.missing
    BY <1>1 DEF ReadActive
  <2>2. vpnPlan' = <<>> /\ cameUp' = {}
        /\ UNCHANGED <<nmVars, cacheVars, recorded, sinceUp, sinceDown>>
    BY <1>1 DEF ReadActive
  <2>3. active.missing \in BOOLEAN /\ active.uuids \subseteq up
        /\ (~active.missing => active.uuids = up)
    BY AnswerIsPart
  <2>4. VpnTypeOK'
    <3>1. DOMAIN vpnPlan' = {}
      BY <2>2
    <3> QED
      BY <2>1, <2>2, <2>3, <3>1 DEF VpnTypeOK, nmVars, cacheVars
  <2>5. PlannedWasDown'
    <3>1. DOMAIN vpnPlan' = {}
      BY <2>2
    <3> QED
      BY <2>1, <2>2, <2>3, <3>1 DEF PlannedWasDown, nmVars
  <2>6. SinceIsRight' /\ CacheIsOfThen'
    BY <2>2 DEF SinceIsRight, CacheIsOfThen, nmVars, cacheVars
  <2>7. QED
    BY <2>4, <2>5, <2>6
<1>2. CASE at = "asking" /\ at' = "planned" /\ PlanVpns
  <2>1. PICK settings \in Answered(known) :
          /\ vpnPlan' = Plan(recorded, wasUp, settings.uuids)
          /\ planMisread' = (planMisread \/ settings.missing)
    BY <1>2 DEF PlanVpns
  <2>2. wasUp' = {} /\ UNCHANGED <<nmVars, cacheVars, recorded, vpnHistory>>
    BY <1>2 DEF PlanVpns
  <2>3. settings.missing \in BOOLEAN
    BY AnswerIsPart
  <2>4. VpnTypeOK'
    BY <2>1, <2>2, <2>3 DEF VpnTypeOK, Plan, nmVars, cacheVars, vpnHistory
  <2>5. PlannedWasDown'
    BY <1>2, <2>1, <2>2, <2>3 DEF PlannedWasDown, Plan, nmVars, vpnHistory
  <2>6. SinceIsRight' /\ CacheIsOfThen'
    BY <2>2 DEF SinceIsRight, CacheIsOfThen, nmVars, cacheVars, vpnHistory
  <2>7. QED
    BY <2>4, <2>5, <2>6
<1>3. QED
  BY <1>1, <1>2

(* Every step keeps the invariant. *)
LEMMA VpnInvNext == VpnInv /\ [Next]_vars => VpnInv'
<1> SUFFICES ASSUME VpnInv, VpnStep,
                    ~(ReadActive \/ (at = "asking" /\ at' = "planned" /\ PlanVpns))
             PROVE  VpnInv'
  BY StepsOfVpns, PlanKeepsVpnInv
<1> USE DEF VpnInv
<1>0. at' = "asking" => at = "asking"
  BY DEF VpnStep
<1>1. CASE RecordVpns
  <2>1. CASE NeedsPoll
    <3>1. PICK answer \in Answered(up) : cache' = answer.uuids /\ misread' = answer.missing
      BY <1>1, <2>1 DEF RecordVpns
    <3>2. sinceChecked' = 0 /\ recorded' = cache'
          /\ UNCHANGED <<nmVars, planVars, vpnHistory>>
      BY <1>1, <2>1 DEF RecordVpns
    <3>3. /\ cache' \subseteq up /\ misread' \in BOOLEAN
          /\ ~misread' => cache' = up
      BY <3>1, AnswerIsPart
    <3>4. VpnTypeOK'
      BY <3>2, <3>3, PollAssumption
         DEF VpnTypeOK, nmVars, planVars, vpnHistory, NeverChecked, LongAgo
    <3>5. QED
      BY <1>0, <3>2, <3>3, <3>4
         DEF SinceIsRight, CacheIsOfThen, PlannedWasDown, nmVars, planVars, vpnHistory
  <2>2. CASE ~NeedsPoll
    <3>1. recorded' = cache /\ UNCHANGED <<nmVars, cacheVars, planVars, vpnHistory>>
      BY <1>1, <2>2 DEF RecordVpns, cacheVars
    <3>2. QED
      BY <1>0, <3>1 DEF VpnTypeOK, SinceIsRight, CacheIsOfThen, PlannedWasDown, nmVars, cacheVars,
                  planVars, vpnHistory
  <2>3. QED
    BY <2>1, <2>2
<1>2. CASE StartVpns
  <2>1. /\ cache' = {} /\ sinceChecked' = NeverChecked /\ misread' = FALSE /\ up' = {}
        /\ sinceUp' = [c \in Connection |-> LongAgo]
        /\ sinceDown' = [c \in Connection |-> 0]
        /\ UNCHANGED <<known, recorded, planVars, cameUp>>
    BY <1>2 DEF StartVpns
  <2>2. sinceUp' \in [Connection -> 0 .. LongAgo] /\ sinceDown' \in [Connection -> 0 .. LongAgo]
    BY <2>1, PollAssumption DEF LongAgo
  <2>3. NeverChecked \in NeverChecked .. LongAgo
    BY PollAssumption DEF NeverChecked, LongAgo
  <2>4. VpnTypeOK'
    BY <1>0, <2>1, <2>2, <2>3 DEF VpnTypeOK, planVars
  <2>5. SinceIsRight' /\ CacheIsOfThen' /\ PlannedWasDown'
    BY <1>0, <2>1 DEF SinceIsRight, CacheIsOfThen, PlannedWasDown
  <2>6. QED
    BY <2>4, <2>5
<1>3. ASSUME NEW c \in Connection, Activate(c) PROVE VpnInv'
  <2>1. /\ c \in DOMAIN vpnPlan /\ vpnPlan' = [vpnPlan EXCEPT ![c] = "tried"]
        /\ UNCHANGED <<known, wasUp, planMisread, cacheVars, recorded, sinceDown>>
    BY <1>3 DEF Activate
  <2>2. \/ /\ c \in known /\ up' = up \cup {c} /\ cameUp' = cameUp \cup {c}
           /\ sinceUp' = [sinceUp EXCEPT ![c] = 0]
        \/ UNCHANGED <<up, cameUp, sinceUp>>
    BY <1>3 DEF Activate
  <2>3. VpnTypeOK'
    BY <2>1, <2>2, PollAssumption DEF VpnTypeOK, cacheVars, LongAgo
  <2>4. SinceIsRight'
    BY <2>1, <2>2 DEF VpnTypeOK, SinceIsRight
  <2>5. CacheIsOfThen'
    BY <2>1, <2>2, PollAssumption
       DEF VpnTypeOK, CacheIsOfThen, cacheVars, NeverChecked, LongAgo
  <2>6. PlannedWasDown'
    BY <1>0, <2>1, <2>2 DEF PlannedWasDown
  <2>7. QED
    BY <2>3, <2>4, <2>5, <2>6
<1>4. ASSUME NEW c \in Connection, ComesUp(c) PROVE VpnInv'
  <2>1. VpnTypeOK' /\ SinceIsRight'
    BY <1>4, PollAssumption DEF ComesUp, VpnTypeOK, SinceIsRight, cacheVars, planVars, LongAgo
  <2>2. CacheIsOfThen'
    BY <1>0, <1>4, PollAssumption DEF ComesUp, VpnTypeOK, CacheIsOfThen, cacheVars, NeverChecked, LongAgo
  <2>3. PlannedWasDown'
    BY <1>0, <1>4 DEF ComesUp, PlannedWasDown, planVars
  <2>4. QED
    BY <2>1, <2>2, <2>3
<1>5. ASSUME NEW c \in Connection, GoesDown(c) PROVE VpnInv'
  <2>1. VpnTypeOK' /\ SinceIsRight'
    BY <1>5, PollAssumption DEF GoesDown, VpnTypeOK, SinceIsRight, cacheVars, planVars, LongAgo
  <2>2. CacheIsOfThen'
    BY <1>0, <1>5, PollAssumption DEF GoesDown, VpnTypeOK, CacheIsOfThen, cacheVars, NeverChecked, LongAgo
  <2>3. PlannedWasDown'
    BY <1>0, <1>5 DEF GoesDown, PlannedWasDown, planVars
  <2>4. QED
    BY <2>1, <2>2, <2>3
<1>6. ASSUME NEW c \in Connection, IsDeleted(c) PROVE VpnInv'
  BY <1>0, <1>6 DEF IsDeleted, VpnTypeOK, SinceIsRight, CacheIsOfThen, PlannedWasDown, cacheVars,
              planVars, vpnHistory
<1>7. CASE TimePasses
  <2>1. /\ sinceChecked' = IF sinceChecked = NeverChecked THEN NeverChecked
                           ELSE Later(sinceChecked)
        /\ sinceUp' = [c \in Connection |-> IF c \in up THEN 0 ELSE Later(sinceUp[c])]
        /\ sinceDown' = [c \in Connection |-> IF c \in up THEN Later(sinceDown[c]) ELSE 0]
        /\ UNCHANGED <<nmVars, cache, misread, recorded, planVars, cameUp>>
    BY <1>7 DEF TimePasses
  <2>2. \A c \in Connection : sinceUp[c] \in 0 .. LongAgo /\ sinceDown[c] \in 0 .. LongAgo
    BY DEF VpnTypeOK
  <2>3. \A n \in 0 .. LongAgo : Later(n) \in 0 .. LongAgo /\ 0 <= Later(n)
    BY PollAssumption DEF Later, LongAgo
  <2>4. VpnTypeOK'
    <3>1. sinceUp' \in [Connection -> 0 .. LongAgo] /\ sinceDown' \in [Connection -> 0 .. LongAgo]
      BY <2>1, <2>2, <2>3, PollAssumption DEF LongAgo
    <3>2. sinceChecked' \in NeverChecked .. LongAgo
      BY <2>1, <2>3, PollAssumption DEF VpnTypeOK, NeverChecked, LongAgo
    <3>3. QED
      BY <2>1, <3>1, <3>2 DEF VpnTypeOK, nmVars, planVars
  <2>5. SinceIsRight'
    BY <2>1 DEF SinceIsRight, nmVars
  <2>6. CacheIsOfThen'
    <3> SUFFICES ASSUME sinceChecked # NeverChecked, ~misread, NEW c \in Connection
                 PROVE  IF c \in cache THEN sinceUp'[c] <= sinceChecked'
                        ELSE sinceDown'[c] <= sinceChecked'
      BY <2>1, PollAssumption DEF CacheIsOfThen, NeverChecked
    <3>1. sinceChecked \in 0 .. LongAgo /\ sinceChecked' = Later(sinceChecked)
      BY <2>1 DEF VpnTypeOK, NeverChecked
    <3>2. CASE c \in cache
      <4>1. sinceUp[c] <= sinceChecked
        BY <3>2 DEF CacheIsOfThen
      <4>2. Later(sinceUp[c]) <= Later(sinceChecked) /\ 0 <= Later(sinceChecked)
        BY <4>1, <3>1, <2>2, <2>3, LaterIsMonotone
      <4>3. QED
        BY <4>2, <3>1, <3>2, <2>1
    <3>3. CASE c \notin cache
      <4>1. sinceDown[c] <= sinceChecked
        BY <3>3 DEF CacheIsOfThen
      <4>2. Later(sinceDown[c]) <= Later(sinceChecked) /\ 0 <= Later(sinceChecked)
        BY <4>1, <3>1, <2>2, <2>3, LaterIsMonotone
      <4>3. QED
        BY <4>2, <3>1, <3>3, <2>1
    <3>4. QED
      BY <3>2, <3>3
  <2>7. PlannedWasDown'
    BY <1>0, <2>1 DEF PlannedWasDown, nmVars, planVars
  <2>8. QED
    BY <2>4, <2>5, <2>6, <2>7
<1>8. CASE UNCHANGED vpnVars
  BY <1>0, <1>8 DEF VpnTypeOK, SinceIsRight, CacheIsOfThen, PlannedWasDown, vpnVars, nmVars,
                    cacheVars, planVars, vpnHistory
<1>9. QED
  BY <1>1, <1>2, <1>3, <1>4, <1>5, <1>6, <1>7, <1>8 DEF VpnStep

(* However connections come and go between a capture, a reboot and a plan: *)
(* one that is up is activated only if it came up after the plan was begun,*)
(* or NetworkManager did not answer (vpn.py:95).                           *)
THEOREM LeftAloneIfUpAlways == Spec => LeftAloneIfUp
<1>1. VpnInv => \A c \in up : Activate(c) => c \in cameUp \/ planMisread
  BY DEF VpnInv, PlannedWasDown, Activate
<1>2. VpnInv /\ [Next]_vars
        => [\A c \in up : Activate(c) => c \in cameUp \/ planMisread]_vpnVars
  BY <1>1
<1>3. QED
  BY <1>2, VpnInvInit, VpnInvNext, PTL DEF Spec, LeftAloneIfUp

(* What a snapshot says of a connection was so no longer than one poll     *)
(* before, unless NetworkManager did not answer (daemon.py:126).           *)
THEOREM VpnIsRecentAlways == Spec => VpnIsRecent
<1> DEFINE Recent == Record /\ ~misread' =>
             \A c \in Connection :
               IF c \in recorded' THEN sinceUp[c] <= PollSteps ELSE sinceDown[c] <= PollSteps
<1>1. ASSUME VpnInv, Record, ~misread', NEW c \in Connection
      PROVE  IF c \in recorded' THEN sinceUp[c] <= PollSteps ELSE sinceDown[c] <= PollSteps
  <2>0. RecordVpns /\ recorded' = cache'
    BY <1>1 DEF Record, RecordVpns
  <2>1. CASE NeedsPoll
    <3>0. PICK answer \in Answered(up) : cache' = answer.uuids /\ misread' = answer.missing
      BY <2>0, <2>1 DEF RecordVpns
    <3>1. cache' = up
      BY <1>1, <3>0, AnswerIsPart
    <3>2. QED
      BY <1>1, <2>0, <3>1, PollAssumption DEF VpnInv, SinceIsRight
  <2>2. CASE ~NeedsPoll
    <3>1. cache' = cache /\ misread' = misread /\ sinceChecked # NeverChecked
          /\ ~ (sinceChecked > PollSteps)
      BY <2>0, <2>2 DEF RecordVpns, NeedsPoll, cacheVars
    <3>2. sinceChecked \in 0 .. LongAgo /\ sinceUp[c] \in 0 .. LongAgo
          /\ sinceDown[c] \in 0 .. LongAgo
      BY <1>1, <3>1 DEF VpnInv, VpnTypeOK, NeverChecked
    <3>3. QED
      BY <1>1, <2>0, <3>1, <3>2, PollAssumption DEF VpnInv, CacheIsOfThen, LongAgo
  <2>3. QED
    BY <2>1, <2>2
<1>2. VpnInv /\ [Next]_vars => [Recent]_vars
  BY <1>1
<1>3. QED
  BY <1>2, VpnInvInit, VpnInvNext, PTL DEF Spec, VpnIsRecent

-----------------------------------------------------------------------------
(* Documents, monitors and the windows of a snapshot                      *)

(* A window of a snapshot, with at most one block of tabs.                 *)
BrowserBlock == [tabs : TabSet \cup {<<>>}, confidence : 0 .. 100]

(* What is recorded of a window.                                           *)
RecordedWindow ==
  [of : Nat, monitor : Connector \cup {NoConnector}, tabs : Seq(Tab),
   documents : Seq(Found), browser : {<<>>} \cup {<<b>> : b \in BrowserBlock}]

(* The windows of a snapshot are windows of the list, each once.           *)
ContentTypes ==
  /\ scene \in Scenes
  /\ DOMAIN listing \subseteq DOMAIN scene.windows
  /\ \A w \in DOMAIN listing : listing[w].connector \in Connector \cup {NoConnector}
  /\ content \in Seq(RecordedWindow)
  /\ left \subseteq DOMAIN content /\ (left # {} => at = "terminals")
  /\ \A k \in DOMAIN content : content[k].of \in DOMAIN listing
  /\ \A j, k \in DOMAIN content : content[j].of = content[k].of => j = k

(* What is correlated is what is in the snapshot.                          *)
ScreenIsOfContent == at = "correlating" => DOMAIN screen = DOMAIN CorrelatedWindows

(* Windows are on monitors that are plugged in.                            *)
MonitorTypes ==
  /\ plugged \in Layouts /\ byIndex \in Seq(Connector) /\ unanswered \in Nat
  /\ showing \in [DOMAIN scene.windows -> ConnectorsOf(plugged)]

(* The steps that are about the lists of windows.                          *)
ContentStep ==
  \/ ListWindows \/ Capture \/ AttachTerminal \/ EnrichDocuments
  \/ NoCorrelation \/ BeginCorrelation \/ Correlate \/ AttachTabs
  \/ /\ UNCHANGED <<listing, content, left, screen, blocks, undecided, pairs>>
     /\ (at' = "correlating" => at = "correlating") /\ (at = "terminals" => at' = at)

(* Every other step leaves them alone, and all the session. *)
LEMMA StepsOfContent ==
  ASSUME [Next]_vars
  PROVE  scene' = scene /\ ContentStep
<1> DEFINE Named == \/ ListWindows \/ Capture \/ AttachTerminal \/ EnrichDocuments
                    \/ NoCorrelation \/ BeginCorrelation \/ Correlate \/ AttachTabs
<1>1. CASE Named
  BY <1>1 DEF ContentStep, ListWindows, Capture, AttachTerminal, EnrichDocuments,
              NoCorrelation, BeginCorrelation, Correlate, AttachTabs, sceneVars
<1>2. CASE ~Named
  <2>1. CASE UNCHANGED vars
    BY <2>1 DEF ContentStep, vars, sceneVars, contentVars, tabVars
  <2>2. CASE BeginTree \/ ReadProcess \/ Record \/ CaptureAgain \/ Reboot \/ BuildPlan
             \/ AskWhatIsUp \/ PlanConnections \/ Connect
    BY <2>2 DEF ContentStep, BeginTree, ReadProcess, Record, CaptureAgain, Reboot,
                BuildPlan, AskWhatIsUp, PlanConnections, Connect, sceneVars, contentVars, tabVars
  <2>3. CASE SomeProcess \/ SomeMonitor \/ SomeConnection \/ MonitorsAnswer
    BY <2>3 DEF ContentStep, SomeProcess, SomeMonitor, SomeConnection, MonitorsAnswer,
                Happening, sceneVars, contentVars, tabVars
  <2>4. QED
    BY <1>2, <2>1, <2>2, <2>3 DEF Next
<1>3. QED
  BY <1>1, <1>2

(* The steps that are about monitors. *)
MonitorStep ==
  \/ Replug \/ Answer
  \/ /\ plugged' \in Layouts /\ showing' = [w \in DOMAIN showing |-> plugged'[1]]
     /\ EnableMonitors
  \/ UNCHANGED monitorVars

(* Every other step leaves them alone. *)
LEMMA StepsOfMonitors ==
  ASSUME [Next]_vars, MonitorTypes
  PROVE  MonitorStep
<1>1. CASE Reboot
  BY <1>1 DEF Reboot, MonitorStep, MonitorTypes
<1>2. CASE SomeMonitor \/ MonitorsAnswer
  BY <1>2 DEF SomeMonitor, MonitorsAnswer, MonitorStep
<1>3. CASE ~ (Reboot \/ SomeMonitor \/ MonitorsAnswer)
  <2>1. UNCHANGED monitorVars
    BY <1>3 DEF Next, vars, ListWindows, Capture, BeginTree, ReadProcess, AttachTerminal,
                EnrichDocuments, NoCorrelation, BeginCorrelation, Correlate, AttachTabs,
                Record, CaptureAgain, BuildPlan, AskWhatIsUp, PlanConnections, Connect, SomeProcess,
                SomeConnection
  <2>2. QED
    BY <2>1 DEF MonitorStep
<1>4. QED
  BY <1>1, <1>2, <1>3

(* If nothing is unanswered and the last answer was one, the map is right. *)
MapIsRight == unanswered = 0 /\ ~unknown => byIndex = plugged

(* Every answer but the last is to a call that came before the last change. *)
LEMMA MonitorStepKeeps ==
  ASSUME MonitorTypes, MapIsRight, MonitorStep, scene' = scene
  PROVE  MonitorTypes' /\ MapIsRight'
<1> USE DEF MonitorTypes, MapIsRight
<1>1. CASE Replug
  <2>1. PICK layout \in Layouts : plugged' = layout /\ showing' \in Moved(layout)
                                  /\ unanswered' = unanswered + 1
                                  /\ UNCHANGED <<byIndex, unknown>>
    BY <1>1 DEF Replug
  <2>2. showing' \in [DOMAIN scene.windows -> ConnectorsOf(layout)]
    BY <2>1 DEF Moved
  <2>3. ConnectorsOf(plugged') = ConnectorsOf(layout)
    BY <2>1
  <2>4. QED
    BY <2>1, <2>2, <2>3
<1>2. CASE Answer
  <2>1. PICK layout \in Layouts :
          /\ unanswered = 1 => layout = plugged
          /\ \/ unknown' = FALSE /\ byIndex' = layout
             \/ unknown' = TRUE /\ UNCHANGED byIndex
             \/ /\ unknown' = TRUE
                /\ \E n \in 0 .. Len(layout) - 1 : byIndex' = SubSeq(layout, 1, n)
    BY <1>2 DEF Answer
  <2>2. unanswered > 0 /\ unanswered' = unanswered - 1 /\ UNCHANGED <<plugged, showing>>
    BY <1>2 DEF Answer
  <2>3. layout \in Seq(Connector)
    BY LayoutAssumption
  <2>4. \A n \in 0 .. Len(layout) - 1 : SubSeq(layout, 1, n) \in Seq(Connector)
    BY <2>3
  <2>5. byIndex' \in Seq(Connector)
    BY <2>1, <2>3, <2>4
  <2> QED
    BY <2>1, <2>2, <2>5 DEF ConnectorsOf
<1>3. CASE /\ plugged' \in Layouts /\ showing' = [w \in DOMAIN showing |-> plugged'[1]]
           /\ EnableMonitors
  <2>1. 1 \in DOMAIN plugged'
    BY <1>3, LayoutAssumption
  <2>2. plugged'[1] \in ConnectorsOf(plugged')
    BY <2>1 DEF ConnectorsOf
  <2>3. QED
    BY <1>3, <2>2 DEF EnableMonitors
<1>4. CASE UNCHANGED monitorVars
  BY <1>4 DEF monitorVars, ConnectorsOf
<1>5. QED
  BY <1>1, <1>2, <1>3, <1>4 DEF MonitorStep

(* The connectors the extension tells are connectors. *)
LEMMA ConnectorsAreTold ==
  ASSUME MonitorTypes, NEW i
  PROVE  ConnectorFor(i) \in Connector \cup {NoConnector}
BY LayoutAssumption DEF ConnectorFor, MonitorTypes

(* The tabs of a terminal are tabs, and none is where none may be.         *)
LEMMA TabsAreTabs ==
  ASSUME tree \in Seq(Node)
  PROVE  /\ TerminalBlock \in Seq(Tab)
         /\ \A k \in DOMAIN TerminalBlock : TerminalBlock[k].cwd \notin ExcludedPlace
<1>1. ASSUME NEW argv \in Seq(Argument)
      PROVE  Redact(argv) \in Seq(Argument \cup {Withheld}) /\ Redacted(argv) \in SUBSET Nat
  <2>1. Redacted(argv) \in SUBSET Nat
    BY DEF Redacted
  <2>2. \A k \in 1 .. Len(argv) : argv[k] \in Argument
    OBVIOUS
  <2>3. Redact(argv) = [k \in 1 .. Len(argv) |->
                          IF k \in Redacted(argv) THEN Withheld ELSE argv[k]]
    BY DEF Redact
  <2>4. QED
    BY <2>1, <2>2, <2>3
<1>2. ASSUME NEW i \in DOMAIN tree PROVE TabOf(i) \in Tab
  <2> DEFINE job == CHOOSE j \in ForegroundJob(i) : TRUE
  <2>1. tree[i] \in Node
    OBVIOUS
  <2>2. CASE ForegroundJob(i) = {}
    BY <2>1, <2>2 DEF TabOf, Tab, Node
  <2>3. CASE ForegroundJob(i) # {}
    <3>1. job \in ForegroundJob(i)
      BY <2>3
    <3> HIDE DEF job
    <3>2. job \in DOMAIN tree
      BY <3>1 DEF ForegroundJob, Below
    <3>3. tree[job] \in Node
      BY <3>2
    <3>4. PICK argv \in Seq(Argument) : argv = tree[job].argv
      BY <3>3 DEF Node
    <3>5. TabOf(i) = [cwd |-> IF \E j \in ForegroundJob(i) : tree[j].cwd # NoDirectory
                              THEN tree[job].cwd ELSE tree[i].cwd,
                      command |-> Redact(argv), redacted |-> Redacted(argv)]
      BY <2>3, <3>4 DEF TabOf, job
    <3>6. PICK d \in Directory \cup {NoDirectory} :
            d = IF \E j \in ForegroundJob(i) : tree[j].cwd # NoDirectory
                THEN tree[job].cwd ELSE tree[i].cwd
      BY <2>1, <3>3 DEF Node
    <3>7. PICK command \in Seq(Argument \cup {Withheld}), redacted \in SUBSET Nat :
            command = Redact(argv) /\ redacted = Redacted(argv)
      BY <1>1
    <3>8. TabOf(i) = [cwd |-> d, command |-> command, redacted |-> redacted]
      BY <3>5, <3>6, <3>7
    <3>9. QED
      BY <3>8 DEF Tab
  <2>4. QED
    BY <2>2, <2>3
<1>3. ASSUME NEW tab \in Tab
      PROVE  WithoutExcluded(tab) \in Tab /\ WithoutExcluded(tab).cwd \notin ExcludedPlace
  <2>1. CASE tab.cwd \in ExcludedPlace
    <3>1. tab \in [cwd : Directory \cup {NoDirectory}, command : Seq(Argument \cup {Withheld}),
                   redacted : SUBSET Nat]
      BY DEF Tab
    <3>2. WithoutExcluded(tab) = [cwd |-> NoDirectory, command |-> <<>>,
                                  redacted |-> tab.redacted]
      BY <2>1, <3>1 DEF WithoutExcluded
    <3>3. tab.redacted \in SUBSET Nat /\ <<>> \in Seq(Argument \cup {Withheld})
      BY <3>1
    <3>4. WithoutExcluded(tab) \in Tab
      BY <3>2, <3>3 DEF Tab
    <3>5. QED
      BY <3>2, <3>4, PlaceAssumption
  <2>2. CASE tab.cwd \notin ExcludedPlace
    BY <2>2 DEF WithoutExcluded
  <2>3. QED
    BY <2>1, <2>2
<1>4. \A k \in DOMAIN TabLeaders : TabLeaders[k] \in DOMAIN tree
  BY LeadersAreInTree
<1>5. \E n \in Nat : DOMAIN TabLeaders = 1 .. n
  <2>1. {i \in DOMAIN tree : IsTabLeader(i)} \in SUBSET DOMAIN tree
    OBVIOUS
  <2>2. QED
    BY <2>1, PlacesList DEF TabLeaders
<1>6. \A k \in DOMAIN TabLeaders : WithoutExcluded(TabOf(TabLeaders[k])) \in Tab
        /\ WithoutExcluded(TabOf(TabLeaders[k])).cwd \notin ExcludedPlace
  BY <1>2, <1>3, <1>4
<1>7. QED
  BY <1>5, <1>6 DEF TerminalBlock

-----------------------------------------------------------------------------
(* The window of a snapshot is one of the session. *)
LEMMA RecordedIsThere ==
  ASSUME ContentTypes, NEW k \in DOMAIN content
  PROVE  /\ content[k] \in RecordedWindow
         /\ content[k].of \in DOMAIN scene.windows /\ WindowAt(k) \in WindowInfo
         /\ WindowAt(k) = scene.windows[content[k].of]
<1>1. content[k] \in RecordedWindow /\ content[k].of \in DOMAIN scene.windows
  BY DEF ContentTypes
<1>2. QED
  BY <1>1, SceneAssumption DEF ContentTypes, WindowAt

(* The new list. *)
LEMMA ListKeeps ==
  ASSUME ContentTypes, MonitorTypes, ListWindows, scene' = scene
  PROVE  ContentTypes' /\ content' = <<>> /\ at' = "listed"
         /\ listing' = [w \in DOMAIN scene.windows |->
              [index |-> IndexOf(w), connector |-> ConnectorFor(IndexOf(w)),
               on |-> showing[w], sure |-> unanswered = 0 /\ ~unknown]]
<1>1. listing' = [w \in DOMAIN scene.windows |->
             [index |-> IndexOf(w), connector |-> ConnectorFor(IndexOf(w)),
              on |-> showing[w], sure |-> unanswered = 0 /\ ~unknown]]
      /\ content' = <<>> /\ left' = left /\ at' = "listed" /\ at = "idle"
  BY Zenon DEF ListWindows
<1>2. \A w \in DOMAIN scene.windows : ConnectorFor(IndexOf(w)) \in Connector \cup {NoConnector}
  BY ConnectorsAreTold
<1>3. DOMAIN listing' = DOMAIN scene.windows
  BY <1>1
<1>4. \A w \in DOMAIN scene.windows :
        listing'[w].connector = ConnectorFor(IndexOf(w))
  BY <1>1
<1>5. left = {}
  BY <1>1 DEF ContentTypes
<1>6. QED
  BY <1>1, <1>2, <1>3, <1>4, <1>5 DEF ContentTypes

(* Places are in one order. *)
LEMMA EarlierIsOrder ==
  ASSUME NEW S \in SUBSET (Nat \X Nat)
  PROVE  IsOrderOf(Earlier(S), S)
<1>1. \A p \in S : p[1] \in Nat /\ p[2] \in Nat /\ p = <<p[1], p[2]>>
  OBVIOUS
<1>2. \A p, q \in S : <<p, q>> \in Earlier(S)
        <=> (p[1] < q[1] \/ (p[1] = q[1] /\ p[2] < q[2]))
  BY DEF Earlier
<1>3. \A p \in S : <<p, p>> \notin Earlier(S)
  BY <1>1, <1>2
<1>4. ASSUME NEW p \in S, NEW q \in S, p # q
      PROVE  <<p, q>> \in Earlier(S) \/ <<q, p>> \in Earlier(S)
  <2>1. p[1] # q[1] \/ p[2] # q[2]
    BY <1>1, <1>4
  <2>2. QED
    BY <2>1, <1>1, <1>2
<1>5. ASSUME NEW p \in S, NEW q \in S, NEW r \in S,
             <<p, q>> \in Earlier(S), <<q, r>> \in Earlier(S)
      PROVE  <<p, r>> \in Earlier(S)
  BY <1>1, <1>2, <1>5
<1>6. QED
  BY <1>3, <1>4, <1>5 DEF IsOrderOf

(* What is kept of all that was found is some of it. *)
LEMMA FirstAreFound ==
  ASSUME NEW found, DOMAIN found \in SUBSET (Nat \X Nat), IsFiniteSet(DOMAIN found)
  PROVE  /\ \E n \in Nat : DOMAIN FirstOfEach(found) = 1 .. n
         /\ FirstOfEach(found) = [k \in DOMAIN FirstOfEach(found) |-> FirstOfEach(found)[k]]
         /\ \A k \in DOMAIN FirstOfEach(found) :
              \E p \in DOMAIN found : FirstOfEach(found)[k] = found[p]
<1> DEFINE first == {p \in DOMAIN found :
                       \A q \in DOMAIN found :
                         <<q, p>> \in Earlier(DOMAIN found) => found[q].of # found[p].of}
           N == Min({Cardinality(first), DocumentLimit})
<1>1. IsFiniteSet(first) /\ first \in SUBSET DOMAIN found
  BY FS_Subset
<1>2. Sorted(first, Earlier(first)) \in [1 .. Cardinality(first) -> first]
  BY <1>1, EarlierIsOrder, SortedLists
<1>3. Cardinality(first) \in Nat
  BY <1>1, FS_CardinalityType
<1>4. FirstOfEach(found) = [k \in 1 .. N |-> found[Sorted(first, Earlier(first))[k]]]
  BY Zenon DEF FirstOfEach
<1> HIDE DEF first
<1>5. N \in Nat /\ N <= Cardinality(first)
  <2>1. \E x \in {Cardinality(first), DocumentLimit} :
          \A y \in {Cardinality(first), DocumentLimit} : x <= y
    BY <1>3 DEF DocumentLimit
  <2>2. N \in {Cardinality(first), DocumentLimit}
        /\ \A y \in {Cardinality(first), DocumentLimit} : N <= y
    BY <2>1 DEF Min
  <2>3. QED
    BY <2>2, <1>3 DEF DocumentLimit
<1> HIDE DEF N
<1>6. \A k \in 1 .. N : Sorted(first, Earlier(first))[k] \in DOMAIN found
  BY <1>1, <1>2, <1>3, <1>5
<1>7. QED
  BY <1>4, <1>5, <1>6

(* What a source tells are documents, the command line its own. *)
LEMMA SourcesTellDocuments ==
  ASSUME NEW context \in Context, NEW app, NEW source \in Source
  PROVE  /\ From(source, app, context) \in Seq(Document)
         /\ source = "cmdline" =>
              \A k \in DOMAIN From(source, app, context) :
                \E n \in DOMAIN context.cmdline :
                  context.cmdline[n].of = From(source, app, context)[k]
<1> DEFINE words == context.cmdline
           recent == context.recent
<1>1. /\ words \in Seq(CommandWord) /\ context.openFiles \in Seq(Document)
      /\ recent \in Seq(RecentEntry) /\ context.history \in Seq(Document)
  BY DEF Context
<1>2. CASE source = "cmdline"
  <2>1. PICK P \in SUBSET DOMAIN words : FromCommandLine(context) = Each(EntriesAt(words, P))
    BY DEF FromCommandLine
  <2>2. /\ EntriesAt(words, P) \in Seq(CommandWord)
        /\ \A k \in DOMAIN EntriesAt(words, P) : \E n \in P : EntriesAt(words, P)[k] = words[n]
    BY <1>1, EntriesAtPlaces
  <2>3. /\ From(source, app, context) = [k \in DOMAIN EntriesAt(words, P) |-> EntriesAt(words, P)[k].of]
    BY <1>2, <2>1 DEF From, Each
  <2>4. \A k \in DOMAIN EntriesAt(words, P) : EntriesAt(words, P)[k].of \in Document
    <3>1. \A word \in CommandWord : word.of \in Document
      BY DEF CommandWord
    <3>2. QED
      BY <2>2, <3>1
  <2>5. From(source, app, context) \in Seq(Document)
    BY <2>2, <2>3, <2>4
  <2>6. QED
    BY <2>2, <2>3, <2>5
<1>3. CASE source = "fd"
  <2>1. PICK P \in SUBSET DOMAIN context.openFiles :
          FromDescriptors(context) = EntriesAt(context.openFiles, P)
    BY DEF FromDescriptors
  <2>2. QED
    BY <1>1, <1>3, <2>1, EntriesAtPlaces DEF From
<1>4. CASE source = "recent-files"
  <2>1. PICK P \in SUBSET DOMAIN recent : FromRecent(app, context) = Each(EntriesAt(recent, P))
    BY DEF FromRecent
  <2>2. EntriesAt(recent, P) \in Seq(RecentEntry)
    BY <1>1, EntriesAtPlaces
  <2>3. \A k \in DOMAIN EntriesAt(recent, P) : EntriesAt(recent, P)[k].of \in Document
    <3>1. \A entry \in RecentEntry : entry.of \in Document
      BY DEF RecentEntry
    <3>2. QED
      BY <2>2, <3>1
  <2>4. QED
    BY <1>4, <2>1, <2>2, <2>3 DEF From, Each
<1>5. CASE source = "app-history"
  BY <1>1, <1>5 DEF From
<1>6. QED
  BY <1>2, <1>3, <1>4, <1>5 DEF Source

(* Of so many lists there are so many places. *)
LEMMA PlacesAreFinite ==
  ASSUME NEW S, IsFiniteSet(S), NEW D, NEW f, \A s \in S : f[s] \in Seq(D)
  PROVE  IsFiniteSet(UNION {{s} \X DOMAIN f[s] : s \in S})
<1> DEFINE g == [s \in S |-> {s} \X DOMAIN f[s]]
           T == {g[s] : s \in S}
<1>1. g \in Surjection(S, T)
  BY DEF Surjection
<1>2. IsFiniteSet(T)
  BY <1>1, FS_Surjection
<1>3. \A s \in S : IsFiniteSet(g[s])
  <2> TAKE s \in S
  <2>1. IsFiniteSet(DOMAIN f[s])
    <3>1. DOMAIN f[s] = 1 .. Len(f[s]) /\ Len(f[s]) \in Nat
      OBVIOUS
    <3>2. QED
      BY <3>1, FS_Interval
  <2>2. QED
    BY <2>1, FS_Singleton, FS_Product
<1>4. \A P \in T : IsFiniteSet(P)
  BY <1>3
<1>5. IsFiniteSet(UNION T)
  BY <1>2, <1>4, FS_UNION
<1>6. T = {{s} \X DOMAIN f[s] : s \in S}
  OBVIOUS
<1>7. QED
  BY <1>5, <1>6

(* The documents of a window are told by a source, or by its title.        *)
LEMMA DocumentsAreFound ==
  ASSUME NEW context \in Context, NEW app, NEW name
  PROVE  /\ DocumentsFor(app, name, context) \in Seq(Found)
         /\ \A k \in DOMAIN DocumentsFor(app, name, context) :
              DocumentsFor(app, name, context)[k].source = "cmdline" =>
                \E n \in DOMAIN context.cmdline :
                  context.cmdline[n].of = DocumentsFor(app, name, context)[k].of
<1>1. CASE app \notin Adapted
  BY <1>1 DEF DocumentsFor
<1>2. CASE app \in Adapted
  <2> DEFINE sources == Sources[app]
             f == [s \in DOMAIN sources |-> From(sources[s], app, context)]
             places == UNION {{s} \X DOMAIN f[s] : s \in DOMAIN sources}
             found == [p \in places |-> [of |-> f[p[1]][p[2]], source |-> sources[p[1]]]]
  <2>1. sources \in Seq(Source)
    BY <1>2, DocumentAssumption
  <2>2. DOMAIN sources = 1 .. Len(sources) /\ Len(sources) \in Nat
    BY <2>1
  <2>3. AllFound(app, context) = found
    <3> DEFINE Told(s) == From(sources[s], app, context)
               U == UNION {{s} \X DOMAIN Told(s) : s \in DOMAIN sources}
    <3>1. AllFound(app, context) =
            [p \in U |-> [of |-> Told(p[1])[p[2]], source |-> sources[p[1]]]]
      BY Zenon DEF AllFound
    <3>2. \A s \in DOMAIN sources : f[s] = Told(s)
      OBVIOUS
    <3> HIDE DEF Told, f, sources
    <3>3. {{s} \X DOMAIN f[s] : s \in DOMAIN sources}
            = {{s} \X DOMAIN Told(s) : s \in DOMAIN sources}
      BY <3>2
    <3>4. places = U
      BY <3>3, Zenon
    <3>5. \A p \in U : p[1] \in DOMAIN sources
      OBVIOUS
    <3> HIDE DEF U, places
    <3>6. QED
      BY <3>1, <3>2, <3>4, <3>5
  <2>4. \A s \in DOMAIN sources :
          /\ sources[s] \in Source /\ f[s] \in Seq(Document)
          /\ sources[s] = "cmdline" =>
               \A k \in DOMAIN f[s] :
                 \E n \in DOMAIN context.cmdline : context.cmdline[n].of = f[s][k]
    BY <2>1, SourcesTellDocuments
  <2> HIDE DEF f, sources
  <2>5. IsFiniteSet(places)
    <3>1. IsFiniteSet(DOMAIN sources)
      BY <2>2, FS_Interval
    <3>2. QED
      BY <2>4, <3>1, PlacesAreFinite
  <2>6. \A p \in places : p[1] \in DOMAIN sources /\ p[2] \in DOMAIN f[p[1]]
    OBVIOUS
  <2>7. places \in SUBSET (Nat \X Nat)
    BY <2>2, <2>4
  <2> HIDE DEF places
  <2>8. \A p \in places :
          /\ found[p] \in Found
          /\ found[p].source = "cmdline" =>
               \E n \in DOMAIN context.cmdline : context.cmdline[n].of = found[p].of
    BY <2>4, <2>6 DEF Found
  <2>9. DOMAIN found = places
    OBVIOUS
  <2> HIDE DEF found
  <2>10. /\ \E n \in Nat : DOMAIN FirstOfEach(found) = 1 .. n
         /\ FirstOfEach(found) = [k \in DOMAIN FirstOfEach(found) |-> FirstOfEach(found)[k]]
         /\ \A k \in DOMAIN FirstOfEach(found) :
              \E p \in DOMAIN found : FirstOfEach(found)[k] = found[p]
    BY <2>5, <2>7, <2>9, FirstAreFound
  <2>11. FirstOfEach(found) \in Seq(Found)
    BY <2>8, <2>9, <2>10
  <2>12. CASE FirstOfEach(found) = <<>> /\ app \in HasTitlePattern /\ name \in Document
    <3>1. DocumentsFor(app, name, context) = <<[of |-> name, source |-> "title"]>>
      BY <1>2, <2>3, <2>12 DEF DocumentsFor
    <3>2. QED
      BY <2>12, <3>1 DEF Found
  <2>13. CASE ~ (FirstOfEach(found) = <<>> /\ app \in HasTitlePattern /\ name \in Document)
    <3>1. DocumentsFor(app, name, context) = FirstOfEach(found)
      BY <1>2, <2>3, <2>13 DEF DocumentsFor
    <3>2. QED
      BY <2>8, <2>9, <2>10, <2>11, <3>1
  <2>14. QED
    BY <2>12, <2>13
<1>3. QED
  BY <1>1, <1>2

(* Those of a snapshot are besides not excluded, but for a name.           *)
LEMMA RecordedDocuments ==
  ASSUME NEW context \in Context, NEW app, NEW name, NEW documents,
         documents = WindowDocuments(app, name, context)
  PROVE  /\ documents \in Seq(Found)
         /\ \A k \in DOMAIN documents :
              /\ documents[k].source # "title" => documents[k].of \notin ExcludedDocument
              /\ documents[k].source = "cmdline" =>
                   \E n \in DOMAIN context.cmdline :
                     context.cmdline[n].of = documents[k].of
<1> DEFINE found == DocumentsFor(app, name, context)
           P == {k \in DOMAIN found :
                   found[k].source = "title" \/ found[k].of \notin ExcludedDocument}
<1>1. documents = EntriesAt(found, P)
  BY Zenon DEF WindowDocuments
<1>2. found \in Seq(Found) /\ P \in SUBSET DOMAIN found
  BY DocumentsAreFound
<1>3. /\ documents \in Seq(Found)
      /\ \A k \in DOMAIN documents : \E n \in P : documents[k] = found[n]
  <2> HIDE DEF found, P
  <2>1. QED
    BY <1>1, <1>2, EntriesAtPlaces
<1>4. \A n \in P :
        /\ found[n].source # "title" => found[n].of \notin ExcludedDocument
        /\ found[n].source = "cmdline" =>
             \E m \in DOMAIN context.cmdline : context.cmdline[m].of = found[n].of
  BY DocumentsAreFound
<1> HIDE DEF found, P
<1>5. QED
  BY <1>3, <1>4

(* A list says where its windows are, if it is sure.                       *)
ListedIsRight ==
  \A w \in DOMAIN listing :
    listing[w].sure => listing[w].connector = listing[w].on /\ listing[w].on \in Connector

(* What a record is when one of its fields is another.                     *)
LEMMA WithTabs ==
  ASSUME NEW r \in RecordedWindow, NEW tabs \in Seq(Tab), NEW n,
         n = [r EXCEPT !.tabs = tabs]
  PROVE  /\ n \in RecordedWindow
         /\ n.of = r.of /\ n.monitor = r.monitor /\ n.tabs = tabs
         /\ n.documents = r.documents /\ n.browser = r.browser
BY DEF RecordedWindow

(* The same of its documents. *)
LEMMA WithFound ==
  ASSUME NEW r \in RecordedWindow, NEW documents \in Seq(Found), NEW n,
         n = [r EXCEPT !.documents = documents]
  PROVE  /\ n \in RecordedWindow
         /\ n.of = r.of /\ n.monitor = r.monitor /\ n.tabs = r.tabs
         /\ n.documents = documents /\ n.browser = r.browser
BY DEF RecordedWindow

(* The same of its tabs in a browser. *)
LEMMA WithBlock ==
  ASSUME NEW r \in RecordedWindow, NEW b \in BrowserBlock, NEW n,
         n = [r EXCEPT !.browser = <<b>>]
  PROVE  /\ n \in RecordedWindow
         /\ n.of = r.of /\ n.monitor = r.monitor /\ n.tabs = r.tabs
         /\ n.documents = r.documents /\ n.browser = <<b>>
<1>1. <<b>> \in {<<>>} \cup {<<c>> : c \in BrowserBlock}
  OBVIOUS
<1>2. QED
  BY <1>1 DEF RecordedWindow

-----------------------------------------------------------------------------
(* What may be recorded of a window.                                       *)
IsAllowed(r, window) ==
  /\ ~IsExcluded(window)
  /\ \A i \in DOMAIN r.tabs : r.tabs[i].cwd \notin ExcludedPlace
  /\ \A i \in DOMAIN r.documents :
       r.documents[i].source # "title" => r.documents[i].of \notin ExcludedDocument
  /\ \A i \in DOMAIN r.browser :
       /\ window.title \in PrivateTitle => r.browser[i].tabs = <<>>
       /\ \A j \in DOMAIN r.browser[i].tabs : r.browser[i].tabs[j] \notin ExcludedUrl

(* Whether what the command line is said to tell is on it.                 *)
IsTold(r, window) ==
  \A i \in DOMAIN r.documents : r.documents[i].source = "cmdline" =>
    \E n \in DOMAIN window.cmdline : window.cmdline[n].of = r.documents[i].of

(* It is for every window of the snapshot. *)
CommandLinesTold == \A k \in DOMAIN content : IsTold(content[k], WindowAt(k))

(* Nothing is excluded of what may be recorded. *)
LEMMA AllowedIsNotExcluded ==
  (\A k \in DOMAIN content : IsAllowed(content[k], scene.windows[content[k].of]))
    <=> ExcludedStaysOut
BY DEF IsAllowed, ExcludedStaysOut, WindowAt, LooksPrivate

(* Windows stay the ones they are while more is found out about them.      *)
LEMMA FilledInKeeps ==
  ASSUME ContentTypes, MonitorIsRight, ListedIsRight, ExcludedStaysOut, CommandLinesTold,
         listing' = listing, scene' = scene,
         content' = [k \in DOMAIN content |-> content'[k]],
         \A k \in DOMAIN content :
           /\ content'[k] \in RecordedWindow
           /\ content'[k].of = content[k].of /\ content'[k].monitor = content[k].monitor
           /\ IsAllowed(content[k], scene.windows[content[k].of])
                => IsAllowed(content'[k], scene.windows[content[k].of])
           /\ IsTold(content[k], scene.windows[content[k].of])
                => IsTold(content'[k], scene.windows[content[k].of]),
         left' \in SUBSET left, left' # {} => at' = "terminals"
  PROVE  /\ ContentTypes' /\ MonitorIsRight' /\ ListedIsRight'
         /\ ExcludedStaysOut' /\ CommandLinesTold'
<1>1. content' \in Seq(RecordedWindow) /\ DOMAIN content' = DOMAIN content
  BY DEF ContentTypes
<1>2. ContentTypes'
  BY <1>1 DEF ContentTypes
<1>3. MonitorIsRight'
  BY <1>1 DEF MonitorIsRight
<1>4. ListedIsRight'
  BY DEF ListedIsRight
<1>5. \A k \in DOMAIN content : IsAllowed(content[k], scene.windows[content[k].of])
  BY AllowedIsNotExcluded
<1>6. \A k \in DOMAIN content' : IsAllowed(content'[k], scene'.windows[content'[k].of])
  BY <1>1, <1>5
<1>7. ExcludedStaysOut'
  BY <1>6 DEF IsAllowed, ExcludedStaysOut, WindowAt, LooksPrivate
<1>8. CommandLinesTold'
  BY <1>1 DEF CommandLinesTold, WindowAt
<1>9. QED
  BY <1>2, <1>3, <1>4, <1>7, <1>8

(* The windows that are kept are on the list and not excluded. *)
LEMMA CaptureKeeps ==
  ASSUME ContentTypes, MonitorTypes, ListedIsRight, Capture, scene' = scene
  PROVE  /\ ContentTypes' /\ MonitorIsRight' /\ ListedIsRight'
         /\ ExcludedStaysOut' /\ CommandLinesTold'
<1> DEFINE P == {w \in DOMAIN listing : IsRestorable(scene.windows[w])
                                        /\ ~IsExcluded(scene.windows[w])}
           kept == InOrder(P)
<1>1. /\ content' = [k \in DOMAIN kept |-> Recorded(kept[k], MonitorOf(listing[kept[k]]))]
      /\ left' = {k \in DOMAIN kept : IsTerminal(scene.windows[kept[k]])}
      /\ listing' = listing /\ at' = "terminals"
  BY DEF Capture
<1>2. scene.windows \in Seq(WindowInfo) /\ P \in SUBSET DOMAIN scene.windows
  BY SceneAssumption DEF ContentTypes
<1>3. /\ Cardinality(P) \in Nat /\ DOMAIN kept = 1 .. Cardinality(P)
      /\ kept \in [1 .. Cardinality(P) -> P]
      /\ \A j, k \in DOMAIN kept : kept[j] = kept[k] => j = k
  <2> HIDE DEF P
  <2>1. QED
    BY <1>2, PlacesList
<1>4. \A k \in DOMAIN kept :
        /\ kept[k] \in DOMAIN listing /\ kept[k] \in Nat
        /\ ~IsExcluded(scene.windows[kept[k]])
  <2>1. \A k \in DOMAIN kept : kept[k] \in P
    BY <1>3
  <2>2. P \in SUBSET Nat
    BY <1>2
  <2>3. QED
    BY <2>1, <2>2
<1> HIDE DEF kept
<1>5. \A w \in DOMAIN listing : MonitorOf(listing[w]) \in Connector \cup {NoConnector}
  BY ConnectorsAreTold DEF MonitorOf, ContentTypes
<1>6. \A k \in DOMAIN kept :
        /\ content'[k] = Recorded(kept[k], MonitorOf(listing[kept[k]]))
        /\ content'[k].of = kept[k] /\ content'[k].monitor = MonitorOf(listing[kept[k]])
        /\ content'[k].tabs = <<>> /\ content'[k].documents = <<>> /\ content'[k].browser = <<>>
        /\ content'[k] \in RecordedWindow
  BY <1>1, <1>4, <1>5 DEF Recorded, RecordedWindow
<1>7. content' \in Seq(RecordedWindow) /\ DOMAIN content' = DOMAIN kept
  <2>1. PICK n \in Nat : DOMAIN kept = 1 .. n
    BY <1>3
  <2>2. content' = [k \in 1 .. n |-> content'[k]]
    BY <1>1, <2>1
  <2>3. QED
    BY <1>6, <2>1, <2>2
<1>8. ContentTypes'
  BY <1>1, <1>3, <1>4, <1>6, <1>7 DEF ContentTypes
<1>9. MonitorIsRight' /\ ListedIsRight'
  BY <1>1, <1>4, <1>6, <1>7, LayoutAssumption DEF MonitorIsRight, ListedIsRight, MonitorOf
<1>10. ExcludedStaysOut'
  BY <1>4, <1>6, <1>7 DEF ExcludedStaysOut, WindowAt, IsExcluded
<1>11. CommandLinesTold'
  BY <1>6, <1>7 DEF CommandLinesTold, IsTold
<1>12. QED
  BY <1>8, <1>9, <1>10, <1>11

(* The tabs of a terminal. *)
LEMMA AttachTerminalKeeps ==
  ASSUME ContentTypes, MonitorIsRight, ListedIsRight, ExcludedStaysOut,
         CommandLinesTold, tree \in Seq(Node), AttachTerminal, scene' = scene
  PROVE  /\ ContentTypes' /\ MonitorIsRight' /\ ListedIsRight'
         /\ ExcludedStaysOut' /\ CommandLinesTold'
<1>1. PICK k \in left : content' = [content EXCEPT ![k].tabs = TerminalBlock]
                        /\ left' = left \ {k}
  BY DEF AttachTerminal
<1>2. listing' = listing /\ at' = at
  BY DEF AttachTerminal
<1>3. PICK block : block = TerminalBlock
  OBVIOUS
<1>4. block \in Seq(Tab) /\ \A i \in DOMAIN block : block[i].cwd \notin ExcludedPlace
  BY <1>3, TabsAreTabs
<1>5. k \in DOMAIN content /\ \A j \in DOMAIN content : content[j] \in RecordedWindow
  BY DEF ContentTypes
<1>6. PICK new : new = [content[k] EXCEPT !.tabs = block]
  OBVIOUS
<1>7. /\ new \in RecordedWindow
      /\ new.of = content[k].of /\ new.monitor = content[k].monitor /\ new.tabs = block
      /\ new.documents = content[k].documents /\ new.browser = content[k].browser
  BY <1>4, <1>5, <1>6, WithTabs
<1>8. content' = [j \in DOMAIN content |-> IF j = k THEN new ELSE content[j]]
  BY <1>1, <1>3, <1>5, <1>6
<1>9. \A window : /\ IsAllowed(content[k], window) => IsAllowed(new, window)
                  /\ IsTold(content[k], window) => IsTold(new, window)
  BY <1>4, <1>7 DEF IsAllowed, IsTold
<1>10. \A j \in DOMAIN content :
         /\ content'[j] \in RecordedWindow
         /\ content'[j].of = content[j].of /\ content'[j].monitor = content[j].monitor
         /\ IsAllowed(content[j], scene.windows[content[j].of])
              => IsAllowed(content'[j], scene.windows[content[j].of])
         /\ IsTold(content[j], scene.windows[content[j].of])
              => IsTold(content'[j], scene.windows[content[j].of])
  BY <1>5, <1>7, <1>8, <1>9
<1>11. left' \in SUBSET left /\ (left' # {} => at' = "terminals")
  BY <1>1, <1>2 DEF ContentTypes
<1>12. content' = [j \in DOMAIN content |-> content'[j]]
  BY <1>8
<1>13. QED
  BY <1>2, <1>10, <1>11, <1>12, FilledInKeeps

(* The documents of every window. *)
LEMMA EnrichDocumentsKeeps ==
  ASSUME ContentTypes, MonitorIsRight, ListedIsRight, ExcludedStaysOut, CommandLinesTold,
         EnrichDocuments, scene' = scene
  PROVE  /\ ContentTypes' /\ MonitorIsRight' /\ ListedIsRight'
         /\ ExcludedStaysOut' /\ CommandLinesTold'
<1>1. /\ content' = [k \in DOMAIN content |->
           [content[k] EXCEPT !.documents =
              WindowDocuments(WindowAt(k).app, WindowAt(k).name, ContextOf(WindowAt(k)))]]
      /\ listing' = listing /\ left' = {}
  BY DEF EnrichDocuments
<1>2. ASSUME NEW k \in DOMAIN content
      PROVE  /\ content'[k] \in RecordedWindow
             /\ content'[k].of = content[k].of /\ content'[k].monitor = content[k].monitor
             /\ IsAllowed(content[k], scene.windows[content[k].of])
                  => IsAllowed(content'[k], scene.windows[content[k].of])
             /\ IsTold(content[k], scene.windows[content[k].of])
                  => IsTold(content'[k], scene.windows[content[k].of])
  <2>1. /\ content[k] \in RecordedWindow /\ WindowAt(k) \in WindowInfo
        /\ WindowAt(k) = scene.windows[content[k].of] /\ scene \in Scenes
    BY RecordedIsThere DEF ContentTypes
  <2>2. PICK context : context = ContextOf(WindowAt(k))
    OBVIOUS
  <2>3. context \in Context /\ context.cmdline = WindowAt(k).cmdline
    BY <2>1, <2>2, SceneAssumption DEF ContextOf, Context, WindowInfo
  <2>4. PICK documents :
          documents = WindowDocuments(WindowAt(k).app, WindowAt(k).name, context)
    OBVIOUS
  <2>5. /\ documents \in Seq(Found)
        /\ \A i \in DOMAIN documents :
             /\ documents[i].source # "title" => documents[i].of \notin ExcludedDocument
             /\ documents[i].source = "cmdline" =>
                  \E n \in DOMAIN context.cmdline : context.cmdline[n].of = documents[i].of
    BY <2>3, <2>4, RecordedDocuments
  <2>6. PICK new : new = [content[k] EXCEPT !.documents = documents]
    OBVIOUS
  <2>7. /\ new \in RecordedWindow
        /\ new.of = content[k].of /\ new.monitor = content[k].monitor
        /\ new.tabs = content[k].tabs /\ new.documents = documents
        /\ new.browser = content[k].browser
    BY <2>1, <2>5, <2>6, WithFound
  <2>8. content'[k] = new
    BY <1>1, <2>2, <2>4, <2>6
  <2>9. \A window : IsAllowed(content[k], window) => IsAllowed(new, window)
    BY <2>5, <2>7 DEF IsAllowed
  <2>10. IsTold(new, scene.windows[content[k].of])
    BY <2>1, <2>3, <2>5, <2>7 DEF IsTold
  <2>11. QED
    BY <2>7, <2>8, <2>9, <2>10
<1>3. content' = [k \in DOMAIN content |-> content'[k]]
  BY <1>1
<1>4. left' \in SUBSET left /\ (left' # {} => at' = "terminals")
  BY <1>1
<1>5. QED
  BY <1>1, <1>2, <1>3, <1>4, FilledInKeeps

(* A block of tabs for some windows. *)
LEMMA BlocksKeep ==
  ASSUME ContentTypes, MonitorIsRight, ListedIsRight, ExcludedStaysOut, CommandLinesTold,
         listing' = listing, scene' = scene, left' = left, at # "terminals",
         NEW S \in SUBSET DOMAIN content, NEW block,
         content' = [k \in DOMAIN content |->
                       IF k \in S THEN [content[k] EXCEPT !.browser = <<block[k]>>]
                       ELSE content[k]],
         \A k \in S :
           /\ block[k] \in BrowserBlock
           /\ LooksPrivate(k) => block[k].tabs = <<>>
           /\ \A j \in DOMAIN block[k].tabs : block[k].tabs[j] \notin ExcludedUrl
  PROVE  /\ ContentTypes' /\ MonitorIsRight' /\ ListedIsRight'
         /\ ExcludedStaysOut' /\ CommandLinesTold'
<1>1. ASSUME NEW k \in DOMAIN content
      PROVE  /\ content'[k] \in RecordedWindow
             /\ content'[k].of = content[k].of /\ content'[k].monitor = content[k].monitor
             /\ IsAllowed(content[k], scene.windows[content[k].of])
                  => IsAllowed(content'[k], scene.windows[content[k].of])
             /\ IsTold(content[k], scene.windows[content[k].of])
                  => IsTold(content'[k], scene.windows[content[k].of])
  <2>1. content[k] \in RecordedWindow /\ WindowAt(k) = scene.windows[content[k].of]
    BY RecordedIsThere
  <2>2. CASE k \notin S
    BY <2>1, <2>2
  <2>3. CASE k \in S
    <3>1. PICK b \in BrowserBlock : b = block[k]
      BY <2>3
    <3>2. PICK new : new = [content[k] EXCEPT !.browser = <<b>>]
      OBVIOUS
    <3>3. /\ new \in RecordedWindow
          /\ new.of = content[k].of /\ new.monitor = content[k].monitor
          /\ new.tabs = content[k].tabs /\ new.documents = content[k].documents
          /\ new.browser = <<b>>
      BY <2>1, <3>2, WithBlock
    <3>4. content'[k] = new
      BY <2>3, <3>1, <3>2
    <3>5. /\ scene.windows[content[k].of].title \in PrivateTitle => b.tabs = <<>>
          /\ \A j \in DOMAIN b.tabs : b.tabs[j] \notin ExcludedUrl
      BY <2>1, <2>3, <3>1 DEF LooksPrivate
    <3>6. \A i \in DOMAIN new.browser : new.browser[i] = b
      BY <3>3
    <3>7. IsAllowed(content[k], scene.windows[content[k].of])
            => IsAllowed(new, scene.windows[content[k].of])
      BY <3>3, <3>5, <3>6 DEF IsAllowed
    <3>8. IsTold(content[k], scene.windows[content[k].of])
            => IsTold(new, scene.windows[content[k].of])
      BY <3>3 DEF IsTold
    <3>9. QED
      BY <3>3, <3>4, <3>7, <3>8
  <2>4. QED
    BY <2>2, <2>3
<1>2. content' = [k \in DOMAIN content |-> content'[k]]
  OBVIOUS
<1>3. left' \in SUBSET left /\ (left' # {} => at' = "terminals")
  BY DEF ContentTypes
<1>4. QED
  BY <1>1, <1>2, <1>3, FilledInKeeps

(* Nothing is known of the tabs. *)
LEMMA NoCorrelationKeeps ==
  ASSUME ContentTypes, MonitorIsRight, ListedIsRight, ExcludedStaysOut, CommandLinesTold,
         NoCorrelation, scene' = scene
  PROVE  /\ ContentTypes' /\ MonitorIsRight' /\ ListedIsRight'
         /\ ExcludedStaysOut' /\ CommandLinesTold'
<1> DEFINE S == {k \in DOMAIN content : BrowsersEnabled /\ IsBrowser(k)}
           block == [k \in S |-> UnknownBlock]
<1>1. content' = [k \in DOMAIN content |->
                    IF k \in S THEN [content[k] EXCEPT !.browser = <<block[k]>>]
                    ELSE content[k]]
  BY DEF NoCorrelation
<1>2. \A k \in S : /\ block[k] \in BrowserBlock /\ block[k].tabs = <<>>
                   /\ \A j \in DOMAIN block[k].tabs : block[k].tabs[j] \notin ExcludedUrl
  BY DEF UnknownBlock, BrowserBlock
<1>3. S \in SUBSET DOMAIN content
  OBVIOUS
<1>4. listing' = listing /\ left' = left /\ at # "terminals"
  BY DEF NoCorrelation
<1> HIDE DEF S, block
<1>5. QED
  BY <1>1, <1>2, <1>3, <1>4, BlocksKeep

(* No tab set has an excluded address in it.                               *)
BlocksAllowed ==
  \A i \in DOMAIN blocks : \A j \in DOMAIN blocks[i].tabs :
    blocks[i].tabs[j] \notin ExcludedUrl

(* The windows that are correlated. *)
LEMMA CorrelatedAreBrowsers ==
  ASSUME ContentTypes
  PROVE  /\ \E n \in Nat : DOMAIN CorrelatedWindows = 1 .. n
         /\ \A i \in DOMAIN CorrelatedWindows :
              /\ CorrelatedWindows[i] \in DOMAIN content
              /\ IsBrowser(CorrelatedWindows[i]) /\ ~LooksPrivate(CorrelatedWindows[i])
<1> DEFINE P == {k \in DOMAIN content : IsCorrelated(k)}
<1>1. content \in Seq(RecordedWindow) /\ P \in SUBSET DOMAIN content
  BY DEF ContentTypes
<1>2. CorrelatedWindows = InOrder(P)
  BY DEF CorrelatedWindows
<1>3. \A k \in P : k \in DOMAIN content /\ IsBrowser(k) /\ ~LooksPrivate(k)
  BY DEF IsCorrelated
<1> HIDE DEF P
<1>4. /\ Cardinality(P) \in Nat /\ DOMAIN InOrder(P) = 1 .. Cardinality(P)
      /\ InOrder(P) \in Seq(P)
  BY <1>1, PlacesList
<1>5. \A i \in DOMAIN InOrder(P) : InOrder(P)[i] \in P
  BY <1>4
<1>6. QED
  BY <1>2, <1>3, <1>4, <1>5

(* What is left of a report has no excluded address in it. *)
LEMMA ReportsAreAllowed ==
  ASSUME NEW report \in WindowReport, NEW i \in DOMAIN AsBlock(report).tabs
  PROVE  AsBlock(report).tabs[i] \notin ExcludedUrl
<1> DEFINE P == {k \in DOMAIN report.tabs : report.tabs[k].url \notin ExcludedUrl}
<1>1. report.tabs \in Seq(Tabbed)
  BY DEF WindowReport
<1>2. WithoutExcludedUrls(report.tabs) = EntriesAt(report.tabs, P)
  BY DEF WithoutExcludedUrls
<1>3. AsBlock(report).tabs
        = [k \in DOMAIN EntriesAt(report.tabs, P) |-> EntriesAt(report.tabs, P)[k].url]
  BY <1>2 DEF AsBlock
<1>4. \A n \in P : report.tabs[n].url \notin ExcludedUrl
  OBVIOUS
<1>5. P \in SUBSET DOMAIN report.tabs
  OBVIOUS
<1> HIDE DEF P
<1>6. \A k \in DOMAIN EntriesAt(report.tabs, P) :
        \E n \in P : EntriesAt(report.tabs, P)[k] = report.tabs[n]
  BY <1>1, <1>5, EntriesAtPlaces
<1>7. QED
  BY <1>3, <1>4, <1>6

(* A correlation begins with the windows on screen and the reports. *)
LEMMA BeginCorrelationKeeps ==
  ASSUME ContentTypes, BeginCorrelation, scene' = scene
  PROVE  CorrelationInv' /\ BlocksAllowed' /\ ScreenIsOfContent'
<1>1. /\ screen' = [i \in DOMAIN CorrelatedWindows |->
           [title |-> WindowAt(CorrelatedWindows[i]).title,
            size |-> WindowAt(CorrelatedWindows[i]).size]]
      /\ blocks' = [i \in DOMAIN Reports |-> AsBlock(Reports[i])]
      /\ undecided' = TabCandidates' /\ pairs' = {} /\ content' = content
  BY DEF BeginCorrelation, contentVars
<1>2. screen' \in Seq(Seen)
  <2>1. PICK n \in Nat : DOMAIN CorrelatedWindows = 1 .. n
    BY CorrelatedAreBrowsers
  <2>2. ASSUME NEW i \in DOMAIN CorrelatedWindows
        PROVE  [title |-> WindowAt(CorrelatedWindows[i]).title,
                size |-> WindowAt(CorrelatedWindows[i]).size] \in Seen
    <3>1. WindowAt(CorrelatedWindows[i]) \in WindowInfo
      BY CorrelatedAreBrowsers, RecordedIsThere
    <3>2. QED
      BY <3>1 DEF WindowInfo, Seen
  <2>3. QED
    BY <1>1, <2>1, <2>2
<1>3. /\ Reports \in Seq(WindowReport)
      /\ \A i \in DOMAIN Reports : AsBlock(Reports[i]) \in Block
  BY SceneAssumption, ReportAssumption DEF ContentTypes, Reports
<1>4. blocks' \in Seq(Block)
  BY <1>1, <1>3
<1>5. BlocksAllowed'
  BY <1>1, <1>3, ReportsAreAllowed DEF BlocksAllowed
<1>6. TabsTypeOK'
  BY <1>1, <1>2, <1>4 DEF TabsTypeOK
<1>7. TabsFairlyGiven' /\ GivenInOrder'
  BY <1>1 DEF TabsFairlyGiven, OneTabSetEach, NoCoinToss, WithheldForReason, GivenInOrder
<1>8. ScreenIsOfContent'
  <2>1. CorrelatedWindows' = CorrelatedWindows
    BY <1>1 DEF CorrelatedWindows, IsCorrelated, IsBrowser, LooksPrivate, WindowAt
  <2>2. QED
    BY <1>1, <2>1 DEF ScreenIsOfContent
<1>9. QED
  BY <1>5, <1>6, <1>7, <1>8 DEF CorrelationInv

(* What a window is given is the tabs of one report, if it is correlated. *)
LEMMA GivenBlockIsOne ==
  ASSUME ContentTypes, ScreenIsOfContent, at = "correlating", TabsTypeOK, BlocksAllowed,
         NEW k \in DOMAIN content
  PROVE  /\ GivenBlock(k) \in BrowserBlock
         /\ LooksPrivate(k) => GivenBlock(k).tabs = <<>>
         /\ \A j \in DOMAIN GivenBlock(k).tabs : GivenBlock(k).tabs[j] \notin ExcludedUrl
<1> DEFINE given == {p \in pairs : CorrelatedWindows[p.of[1]] = k}
           p == CHOOSE q \in given : TRUE
<1>1. CASE given = {}
  <2>1. GivenBlock(k) = UnknownBlock
    BY <1>1 DEF GivenBlock
  <2>2. QED
    BY <2>1 DEF UnknownBlock, BrowserBlock
<1>2. CASE given # {}
  <2>1. p \in given
    BY <1>2
  <2>2. GivenBlock(k) = [tabs |-> blocks[p.of[2]].tabs, confidence |-> p.confidence]
    BY <1>2 DEF GivenBlock
  <2> HIDE DEF p
  <2>3. /\ p.of[1] \in DOMAIN screen /\ p.of[2] \in DOMAIN blocks
        /\ p.confidence \in 0 .. 100 /\ CorrelatedWindows[p.of[1]] = k
    BY <2>1 DEF TabsTypeOK
  <2>4. blocks[p.of[2]] \in Block
    BY <2>3 DEF TabsTypeOK
  <2>5. blocks[p.of[2]].tabs \in TabSet
    BY <2>4 DEF Block
  <2>6. GivenBlock(k) \in BrowserBlock
    BY <2>2, <2>3, <2>5 DEF BrowserBlock
  <2>7. ~LooksPrivate(k)
    BY <2>3, CorrelatedAreBrowsers DEF ScreenIsOfContent
  <2>8. GivenBlock(k).tabs = blocks[p.of[2]].tabs
    BY <2>2
  <2>9. QED
    BY <2>3, <2>6, <2>7, <2>8 DEF BlocksAllowed
<1>3. QED
  BY <1>1, <1>2

(* The tabs of every browser window. *)
LEMMA AttachTabsKeeps ==
  ASSUME ContentTypes, MonitorIsRight, ListedIsRight, ExcludedStaysOut, CommandLinesTold,
         ScreenIsOfContent, TabsTypeOK, BlocksAllowed, AttachTabs, scene' = scene
  PROVE  /\ ContentTypes' /\ MonitorIsRight' /\ ListedIsRight'
         /\ ExcludedStaysOut' /\ CommandLinesTold'
<1> DEFINE S == {k \in DOMAIN content : IsBrowser(k)}
           block == [k \in S |-> GivenBlock(k)]
<1>1. content' = [k \in DOMAIN content |->
                    IF k \in S THEN [content[k] EXCEPT !.browser = <<block[k]>>]
                    ELSE content[k]]
  BY DEF AttachTabs
<1>2. listing' = listing /\ left' = left /\ at = "correlating" /\ at # "terminals"
  BY DEF AttachTabs
<1>3. \A k \in S : /\ block[k] \in BrowserBlock
                   /\ LooksPrivate(k) => block[k].tabs = <<>>
                   /\ \A j \in DOMAIN block[k].tabs : block[k].tabs[j] \notin ExcludedUrl
  BY <1>2, GivenBlockIsOne
<1>4. S \in SUBSET DOMAIN content
  OBVIOUS
<1> HIDE DEF S, block
<1>5. QED
  BY <1>1, <1>2, <1>3, <1>4, BlocksKeep

(* The inductive invariant of a snapshot.                                  *)
ContentInv ==
  /\ TerminalInv /\ CorrelationInv
  /\ MonitorTypes /\ MapIsRight
  /\ ContentTypes /\ ListedIsRight /\ MonitorIsRight
  /\ ScreenIsOfContent /\ BlocksAllowed /\ ExcludedStaysOut /\ CommandLinesTold

(* Nothing is recorded in the beginning. *)
LEMMA ContentInvInit == Init => ContentInv
<1> SUFFICES ASSUME Init PROVE ContentInv
  OBVIOUS
<1>1. /\ scene \in Scenes /\ at = "idle"
      /\ listing = <<>> /\ content = <<>> /\ left = {}
      /\ StartCorrelation(<<>>, <<>>)
      /\ plugged = scene.plugged /\ showing = scene.showing
      /\ byIndex = <<>> /\ unanswered = 1 /\ unknown = FALSE
  BY Zenon DEF Init
<1>2. TerminalInv
  BY TerminalInvInit
<1>3. CorrelationInv
  <2>1. <<>> \in Seq(Seen) /\ <<>> \in Seq(Block)
    OBVIOUS
  <2>2. CorrelationInit
    BY <1>1, <2>1 DEF CorrelationInit
  <2>3. QED
    BY <2>2, CorrelationInvInit
<1>4. MonitorTypes /\ MapIsRight
  BY <1>1, SceneAssumption DEF MonitorTypes, MapIsRight
<1>5. ContentTypes
  BY <1>1 DEF ContentTypes
<1>6. ListedIsRight /\ MonitorIsRight /\ ExcludedStaysOut /\ CommandLinesTold
  BY <1>1 DEF ListedIsRight, MonitorIsRight, ExcludedStaysOut, CommandLinesTold
<1>7. ScreenIsOfContent /\ BlocksAllowed
  BY <1>1 DEF ScreenIsOfContent, BlocksAllowed, StartCorrelation
<1>8. QED
  BY <1>2, <1>3, <1>4, <1>5, <1>6, <1>7 DEF ContentInv

(* Where the windows are, if the extension knows. *)
LEMMA ListIsRight ==
  ASSUME ContentTypes, MonitorTypes, MapIsRight, ListWindows, scene' = scene
  PROVE  /\ ContentTypes' /\ MonitorIsRight' /\ ListedIsRight'
         /\ ExcludedStaysOut' /\ CommandLinesTold' /\ content' = <<>>
<1>1. /\ ContentTypes' /\ content' = <<>>
      /\ listing' = [w \in DOMAIN scene.windows |->
           [index |-> IndexOf(w), connector |-> ConnectorFor(IndexOf(w)),
            on |-> showing[w], sure |-> unanswered = 0 /\ ~unknown]]
  BY ListKeeps
<1>2. ASSUME NEW w \in DOMAIN scene.windows, unanswered = 0, ~unknown
      PROVE  ConnectorFor(IndexOf(w)) = showing[w] /\ showing[w] \in Connector
  <2>1. byIndex = plugged /\ plugged \in Seq(Connector)
    BY <1>2, LayoutAssumption DEF MapIsRight, MonitorTypes
  <2>2. \E i \in DOMAIN plugged : plugged[i] = showing[w]
    BY DEF MonitorTypes, ConnectorsOf
  <2>3. IndexOf(w) \in DOMAIN plugged /\ plugged[IndexOf(w)] = showing[w]
    BY <2>2 DEF IndexOf
  <2>4. QED
    BY <2>1, <2>3 DEF ConnectorFor
<1>3. ListedIsRight'
  <2> SUFFICES ASSUME NEW w \in DOMAIN scene.windows, listing'[w].sure
               PROVE  listing'[w].connector = listing'[w].on /\ listing'[w].on \in Connector
    BY <1>1 DEF ListedIsRight
  <2>1. listing'[w].connector = ConnectorFor(IndexOf(w)) /\ listing'[w].on = showing[w]
    BY <1>1
  <2>2. listing'[w].sure = (unanswered = 0 /\ ~unknown)
    BY <1>1, Zenon
  <2>3. unanswered = 0 /\ ~unknown
    BY <2>2, Zenon
  <2>4. QED
    BY <2>1, <2>3, <1>2
<1>4. MonitorIsRight' /\ ExcludedStaysOut' /\ CommandLinesTold'
  BY <1>1 DEF MonitorIsRight, ExcludedStaysOut, CommandLinesTold
<1>5. QED
  BY <1>1, <1>3, <1>4

(* Every step keeps the invariant. *)
LEMMA ContentInvNext == ContentInv /\ [Next]_vars => ContentInv'
<1> SUFFICES ASSUME ContentInv, [Next]_vars PROVE ContentInv'
  OBVIOUS
<1>1. scene' = scene /\ ContentStep
  BY StepsOfContent
<1>2. TerminalInv' /\ tree \in Seq(Node)
  BY TerminalInvNext DEF ContentInv, TerminalInv, ReaderTypes
<1>3. MonitorTypes' /\ MapIsRight'
  BY <1>1, StepsOfMonitors, MonitorStepKeeps DEF ContentInv
<1> DEFINE Kept == /\ ContentTypes' /\ MonitorIsRight' /\ ListedIsRight'
                   /\ ExcludedStaysOut' /\ CommandLinesTold'
           Correlated == CorrelationInv' /\ BlocksAllowed' /\ ScreenIsOfContent'
<1>4. ASSUME UNCHANGED tabVars, at' # "correlating" PROVE Correlated
  BY <1>4, CorrelationInvNext DEF ContentInv, BlocksAllowed, ScreenIsOfContent, tabVars
<1>5. CASE ListWindows
  <2>1. Kept
    BY <1>1, <1>5, ListIsRight DEF ContentInv
  <2>2. UNCHANGED tabVars /\ at' # "correlating"
    BY <1>5 DEF ListWindows
  <2>3. QED
    BY <1>2, <1>3, <1>4, <2>1, <2>2 DEF ContentInv
<1>6. CASE Capture
  <2>1. Kept
    BY <1>1, <1>6, CaptureKeeps DEF ContentInv
  <2>2. UNCHANGED tabVars /\ at' # "correlating"
    BY <1>6 DEF Capture
  <2>3. QED
    BY <1>2, <1>3, <1>4, <2>1, <2>2 DEF ContentInv
<1>7. CASE AttachTerminal
  <2>1. Kept
    BY <1>1, <1>2, <1>7, AttachTerminalKeeps DEF ContentInv
  <2>2. UNCHANGED tabVars /\ at' # "correlating"
    BY <1>7 DEF AttachTerminal, ContentInv
  <2>3. QED
    BY <1>2, <1>3, <1>4, <2>1, <2>2 DEF ContentInv
<1>8. CASE EnrichDocuments
  <2>1. Kept
    BY <1>1, <1>8, EnrichDocumentsKeeps DEF ContentInv
  <2>2. UNCHANGED tabVars /\ at' # "correlating"
    BY <1>8 DEF EnrichDocuments
  <2>3. QED
    BY <1>2, <1>3, <1>4, <2>1, <2>2 DEF ContentInv
<1>9. CASE NoCorrelation
  <2>1. Kept
    BY <1>1, <1>9, NoCorrelationKeeps DEF ContentInv
  <2>2. UNCHANGED tabVars /\ at' # "correlating"
    BY <1>9 DEF NoCorrelation
  <2>3. QED
    BY <1>2, <1>3, <1>4, <2>1, <2>2 DEF ContentInv
<1>10. CASE AttachTabs
  <2>1. Kept
    BY <1>1, <1>10, AttachTabsKeeps DEF ContentInv, CorrelationInv
  <2>2. Correlated
    BY <1>4, <1>10 DEF AttachTabs
  <2>3. QED
    BY <1>2, <1>3, <2>1, <2>2 DEF ContentInv
<1>11. ASSUME UNCHANGED <<listing, content, left>>, at = "terminals" => at' = at
       PROVE  Kept
  <2>1. ContentTypes'
    BY <1>1, <1>11 DEF ContentInv, ContentTypes
  <2>2. MonitorIsRight' /\ ListedIsRight'
    BY <1>11 DEF ContentInv, MonitorIsRight, ListedIsRight
  <2>3. ExcludedStaysOut' /\ CommandLinesTold'
    BY <1>1, <1>11 DEF ContentInv, ExcludedStaysOut, CommandLinesTold, WindowAt, LooksPrivate
  <2>4. QED
    BY <2>1, <2>2, <2>3
<1>12. CASE BeginCorrelation
  <2>1. Correlated
    BY <1>1, <1>12, BeginCorrelationKeeps DEF ContentInv
  <2>2. Kept
    BY <1>11, <1>12 DEF BeginCorrelation, contentVars
  <2>3. QED
    BY <1>2, <1>3, <2>1, <2>2 DEF ContentInv
<1>13. ASSUME UNCHANGED <<content, screen, blocks>>, at' = "correlating" => at = "correlating"
       PROVE  BlocksAllowed' /\ ScreenIsOfContent'
  <2>1. CorrelatedWindows' = CorrelatedWindows
    BY <1>1, <1>13 DEF CorrelatedWindows, IsCorrelated, IsBrowser, LooksPrivate, WindowAt
  <2>2. QED
    BY <1>13, <2>1 DEF ContentInv, ScreenIsOfContent, BlocksAllowed
<1>14. CASE Correlate
  <2>1. CorrelationInv'
    BY <1>14, CorrelationInvNext DEF ContentInv, Correlate
  <2>2. UNCHANGED <<screen, blocks>> /\ UNCHANGED <<listing, content, left>> /\ at' = at
    BY <1>14 DEF Correlate, CorrelationNext, Decide, GiveTheOnlyOne, contentVars
  <2>3. QED
    BY <1>2, <1>3, <1>11, <1>13, <2>1, <2>2 DEF ContentInv
<1>15. CASE /\ UNCHANGED <<listing, content, left, screen, blocks, undecided, pairs>>
            /\ (at' = "correlating" => at = "correlating") /\ (at = "terminals" => at' = at)
  <2>1. CorrelationInv'
    BY <1>15, CorrelationInvNext DEF ContentInv, tabVars
  <2>2. QED
    BY <1>2, <1>3, <1>11, <1>13, <1>15, <2>1 DEF ContentInv
<1>16. QED
  BY <1>1, <1>5, <1>6, <1>7, <1>8, <1>9, <1>10, <1>12, <1>14, <1>15 DEF ContentStep

-----------------------------------------------------------------------------
(* However monitors come and go and however late the answers are: a window *)
(* is recorded on the monitor it was on when it was listed, if the         *)
(* extension knew by then what is plugged in where (monitors.js:77).       *)
THEOREM MonitorIsRightAlways == Spec => []MonitorIsRight
<1>1. ContentInv => MonitorIsRight
  BY DEF ContentInv
<1>2. QED
  BY <1>1, ContentInvInit, ContentInvNext, PTL DEF Spec

(* Whatever the session has in it: what the user asked never to record is  *)
(* in no snapshot (capture.py:150-151, 193, 258, 308, 344).                *)
THEOREM ExcludedStaysOutAlways == Spec => []ExcludedStaysOut
<1>1. ContentInv => ExcludedStaysOut
  BY DEF ContentInv
<1>2. QED
  BY <1>1, ContentInvInit, ContentInvNext, PTL DEF Spec

(* The tabs of a snapshot are fairly given, whichever windows are          *)
(* correlated and whatever is left of the reports (capture.py:308).        *)
THEOREM SnapshotTabsFairlyGiven == Spec => []TabsFairlyGiven
<1>1. ContentInv => TabsFairlyGiven
  BY DEF ContentInv, CorrelationInv
<1>2. QED
  BY <1>1, ContentInvInit, ContentInvNext, PTL DEF Spec

-----------------------------------------------------------------------------
(* The plan                                                               *)

(* Where refresh() and the restore can be.                                 *)
Phases ==
  {"idle", "listed", "terminals", "browsers", "correlating", "vpn", "saved",
   "booted", "planning", "asking", "planned"}

(* The plan is of the snapshot, as long as it lasts.                       *)
PlanIsOfContent ==
  /\ at \in Phases /\ events \in Nat
  /\ IF at \in {"planning", "asking", "planned"}
     THEN \A k \in DOMAIN launches : \E m \in DOMAIN content : launches[k] = LaunchOf(m)
     ELSE launches = NoLaunch

(* The inductive invariant of a snapshot and the plan that is made of it.  *)
PlanInv == ContentInv /\ VpnInv /\ PlanIsOfContent

-----------------------------------------------------------------------------
(* What a source is worth. *)
LEMMA ConfidenceIsPerCent ==
  \A source \in Source \cup {"title"} :
    /\ ConfidenceOf(source) \in 0 .. 100
    /\ ConfidenceOf(source) >= 90 => source = "cmdline"
BY DEF Source, ConfidenceOf

(* A launch is as sure as the least sure of its documents. *)
LEMMA WeakestIsLeast ==
  ASSUME NEW documents \in Seq(Found), NEW otherwise \in 0 .. 100, NEW c,
         c = WeakestOf(documents, otherwise)
  PROVE  /\ c \in 0 .. 100 /\ c <= otherwise
         /\ \A k \in DOMAIN documents : c <= ConfidenceOf(documents[k].source)
<1> DEFINE T == {ConfidenceOf(documents[k].source) : k \in DOMAIN documents} \cup {otherwise}
<1>1. \A k \in DOMAIN documents : ConfidenceOf(documents[k].source) \in 0 .. 100
  <2> TAKE k \in DOMAIN documents
  <2>1. documents[k] \in Found
    OBVIOUS
  <2>2. documents[k].source \in Source \cup {"title"}
    BY <2>1 DEF Found
  <2>3. QED
    BY <2>2, ConfidenceIsPerCent
<1>2. T \in SUBSET Nat /\ T # {} /\ \A m \in T : m \in 0 .. 100
  <2>1. \A m \in T : m \in 0 .. 100
    BY <1>1
  <2>2. otherwise \in T
    OBVIOUS
  <2> HIDE DEF T
  <2>3. \A m \in T : m \in Nat
    <3>1. \A m \in 0 .. 100 : m \in Nat
      OBVIOUS
    <3>2. QED
      BY <2>1, <3>1
  <2>4. QED
    BY <2>1, <2>2, <2>3
<1>3. \E m \in T : \A k \in T : m <= k
  BY <1>2, LeastNatural
<1>4. \E m \in T : m <= otherwise
                   /\ \A k \in DOMAIN documents : m <= ConfidenceOf(documents[k].source)
  BY <1>3
<1>5. c = CHOOSE m \in T : m <= otherwise
            /\ \A k \in DOMAIN documents : m <= ConfidenceOf(documents[k].source)
  BY Zenon DEF WeakestOf
<1> HIDE DEF T
<1>6. c \in T /\ c <= otherwise
      /\ \A k \in DOMAIN documents : c <= ConfidenceOf(documents[k].source)
  BY <1>4, <1>5
<1>7. QED
  BY <1>2, <1>6

(* What can be opened is all that is more than a name. *)
LEMMA OpenableAreFound ==
  ASSUME NEW documents \in Seq(Found), NEW uris, uris = Openable(documents)
  PROVE  /\ \A i \in DOMAIN uris : \E n \in DOMAIN documents : uris[i] = documents[n].of
         /\ (\E n \in DOMAIN documents : documents[n].source # "title") => uris # <<>>
<1> DEFINE P == {k \in DOMAIN documents : documents[k].source # "title"}
<1>1. uris = [k \in DOMAIN EntriesAt(documents, P) |-> EntriesAt(documents, P)[k].of]
  BY DEF Openable, Each
<1>2. P \in SUBSET DOMAIN documents
  OBVIOUS
<1>3. (\E n \in DOMAIN documents : documents[n].source # "title") => P # {}
  OBVIOUS
<1> HIDE DEF P
<1>4. /\ \A k \in DOMAIN EntriesAt(documents, P) :
           \E n \in P : EntriesAt(documents, P)[k] = documents[n]
      /\ \A n \in P : \E k \in DOMAIN EntriesAt(documents, P) :
           EntriesAt(documents, P)[k] = documents[n]
  BY <1>2, EntriesAtPlaces
<1>5. P # {} => uris # <<>>
  <2> SUFFICES ASSUME P # {} PROVE uris # <<>>
    OBVIOUS
  <2>1. PICK k \in DOMAIN EntriesAt(documents, P) : TRUE
    BY <1>4
  <2>2. k \in DOMAIN uris
    BY <1>1
  <2>3. QED
    BY <2>2
<1>6. QED
  BY <1>1, <1>2, <1>3, <1>4, <1>5

(* The confidence of a launch is per cent. *)
LEMMA LaunchIsSure ==
  ASSUME ContentTypes, NEW m \in DOMAIN content
  PROVE  /\ LaunchOf(m).confidence \in 0 .. 100
         /\ LaunchOf(m).of = content[m].of
         /\ LaunchOf(m).uris = Openable(content[m].documents)
         /\ LaunchOf(m).confidence >= 90 =>
              /\ LaunchOf(m).monitor = content[m].monitor /\ KeepsMonitor(content[m].monitor)
              /\ \A i \in DOMAIN content[m].documents :
                   content[m].documents[i].source = "cmdline"
<1>1. content[m].documents \in Seq(Found)
  BY RecordedIsThere DEF RecordedWindow
<1>2. PICK otherwise \in 0 .. 100 :
        otherwise = IF KeepsMonitor(content[m].monitor) THEN Certain ELSE Elsewhere
  BY DEF Certain, Elsewhere
<1>3. PICK c : c = WeakestOf(content[m].documents, otherwise)
  OBVIOUS
<1>4. /\ LaunchOf(m).of = content[m].of
      /\ LaunchOf(m).monitor = IF KeepsMonitor(content[m].monitor) THEN content[m].monitor
                               ELSE NoConnector
      /\ LaunchOf(m).uris = Openable(content[m].documents)
      /\ LaunchOf(m).confidence = c
  BY <1>2, <1>3 DEF LaunchOf
<1>5. /\ c \in 0 .. 100 /\ c <= otherwise
      /\ \A k \in DOMAIN content[m].documents :
           c <= ConfidenceOf(content[m].documents[k].source)
  BY <1>1, <1>3, WeakestIsLeast
<1>6. ASSUME c >= 90
      PROVE  /\ KeepsMonitor(content[m].monitor)
             /\ \A i \in DOMAIN content[m].documents :
                  content[m].documents[i].source = "cmdline"
  <2>1. KeepsMonitor(content[m].monitor)
    BY <1>2, <1>5, <1>6 DEF Elsewhere
  <2>2. ASSUME NEW i \in DOMAIN content[m].documents
        PROVE  content[m].documents[i].source = "cmdline"
    <3>0. content[m].documents[i] \in Found
      BY <1>1
    <3>1. content[m].documents[i].source \in Source \cup {"title"}
      BY <3>0 DEF Found
    <3>2. ConfidenceOf(content[m].documents[i].source) \in 0 .. 100
      BY <3>1, ConfidenceIsPerCent
    <3>3. ConfidenceOf(content[m].documents[i].source) >= 90
      BY <3>2, <1>5, <1>6
    <3>4. QED
      BY <3>1, <3>3, ConfidenceIsPerCent
  <2>3. QED
    BY <2>1, <2>2
<1>7. QED
  BY <1>4, <1>5, <1>6

-----------------------------------------------------------------------------
(* While there is a plan nothing it was made of changes. *)
LEMMA PlanStaysAsMade ==
  ASSUME [Next]_vars, {at, at'} \subseteq {"planning", "asking", "planned"}
  PROVE  launches' = launches /\ content' = content /\ UNCHANGED monitorVars
<1>1. CASE UNCHANGED vars
  BY <1>1 DEF vars, contentVars
<1>2. CASE AskWhatIsUp \/ PlanConnections \/ Connect \/ SomeConnection
  BY <1>2 DEF AskWhatIsUp, PlanConnections, Connect, SomeConnection, Happening, contentVars
<1>3. CASE Next /\ ~ (AskWhatIsUp \/ PlanConnections \/ Connect \/ SomeConnection)
  BY <1>3 DEF Next, ListWindows, Capture, BeginTree, ReadProcess, AttachTerminal,
              EnrichDocuments, NoCorrelation, BeginCorrelation, Correlate, AttachTabs,
              Record, CaptureAgain, Reboot, BuildPlan, SomeProcess, SomeMonitor,
              MonitorsAnswer, Happening
<1>4. QED
  BY <1>1, <1>2, <1>3

(* The plan is made at once. *)
LEMMA PlanIsMade ==
  ASSUME [Next]_vars, at \in Phases
  PROVE  /\ at' \in Phases
         /\ at \notin {"planning", "asking", "planned"} =>
              \/ BuildPlan
              \/ at' \notin {"planning", "asking", "planned"} /\ launches' = launches
         /\ at \in {"planning", "asking", "planned"} => at' \in {"planning", "asking", "planned"}
<1>1. CASE UNCHANGED vars
  BY <1>1 DEF vars
<1>2. CASE ListWindows \/ Capture \/ BeginTree \/ ReadProcess \/ AttachTerminal
           \/ EnrichDocuments \/ NoCorrelation \/ BeginCorrelation \/ Correlate \/ AttachTabs
  BY <1>2 DEF ListWindows, Capture, BeginTree, ReadProcess, AttachTerminal,
              EnrichDocuments, NoCorrelation, BeginCorrelation, Correlate, AttachTabs, Phases
<1>3. CASE Record \/ CaptureAgain \/ Reboot \/ BuildPlan \/ AskWhatIsUp \/ PlanConnections \/ Connect
  BY <1>3 DEF Record, CaptureAgain, Reboot, BuildPlan, AskWhatIsUp, PlanConnections, Connect, Phases
<1>4. CASE SomeProcess \/ SomeMonitor \/ SomeConnection \/ MonitorsAnswer
  BY <1>4 DEF SomeProcess, SomeMonitor, SomeConnection, MonitorsAnswer, Happening
<1>5. QED
  BY <1>1, <1>2, <1>3, <1>4 DEF Next

(* What happens is counted. *)
LEMMA EventsAreCounted ==
  ASSUME [Next]_vars, events \in Nat
  PROVE  events' \in Nat
<1>1. CASE SomeProcess \/ SomeMonitor \/ SomeConnection
  BY <1>1 DEF SomeProcess, SomeMonitor, SomeConnection, Happening
<1>2. CASE ~ (SomeProcess \/ SomeMonitor \/ SomeConnection)
  BY <1>2 DEF Next, vars, sceneVars, ListWindows, Capture, BeginTree, ReadProcess,
              AttachTerminal, EnrichDocuments, NoCorrelation, BeginCorrelation, Correlate,
              AttachTabs, Record, CaptureAgain, Reboot, BuildPlan, AskWhatIsUp, PlanConnections, Connect,
              MonitorsAnswer
<1>3. QED
  BY <1>1, <1>2

(* There is no plan in the beginning. *)
LEMMA PlanInvInit == Init => PlanInv
<1> SUFFICES ASSUME Init PROVE PlanInv
  OBVIOUS
<1>1. at = "idle" /\ events = 0 /\ launches = NoLaunch
  BY Zenon DEF Init
<1>2. QED
  BY <1>1, ContentInvInit, VpnInvInit DEF PlanInv, PlanIsOfContent, Phases

(* Every step keeps the invariant. *)
LEMMA PlanInvNext == PlanInv /\ [Next]_vars => PlanInv'
<1> SUFFICES ASSUME PlanInv, [Next]_vars PROVE PlanIsOfContent'
  BY ContentInvNext, VpnInvNext DEF PlanInv
<1>1. at' \in Phases /\ events' \in Nat
  BY PlanIsMade, EventsAreCounted DEF PlanInv, PlanIsOfContent
<1>2. CASE BuildPlan
  <2>1. /\ launches' = [i \in DOMAIN InOrder({k \in DOMAIN content : WindowAt(k).app # NoApp})
                          |-> LaunchOf(InOrder({k \in DOMAIN content :
                                                  WindowAt(k).app # NoApp})[i])]
        /\ content' = content /\ at' = "planning"
        /\ byIndex' = byIndex /\ plugged' = plugged
    BY <1>2 DEF BuildPlan, contentVars, monitorVars
  <2>2. \A m : LaunchOf(m)' = LaunchOf(m)
    BY <2>1 DEF LaunchOf, KeepsMonitor, ToldConnectors, ConnectorFor
  <2> DEFINE P == {k \in DOMAIN content : WindowAt(k).app # NoApp}
  <2>3. content \in Seq(RecordedWindow) /\ P \in SUBSET DOMAIN content
    BY DEF PlanInv, ContentInv, ContentTypes
  <2> HIDE DEF P
  <2>4. \A i \in DOMAIN InOrder(P) : InOrder(P)[i] \in P
    BY <2>3, PlacesList
  <2>5. \A i \in DOMAIN launches' : \E m \in DOMAIN content : launches'[i] = LaunchOf(m)
    BY <2>1, <2>3, <2>4 DEF P
  <2>6. QED
    BY <1>1, <2>1, <2>2, <2>5 DEF PlanIsOfContent
<1>3. CASE at \in {"planning", "asking", "planned"}
  <2>1. /\ launches' = launches /\ content' = content /\ at' \in {"planning", "asking", "planned"}
        /\ byIndex' = byIndex /\ plugged' = plugged
    BY <1>3, PlanIsMade, PlanStaysAsMade DEF PlanInv, PlanIsOfContent, monitorVars
  <2>2. \A m : LaunchOf(m)' = LaunchOf(m)
    BY <2>1 DEF LaunchOf, KeepsMonitor, ToldConnectors, ConnectorFor
  <2>3. QED
    BY <1>1, <1>3, <2>1, <2>2 DEF PlanInv, PlanIsOfContent
<1>4. CASE at \notin {"planning", "asking", "planned"} /\ ~BuildPlan
  BY <1>1, <1>4, PlanIsMade DEF PlanInv, PlanIsOfContent
<1>5. QED
  BY <1>2, <1>3, <1>4

-----------------------------------------------------------------------------
(* Everything a snapshot is made of, and what is made of it, is what it    *)
(* should be (daemon.py:126, plan.py:88).                                  *)
THEOREM ContentTypeCorrect == Spec => []ContentTypeOK
<1>1. ASSUME PlanInv PROVE ContentTypeOK
  <2>1. TerminalTypeOK /\ TabsTypeOK /\ VpnTypeOK
    BY <1>1, TerminalTypes DEF PlanInv, ContentInv, CorrelationInv, VpnInv
  <2>2. ContentTypes /\ PlanIsOfContent
    BY <1>1 DEF PlanInv, ContentInv
  <2>3. ASSUME NEW k \in DOMAIN content
        PROVE  /\ content[k].of \in DOMAIN scene.windows
               /\ content[k].monitor \in Connector \cup {NoConnector}
               /\ content[k].tabs \in Seq(Tab) /\ content[k].documents \in Seq(Found)
               /\ Len(content[k].browser) <= 1
    <3>1. content[k] \in RecordedWindow /\ content[k].of \in DOMAIN scene.windows
      BY <2>2, RecordedIsThere
    <3>2. content[k].browser = <<>> \/ \E b \in BrowserBlock : content[k].browser = <<b>>
      BY <3>1 DEF RecordedWindow
    <3>3. Len(content[k].browser) <= 1
      <4>1. CASE content[k].browser = <<>>
        BY <4>1
      <4>2. ASSUME NEW b, content[k].browser = <<b>> PROVE Len(content[k].browser) <= 1
        BY <4>2
      <4>3. QED
        BY <3>2, <4>1, <4>2
    <3>4. /\ content[k].monitor \in Connector \cup {NoConnector}
          /\ content[k].tabs \in Seq(Tab) /\ content[k].documents \in Seq(Found)
      BY <3>1 DEF RecordedWindow
    <3>5. QED
      BY <3>1, <3>3, <3>4
  <2>4. \A k \in DOMAIN launches : launches[k].confidence \in 0 .. 100
    <3>1. \A m \in DOMAIN content : LaunchOf(m).confidence \in 0 .. 100
      BY <2>2, LaunchIsSure
    <3>2. launches = <<>> \/ \A k \in DOMAIN launches :
                               \E m \in DOMAIN content : launches[k] = LaunchOf(m)
      BY <2>2 DEF PlanIsOfContent, NoLaunch
    <3>3. CASE launches = <<>>
      BY <3>3
    <3>4. CASE launches # <<>>
      BY <3>1, <3>2, <3>4
    <3>5. QED
      BY <3>3, <3>4
  <2>5. QED
    BY <2>1, <2>2, <2>3, <2>4 DEF ContentTypeOK, ContentTypes, PlanIsOfContent, Phases
<1>2. PlanInv => ContentTypeOK
  BY <1>1
<1>3. QED
  BY <1>2, PlanInvInit, PlanInvNext, PTL DEF Spec

(* Whatever has been recorded and whatever is plugged in after the reboot: *)
(* a launch that is ticked to begin with is certain (plan.py:88,           *)
(* review.py:17-19).                                                       *)
THEOREM PreTickedIsCertainAlways == Spec => []PreTickedIsCertain
<1>1. ASSUME PlanInv PROVE PreTickedIsCertain
  <2>0. ContentTypes /\ PlanIsOfContent /\ CommandLinesTold
    BY <1>1 DEF PlanInv, ContentInv
  <2> SUFFICES ASSUME at = "planned", NEW k \in DOMAIN launches, NEW j \in DOMAIN content,
                      launches[k].confidence >= 90, content[j].of = launches[k].of
               PROVE  /\ \A i \in DOMAIN launches[k].uris :
                           \E n \in DOMAIN WindowAt(j).cmdline :
                             WindowAt(j).cmdline[n].of = launches[k].uris[i]
                      /\ content[j].documents # <<>> => launches[k].uris # <<>>
                      /\ launches[k].monitor = content[j].monitor
                      /\ launches[k].monitor \in ToldConnectors \cup {NoConnector}
                         \/ ToldConnectors = {}
    BY DEF PreTickedIsCertain
  <2>1. PICK m \in DOMAIN content : launches[k] = LaunchOf(m)
    BY <2>0 DEF PlanIsOfContent
  <2>2. m = j
    BY <2>0, <2>1, LaunchIsSure DEF ContentTypes
  <2>3. /\ launches[k].uris = Openable(content[j].documents)
        /\ launches[k].monitor = content[j].monitor /\ KeepsMonitor(content[j].monitor)
        /\ \A i \in DOMAIN content[j].documents :
             content[j].documents[i].source = "cmdline"
    BY <2>0, <2>1, <2>2, LaunchIsSure
  <2>4. content[j].documents \in Seq(Found)
    BY <2>0, RecordedIsThere DEF RecordedWindow
  <2>5. /\ \A i \in DOMAIN launches[k].uris :
             \E n \in DOMAIN content[j].documents :
               launches[k].uris[i] = content[j].documents[n].of
        /\ (\E n \in DOMAIN content[j].documents : content[j].documents[n].source # "title")
             => launches[k].uris # <<>>
    BY <2>3, <2>4, OpenableAreFound
  <2>6. content[j].documents # <<>> => launches[k].uris # <<>>
    <3> SUFFICES ASSUME content[j].documents # <<>> PROVE launches[k].uris # <<>>
      OBVIOUS
    <3>1. 1 \in DOMAIN content[j].documents
      BY <2>4
    <3>2. content[j].documents[1].source # "title"
      BY <2>3, <3>1
    <3>3. QED
      BY <2>5, <3>1, <3>2
  <2>7. \A i \in DOMAIN launches[k].uris :
          \E n \in DOMAIN WindowAt(j).cmdline :
            WindowAt(j).cmdline[n].of = launches[k].uris[i]
    BY <2>0, <2>3, <2>5 DEF CommandLinesTold, IsTold
  <2>8. QED
    BY <2>3, <2>6, <2>7 DEF KeepsMonitor
<1>2. PlanInv => PreTickedIsCertain
  BY <1>1
<1>3. QED
  BY <1>2, PlanInvInit, PlanInvNext, PTL DEF Spec
=============================================================================
