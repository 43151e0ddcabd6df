--------------------------- MODULE TabCorrelation ---------------------------
(***************************************************************************)
(* correlate() of src/restore_wss/browsercorrelate.py: which tab set       *)
(* belongs to which window on screen.  Greedy like match_windows(), with a *)
(* rule of its own for what is too close to call: only the strongest other *)
(* tab set of the window counts, and it does not matter if its tabs are    *)
(* the same.                                                               *)
(*                                                                         *)
(* How alike two titles and two sizes are is given, in per cent rounded    *)
(* down (WindowMatching has the title similarity itself).                  *)
(***************************************************************************)
EXTENDS Integers, Sequences

CONSTANTS
  Title, NoTitle,   \* titles, and what has none
  Size, NoSize,     \* sizes, and what reported none
  TabSet,           \* the lists of addresses a window's tabs may have
  Likeness,         \* title_similarity(), the window's title first
  Agreement         \* _geometry_score(), the window's size first

ASSUME CorrelationAssumption ==
  /\ NoTitle \notin Title /\ NoSize \notin Size
  /\ Likeness \in [Title \X Title -> 0 .. 100]
  /\ Agreement \in [Size \X Size -> 0 .. 100]

(* What correlate() looks at of a window on screen, and of a tab set. *)
Seen == [title : Title \cup {NoTitle}, size : Size \cup {NoSize}]
Block == [title : Title \cup {NoTitle}, size : Size \cup {NoSize}, tabs : TabSet]

VARIABLES
  screen,      \* windows
  blocks,      \* blocks, with the geometries
  undecided,   \* the candidates that are still to be considered
  pairs        \* result.matched

tabVars == <<screen, blocks, undecided, pairs>>

-----------------------------------------------------------------------------
(* score() *)

MatchThreshold == 75
MinimalSpread == 8
OnlyCandidate == 60

TitleScore(c) ==
  LET t == screen[c[1]].title
      u == blocks[c[2]].title
  IN IF NoTitle \in {t, u} THEN 0 ELSE Likeness[<<t, u>>]

SizeScore(c) ==
  LET s == screen[c[1]].size
      r == blocks[c[2]].size
  IN IF NoSize \in {s, r} THEN 0 ELSE Agreement[<<s, r>>]

(* The size lifts a decent title and never carries a bad one. *)
TabScore(c) ==
  IF TitleScore(c) = 100 THEN 100
  ELSE (85 * TitleScore(c) + 15 * SizeScore(c)) \div 100

-----------------------------------------------------------------------------
(* correlate() *)

TabCandidates == {c \in (DOMAIN screen) \X (DOMAIN blocks) : TabScore(c) > 0}

TakenWindows == {p.of[1] : p \in pairs}
TakenBlocks == {p.of[2] : p \in pairs}

(* The order of candidates.sort(). *)
ComesBefore(c, d) ==
  \/ TabScore(c) > TabScore(d)
  \/ TabScore(c) = TabScore(d) /\ c[1] < d[1]
  \/ TabScore(c) = TabScore(d) /\ c[1] = d[1] /\ c[2] < d[2]

HasPartner(c) == c[1] \in TakenWindows \/ c[2] \in TakenBlocks

(* The other tab sets this window could have. *)
Rivals(c) ==
  {d \in TabCandidates : d[1] = c[1] /\ d[2] # c[2] /\ d[2] \notin TakenBlocks}

(* max() over <<value, index>> *)
IsStrongest(d, candidates) ==
  /\ d \in candidates
  /\ \A e \in candidates :
       \/ TabScore(e) < TabScore(d)
       \/ TabScore(e) = TabScore(d) /\ e[2] <= d[2]

SameTabs(c, d) == blocks[c[2]].tabs = blocks[d[2]].tabs
WithinSpread(c, d) == TabScore(c) - TabScore(d) < MinimalSpread

(* Mutant: the weakest of the other tab sets is looked at. *)
CoinTossOfWeakest(c) ==
  \E d \in Rivals(c) :
    /\ \A e \in Rivals(c) : TabScore(d) <= TabScore(e)
    /\ WithinSpread(c, d) /\ ~SameTabs(c, d)

IsCoinToss(c) ==
  \E d \in Rivals(c) :
    IsStrongest(d, Rivals(c)) /\ WithinSpread(c, d) /\ ~SameTabs(c, d)

PassOver(c) ==
  /\ HasPartner(c) \/ TabScore(c) < MatchThreshold
  /\ UNCHANGED pairs

Withhold(c) ==
  /\ ~HasPartner(c) /\ TabScore(c) >= MatchThreshold /\ IsCoinToss(c)
  /\ UNCHANGED pairs

Give(c) ==
  /\ ~HasPartner(c) /\ TabScore(c) >= MatchThreshold /\ ~IsCoinToss(c)
  /\ pairs' = pairs \cup {[of |-> c, confidence |-> TabScore(c)]}

(* One round of the loop. *)
Decide(c) ==
  /\ c \in undecided /\ \A d \in undecided \ {c} : ComesBefore(c, d)
  /\ undecided' = undecided \ {c}
  /\ PassOver(c) \/ Withhold(c) \/ Give(c)
  /\ UNCHANGED <<screen, blocks>>

(* One window, one tab set, and no match: order is enough. *)
OnlyOneEach ==
  undecided = {} /\ pairs = {} /\ Len(screen) = 1 /\ Len(blocks) = 1

GiveTheOnlyOne ==
  /\ OnlyOneEach
  /\ pairs' = {[of |-> <<1, 1>>, confidence |-> OnlyCandidate]}
  /\ UNCHANGED <<screen, blocks, undecided>>

StartCorrelation(windows, reported) ==
  /\ screen = windows /\ blocks = reported
  /\ undecided = TabCandidates
  /\ pairs = {}

CorrelationInit ==
  \E windows \in Seq(Seen), reported \in Seq(Block) :
    StartCorrelation(windows, reported)

CorrelationNext == (\E c \in undecided : Decide(c)) \/ GiveTheOnlyOne

CorrelationSpec == CorrelationInit /\ [][CorrelationNext]_tabVars

-----------------------------------------------------------------------------
(* Properties *)

TabsTypeOK ==
  /\ screen \in Seq(Seen) /\ blocks \in Seq(Block)
  /\ undecided \subseteq TabCandidates
  /\ pairs \subseteq [of : (DOMAIN screen) \X (DOMAIN blocks), confidence : 0 .. 100]

(* No window has two tab sets, no tab set is in two windows.               *)
OneTabSetEach ==
  \A p, q \in pairs : p.of[1] = q.of[1] \/ p.of[2] = q.of[2] => p = q

(* A window that was given tabs for its title had no other choice: of the  *)
(* tab sets nobody has, each is clearly less like it, or is no more like   *)
(* it than one with the very tabs it was given (browsercorrelate.py:135).  *)
NoCoinToss ==
  \A p \in pairs, d \in TabCandidates :
    /\ p.confidence >= MatchThreshold
    /\ d[1] = p.of[1] /\ d[2] # p.of[2] /\ d[2] \notin TakenBlocks
    /\ WithinSpread(p.of, d)
    => \E e \in TabCandidates :
         /\ e[1] = p.of[1] /\ e[2] # p.of[2] /\ SameTabs(p.of, e)
         /\ TabScore(e) >= TabScore(d)

(* Tabs are withheld from a window that looks right for them only for a    *)
(* better pair, or because another tab set of the window is as likely      *)
(* (browsercorrelate.py:130-158).                                          *)
WithheldForReason ==
  \A c \in TabCandidates \ undecided :
    TabScore(c) >= MatchThreshold =>
      \/ \E p \in pairs : (p.of[1] = c[1] \/ p.of[2] = c[2])
                          /\ (p.of = c \/ ComesBefore(p.of, c))
      \/ \E d \in TabCandidates :
           d[1] = c[1] /\ d[2] # c[2] /\ WithinSpread(c, d) /\ ~SameTabs(c, d)

TabsFairlyGiven == OneTabSetEach /\ NoCoinToss /\ WithheldForReason
=============================================================================
