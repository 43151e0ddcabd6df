--------------------------- MODULE WindowMatching ---------------------------
(***************************************************************************)
(* match_windows() of src/restore_wss/matcher.py: which of the windows     *)
(* that are open now are the windows of a snapshot.  It is greedy: pairs   *)
(* are considered best first, and each is taken, refused as too close to   *)
(* call, or passed over.  RepeatedRestore acts on the outcome.             *)
(*                                                                         *)
(* A title is known by how often each character of ALPHABET occurs in it   *)
(* and by its length; `order' tells titles apart that have the same        *)
(* characters.  Scores are per cent, rounded down: the code has floats.    *)
(***************************************************************************)
EXTENDS Integers, Sequences, FiniteSets, Functions

CONSTANTS
  Char,         \* the characters of ALPHABET
  App, NoApp,   \* application ids, and what a window without one has
  Class,        \* wm_class
  Title,        \* the titles there can be
  Inputs        \* the <<saved windows, live windows>> that are matched

TitleRecord == [count : [Char -> Nat], length : Nat, order : Nat]
WindowRecord == [app : App \cup {NoApp}, class : Class, title : Title]

ASSUME TitleAssumption == IsFiniteSet(Char) /\ Title \subseteq TitleRecord
ASSUME InputsAssumption == Inputs \subseteq Seq(WindowRecord) \X Seq(WindowRecord)

VARIABLES
  saved,      \* saved_windows
  live,       \* live_windows
  rest,       \* the candidates that are still to be considered
  matches,    \* the pairs that were taken
  ambiguous   \* the pairs that were refused

matchVars == <<saved, live, rest, matches, ambiguous>>

-----------------------------------------------------------------------------
(* title_similarity() and score() *)

Threshold == 80     \* DEFAULT_THRESHOLD
MinSpread == 60     \* MIN_SCORE_SPREAD
Exact == 100

Divisor(title) == IF title.length = 0 THEN 1 ELSE title.length
Distance(m, n) == IF m < n THEN n - m ELSE m - n

(* 1 - d/2, d being the distance of the two histograms. *)
TitleSimilarity(t, u) ==
  LET l == Divisor(t)
      m == Divisor(u)
      d == SumFunction([c \in Char |-> Distance(t.count[c] * m, u.count[c] * l)])
  IN (100 * (2 * l * m - d)) \div (2 * l * m)

(* A title much shorter than the remembered one. *)
IsPlaceholder(t, u) == t.length > 8 /\ 2 * u.length < t.length

(* The application ids decide when both are known, else the classes. *)
SameApplication(s, w) ==
  IF NoApp \notin {s.app, w.app} THEN s.app = w.app ELSE s.class = w.class

WindowScore(s, w) ==
  LET similarity == TitleSimilarity(s.title, w.title) IN
    IF ~SameApplication(s, w) THEN 0
    ELSE IF s.title = w.title \/ similarity = Exact THEN Exact
    ELSE IF IsPlaceholder(s.title, w.title) THEN similarity \div 2
    ELSE similarity

Score(c) == WindowScore(saved[c[1]], live[c[2]])

LooksAlike(c) == Score(c) >= Threshold

-----------------------------------------------------------------------------
(* match_windows() *)

Candidates == {c \in (DOMAIN saved) \X (DOMAIN live) : Score(c) > 0}

TakenSaved == {c[1] : c \in matches}
TakenLive == {c[2] : c \in matches}

(* The order of candidates.sort(). *)
Precedes(c, d) ==
  \/ Score(c) > Score(d)
  \/ Score(c) = Score(d) /\ c[1] < d[1]
  \/ Score(c) = Score(d) /\ c[1] = d[1] /\ c[2] < d[2]

(* One of the pair has its counterpart already. *)
IsTaken(c) == c[1] \in TakenSaved \/ c[2] \in TakenLive

(* Another free live window comes within the spread.  An exact title is    *)
(* never too close.                                                        *)
TooClose(c) ==
  /\ Score(c) < Exact
  /\ \E d \in Candidates :
       /\ d[1] = c[1] /\ d[2] # c[2] /\ d[2] \notin TakenLive
       /\ 100 * Score(d) > MinSpread * Score(c)

(* Mutant: in the order of the lists, not of the scores. *)
IsNextOfRest(c) ==
  \A d \in rest \ {c} : c[1] < d[1] \/ (c[1] = d[1] /\ c[2] < d[2])

IsBestOfRest(c) == \A d \in rest \ {c} : Precedes(c, d)

Pass(c) ==
  /\ IsTaken(c) \/ ~LooksAlike(c)
  /\ UNCHANGED <<matches, ambiguous>>

(* Mutant: what is too close is dropped, not reported. *)
RefuseSilently(c) ==
  /\ ~IsTaken(c) /\ LooksAlike(c) /\ TooClose(c)
  /\ UNCHANGED <<matches, ambiguous>>

Refuse(c) ==
  /\ ~IsTaken(c) /\ LooksAlike(c) /\ TooClose(c)
  /\ ambiguous' = ambiguous \cup {c}
  /\ UNCHANGED matches

Take(c) ==
  /\ ~IsTaken(c) /\ LooksAlike(c) /\ ~TooClose(c)
  /\ matches' = matches \cup {c}
  /\ UNCHANGED ambiguous

(* One round of the loop. *)
Consider(c) ==
  /\ c \in rest /\ IsBestOfRest(c)
  /\ rest' = rest \ {c}
  /\ Pass(c) \/ Refuse(c) \/ Take(c)
  /\ UNCHANGED <<saved, live>>

Start(input) ==
  /\ saved = input[1] /\ live = input[2]
  /\ rest = Candidates
  /\ matches = {} /\ ambiguous = {}

Init == \E input \in Inputs : Start(input)

Next == \E c \in rest : Consider(c)

Spec == Init /\ [][Next]_matchVars

(* unmatched_saved *)
UnmatchedSaved == (DOMAIN saved) \ TakenSaved

-----------------------------------------------------------------------------
(* Properties *)

TypeOK ==
  /\ saved \in Seq(WindowRecord) /\ live \in Seq(WindowRecord)
  /\ rest \subseteq Candidates
  /\ matches \subseteq Candidates /\ ambiguous \subseteq Candidates

(* No window is two windows: a saved window is moved at most once, and a   *)
(* live one is moved for at most one saved window (matcher.py:150-180).    *)
OneToOne ==
  \A c, d \in matches : c[1] = d[1] \/ c[2] = d[2] => c = d

(* What looks alike enough and stays apart was refused, and is reported:   *)
(* nothing is left out in silence (matcher.py:153-176).                    *)
NothingLeftSilently ==
  rest = {} =>
    \A c \in Candidates :
      LooksAlike(c) /\ ~IsTaken(c) => c \in ambiguous

(* The pairing is stable: whoever would rather have another partner, it    *)
(* being mutual, was refused that partner (matcher.py:143-180).            *)
Stable ==
  \A c \in Candidates \ ambiguous :
    c \notin rest /\ LooksAlike(c) =>
      \E d \in matches :
        /\ d[1] = c[1] \/ d[2] = c[2]
        /\ d = c \/ Precedes(d, c)

(* Why: the candidates are considered in the order of their scores.        *)
BestFirst ==
  \A c \in rest, d \in matches \cup ambiguous : Precedes(d, c)

MatchingInv == OneToOne /\ Stable /\ BestFirst
=============================================================================
