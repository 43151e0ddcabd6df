------------------------- MODULE MCRepeatedRestore -------------------------
(***************************************************************************)
(* Values for the constants of RepeatedRestore, and the matching on its    *)
(* own: from a scene that no restore is in, only match_windows() goes on.  *)
(***************************************************************************)
EXTENDS RepeatedRestore

CONSTANTS a, b, Editor, Viewer, Reviewer

MCChar == {a, b}

Named(m, n, order) ==
  [count |-> [c \in MCChar |-> IF c = a THEN m ELSE n],
   length |-> m + n, order |-> order]

(* Titles with the same characters or the same shares of them, one nearly  *)
(* like them, one that is much shorter, and a long one of which the short  *)
(* one is a placeholder.                                                   *)
Short == Named(3, 1, 1)
MatchedTitle ==
  {Named(3, 3, 1), Named(3, 3, 2), Named(4, 3, 1), Short, Named(7, 4, 1)}
Twice == Named(6, 6, 1)
MCTitle == MatchedTitle \cup {Twice}

Open(apps, titles) == [app : apps, class : {Editor}, title : titles]

(* Up to two saved windows and three live ones of one application.         *)
OneApplication ==
  LET Lists(n) == SeqOf(Open({Editor}, MatchedTitle), n) IN Lists(2) \X Lists(3)

(* Two and two, whose application the Shell may not know, or of two        *)
(* applications of one class.                                              *)
Unidentified ==
  LET Pairs(apps) == {s \in SeqOf(Open(apps, MatchedTitle), 2) : Len(s) = 2}
  IN Pairs({Editor, NoApp}) \X Pairs({Editor, Viewer, NoApp})

Both == OneApplication \cup Unidentified

MCReview == [app |-> Reviewer, class |-> Reviewer, title |-> Short]

OfEditor(title) == [app |-> Editor, class |-> Editor, title |-> title]

(* One window, and two whose titles have the same shares of characters.    *)
Identified ==
  LET even == OfEditor(Named(3, 3, 1)) IN {<<even>>, <<even, OfEditor(Twice)>>}

MCUserWindows == {OfEditor(Twice)}

MCNewTitles == {Short}

(* Two titles with the same shares of characters, of which one is a        *)
(* placeholder of a third and the other is nearly like it: with these and  *)
(* a MaxEvents of 2, restacking the windows violates ListedIsLaunched.     *)
ScaledTitle == {Named(2, 1, 1), Named(4, 2, 1), Named(7, 4, 1)}

(* The window that was saved last is on the first workspace. *)
MCWorkspace == <<1, 0, 1>>

(* In a scene no restore is left. *)
MCInit ==
  \/ RestoreInit
  \/ /\ \E input \in Inputs : Start(input) /\ stored = input[1]
     /\ pc = "planning" /\ restores = MaxRestores
     /\ client = "nobody" /\ desktop = <<>> /\ starting = {}
     /\ shown = <<>> /\ only = {} /\ listed = <<>> /\ agreed = {} /\ launched = {}
     /\ events = 0 /\ changed = TRUE

IsScene == pc = "planning" /\ restores = MaxRestores

MCNext == (IsScene /\ Match) \/ (~IsScene /\ RestoreNext)

MCSpec == MCInit /\ [][MCNext]_vars
=============================================================================
