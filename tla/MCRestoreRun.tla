---------------------------- MODULE MCRestoreRun ----------------------------
(* RestoreRun for TLC: plans over two applications and three windows.      *)
EXTENDS RestoreRun, TLC

CONSTANTS Editor, Terminal, OldWindow

LaunchOf(a) == [kind |-> "launch", app |-> a, window |-> Unplaced]
TerminalOf(a) == [kind |-> "terminal", app |-> a, window |-> Unplaced]
PlaceOf(a, w) == [kind |-> "place", app |-> a, window |-> w]

(* Nothing is asked for twice; an open window is moved and two are missing. *)
DistinctPlans == {<<PlaceOf(Editor, OldWindow), LaunchOf(Editor),
                    TerminalOf(Terminal)>>}

(* Two windows of one application are missing. *)
TwinPlans == {<<LaunchOf(Editor), LaunchOf(Editor)>>,
              <<TerminalOf(Terminal), TerminalOf(Terminal)>>}

(* Twins again, and two applications asked for in the two ways. *)
MixedPlans == {<<TerminalOf(Terminal), LaunchOf(Terminal)>>,
               <<LaunchOf(Editor), TerminalOf(Terminal)>>}

(* The windows that open during the restore are interchangeable. *)
NewWindows == Permutations(Window \ {OldWindow})
=============================================================================
