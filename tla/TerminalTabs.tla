---------------------------- MODULE TerminalTabs ----------------------------
(***************************************************************************)
(* What is recorded of a terminal window and what a restore makes of it:   *)
(* read_tree() of src/restore_wss/procwalk.py, tabs_of() of terminals.py,  *)
(* redact() of redaction.py, enrich_terminals() of capture.py, decide() of *)
(* policy.py, _tab_plans() of plan.py and terminal_argv() of               *)
(* terminalcmd.py.                                                         *)
(*                                                                         *)
(* The tree is read file by file from /proc while the processes in it go   *)
(* on.  These are external, and so is what an emulator makes of a command  *)
(* line.  A process id is not used twice; fork(), setpgid() and exec() are *)
(* steps of their own.  An argument is known by what redact() sees in it,  *)
(* and what is withheld of it is the same for all.                         *)
(***************************************************************************)
EXTENDS Integers, Sequences, FiniteSets, SequencesExt, Selection

CONSTANTS
  Server,        \* the process of the emulator
  Shell,         \* the leaders of the tabs' sessions
  JobControl,    \* the shells that give every job a group of its own
  MaxPid,        \* bound: process ids
  Directory, NoDirectory,
  Argument,      \* what a program can be run with
  Blank,         \* the empty argument
  Withheld,      \* PLACEHOLDER, alone or after what is kept
  LooksLike,     \* "option", "assignment" or "secret" to redact(), or "plain"
  CommandLine,   \* the argvs a process may come to have
  Allowed, Denied, PolicyMode,   \* of [commands] in the configuration
  ExcludedPlace, \* the directories under exclude_paths
  HasTabs,       \* whether the emulator has a tab_flag
  MaxDepth       \* max_depth

NoTty == 0

ASSUME PidAssumption ==
  /\ MaxPid \in Nat /\ MaxDepth \in Nat
  /\ Server \in 1 .. MaxPid /\ Shell \subseteq (1 .. MaxPid) \ {Server}
  /\ JobControl \subseteq Shell
ASSUME ArgumentAssumption ==
  /\ Blank \in Argument /\ Withheld \notin Argument
  /\ LooksLike \in [Argument -> {"plain", "option", "assignment", "secret"}]
  /\ CommandLine \subseteq Seq(Argument) \ {<<>>}
  /\ PolicyMode \in {"never", "whitelist", "always"} /\ HasTabs \in BOOLEAN
ASSUME PlaceAssumption ==
  NoDirectory \notin Directory /\ ExcludedPlace \subseteq Directory

VARIABLES
  procs,        \* the processes there are
  foreground,   \* tpgid of each tab's terminal, -1 if it has hung up
  lastPid,      \* the process id given last
  todo,         \* what is still to be read, in order
  tree,         \* what has been read, depth first
  wasForeground \* history: who has been in a foreground group since reading began

processVars == <<procs, foreground, lastPid>>
readerVars == <<todo, tree>>
terminalVars == <<processVars, readerVars, wasForeground>>

Process ==
  [parent : 0 .. MaxPid, group : 0 .. MaxPid, session : 0 .. MaxPid,
   tty : Shell \cup {NoTty}, argv : Seq(Argument), cwd : Directory]

Task == [read : {"stat", "cmdline", "cwd", "children"}, pid : 1 .. MaxPid,
         depth : 0 .. MaxDepth]

Node == [pid : 1 .. MaxPid, depth : 0 .. MaxDepth, group : 0 .. MaxPid,
         session : 0 .. MaxPid, tty : Shell \cup {NoTty}, tpgid : -1 .. MaxPid,
         argv : Seq(Argument), cwd : Directory \cup {NoDirectory}]

-----------------------------------------------------------------------------
(* The processes of the terminal *)

Alive == DOMAIN procs

IsInForeground(p) ==
  procs[p].tty \in Shell /\ procs[p].group = foreground[procs[p].tty]

(* Processes as a kernel and job control have them: a group is of one      *)
(* terminal and named for a process that is, or was, in it; who leads a    *)
(* session on a terminal is the shell of a tab.                            *)
AreProcesses(ps, fg, last) ==
  /\ last \in 1 .. MaxPid /\ Server \in DOMAIN ps /\ DOMAIN ps \subseteq 1 .. last
  /\ fg \in [Shell -> -1 .. last]
  /\ \A p \in DOMAIN ps :
       /\ ps[p] \in Process /\ ps[p].group <= last /\ ps[p].session <= last
       /\ ps[p].session = p /\ ps[p].tty # NoTty => p \in Shell
       /\ ps[p].group # p => /\ \A q \in DOMAIN ps : ps[q].group # p
                            /\ \A s \in Shell : fg[s] # p
       /\ \A q \in DOMAIN ps : ps[q].group = ps[p].group => ps[q].tty = ps[p].tty
       /\ \A s \in Shell : ps[p].group = fg[s] => ps[p].tty = s

(* What every event does: it is seen in the history.                       *)
Happens ==
  /\ wasForeground' = wasForeground \cup {p \in Alive' : IsInForeground(p)'}
  /\ UNCHANGED readerVars

(* A shell starts something only when the terminal is its own.             *)
Fork(p) ==
  /\ p \in Alive \ {Server} /\ lastPid < MaxPid
  /\ p \in Shell => IsInForeground(p)
  /\ lastPid' = lastPid + 1
  /\ procs' = [q \in Alive \cup {lastPid + 1} |->
                 IF q \in Alive THEN procs[q] ELSE [procs[p] EXCEPT !.parent = p]]
  /\ UNCHANGED foreground
  /\ Happens

(* Job control: what a shell has just started leaves the shell's group     *)
(* before it does anything else.                                           *)
NewGroup(p) ==
  /\ p \in Alive /\ procs[p].parent \in JobControl \cap Alive
  /\ procs[p].group = procs[procs[p].parent].group
  /\ \A q \in Alive : procs[q].parent # p
  /\ procs' = [procs EXCEPT ![p].group = p]
  /\ UNCHANGED <<foreground, lastPid>>
  /\ Happens

(* A job is brought to the foreground, or the shell takes the terminal back. *)
SetForeground(s) ==
  /\ s \in JobControl \cap Alive /\ foreground[s] >= 0
  /\ \E p \in Alive :
       /\ procs[p].tty = s /\ procs[p].group # foreground[s]
       /\ foreground' = [foreground EXCEPT ![s] = procs[p].group]
  /\ UNCHANGED <<procs, lastPid>>
  /\ Happens

Exec(p) ==
  /\ p \in Alive \ {Server}
  /\ \E argv \in CommandLine \ {procs[p].argv} :
       procs' = [procs EXCEPT ![p].argv = argv]
  /\ UNCHANGED <<foreground, lastPid>>
  /\ Happens

ChangeDirectory(p) ==
  /\ p \in Alive \ {Server}
  /\ \E d \in Directory \ {procs[p].cwd} : procs' = [procs EXCEPT ![p].cwd = d]
  /\ UNCHANGED <<foreground, lastPid>>
  /\ Happens

(* What it has started belongs to nobody of the terminal from then on.     *)
Exit(p) ==
  /\ p \in Alive \ {Server}
  /\ procs' = [q \in Alive \ {p} |->
                 IF procs[q].parent = p THEN [procs[q] EXCEPT !.parent = 0]
                 ELSE procs[q]]
  /\ UNCHANGED <<foreground, lastPid>>
  /\ Happens

HangUp(s) ==
  /\ s \in Shell \cap Alive /\ foreground[s] >= 0
  /\ foreground' = [foreground EXCEPT ![s] = -1]
  /\ UNCHANGED <<procs, lastPid>>
  /\ Happens

TerminalEvent ==
  \/ \E p \in Alive : Fork(p) \/ NewGroup(p) \/ Exec(p) \/ ChangeDirectory(p) \/ Exit(p)
  \/ \E s \in Shell : SetForeground(s) \/ HangUp(s)

-----------------------------------------------------------------------------
(* read_tree() *)

Reading(file, p, depth) == [read |-> file, pid |-> p, depth |-> depth]

StartTree ==
  /\ todo' = <<Reading("stat", Server, 0)>> /\ tree' = <<>>
  /\ wasForeground' = {p \in Alive : IsInForeground(p)}
  /\ UNCHANGED processVars

(* Mutant: one level too many. *)
DescendsBelow(depth) == depth <= MaxDepth

Descends(depth) == depth < MaxDepth

(* A process that is gone is left out, with all it started.                *)
ReadStat ==
  /\ todo # <<>> /\ Head(todo).read = "stat"
  /\ LET p == Head(todo).pid
         depth == Head(todo).depth
     IN \/ /\ p \notin Alive
           /\ todo' = Tail(todo) /\ UNCHANGED tree
        \/ /\ p \in Alive
           /\ tree' = Append(tree,
                [pid |-> p, depth |-> depth, group |-> procs[p].group,
                 session |-> procs[p].session, tty |-> procs[p].tty,
                 tpgid |-> IF procs[p].tty = NoTty THEN -1
                           ELSE foreground[procs[p].tty],
                 argv |-> <<>>, cwd |-> NoDirectory])
           /\ todo' = <<Reading("cmdline", p, depth), Reading("cwd", p, depth)>>
                \o (IF Descends(depth) THEN <<Reading("children", p, depth)>> ELSE <<>>)
                \o Tail(todo)
  /\ UNCHANGED <<processVars, wasForeground>>

(* Empty arguments do not survive split() and the filter after it.         *)
WithoutBlanks(argv) == EntriesAt(argv, {k \in DOMAIN argv : argv[k] # Blank})

ReadCmdline ==
  /\ todo # <<>> /\ Head(todo).read = "cmdline"
  /\ LET p == Head(todo).pid IN
       tree' = IF p \notin Alive THEN tree
               ELSE [tree EXCEPT ![Len(tree)].argv = WithoutBlanks(procs[p].argv)]
  /\ todo' = Tail(todo)
  /\ UNCHANGED <<processVars, wasForeground>>

ReadCwd ==
  /\ todo # <<>> /\ Head(todo).read = "cwd"
  /\ LET p == Head(todo).pid IN
       tree' = IF p \notin Alive THEN tree
               ELSE [tree EXCEPT ![Len(tree)].cwd = procs[p].cwd]
  /\ todo' = Tail(todo)
  /\ UNCHANGED <<processVars, wasForeground>>

(* child_pids(): in the order of their ids.                                *)
ReadChildren ==
  /\ todo # <<>> /\ Head(todo).read = "children"
  /\ LET kids == {q \in Alive : procs[q].parent = Head(todo).pid}
         depth == Head(todo).depth + 1
     IN todo' = [k \in 1 .. Cardinality(kids) |->
                   Reading("stat", InOrder(kids)[k], depth)] \o Tail(todo)
  /\ UNCHANGED <<tree, processVars, wasForeground>>

ReadTree == ReadStat \/ ReadCmdline \/ ReadCwd \/ ReadChildren

-----------------------------------------------------------------------------
(* tabs_of() and redact() *)

(* The indices in the tree of what a process has started, directly or not. *)
Below(i) ==
  {j \in i + 1 .. Len(tree) : \A k \in i + 1 .. j : tree[k].depth > tree[i].depth}

(* Mutant: the first that runs under the shell, whichever group it is in.  *)
FirstUnder(i) ==
  {j \in Below(i) : tree[i].tpgid >= 0 /\ j = i + 1}

(* foreground_job(): at most one. *)
ForegroundJob(i) ==
  {j \in Below(i) :
     /\ tree[i].tpgid >= 0
     /\ tree[j].group = tree[i].tpgid
     /\ \A k \in Below(i) : tree[k].group = tree[i].tpgid => j <= k}

(* Which arguments are the value of the option before them. *)
IsValue(argv) ==
  LET isValue[k \in 1 .. Len(argv)] ==
        k > 1 /\ ~isValue[k - 1] /\ LooksLike[argv[k - 1]] = "option"
  IN isValue

Redacted(argv) ==
  {k \in DOMAIN argv :
     IsValue(argv)[k] \/ LooksLike[argv[k]] \in {"assignment", "secret"}}

Redact(argv) ==
  [k \in DOMAIN argv |-> IF k \in Redacted(argv) THEN Withheld ELSE argv[k]]

Tab == [cwd : Directory \cup {NoDirectory}, command : Seq(Argument \cup {Withheld}),
        redacted : SUBSET Nat]

(* A tab's leader has a session and a terminal of its own. *)
IsTabLeader(i) ==
  tree[i].depth = 1 /\ tree[i].session = tree[i].pid /\ tree[i].tty # NoTty

(* The job's directory, if it has one, goes before the shell's. *)
TabOf(i) ==
  LET jobs == ForegroundJob(i) IN
    [cwd |-> IF \E j \in jobs : tree[j].cwd # NoDirectory
             THEN tree[CHOOSE j \in jobs : TRUE].cwd ELSE tree[i].cwd,
     command |-> IF jobs = {} THEN <<>>
                 ELSE Redact(tree[CHOOSE j \in jobs : TRUE].argv),
     redacted |-> IF jobs = {} THEN {}
                  ELSE Redacted(tree[CHOOSE j \in jobs : TRUE].argv)]

TabLeaders == InOrder({i \in DOMAIN tree : IsTabLeader(i)})

(* enrich_terminals(): a tab in an excluded directory is a bare terminal.  *)
WithoutExcluded(tab) ==
  IF tab.cwd \in ExcludedPlace
  THEN [tab EXCEPT !.cwd = NoDirectory, !.command = <<>>] ELSE tab

(* The terminal block. *)
TerminalBlock == [k \in DOMAIN TabLeaders |-> WithoutExcluded(TabOf(TabLeaders[k]))]

-----------------------------------------------------------------------------
(* decide(), _tab_plans() and terminal_argv() *)

(* Mutant: the allow-list is asked first. *)
RunsIfAllowed(tab) ==
  /\ tab.command # <<>>
  /\ \/ tab.command[1] \in Allowed
     \/ tab.redacted = {} /\ tab.command[1] \notin Denied /\ PolicyMode = "always"

Runs(tab) ==
  /\ tab.command # <<>>
  /\ tab.redacted = {}
  /\ tab.command[1] \notin Denied
  /\ \/ PolicyMode = "always"
     \/ PolicyMode = "whitelist" /\ tab.command[1] \in Allowed

TabPlan(tab) == [cwd |-> tab.cwd, command |-> tab.command, runs |-> Runs(tab)]

TabPlans(block) == [k \in DOMAIN block |-> TabPlan(block[k])]

(* The arguments of an emulator. *)
TabFlag == <<"tab">>
CwdFlag(d) == <<"cwd", d>>
Separator == <<"--">>
Word(a) == <<"word", a>>

TabArguments(tab) ==
  (IF HasTabs THEN <<TabFlag>> ELSE <<>>)
    \o (IF tab.cwd # NoDirectory THEN <<CwdFlag(tab.cwd)>> ELSE <<>>)
    \o (IF tab.runs
        THEN <<Separator>> \o [k \in DOMAIN tab.command |-> Word(tab.command[k])]
        ELSE <<>>)

TerminalArguments(tabs) ==
  LET usable == IF HasTabs \/ tabs = <<>> THEN tabs ELSE <<Head(tabs)>>
  IN FlattenSeq([k \in DOMAIN usable |-> TabArguments(usable[k])])

(* What the emulator makes of them: what comes after the separator is the  *)
(* command to run.                                                         *)
TabsOpened(arguments) ==
  LET options == {k \in DOMAIN arguments : \A j \in 1 .. k : arguments[j] # Separator}
  IN Cardinality({k \in options : arguments[k] = TabFlag})

-----------------------------------------------------------------------------
(* Properties *)

TerminalTypeOK ==
  /\ Alive \subseteq 1 .. MaxPid /\ \A p \in Alive : procs[p] \in Process
  /\ foreground \in [Shell -> -1 .. MaxPid] /\ lastPid \in 1 .. MaxPid
  /\ todo \in Seq(Task) /\ tree \in Seq(Node)
  /\ wasForeground \subseteq 1 .. MaxPid

IsTreeRead == todo = <<>> /\ tree # <<>>

(* The process recorded as what a tab was doing was in the foreground of   *)
(* that tab at some time while the tree was read, though the tpgid of the  *)
(* shell and the group of the process are read one after the other         *)
(* (terminals.py:120-128).                                                 *)
JobWasForeground ==
  IsTreeRead =>
    \A i \in DOMAIN tree : IsTabLeader(i) =>
      \A j \in ForegroundJob(i) : tree[j].pid \in wasForeground

(* A command that a restore runs again is one a process of that tab ran,   *)
(* word for word but for empty arguments: nothing of it was withheld, it   *)
(* was not running where nothing may be recorded, and the user lets its    *)
(* program be run (policy.py:147-167).                                     *)
RunsWhatRan ==
  IsTreeRead =>
    \A k \in DOMAIN TerminalBlock :
      LET tab == TerminalBlock[k] IN Runs(tab) =>
        \E j \in Below(TabLeaders[k]) :
          /\ tree[j].argv = tab.command /\ Redacted(tree[j].argv) = {}
          /\ tree[j].cwd \notin ExcludedPlace
          /\ tab.command[1] \notin Denied
          /\ tab.command[1] \in Allowed \/ PolicyMode = "always"
=============================================================================
