------------------------- MODULE MCSnapshotContent -------------------------
(* Values for the constants of SnapshotContent: small sessions, each with  *)
(* what one part of a snapshot is about.                                   *)
EXTENDS SnapshotContent

CONSTANTS
  bash, vim, sudo, file, tokenOption, token,     \* arguments
  home, secret,                                  \* directories
  letter, draft, gone, library, private,         \* documents
  editor, office, files, terminal, browser,      \* applications, and classes
  inbox, news, secretly, big,                    \* titles, a size
  mail, paper, bank,                             \* addresses
  laptop, beamer,                                \* connectors
  work, lab                                      \* VPNs

-----------------------------------------------------------------------------
(* What is in order is sorted, and entries are selected in the order they  *)
(* are in.                                                                 *)
ASSUME SelectionAssumption ==
  /\ \A S \in SUBSET (0 .. 6) : InOrder(S) = SetToSortSeq(S, <)
  /\ \A s \in BoundedSeq(0 .. 3, 4) :
       LET IsOdd(n) == n % 2 = 1
       IN EntriesAt(s, {k \in DOMAIN s : IsOdd(s[k])}) = SelectSeq(s, IsOdd)

-----------------------------------------------------------------------------
(* Arguments and what a terminal runs *)

MCLooksLike ==
  [a \in Argument |-> IF a = tokenOption THEN "option"
                      ELSE IF a = token THEN "secret" ELSE "plain"]

MCCommandLine ==
  {<<vim, file>>, <<vim, Blank, tokenOption, file>>, <<sudo, vim>>, <<vim, token>>}

Running(parent, group, tab, argv, cwd) ==
  [parent |-> parent, group |-> group, session |-> IF tab = NoTty THEN 1 ELSE tab,
   tty |-> tab, argv |-> argv, cwd |-> cwd]

Emulator == Running(0, 1, NoTty, <<bash>>, home)
TabShell(s) == Running(1, s, s, <<bash>>, home)
Helper == Running(1, 1, NoTty, <<vim, file>>, home)

(* A window, and a session, of which nothing is known. *)
Plain == [normal |-> TRUE, taskbar |-> TRUE, app |-> NoApp, class |-> NoClass, pid |-> 0,
          title |-> NoTitle, size |-> NoSize, name |-> NoName, cmdline |-> <<>>,
          openFiles |-> <<>>]

Session == [windows |-> <<>>, showing |-> <<>>, plugged |-> <<laptop>>,
            procs |-> <<Emulator>>, foreground |-> [s \in Shell |-> s], lastPid |-> 5,
            recent |-> <<>>, history |-> <<>>, reported |-> <<>>, sessionFile |-> <<>>,
            known |-> {}, up |-> {},
            goesOn |-> [kind \in {"processes", "monitors", "vpn"} |-> 0]]

WithWindows(windows) ==
  [Session EXCEPT !.windows = windows,
                  !.showing = [w \in DOMAIN windows |-> laptop]]

TerminalWindow == [Plain EXCEPT !.app = terminal, !.class = terminal, !.pid = Server]

(* A window of an emulator with these processes. *)
InTerminal(processes, group2) ==
  [WithWindows(<<TerminalWindow>>) EXCEPT
     !.procs = [p \in {1} \cup DOMAIN processes |-> IF p = 1 THEN Emulator ELSE processes[p]],
     !.foreground = [s \in Shell |-> IF s = 2 THEN group2 ELSE s],
     !.goesOn["processes"] = 2]

Processes(p, a) == [q \in {p} |-> a]

(* A prompt next to a helper of the emulator; a job in the foreground, or  *)
(* stopped, in a directory that may be excluded; a job and what it has     *)
(* started; two processes of one job; a shell without job control and what *)
(* it runs.                                                                *)
Terminals ==
  LET Two(x) == Processes(2, TabShell(2)) @@ Processes(3, x)
      Three(x, y) == Two(x) @@ Processes(4, y)
      Job(group, parent, argv, cwd) == Running(parent, group, 2, argv, cwd)
  IN {InTerminal(Processes(2, TabShell(2)) @@ Processes(4, Helper), 2)}
     \cup {InTerminal(Two(Job(3, 2, <<vim, file>>, d)), g) : d \in {home, secret}, g \in {2, 3}}
     \cup {InTerminal(Three(Job(3, 2, <<vim, file>>, home), Job(g, p, <<sudo, vim>>, home)), 3)
             : g \in {3, 4}, p \in {2, 3}}
     \cup {InTerminal(Processes(5, TabShell(5)) @@ Processes(3, Running(5, 5, 5, c, home)), 2)
             : c \in MCCommandLine}

(* Two tabs, each with a job.                                              *)
TwoTabs ==
  [InTerminal(Processes(2, TabShell(2)) @@ Processes(3, Running(2, 3, 2, <<vim, file>>, home))
                @@ Processes(4, Running(5, 5, 5, <<vim, file>>, home))
                @@ Processes(5, TabShell(5)), 3)
   EXCEPT !.goesOn["processes"] = 0]

-----------------------------------------------------------------------------
(* Documents and monitors *)

MCSources ==
  [app \in Adapted |-> CASE app = editor -> <<"cmdline", "recent-files">>
                         [] app = office -> <<"cmdline", "app-history">>
                         [] app = files -> <<"fd", "recent-files">>]

InCommand(form, d) == [form |-> form, of |-> d]

CommandLines ==
  {<<>>, <<InCommand("path", letter)>>, <<InCommand("option", letter)>>,
   <<InCommand("path", gone), InCommand("path", letter), InCommand("uri", private)>>,
   <<InCommand("path", library), InCommand("uri", letter), InCommand("path", draft)>>}

Recently == {<<>>, <<[of |-> draft, apps |-> {editor, files}, old |-> FALSE],
                     [of |-> letter, apps |-> {editor}, old |-> TRUE]>>}

WithDocuments ==
  UNION {
    {[WithWindows(<<[Plain EXCEPT !.app = app, !.class = app, !.cmdline = words,
                                  !.openFiles = open, !.name = name]>>)
      EXCEPT !.recent = recent, !.history = history] :
        words \in CommandLines, open \in {<<>>, <<library, private, draft>>},
        name \in {NoName, letter}, recent \in Recently,
        history \in {<<>>, <<letter, draft, letter>>}}
    : app \in Adapted}

MCLayouts == {<<laptop>>, <<laptop, beamer>>, <<beamer, laptop>>}

(* Two windows on two monitors. *)
OnMonitors ==
  LET window == [Plain EXCEPT !.app = editor, !.class = editor,
                              !.cmdline = <<InCommand("path", letter)>>]
  IN [WithWindows(<<window, [window EXCEPT !.app = NoApp, !.cmdline = <<>>]>>)
      EXCEPT !.plugged = <<laptop, beamer>>, !.showing = <<laptop, beamer>>,
             !.goesOn["monitors"] = 3]

(* Windows that are left out, for every reason there is. *)
LeftOut ==
  WithWindows(<<[Plain EXCEPT !.app = editor, !.normal = FALSE], Plain,
                [Plain EXCEPT !.app = Synthetic, !.class = editor],
                [Plain EXCEPT !.app = editor, !.taskbar = FALSE],
                [TerminalWindow EXCEPT !.app = private], TerminalWindow,
                [Plain EXCEPT !.class = editor]>>)

-----------------------------------------------------------------------------
(* Browser windows *)

MCLikeness ==
  [titles \in Title \X Title |->
     IF titles[1] = titles[2] THEN 100
     ELSE IF secretly \in {titles[1], titles[2]} THEN 40 ELSE 94]

MCAgreement == [sizes \in Size \X Size |-> IF sizes[1] = sizes[2] THEN 100 ELSE 20]

MCTabSet == BoundedSeq({mail, paper}, 2)

Page(url, title, active) == [url |-> url, title |-> title, active |-> active]

Pages ==
  {<<Page(mail, inbox, TRUE)>>, <<Page(paper, inbox, TRUE)>>,
   <<Page(mail, inbox, FALSE), Page(bank, news, TRUE)>>,
   <<Page(mail, inbox, FALSE), Page(paper, news, TRUE)>>}

Reported(tabs, size) == [tabs |-> tabs, size |-> size]

BrowserWindow(title, size) ==
  [Plain EXCEPT !.app = browser, !.class = browser, !.title = title, !.size = size]

(* Two windows, private, without a title or of one title among them, and   *)
(* what the add-on has of them.                                            *)
WithBrowser ==
  LET found == {BrowserWindow(inbox, big), BrowserWindow(inbox, NoSize),
                BrowserWindow(news, big), BrowserWindow(secretly, big),
                BrowserWindow(NoTitle, NoSize)}
      told == {Reported(tabs, big) : tabs \in Pages} \cup
              {Reported(<<Page(paper, inbox, TRUE)>>, NoSize)}
  IN {[WithWindows(windows) EXCEPT !.reported = reported] :
        windows \in BoundedSeq(found, 2) \ {<<>>}, reported \in BoundedSeq(told, 2)}

(* Three windows of one title, and what the session file has of them.      *)
FromSessionFile ==
  {[WithWindows([i \in 1 .. 3 |-> BrowserWindow(inbox, NoSize)]) EXCEPT !.sessionFile = found] :
     found \in BoundedSeq({Reported(tabs, NoSize) : tabs \in Pages}, 3)}

-----------------------------------------------------------------------------
WithVpns ==
  {[Session EXCEPT !.known = Connection, !.up = connected, !.goesOn["vpn"] = 5] :
     connected \in {{work}, Connection}}

MCScenes ==
  Terminals \cup {TwoTabs, OnMonitors, LeftOut} \cup WithDocuments \cup WithBrowser
    \cup FromSessionFile \cup WithVpns

(* Two tabs with a job each. *)
OneTerminal == {TwoTabs}
=============================================================================
