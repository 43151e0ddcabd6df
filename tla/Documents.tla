----------------------------- MODULE Documents -----------------------------
(***************************************************************************)
(* src/restore_wss/documents.py with the lists of recentfiles.py: which    *)
(* documents a window shows, by everything that may tell.  All of it is a  *)
(* pure function of what was read, the context of the window.              *)
(*                                                                         *)
(* A document is one value whether it is told by a path or by a URI.  No   *)
(* adapter has "title" among its sources, so there is no such source here. *)
(***************************************************************************)
EXTENDS Integers, Sequences, FiniteSets, FiniteSetsExt, Selection

CONSTANTS
  Document,        \* what can be opened
  Plumbing,        \* those that are not is_document_path()
  Missing,         \* those that do not exist when the snapshot is taken
  ExcludedDocument,\* those under exclude_paths
  Adapted,         \* the applications that have an adapter
  Sources,         \* of an adapter, in order
  HasTitlePattern  \* the applications whose titles have the document's name

Source == {"cmdline", "fd", "recent-files", "app-history"}

ASSUME DocumentAssumption ==
  /\ Plumbing \cup Missing \cup ExcludedDocument \subseteq Document
  /\ Sources \in [Adapted -> Seq(Source)] /\ HasTitlePattern \subseteq Adapted

(* The limit of documents_for(). *)
DocumentLimit == 4

(* An argument of a command line, an entry of the recent store.            *)
CommandWord == [form : {"option", "path", "uri"}, of : Document]
RecentEntry == [of : Document, apps : SUBSET Adapted, old : BOOLEAN]

(* What the sources read for a window. *)
Context ==
  [cmdline : Seq(CommandWord), openFiles : Seq(Document),
   recent : Seq(RecentEntry), history : Seq(Document)]

(* A document of a window, or, of "title", its name only. *)
Found == [of : Document, source : Source \cup {"title"}]

(* CONFIDENCE, in per cent. *)
ConfidenceOf(source) ==
  CASE source = "cmdline" -> 100
    [] source = "app-history" -> 80
    [] source = "fd" -> 70
    [] source = "recent-files" -> 60
    [] source = "title" -> 50

-----------------------------------------------------------------------------
(* The sources *)

Each(entries) == [k \in DOMAIN entries |-> entries[k].of]

IsDocument(d) == d \notin Plumbing

(* A URI is believed, a path has to look like a document and be there.     *)
FromCommandLine(context) ==
  LET IsBelieved(word) ==
        \/ word.form = "uri"
        \/ word.form = "path" /\ IsDocument(word.of) /\ word.of \notin Missing
      words == context.cmdline
  IN Each(EntriesAt(words, {k \in DOMAIN words : IsBelieved(words[k])}))

FromDescriptors(context) ==
  LET open == context.openFiles
  IN EntriesAt(open, {k \in DOMAIN open : IsDocument(open[k])})

(* The same application, as _same_app() has it, in the last eight hours.   *)
FromRecent(app, context) ==
  LET recent == context.recent
  IN Each(EntriesAt(recent, {k \in DOMAIN recent : app \in recent[k].apps /\ ~recent[k].old}))

From(source, app, context) ==
  CASE source = "cmdline" -> FromCommandLine(context)
    [] source = "fd" -> FromDescriptors(context)
    [] source = "recent-files" -> FromRecent(app, context)
    [] source = "app-history" -> context.history

-----------------------------------------------------------------------------
(* documents_for() *)

(* By which source tells it, and where in its list.                        *)
AllFound(app, context) ==
  LET Told(s) == From(Sources[app][s], app, context)
      places == UNION {{s} \X DOMAIN Told(s) : s \in DOMAIN Sources[app]}
  IN [p \in places |-> [of |-> Told(p[1])[p[2]], source |-> Sources[app][p[1]]]]

(* One source after the other. *)
Earlier(places) ==
  {p \in places \X places :
     \/ p[1][1] < p[2][1]
     \/ p[1][1] = p[2][1] /\ p[1][2] < p[2][2]}

(* Each one once, for its best source, and no more than the limit.         *)
FirstOfEach(found) ==
  LET first == {p \in DOMAIN found :
                  \A q \in DOMAIN found :
                    <<q, p>> \in Earlier(DOMAIN found) => found[q].of # found[p].of}
  IN [k \in 1 .. Min({Cardinality(first), DocumentLimit}) |->
        found[Sorted(first, Earlier(first))[k]]]

(* `name' is the document whose name is in the title.                      *)
DocumentsFor(app, name, context) ==
  IF app \notin Adapted THEN <<>>
  ELSE LET found == FirstOfEach(AllFound(app, context)) IN
    IF found = <<>> /\ app \in HasTitlePattern /\ name \in Document
    THEN <<[of |-> name, source |-> "title"]>>
    ELSE found

(* enrich_documents(): a name is under no path. *)
WindowDocuments(app, name, context) ==
  LET found == DocumentsFor(app, name, context)
  IN EntriesAt(found, {k \in DOMAIN found :
                         found[k].source = "title" \/ found[k].of \notin ExcludedDocument})

-----------------------------------------------------------------------------
(* build_plan() *)

(* A name alone cannot be reopened. *)
Openable(documents) ==
  Each(EntriesAt(documents, {k \in DOMAIN documents : documents[k].source # "title"}))

(* Mutant: as sure as of the surest. *)
SurestOf(documents, otherwise) ==
  IF documents = <<>> THEN otherwise
  ELSE CHOOSE c \in {ConfidenceOf(documents[k].source) : k \in DOMAIN documents} :
         \A k \in DOMAIN documents : c >= ConfidenceOf(documents[k].source)

(* As sure as of the least sure, and of everything else. *)
WeakestOf(documents, otherwise) ==
  CHOOSE c \in {ConfidenceOf(documents[k].source) : k \in DOMAIN documents}
                 \cup {otherwise} :
    /\ c <= otherwise
    /\ \A k \in DOMAIN documents : c <= ConfidenceOf(documents[k].source)
=============================================================================
