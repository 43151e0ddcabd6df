-------------------------- MODULE MCBrowserBridge --------------------------
(* Values for the constants of BrowserBridge. *)
EXTENDS BrowserBridge

CONSTANTS p, q

Sure(tabs) == [tabs |-> tabs, sure |-> TRUE]

(* Two windows of which the one shows what the other shows, and one window *)
(* to ask for among some that are not.                                     *)
MCSavedLists ==
  {<<Sure({p}), Sure({p, q, About})>>,
   <<[tabs |-> {q}, sure |-> FALSE], Sure({About}), Sure({}), Sure({p})>>}

MCLastSessions == {<<{p}>>}

MCUserWindows == {{p, q}}
=============================================================================
