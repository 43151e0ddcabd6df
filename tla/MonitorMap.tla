----------------------------- MODULE MonitorMap -----------------------------
(***************************************************************************)
(* src/extension/monitors.js: the map from the index Mutter gives a        *)
(* monitor to the connector it is plugged into, which is asked for again   *)
(* whenever the monitors change and is the old one until the answer comes. *)
(* Calls are answered in order, the last one after the last change.        *)
(* Mutter is external: it numbers the monitors anew and moves the windows  *)
(* of one that is gone.                                                    *)
(***************************************************************************)
EXTENDS Integers, Sequences

CONSTANTS
  Connector, NoConnector,
  Layouts         \* the monitors there may be, in the order of their indices

ASSUME LayoutAssumption ==
  /\ NoConnector \notin Connector
  /\ Layouts \subseteq Seq(Connector) \ {<<>>}

VARIABLES
  plugged,    \* layoutManager.monitors
  showing,    \* the connector of the monitor each window is on
  byIndex,    \* _byIndex
  unanswered, \* calls of GetCurrentState
  unknown     \* whether the answer to the last call was an error

monitorVars == <<plugged, showing, byIndex, unanswered, unknown>>

ConnectorsOf(layout) == {layout[i] : i \in DOMAIN layout}

(* The windows of a monitor that is unplugged come to be on another.       *)
Moved(layout) ==
  {new \in [DOMAIN showing -> ConnectorsOf(layout)] :
     \A w \in DOMAIN showing : showing[w] \in ConnectorsOf(layout) => new[w] = showing[w]}

(* enable(): the map is empty for the first few milliseconds.              *)
EnableMonitors ==
  /\ byIndex' = <<>> /\ unanswered' = 1 /\ unknown' = FALSE

(* Mutant: the map is asked for when it is empty only. *)
ReplugUnnoticed ==
  \E layout \in Layouts \ {plugged} :
    /\ plugged' = layout
    /\ showing' \in Moved(layout)
    /\ unanswered' = IF byIndex = <<>> THEN unanswered + 1 ELSE unanswered
    /\ UNCHANGED <<byIndex, unknown>>

(* monitors-changed: refresh() *)
Replug ==
  \E layout \in Layouts \ {plugged} :
    /\ plugged' = layout
    /\ showing' \in Moved(layout)
    /\ unanswered' = unanswered + 1
    /\ UNCHANGED <<byIndex, unknown>>

(* The callback.  An error leaves the map as it is; but _ingest() clears   *)
(* it first, and an exception there leaves as much as it has come to.      *)
Answer ==
  /\ unanswered > 0
  /\ unanswered' = unanswered - 1
  /\ \E layout \in Layouts :
       /\ unanswered = 1 => layout = plugged
       /\ \/ unknown' = FALSE /\ byIndex' = layout
          \/ unknown' = TRUE /\ UNCHANGED byIndex
          \/ unknown' = TRUE /\ \E n \in 0 .. Len(layout) - 1 : byIndex' = SubSeq(layout, 1, n)
  /\ UNCHANGED <<plugged, showing>>

(* window.get_monitor() *)
IndexOf(w) == CHOOSE i \in DOMAIN plugged : plugged[i] = showing[w]

(* connectorFor() *)
ConnectorFor(i) == IF i \in DOMAIN byIndex THEN byIndex[i] ELSE NoConnector

(* describe() tells the connectors of the monitors there are.              *)
ToldConnectors == {ConnectorFor(i) : i \in DOMAIN plugged} \ {NoConnector}
=============================================================================
