--------------------------- MODULE VpnConnections ---------------------------
(***************************************************************************)
(* The VPN connections of a session: src/restore_wss/vpn.py with its use   *)
(* in daemon.py and restore.py.  What is up is read from NetworkManager at *)
(* most every VPN_POLL_SECONDS; a restore reads it again, plans, waits for *)
(* the windows, and only then brings connections up.                       *)
(*                                                                         *)
(* NetworkManager is external.  Each of its answers may be missing, which  *)
(* the code takes for a connection that is not there.  A connection is     *)
(* among the active ones from the moment ActivateConnection returns, and   *)
(* is none of them any more if it does not come up after all.  Time is in  *)
(* steps, PollSteps of which are VPN_POLL_SECONDS, and is not counted      *)
(* beyond the next.  A daemon that has no NetworkManager at all records    *)
(* and plans nothing and is left out.                                      *)
(***************************************************************************)
EXTENDS Integers

CONSTANTS
  Connection,    \* uuids
  PollSteps

ASSUME PollAssumption == PollSteps \in Nat

NeverChecked == -1
LongAgo == PollSteps + 1

VARIABLES
  known,         \* connections NetworkManager has settings for
  up,            \* those that are active
  cache,         \* _vpn_cache
  sinceChecked,  \* now - _vpn_checked
  misread,       \* whether an answer was missing then
  recorded,      \* extra["vpn"] of the snapshot
  wasUp,         \* what was up when the plan was begun
  vpnPlan,       \* what plan_vpn() says of each saved connection
  planMisread,   \* whether an answer was missing then
  sinceUp,       \* history: since when a connection has not been up
  sinceDown,     \* history: since when a connection has not been down
  cameUp         \* history: what has come up since the plan

nmVars == <<known, up>>
cacheVars == <<cache, sinceChecked, misread>>
vpnHistory == <<sinceUp, sinceDown, cameUp>>
planVars == <<wasUp, vpnPlan, planMisread>>
vpnVars == <<nmVars, cacheVars, recorded, planVars, vpnHistory>>

-----------------------------------------------------------------------------
(* NetworkManager *)

Later(n) == IF n < LongAgo THEN n + 1 ELSE n

(* Time passes, for what is remembered of the connections too.             *)
TimePasses ==
  /\ sinceChecked' = IF sinceChecked = NeverChecked THEN NeverChecked
                     ELSE Later(sinceChecked)
  /\ sinceUp' = [c \in Connection |-> IF c \in up THEN 0 ELSE Later(sinceUp[c])]
  /\ sinceDown' = [c \in Connection |-> IF c \in up THEN Later(sinceDown[c]) ELSE 0]
  /\ UNCHANGED <<nmVars, cache, misread, recorded, planVars, cameUp>>

ComesUp(c) ==
  /\ c \in known \ up
  /\ up' = up \cup {c}
  /\ cameUp' = cameUp \cup {c}
  /\ sinceUp' = [sinceUp EXCEPT ![c] = 0]
  /\ UNCHANGED <<known, cacheVars, recorded, planVars, sinceDown>>

GoesDown(c) ==
  /\ c \in up
  /\ up' = up \ {c}
  /\ sinceDown' = [sinceDown EXCEPT ![c] = 0]
  /\ UNCHANGED <<known, cacheVars, recorded, planVars, sinceUp, cameUp>>

IsDeleted(c) ==
  /\ c \in known \ up
  /\ known' = known \ {c}
  /\ UNCHANGED <<up, cacheVars, recorded, planVars, vpnHistory>>

VpnEvent ==
  \/ TimePasses
  \/ \E c \in Connection : ComesUp(c) \/ GoesDown(c) \/ IsDeleted(c)

-----------------------------------------------------------------------------
(* _active_vpns() and refresh() *)

(* What a caller makes of NetworkManager's answers: all of them, or, if    *)
(* some are missing, fewer.                                                *)
Answered(all) == {[uuids |-> got, missing |-> got # all] : got \in SUBSET all}

(* Mutant: a list that is not empty is good for ever. *)
NeedsPollIfEmpty == cache = {} /\ (sinceChecked = NeverChecked \/ sinceChecked > PollSteps)

NeedsPoll == sinceChecked = NeverChecked \/ sinceChecked > PollSteps

(* "if vpns": the extra of a new snapshot is empty otherwise. *)
RecordVpns ==
  /\ \/ /\ NeedsPoll
        /\ \E answer \in Answered(up) :
             /\ cache' = answer.uuids /\ misread' = answer.missing
        /\ sinceChecked' = 0
     \/ /\ ~NeedsPoll
        /\ UNCHANGED cacheVars
  /\ recorded' = cache'
  /\ UNCHANGED <<nmVars, planVars, vpnHistory>>

(* A daemon of another boot, started before anything is connected.         *)
StartVpns ==
  /\ cache' = {} /\ sinceChecked' = NeverChecked /\ misread' = FALSE
  /\ up' = {}
  /\ sinceUp' = [c \in Connection |-> LongAgo]
  /\ sinceDown' = [c \in Connection |-> 0]
  /\ UNCHANGED <<known, recorded, planVars, cameUp>>

-----------------------------------------------------------------------------
(* plan_vpn() and execute() *)

Plan(saved, active, settings) ==
  [c \in saved |-> IF c \in active THEN "already-up"
                   ELSE IF c \in settings THEN "activate" ELSE "missing"]

(* active_vpns() *)
ReadActive ==
  /\ \E active \in Answered(up) :
       wasUp' = active.uuids /\ planMisread' = active.missing
  /\ vpnPlan' = <<>> /\ cameUp' = {}
  /\ UNCHANGED <<nmVars, cacheVars, recorded, sinceUp, sinceDown>>

(* Mutant: what the last capture knew to be up. *)
PlanVpnsFromCache ==
  /\ \E settings \in Answered(known) :
       /\ vpnPlan' = Plan(recorded, cache, settings.uuids)
       /\ planMisread' = (misread \/ settings.missing)
  /\ wasUp' = {}
  /\ UNCHANGED <<nmVars, cacheVars, recorded, vpnHistory>>

(* known_uuids(), after that, and plan_vpn() *)
PlanVpns ==
  /\ \E settings \in Answered(known) :
       /\ vpnPlan' = Plan(recorded, wasUp, settings.uuids)
       /\ planMisread' = (planMisread \/ settings.missing)
  /\ wasUp' = {}
  /\ UNCHANGED <<nmVars, cacheVars, recorded, vpnHistory>>

(* One round of the loop of execute(): activate() brings it up or raises.  *)
Activate(c) ==
  /\ c \in DOMAIN vpnPlan /\ vpnPlan[c] = "activate"
  /\ vpnPlan' = [vpnPlan EXCEPT ![c] = "tried"]
  /\ \/ /\ c \in known
        /\ up' = up \cup {c} /\ cameUp' = cameUp \cup {c}
        /\ sinceUp' = [sinceUp EXCEPT ![c] = 0]
     \/ UNCHANGED <<up, cameUp, sinceUp>>
  /\ UNCHANGED <<known, wasUp, planMisread, cacheVars, recorded, sinceDown>>

VpnTypeOK ==
  /\ known \subseteq Connection /\ up \subseteq known
  /\ cache \subseteq Connection /\ recorded \subseteq Connection
  /\ sinceChecked \in NeverChecked .. LongAgo
  /\ wasUp \subseteq Connection
  /\ misread \in BOOLEAN /\ planMisread \in BOOLEAN
  /\ DOMAIN vpnPlan \subseteq Connection
  /\ \A c \in DOMAIN vpnPlan :
       vpnPlan[c] \in {"already-up", "activate", "missing", "tried"}
  /\ {sinceUp, sinceDown} \subseteq [Connection -> 0 .. LongAgo]
  /\ cameUp \subseteq Connection

-----------------------------------------------------------------------------
(* Properties *)

(* "A VPN that is already up is reported and left alone, not torn down and *)
(* raised again" (vpn.py:95): one is activated while it is up only if it   *)
(* came up after the plan was begun, or NetworkManager did not answer.      *)
LeftAloneIfUp ==
  [][\A c \in up : Activate(c) => c \in cameUp \/ planMisread]_vpnVars
=============================================================================
