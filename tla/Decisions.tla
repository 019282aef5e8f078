------------------------------ MODULE Decisions ------------------------------
(***************************************************************************)
(* What one component decides on its own, from state that keeps changing   *)
(* under it: the rollout's rules (RolloutPolicy, which this module         *)
(* extends), the alert rules (Alert), accounts (Account), API pollers      *)
(* (Poller), power windows (Sampler) and charts (Chart), and the release   *)
(* marker of a binary (Marker).  They share no state: a behaviour is about *)
(* one of them, and the others stay as they were at first.                 *)
(***************************************************************************)
EXTENDS RolloutPolicy, Sequences

\* Of alerts and accounts.
CONSTANTS
    Rules, Offline, Duration, Threshold, Intervals, Fresh, Continuity, Levels, LongPoll,
    Switched, MaxTime, AlertBudgets, None,
    Users, Calls, EnvToken, AccountBudgets

\* Of pollers, windows, charts and markers.
CONSTANTS
    Pollers, Settings, Requests, PollerBudgets,
    Gpus, Domains, Sources, Watts, Expected, MaxSensors, MaxEvents,
    Charted, Width, Bins, Now, Skew, Lookback, Stores, Arrivals, Caps,
    Symbols, Prefix, Numbers, Stop, Chunk, Streams, Unnumbered, Refused, Reading

VARIABLES
    part,
    now, interval, row, rule, unmet, incidents, pass, next, log, recovered, count, left,
    role, setupToken, tokenFile, call, admitted, stale, accountBudget,
    api, machine, entry, poller, request, overlapped, pollerBudget,
    w, gapPending, bucket, seen, about, events,
    store, req, cap, cursor, raw, pendingIndex, pending, folded, truncated,
    oldestBin, before, todo, newest, reading,
    stream, pos, buf, found, verdict

alertVars ==
    <<now, interval, row, rule, unmet, incidents, pass, next, log, recovered, count, left>>
accountVars == <<role, setupToken, tokenFile, call, admitted, stale, accountBudget>>
pollerVars == <<api, machine, entry, poller, request, overlapped, pollerBudget>>
windowVars == <<w, gapPending, bucket, seen, about, events>>
chartVars ==
    <<store, req, cap, cursor, raw, pendingIndex, pending, folded, truncated,
      oldestBin, before, todo, newest, reading>>
markerVars == <<stream, pos, buf, found, verdict>>

(***************************************************************************)
(* The parts.                                                              *)
(***************************************************************************)
Alert == INSTANCE Alerts WITH Budgets <- AlertBudgets, pending <- unmet
Account == INSTANCE Accounts
Poller == INSTANCE ApiPollers
Sampler == INSTANCE PowerWindow
Chart == INSTANCE FleetPower WITH Machines <- Charted, phase <- reading
Marker == INSTANCE ReleaseMarker

\* The records of the alert rules that None is told apart from: a machine's row,
\* with the rules' settings, and a pass.
Rows == [status : {"online", "offline", "error"}, seen : Nat, level : Levels, at : Nat]
Configs == [on : BOOLEAN, limit : Int]
Passes ==
    [at : Nat, row : Rows \cup {None}, rule : [Rules -> Configs], todo : SUBSET Rules,
     open : SUBSET Rules, read : BOOLEAN]

(***************************************************************************)
(* Times and readings are integers, None is neither a row nor a pass, and  *)
(* no goroutine is numbered 0, which stands for none in the pollers'       *)
(* table.  Settings are not the absence of a row.                          *)
(***************************************************************************)
ASSUME DecisionsAssumption ==
    /\ Duration \in [Rules -> Nat]
    /\ Intervals \subseteq Nat /\ Levels \subseteq Int \cup {None}
    /\ {Threshold, Fresh, Continuity, LongPoll} \subseteq Nat
    /\ None \notin Rows \cup Passes
    /\ 0 \notin Pollers /\ Poller!NoRow \notin Settings

(***************************************************************************)
(* The marker's prefix and the files are sequences of symbols, and a       *)
(* verdict that is no release differs from every release: parsing refuses  *)
(* sequence zero, which stands for a build without one.                    *)
(***************************************************************************)
ASSUME MarkerAssumption ==
    /\ Prefix \in Seq(Symbols) /\ Streams \subseteq Seq(Symbols) /\ Chunk \in Nat
    /\ {Unnumbered, Refused, Reading} \cap Numbers = {}
    /\ Reading \notin {Unnumbered, Refused}

(***************************************************************************)
(* A host has finitely many sensors, readings are integers, and a sample   *)
(* always has a label.                                                     *)
(***************************************************************************)
ASSUME WindowAssumption ==
    /\ IsFiniteSet(Gpus) /\ Watts \subseteq Int /\ {Expected, MaxSensors} \subseteq Nat
    /\ << >> \notin Sources

\* What the table of power windows may hold: what validatePowerBatch let in, or a
\* payload that no longer decodes.
WindowStats == [source : STRING, samples : Nat, watts : Nat, valid : BOOLEAN]
StoredWindows ==
    [machine : Charted, id : Int, end : Int, expected : Nat,
     payload : {Chart!Corrupt} \cup
               [system : WindowStats, cpu : WindowStats, dram : WindowStats, gpu : WindowStats]]

(***************************************************************************)
(* A table is finite, also while a request reads it.                       *)
(***************************************************************************)
ASSUME ChartAssumption ==
    /\ Width \in Nat \ {0} /\ {Bins, Now, Skew, Lookback} \subseteq Nat /\ Caps \subseteq Nat
    /\ Arrivals \subseteq StoredWindows
    /\ \A S \in Stores : IsFiniteSet(S) /\ S \subseteq StoredWindows

----------------------------------------------------------------------------
\* Of a part that rests, one initial state.
RestInterval == CHOOSE i \in Intervals : TRUE
RestSwitched == CHOOSE S \in Switched : TRUE
RestAlerts == CHOOSE b \in AlertBudgets : TRUE
RestAccounts == CHOOSE b \in AccountBudgets : TRUE
RestPollers == CHOOSE b \in PollerBudgets : TRUE
RestStore == CHOOSE s \in Stores : TRUE
RestCap == CHOOSE c \in Caps : TRUE
RestStream == CHOOSE s \in Streams : TRUE

AlertsAtRest ==
    /\ interval = RestInterval /\ left = RestAlerts
    /\ rule = [r \in Rules |-> [on |-> r \in RestSwitched, limit |-> 0]]
ChartAtRest == store = RestStore /\ req = "history" /\ cap = RestCap

DecisionsInit ==
    /\ part \in {"policy", "alerts", "accounts", "pollers", "window", "chart", "marker"}
    /\ Init /\ Sampler!Init
    /\ (part = "alerts" \/ (part # "alerts" /\ AlertsAtRest)) /\ Alert!Init
    /\ (part = "accounts" \/ (part # "accounts" /\ accountBudget = RestAccounts))
    /\ Account!Init
    /\ (part = "pollers" \/ (part # "pollers" /\ pollerBudget = RestPollers))
    /\ Poller!Init
    /\ \/ part = "marker" /\ ChartAtRest /\ Chart!Init /\ Marker!Init
       \/ /\ part # "marker" /\ stream = RestStream /\ Marker!Init
          /\ (part = "chart" \/ (part # "chart" /\ ChartAtRest)) /\ Chart!Init

DecisionsNext ==
    \/ part = "policy" /\ Next
       /\ UNCHANGED <<part, alertVars, accountVars, pollerVars, windowVars, chartVars, markerVars>>
    \/ part = "alerts" /\ Alert!Next
       /\ UNCHANGED <<part, vars, accountVars, pollerVars, windowVars, chartVars, markerVars>>
    \/ part = "accounts" /\ Account!Next
       /\ UNCHANGED <<part, vars, alertVars, pollerVars, windowVars, chartVars, markerVars>>
    \/ part = "pollers" /\ Poller!Next
       /\ UNCHANGED <<part, vars, alertVars, accountVars, windowVars, chartVars, markerVars>>
    \/ part = "window" /\ Sampler!Next
       /\ UNCHANGED <<part, vars, alertVars, accountVars, pollerVars, chartVars, markerVars>>
    \/ part = "chart" /\ Chart!Next
       /\ UNCHANGED <<part, vars, alertVars, accountVars, pollerVars, windowVars, markerVars>>
    \/ part = "marker" /\ Marker!Next
       /\ UNCHANGED <<part, vars, alertVars, accountVars, pollerVars, windowVars, chartVars>>

decisionsVars ==
    <<part, vars, alertVars, accountVars, pollerVars, windowVars, chartVars, markerVars>>
DecisionsSpec == DecisionsInit /\ [][DecisionsNext]_decisionsVars

----------------------------------------------------------------------------
\* An alert is opened on a breach that was observed for as long as its rule
\* says, once, and on a machine that exists (evaluateAlertsAt).
OpenedWhenHeld == Alert!OpenedWhenHeld /\ Alert!OneIncident

\* An alert ends because something contradicted it (evaluateAlertsAt).
EndsByEvidence == Alert!EndsByEvidence

\* Unless a role that a guard had read was stale when the statement ran, the hub
\* keeps an administrator once it has one, and setup makes one (auth.go, users.go).
AdminsKept == Account!AdminsKept

\* At most one goroutine goes on polling an API machine, the one the table can
\* stop.  Between requests it polls with what the row says, and only while there
\* is a row, unless an edit overlapped an edit or a deletion since the hub
\* started (main.go).
OnePoller == Poller!OnePoller /\ Poller!PollsTheRow

\* Every window an agent closes is one the hub accepts, and its totals are sums
\* over what it names (power_history.go of both).
WindowsAreSound == Sampler!EmittedIsAccepted /\ Sampler!NothingBlended

\* A capped chart shows whole bins in their place, its watts are measured ones,
\* and a current reading is the machine's latest word (fleet_power.go,
\* fleet_power_total.go, fleet_power_latest.go).
FleetReadsAreTrue ==
    /\ Chart!WholeBinsOnly /\ Chart!ChartedWhereMeasured /\ Chart!OnlyMeasuredAdded
    /\ Chart!CurrentIsLatest

\* Wherever the chunk boundaries fall (ExtractReleaseReader).
ScanIsContract == Marker!ScanIsContract
=============================================================================
