-------------------------------- MODULE Alerts --------------------------------
(***************************************************************************)
(* The alert rules of one machine (hub/alerts.go) against what keeps       *)
(* changing while a pass evaluates them: telemetry, disconnects and API    *)
(* polls (hub/main.go), acknowledgements, rule edits, deletion and hub     *)
(* restarts.  Time is counted in evaluation ticks of 30 s.                 *)
(***************************************************************************)
EXTENDS Integers, Sequences, FiniteSets

CONSTANTS
    Rules, Offline, \* rule ids, and those on the metric machine_offline
    Duration,       \* duration_secs of each rule
    Threshold,      \* of the offline rules
    Intervals,      \* poll intervals of the machine; 0 is a native agent
    Fresh,          \* 120 s
    Continuity,     \* 90 s between two observations
    Levels,         \* readings of the metric; None is a missing one
    LongPoll,       \* 90 s, above which the interval widens the freshness
    Switched,       \* the sets of rules that may be enabled at first
    MaxTime,        \* bound
    Budgets,        \* bounds: [edit, abort, restart, delete, ack]
    None

VARIABLES
    now, interval,
    row,        \* machines row and latest metrics: [status, seen, level, at], or None
    rule,       \* [on, limit] of each rule; limit is that of a metric
    pending,    \* alertPending
    incidents,  \* alerts: [id, rule, status, upto]
    pass,       \* the evaluation under way, or None
    next,       \* its nextPending
    log,        \* ghost: what every pass observed, and restarts
    recovered,  \* ghost: rules contradicted since their incident was observed
    count, left

fleet == <<interval, row, rule>>
vars == <<now, fleet, pending, incidents, pass, next, log, recovered, count, left>>

Spend(kind) == left[kind] > 0 /\ left' = [left EXCEPT ![kind] = @ - 1]

Restarted == << >>
NothingPending == [r \in Rules |-> None]
Unresolved(i) == i.status \in {"active", "acknowledged"}

-----------------------------------------------------------------------------
(* What changes the machine's row.                                         *)

\* upsertMachine and storeMetrics, or a successful API poll: a level, or None;
\* once a tick (bound).
Report(level) ==
    /\ row # None => row.at # now
    /\ row' = [status |-> "online", seen |-> now, level |-> level, at |-> now]
    /\ recovered' = [r \in Rules |-> recovered[r] \/ r \in Offline
                                       \/ (level # None /\ level <= rule[r].limit)]
    /\ UNCHANGED <<now, interval, rule, pending, incidents, pass, next, log, count, left>>

\* markOffline on a native agent; markAPIMachineError on a polled one.
Unreachable ==
    /\ row # None /\ row.status = "online"
    /\ row' = IF interval = 0 THEN [row EXCEPT !.status = "offline"]
              ELSE [row EXCEPT !.status = "error", !.seen = now]
    /\ recovered' = [r \in Rules |-> recovered[r] \/ (r \in Offline /\ interval # 0)]
    /\ UNCHANGED <<now, interval, rule, pending, incidents, pass, next, log, count, left>>

\* handleDeleteMachine takes the alerts along.
Delete ==
    /\ row # None /\ Spend("delete")
    /\ row' = None /\ incidents' = {}
    /\ UNCHANGED <<now, interval, rule, pending, pass, next, log, recovered, count>>

\* handleUpdateAlertRule: the switch or the threshold.
Edit(r) ==
    /\ Spend("edit")
    /\ rule' \in {[rule EXCEPT ![r].on = ~@], [rule EXCEPT ![r].limit = 1 - @]}
    /\ recovered' = [recovered EXCEPT ![r] = @ \/ rule'[r].limit # rule[r].limit]
    /\ UNCHANGED <<now, interval, row, pending, incidents, pass, next, log, count>>

Acknowledge(i) ==
    /\ i.status = "active" /\ Spend("ack")
    /\ incidents' = (incidents \ {i}) \cup {[i EXCEPT !.status = "acknowledged"]}
    /\ UNCHANGED <<now, fleet, pending, pass, next, log, recovered, count>>

\* runCleanup: resolved history only.
Cleanup ==
    /\ \E i \in incidents : ~Unresolved(i)
    /\ incidents' = {i \in incidents : Unresolved(i)}
    /\ UNCHANGED <<now, fleet, pending, pass, next, log, recovered, count, left>>

-----------------------------------------------------------------------------
(* One pass, under alertEvalMu.                                            *)

FreshFor == IF interval > LongPoll THEN interval + 1 ELSE Fresh

\* Mutant: a machine that stopped reporting reads as below every limit.
Observed_Zero(r, m, at, cfg) ==
    IF m = None \/ ~cfg[r].on THEN "unknown"
    ELSE IF r \in Offline THEN IF at - m.seen - interval > Threshold THEN "hit" ELSE "miss"
    ELSE IF m.level # None /\ m.level > cfg[r].limit /\ at - m.seen <= FreshFor THEN "hit" ELSE "miss"

\* What a pass at a time makes of a rule: missing or stale is unknown.
Observed(r, m, at, cfg) ==
    IF m = None \/ ~cfg[r].on THEN "unknown"
    ELSE IF r \in Offline THEN IF at - m.seen - interval > Threshold THEN "hit" ELSE "miss"
    ELSE IF m.status # "online" \/ at - m.seen > FreshFor \/ at - m.at > FreshFor \/ m.level = None
         THEN "unknown"
    ELSE IF m.level > cfg[r].limit THEN "hit" ELSE "miss"

\* The rules and machines are read.
PassRead ==
    /\ pass = None
    /\ \A k \in DOMAIN log : (k = Len(log) /\ log[k] # Restarted) => log[k].at # now
    /\ pass' = [at |-> now, row |-> row, rule |-> rule, todo |-> {}, open |-> {}, read |-> FALSE]
    /\ recovered' = [r \in Rules |-> recovered[r] /\ \E i \in incidents : i.rule = r /\ Unresolved(i)]
    /\ UNCHANGED <<now, fleet, pending, incidents, next, log, count, left>>

\* The unresolved alerts, read once for the pass.
OpenOf == {i.rule : i \in {j \in incidents : Unresolved(j)}}

PassOpen ==
    /\ pass # None /\ ~pass.read
    /\ pass' = [pass EXCEPT !.read = TRUE, !.open = OpenOf,
                            !.todo = {r \in Rules : pass.rule[r].on /\ pass.row # None}]
    /\ next' = NothingPending
    /\ log' = Append(log, [at |-> pass.at, limit |-> [r \in Rules |-> pass.rule[r].limit],
                           out |-> [r \in Rules |-> Observed(r, pass.row, pass.at, pass.rule)]])
    /\ UNCHANGED <<now, fleet, pending, incidents, recovered, count, left>>

\* A failed read: the pass leaves the pending conditions as they were.
Abort ==
    /\ pass # None /\ ~pass.read /\ Spend("abort")
    /\ pass' = None
    /\ UNCHANGED <<now, fleet, pending, incidents, next, log, recovered, count>>

\* Mutant: the wait outlives a gap in the observations.
Continues_AnyGap(r) == pending[r] # None /\ pending[r].rule = pass.rule[r]

\* The condition has been observed without a gap and under the same rule.
Continues(r) ==
    /\ pending[r] # None /\ pending[r].rule = pass.rule[r]
    /\ pass.at - pending[r].observed <= Continuity

Since(r) == IF Continues(r) THEN pending[r].since ELSE pass.at

\* The insert is conditional on the machine still being there.
Opens(r) ==
    IF row = None THEN UNCHANGED <<incidents, count>>
    ELSE /\ incidents' = incidents \cup {[id |-> count, rule |-> r, status |-> "active", upto |-> Len(log)]}
         /\ count' = count + 1

Resolves(r) ==
    incidents' = {IF i.rule = r /\ Unresolved(i) THEN [i EXCEPT !.status = "resolved"] ELSE i :
                    i \in incidents}

\* The loop body for one rule: wait, open, refresh or resolve.  A failed write
\* leaves the incident to the next pass.
Judge(r) ==
    LET out  == Observed(r, pass.row, pass.at, pass.rule)
        open == r \in pass.open
        wait == out = "hit" /\ ~open /\ Duration[r] > 0
    IN  /\ pass # None /\ pass.read /\ r \in pass.todo
        /\ pass' = [pass EXCEPT !.todo = @ \ {r}]
        /\ next' = IF wait
                   THEN [next EXCEPT ![r] = [since |-> Since(r), observed |-> pass.at, rule |-> pass.rule[r]]]
                   ELSE next
        /\ \/ /\ out = "hit" /\ ~open /\ (wait => pass.at - Since(r) >= Duration[r])
              /\ Opens(r) /\ UNCHANGED left
           \/ /\ out = "miss" /\ open /\ Resolves(r)
              /\ UNCHANGED <<count, left>>
           \/ /\ ~(out = "hit" /\ ~open /\ (wait => pass.at - Since(r) >= Duration[r]))
              /\ ~(out = "miss" /\ open)
              /\ UNCHANGED <<incidents, count, left>>
           \/ /\ (out = "hit") # open /\ out # "unknown" /\ Spend("abort")
              /\ UNCHANGED <<incidents, count>>
        /\ UNCHANGED <<now, fleet, pending, log, recovered>>

PassEnd ==
    /\ pass # None /\ pass.read /\ pass.todo = {}
    /\ pass' = None /\ pending' = next /\ next' = NothingPending
    /\ UNCHANGED <<now, fleet, incidents, log, recovered, count, left>>

\* The hub restarts: the waits are in memory only.
Restart ==
    /\ Spend("restart")
    /\ pass' = None /\ pending' = NothingPending /\ next' = NothingPending
    /\ log' = Append(log, Restarted)
    /\ UNCHANGED <<now, fleet, incidents, recovered, count>>

Tick == /\ now < MaxTime /\ now' = now + 1
        /\ UNCHANGED <<fleet, pending, incidents, pass, next, log, recovered, count, left>>

-----------------------------------------------------------------------------
Init ==
    /\ now = 0 /\ interval \in Intervals /\ row = None
    /\ \E S \in Switched : rule = [r \in Rules |-> [on |-> r \in S, limit |-> 0]]
    /\ pending = NothingPending /\ incidents = {} /\ pass = None /\ next = NothingPending
    /\ log = << >> /\ recovered = [r \in Rules |-> FALSE] /\ count = 0 /\ left \in Budgets

Next ==
    \/ Tick \/ (\E level \in Levels : Report(level)) \/ Unreachable \/ Delete
    \/ (\E r \in Rules : Edit(r) \/ Judge(r)) \/ (\E i \in incidents : Acknowledge(i)) \/ Cleanup
    \/ PassRead \/ PassOpen \/ Abort \/ PassEnd \/ Restart

Spec == Init /\ [][Next]_vars

-----------------------------------------------------------------------------
\* An incident is opened only when every observation of some stretch as long as
\* the rule's duration was a breach under the same limit, with no gap above 90 s
\* and no restart in it (docs/alerts.md).
OpenedWhenHeld ==
    \A i \in incidents : \E s \in 1..i.upto :
        /\ \A k \in s..i.upto : log[k] # Restarted
        /\ \A k \in s..i.upto : log[k].out[i.rule] = "hit" /\ log[k].limit[i.rule] = log[i.upto].limit[i.rule]
        /\ \A k \in s + 1..i.upto : Duration[i.rule] > 0 => log[k].at - log[k - 1].at <= Continuity
        /\ log[i.upto].at - log[s].at >= Duration[i.rule]

\* However acknowledgements, deletions, failed writes and passes interleave, a
\* condition has at most one unresolved incident, on a machine that exists: no
\* constraint of the table enforces it.
OneIncident ==
    /\ \A i, j \in incidents : (i.rule = j.rule /\ Unresolved(i) /\ Unresolved(j)) => i = j
    /\ row = None => incidents = {}

\* An incident ends because a reading, a contact or a new threshold contradicted
\* it, never because the machine fell silent or a read failed.
EndsByEvidence ==
    [][\A i \in incidents, j \in incidents' :
         (i.id = j.id /\ Unresolved(i) /\ ~Unresolved(j)) => recovered[i.rule]]_vars
=============================================================================
