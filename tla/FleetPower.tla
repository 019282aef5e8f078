------------------------------ MODULE FleetPower ------------------------------
(***************************************************************************)
(* The two fleet power reads of the hub: the charted history, streamed     *)
(* from the stored windows into chart bins under an optional row cap       *)
(* (hub/fleet_power.go), and the current reading, one query per machine    *)
(* while new windows keep arriving (hub/fleet_power_latest.go).  Watts     *)
(* matter only as absent, zero or positive; time is counted in units of    *)
(* the agent's window.                                                     *)
(***************************************************************************)
EXTENDS Integers, FiniteSets

CONSTANTS
    Machines,
    Width,       \* units in one chart bin
    Bins,        \* chart bins of the period
    Now,         \* the hub's clock when the request is served
    Skew,        \* fleetPowerFutureSkewToleranceMS
    Lookback,    \* fleetPowerCurrentLookbackMS
    Stores,      \* the tables a request may find: sets of rows
    Arrivals,    \* rows that may be committed during a current read
    Caps         \* max_records, 0 for none

VARIABLES
    store,       \* power_history_records
    req,         \* "history" or "current"
    cap, cursor, \* history: the cap, and the rows the cursor has yet to yield,
                 \* newest first
    raw, pendingIndex, pending,
    folded,      \* rows the aggregation has consumed
    truncated, oldestBin,
    before,      \* current: the table when the request began
    todo,        \* machines not queried yet
    newest,      \* the row chosen for each queried machine
    phase        \* "reading", "done" or "failed"

historyVars == <<cap, cursor, raw, pendingIndex, pending, folded, truncated, oldestBin>>
currentVars == <<before, todo, newest>>
vars == <<store, req, historyVars, currentVars, phase>>

Scalar == {"system", "cpu", "dram"}
ChartDomains == Scalar \cup {"gpu", "cpu_gpu"}
NoRow == [machine |-> "none"]
Corrupt == << >>  \* a payload that does not decode

\* The hub's ORDER BY end_unix_ms DESC, id DESC.
Newer(r, s) == r.end > s.end \/ (r.end = s.end /\ r.id > s.id)

-----------------------------------------------------------------------------
(* What one stored window says of a domain.  A payload maps each scalar    *)
(* domain and the GPU total to [source, samples, watts, valid].            *)

Modelled(source) == source = "estimate-util"
Hwmon(source) == source = "hwmon"

\* fleetPowerMeasuredDomain
MeasuredDomain(d, source) ==
    <<d, source>> \in {<<"system", "rapl-psys">>, <<"system", "ipmi-dcmi">>,
                       <<"cpu", "rapl-package">>, <<"dram", "rapl-dram">>}

\* fleetPowerClassify: scope before measurement, unlabelled only for CPU.
Classify(d, source) ==
    IF d = "gpu" THEN "measured"
    ELSE IF source = "" THEN (IF d = "cpu" THEN "measured" ELSE "unknown")
    ELSE IF Modelled(source) THEN "estimated"
    ELSE IF d = "system" /\ (source = "battery" \/ Hwmon(source)) THEN "unknown"
    ELSE IF MeasuredDomain(d, source) \/ Hwmon(source) THEN "measured"
    ELSE "unknown"

\* fleetPowerFrozenCounterDomain
FrozenCounter(d, source) ==
    source \in {"rapl-psys", "rapl-package", "rapl-dram"} \/ (source = "" /\ d = "cpu")

\* Mutant: an all-zero window counts as a measurement.
KindFor_ZeroCounts(d, x) == Classify(d, x.source)

\* fleetPowerKindFor: an all-zero window of a RAPL counter is withheld.
KindFor(d, x) ==
    IF Classify(d, x.source) = "measured" /\ x.watts = 0 /\ FrozenCounter(d, x.source)
    THEN "unknown" ELSE Classify(d, x.source)

Unreported(why) == [kind |-> "none", reason |-> why, samples |-> 0]

ScalarReading(row, d) ==
    LET x == row.payload[d] IN
    IF x.samples = 0 THEN Unreported("absent")
    ELSE IF ~x.valid THEN Unreported("unreadable")
    ELSE [kind |-> KindFor(d, x), reason |-> "", samples |-> x.samples]

\* The first of the two components that is not a measurement says why not.
Unmeasured(p) == p.reason # "" \/ p.kind # "measured"
Refusal(cpu, gpu) ==
    LET bad == IF Unmeasured(cpu) THEN cpu ELSE gpu
    IN Unreported(IF bad.reason # "" THEN bad.reason ELSE "source_unverified")

\* Mutant: the two components may cover different parts of the window.
CombinedReading_Partial(row) ==
    LET cpu == ScalarReading(row, "cpu")
        gpu == ScalarReading(row, "gpu")
    IN IF Unmeasured(cpu) \/ Unmeasured(gpu) THEN Refusal(cpu, gpu)
       ELSE [kind |-> "measured", reason |-> "", samples |-> cpu.samples]

\* fleetPowerReadingFor the derived cpu_gpu view: both measured, both complete.
CombinedReading(row) ==
    LET cpu == ScalarReading(row, "cpu")
        gpu == ScalarReading(row, "gpu")
    IN IF Unmeasured(cpu) \/ Unmeasured(gpu) THEN Refusal(cpu, gpu)
       ELSE IF cpu.samples # row.expected \/ gpu.samples # row.expected
       THEN Unreported("incomplete_components")
       ELSE [kind |-> "measured", reason |-> "", samples |-> row.expected]

ReadingFor(row, d) ==
    IF d = "cpu_gpu" THEN CombinedReading(row) ELSE ScalarReading(row, d)

-----------------------------------------------------------------------------
(* History: the chart covers (0, Bins * Width].                            *)

\* Mutant: a window ending on a bin's edge goes to the bin after it.
Bin_EndEdge(row) == row.end \div Width

\* A window covers [start, end), so it belongs where it ended.
Bin(row) == (row.end - 1) \div Width

InPeriod(row) == row.end > 0 /\ row.end <= Bins * Width

Fold(rows) == folded' = folded \cup rows

\* Mutant: the rows of the bin that the cap cut are kept.
CutOff_KeepsPart(row) ==
    /\ cap > 0 /\ raw + 1 > cap
    /\ truncated' = TRUE
    /\ oldestBin' = pendingIndex /\ Fold(pending)
    /\ pending' = {} /\ cursor' = {} /\ phase' = "done"
    /\ UNCHANGED <<raw, pendingIndex>>

\* The cap is exceeded: the bin it cut is withheld whole, a bin it closed is kept.
CutOff(row) ==
    /\ cap > 0 /\ raw + 1 > cap
    /\ truncated' = TRUE
    /\ IF Bin(row) = pendingIndex
       THEN oldestBin' = pendingIndex + 1 /\ Fold({})
       ELSE oldestBin' = pendingIndex /\ Fold(pending)
    /\ pending' = {} /\ cursor' = {} /\ phase' = "done"
    /\ UNCHANGED <<raw, pendingIndex>>

\* A row within the cap; a corrupt payload is skipped but counted.
Take(row) ==
    LET usable == IF row.payload = Corrupt THEN {} ELSE {row}
        opens  == cap > 0 /\ Bin(row) # pendingIndex
    IN /\ cap > 0 => raw + 1 <= cap
       /\ raw' = raw + 1 /\ cursor' = cursor \ {row}
       /\ pendingIndex' = IF opens THEN Bin(row) ELSE pendingIndex
       /\ pending' = CASE cap = 0 -> {} [] opens -> usable [] OTHER -> pending \cup usable
       /\ Fold(CASE cap = 0 -> usable [] opens -> pending [] OTHER -> {})
       /\ UNCHANGED <<truncated, oldestBin, phase>>

\* The cursor yields the newest row it has left.
ReadRow ==
    /\ req = "history" /\ phase = "reading"
    /\ \E row \in cursor :
          /\ \A s \in cursor : s = row \/ Newer(row, s)
          /\ CutOff(row) \/ Take(row)
    /\ UNCHANGED <<store, req, cap, currentVars>>

EndOfRows ==
    /\ req = "history" /\ phase = "reading" /\ cursor = {}
    /\ Fold(pending) /\ pending' = {} /\ phase' = "done"
    /\ UNCHANGED <<store, req, cap, cursor, raw, pendingIndex, truncated, oldestBin, currentVars>>

\* The 8 s read budget or a failing cursor: no chart at all.
ReadFails ==
    /\ req = "history" /\ phase = "reading" /\ phase' = "failed"
    /\ UNCHANGED <<store, req, historyVars, currentVars>>

\* The rows behind one point of the chart.
Contributors(d, kind, bin) ==
    {r \in folded : Bin(r) = bin /\ ReadingFor(r, d).reason = "" /\ ReadingFor(r, d).kind = kind}

-----------------------------------------------------------------------------
(* Current: the latest stored row of each machine, whatever it is.         *)

\* Mutant: the newest row that would qualify.
Chosen_Qualifying(m) ==
    LET rows == {r \in store : r.machine = m /\ r.payload # Corrupt
                                /\ r.end <= Now + Skew /\ Now - r.end <= Lookback}
    IN IF rows = {} THEN {NoRow} ELSE {r \in rows : \A s \in rows : s = r \/ Newer(r, s)}

\* ORDER BY end_unix_ms DESC, id DESC LIMIT 1.
Chosen(m) ==
    LET rows == {r \in store : r.machine = m}
    IN IF rows = {} THEN {NoRow} ELSE {r \in rows : \A s \in rows : s = r \/ Newer(r, s)}

QueryMachine(m) ==
    /\ req = "current" /\ phase = "reading" /\ m \in todo
    /\ \E row \in Chosen(m) : newest' = [newest EXCEPT ![m] = row]
    /\ todo' = todo \ {m}
    /\ phase' = IF todo' = {} THEN "done" ELSE "reading"
    /\ UNCHANGED <<store, req, historyVars, before>>

\* Ingest commits another window between two queries.
Arrive(row) ==
    /\ req = "current" /\ phase = "reading"
    /\ row \notin store /\ store' = store \cup {row}
    /\ UNCHANGED <<req, historyVars, currentVars, phase>>

\* The value of a domain, or the reason there is none; skew and age first.
CurrentReading(m, d) ==
    LET row == newest[m] IN
    IF row = NoRow THEN Unreported("absent")
    ELSE IF row.payload = Corrupt THEN Unreported("unreadable")
    ELSE LET r == ReadingFor(row, d) IN
         IF r.reason = "absent" THEN r
         ELSE IF row.end > Now + Skew THEN Unreported("clock_skew")
         ELSE IF Now - row.end > Lookback THEN Unreported("stale")
         ELSE IF r.reason = "" /\ r.kind = "unknown" THEN Unreported("unverified")
         ELSE r

-----------------------------------------------------------------------------
Init ==
    /\ store \in Stores /\ req \in {"history", "current"}
    /\ cap \in (IF req = "history" THEN Caps ELSE {0})
    /\ cursor = IF req = "history" THEN {r \in store : InPeriod(r)} ELSE {}
    /\ raw = 0 /\ pendingIndex = -1 /\ pending = {} /\ folded = {}
    /\ truncated = FALSE /\ oldestBin = 0
    /\ before = store /\ todo = Machines /\ newest = [m \in Machines |-> NoRow]
    /\ phase = "reading"

Next ==
    \/ ReadRow \/ EndOfRows \/ ReadFails
    \/ \E m \in Machines : QueryMachine(m)
    \/ \E row \in Arrivals : Arrive(row)

Spec == Init /\ [][Next]_vars

\* A capped chart shows whole bins only: every readable window of the bins it
\* says it covers and nothing older, and it owns up to a cut exactly when rows
\* were left unread (the fold over a cursor, readFleetPowerHistory).
WholeBinsOnly ==
    (req = "history" /\ phase = "done") =>
        /\ folded = {r \in store : InPeriod(r) /\ r.payload # Corrupt /\ Bin(r) >= oldestBin}
        /\ truncated <=> (cap > 0 /\ Cardinality({r \in store : InPeriod(r)}) > cap)

\* A window is charted in a bin it spent time in, also when it ends on an edge.
ChartedWhereMeasured ==
    \A r \in folded : Bin(r) \in 0..Bins - 1 /\ r.end - 1 \in Bin(r) * Width..(Bin(r) + 1) * Width - 1

\* The watts a chart adds up as measured come from a backend that measures that
\* domain of the whole machine and that moved: never a model, a package sum
\* labelled as the system, a battery or rail meter standing for the system, or
\* a counter frozen at zero; and a CPU plus GPU sum covers one whole window.
OnlyMeasuredAdded ==
    \A d \in ChartDomains, bin \in 0..Bins - 1 : \A r \in Contributors(d, "measured", bin) :
        LET p == r.payload
            Moved(x) == x.watts > 0 \/ x.source \notin {"", "rapl-psys", "rapl-package", "rapl-dram"}
        IN /\ d = "system" => p.system.source \in {"rapl-psys", "ipmi-dcmi"} /\ Moved(p.system)
           /\ d = "dram" => p.dram.source \in {"rapl-dram", "hwmon"} /\ Moved(p.dram)
           /\ d \in {"cpu", "cpu_gpu"} =>
                p.cpu.source \in {"", "rapl-package", "hwmon"} /\ Moved(p.cpu)
           /\ d = "cpu_gpu" => p.cpu.samples = r.expected /\ p.gpu.samples = r.expected

\* A current value is the machine's latest word: no window stored when the
\* request began supersedes it, and it is neither old nor ahead of the clock.
\* A machine gone dark, skewed or unreadable yields a reason, not an older value.
CurrentIsLatest ==
    \A m \in Machines \ todo, d \in ChartDomains :
        (req = "current" /\ CurrentReading(m, d).reason = "") =>
            /\ \A r \in before : r.machine = m => r = newest[m] \/ Newer(newest[m], r)
            /\ newest[m].end <= Now + Skew /\ Now - newest[m].end <= Lookback
=============================================================================
