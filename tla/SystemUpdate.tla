----------------------------- MODULE SystemUpdate -----------------------------
(***************************************************************************)
(* The root-owned updater of the hub itself: the request mailbox           *)
(* (hub/system_update.go), the journalled transaction (updater/engine.py), *)
(* the native and Compose adapters and the recovery gate at boot           *)
(* (updater/native.py, compose.py, boot.py, cli.py).  A build is a number; *)
(* the database carries the schema of the last hub that opened it and the  *)
(* number of public writes it holds.                                       *)
(***************************************************************************)
EXTENDS Integers, FiniteSets

CONSTANTS
    Modes,      \* "native", "compose"
    Rids,       \* request ids
    Budgets,    \* bounds: [kill, reboot, fault, write]
    None

Services == {"proxy", "hub", "dash"}
Backends == {"hub", "dash"}
Terminal == {"succeeded", "rolled_back", "failed"}
Active == {"checking", "staging", "backing_up", "installing", "verifying", "rolling_back"}

VARIABLES
    mode, legacy,       \* deployment; whether build 1 ignores the marker
    request, status,    \* inbox/request.json; [state, rid] of outbox/status.json
    maint,              \* outbox/maintenance
    phase, rid, from,   \* the journal; the build its transaction started from
    snap,               \* the committed snapshot of the database; not whole is none
    unit, pinned,       \* which build each backend runs; restart=no (Compose)
    db, run,            \* the database; the running build of each service, or 0
    boot, gate,         \* services systemd or Docker still has to start; the gate
    pc, out, who,       \* the worker: next step, terminal it heads for, run by
    asked, done,        \* requests accepted; requests a transaction took up
    accepted,           \* public writes acknowledged
    left

conf == <<mode, legacy>>
mail == <<request, status, maint>>
jour == <<phase, rid, from, snap>>
host == <<unit, pinned, db, run>>
system == <<boot, gate>>
worker == <<pc, out, who>>
ghost == <<asked, done, accepted>>
vars == <<conf, mail, jour, host, system, worker, ghost, left>>

Spend(kind) == left[kind] > 0 /\ left' = [left EXCEPT ![kind] = @ - 1]

NoSnapshot == [schema |-> 0, writes |-> 0, whole |-> FALSE]

\* A service starts; a hub migrates the database it opens.
Started(s) == [run EXCEPT ![s] = IF s = "proxy" THEN 1 ELSE unit[s]]
Opened(s) ==
    IF s = "hub" /\ db.whole /\ db.schema < unit[s] THEN [db EXCEPT !.schema = unit[s]] ELSE db
Stopped(S) == [s \in Services |-> IF s \in S THEN 0 ELSE run[s]]

\* Stopping a service also cancels its pending start.
StopServices(S) == run' = Stopped(S) /\ boot' = boot \ S

-----------------------------------------------------------------------------
(* The hub's side of the mailbox.                                          *)

\* maintenanceMiddleware; an older hub has no such thing.
Blocked == maint /\ ~(legacy /\ run["hub"] = 1)

\* A public request that the hub commits and acknowledges.
PublicWrite ==
    /\ run["proxy"] # 0 /\ run["hub"] # 0 /\ db.whole /\ ~Blocked
    /\ Spend("write")
    /\ db' = [db EXCEPT !.writes = @ + 1] /\ accepted' = accepted + 1
    /\ UNCHANGED <<conf, mail, jour, unit, pinned, run, system, worker, asked, done>>

\* commitRequest and write_update_request link the file: never over a pending one.
Accept(r) ==
    /\ request = None /\ r \notin asked
    /\ request' = r /\ asked' = asked \cup {r}
    /\ UNCHANGED <<conf, status, maint, jour, host, system, worker, done, accepted, left>>

\* handlePostSystemUpdate, which also looks at the published status.
Post(r) ==
    /\ run["proxy"] # 0 /\ run["hub"] # 0 /\ ~Blocked /\ status.state \notin Active
    /\ Accept(r)

\* The CLI on the host, which does not.
RequestUpdate(r) == Accept(r)

-----------------------------------------------------------------------------
(* The worker.                                                             *)

Go(step) == pc' = step
Publish(state) == status' = [state |-> state, rid |-> rid]
Head(state) == out' = state /\ Go("commit")

\* Mutant: a journal that reached a terminal phase is rolled back again.
RecoverStep_Again == IF phase \in {"checking", "staging", "backing_up"} THEN "resume" ELSE "rb_proxy"

\* Mutant: an interrupted installation counts as not begun.
RecoverStep_Resume ==
    CASE phase \in Terminal -> "commit"
      [] phase \in {"verifying", "rolling_back"} -> "rb_proxy"
      [] OTHER -> "resume"

\* Transaction.recover: what the last durable phase asks for.
RecoverStep ==
    CASE phase \in Terminal -> "commit"
      [] phase \in {"installing", "verifying", "rolling_back"} -> "rb_proxy"
      [] OTHER -> "resume"

Recover(by) ==
    /\ pc = "idle" /\ phase # None
    /\ who' = by /\ out' = (IF phase \in Terminal THEN phase ELSE out) /\ Go(RecoverStep)
    /\ UNCHANGED <<conf, mail, jour, host, system, ghost, left>>

\* run_worker under its lock: systemd.path fires while a request exists, and
\* requires the gate.  apply publishes first, then opens the journal.
RunWorker ==
    /\ gate = "ok" /\ request # None
    /\ \/ Recover("worker")
       \/ /\ pc = "idle" /\ phase = None
          /\ status' = [state |-> "checking", rid |-> request]
          /\ from' = unit["hub"] /\ snap' = NoSnapshot
          /\ done' = done \cup {request} /\ who' = "worker" /\ Go("journal")
          /\ UNCHANGED <<conf, request, maint, phase, rid, host, system, out, asked, accepted, left>>

\* The phase, then the request's id: a crash in between leaves a journal without.
OpenJournal ==
    /\ pc = "journal"
    /\ phase' = "checking" /\ rid' = None /\ Go("identify")
    /\ UNCHANGED <<conf, mail, from, snap, host, system, out, who, ghost, left>>

RecordId ==
    /\ pc = "identify" /\ rid' = request /\ Go("prepare")
    /\ UNCHANGED <<conf, mail, phase, from, snap, host, system, out, who, ghost, left>>

\* resolve the manifest, preflight, stage: nothing live changes, and a failure
\* (_fail) has nothing to reopen.
Prepare ==
    /\ pc = "prepare"
    /\ \/ phase' = "staging" /\ Publish("staging") /\ Go("quiesce") /\ UNCHANGED out
       \/ phase' = "failed" /\ out' = "failed" /\ Go("consume") /\ UNCHANGED status
    /\ UNCHANGED <<conf, request, maint, rid, from, snap, host, system, who, ghost, left>>

\* quiesce begins, in Compose with the restart policies.
Quiesce ==
    /\ pc = "quiesce"
    /\ phase' = "backing_up" /\ Publish("backing_up")
    /\ Go(IF mode = "compose" THEN "pin" ELSE "stop_proxy")
    /\ UNCHANGED <<conf, request, maint, rid, from, snap, host, system, out, who, ghost, left>>

\* restart=no for caddy, the hub and the dashboard, then the override that says so.
Pin ==
    /\ pc = "pin"
    /\ \/ \E s \in Services \ pinned :
            /\ s # "proxy" => "proxy" \in pinned
            /\ s = "dash" => "hub" \in pinned
            /\ pinned' = pinned \cup {s} /\ UNCHANGED <<pc, left>>
       \/ pinned = Services /\ Go("stop_proxy") /\ UNCHANGED <<pinned, left>>
       \/ Spend("fault") /\ Go("resume") /\ UNCHANGED pinned
    /\ UNCHANGED <<conf, mail, jour, unit, db, run, system, out, who, ghost>>

\* The proxy, then the hub, then the dashboard.
Stop ==
    /\ pc \in {"stop_proxy", "stop"}
    /\ \/ pc = "stop_proxy" /\ StopServices({"proxy"}) /\ Go("stop") /\ UNCHANGED left
       \/ pc = "stop" /\ StopServices({"hub"}) /\ run["hub"] # 0 /\ Go("stop") /\ UNCHANGED left
       \/ pc = "stop" /\ StopServices(Backends) /\ Go("backup") /\ UNCHANGED left
       \/ Spend("fault") /\ UNCHANGED <<run, boot>> /\ Go("resume")
    /\ UNCHANGED <<conf, mail, jour, unit, pinned, db, gate, out, who, ghost>>

\* backup: durable before the fact that commits it.
Backup ==
    /\ pc = "backup"
    /\ \/ snap' = db /\ Go("mark") /\ UNCHANGED left
       \/ Spend("fault") /\ UNCHANGED snap /\ Go("resume")
    /\ UNCHANGED <<conf, mail, phase, rid, from, host, system, out, who, ghost>>

\* The mutating region begins: journalled, then the marker of set_maintenance.
Mark ==
    /\ pc = "mark"
    /\ phase' = "installing" /\ Publish("installing") /\ Go("marker")
    /\ UNCHANGED <<conf, request, maint, rid, from, snap, host, system, out, who, ghost, left>>

SetMaintenance ==
    /\ pc = "marker" /\ maint' = TRUE /\ Go("install")
    /\ UNCHANGED <<conf, request, status, jour, host, system, out, who, ghost, left>>

\* Build b is put in place: drop-in after drop-in, or one override file in Compose.
Switch(b, next) ==
    \E S \in {{"hub"}, Backends} :
        /\ mode = "compose" => S = Backends
        /\ unit' = [s \in Backends |-> IF s \in S THEN b ELSE unit[s]]
        /\ Go(IF S = Backends THEN next ELSE pc)

Install ==
    /\ pc = "install"
    /\ \/ Switch(from + 1, "installed") /\ UNCHANGED left
       \/ Spend("fault") /\ Go("rb_begin") /\ UNCHANGED unit
    /\ UNCHANGED <<conf, mail, jour, pinned, db, run, system, out, who, ghost>>

BeginVerify ==
    /\ pc = "installed" /\ phase' = "verifying" /\ Publish("verifying") /\ Go("start")
    /\ UNCHANGED <<conf, request, maint, rid, from, snap, host, system, out, who, ghost, left>>

\* start_candidate: hub, dashboard, proxy.
StartCandidate ==
    /\ pc = "start"
    /\ \/ \E s \in Services :
            /\ run[s] = 0 /\ s = "dash" => run["hub"] # 0
            /\ s = "proxy" => run["dash"] # 0 /\ run["hub"] # 0
            /\ run' = Started(s) /\ db' = Opened(s) /\ UNCHANGED <<pc, left>>
       \/ \A s \in Services : run[s] # 0 /\ Go("verify") /\ UNCHANGED <<run, db, left>>
       \/ Spend("fault") /\ Go("rb_begin") /\ UNCHANGED <<run, db>>
    /\ UNCHANGED <<conf, mail, jour, unit, pinned, system, out, who, ghost>>

\* _verify: the started candidate answers directly and through the public edge.
Verify ==
    /\ pc = "verify"
    /\ \/ \A s \in Backends : run[s] = from + 1 /\ Head("succeeded")
       \/ Go("rb_begin") /\ UNCHANGED out
    /\ UNCHANGED <<conf, mail, jour, host, system, who, ghost, left>>

-----------------------------------------------------------------------------
(* Rollback, resumption and the terminal sequence.                         *)

Keep == Spend("fault") /\ Go("keep")

RollbackBegin ==
    /\ pc = "rb_begin" /\ phase' = "rolling_back" /\ Publish("rolling_back") /\ Go("rb_proxy")
    /\ UNCHANGED <<conf, request, maint, rid, from, snap, host, system, out, who, ghost, left>>

\* adapter.rollback stops the proxy, then the backends; in Compose it quiesces once
\* more, and the containers are still pinned: only finalize gives a policy back.
RollbackProxy ==
    /\ pc = "rb_proxy"
    /\ \/ StopServices({"proxy"}) /\ Go("rb_stop") /\ UNCHANGED left
       \/ Keep /\ UNCHANGED <<run, boot>>
    /\ pinned' = IF mode = "compose" THEN Services ELSE pinned
    /\ UNCHANGED <<conf, mail, jour, unit, db, gate, out, who, ghost>>

RollbackStop ==
    /\ pc = "rb_stop"
    /\ \/ StopServices({"hub"}) /\ run["hub"] # 0 /\ Go("rb_stop") /\ UNCHANGED left
       \/ /\ StopServices(Backends) /\ UNCHANGED left
          /\ Go(IF mode = "native" THEN "rb_unit" ELSE "rb_db")
       \/ Keep /\ UNCHANGED <<run, boot>>
    /\ UNCHANGED <<conf, mail, jour, unit, pinned, db, gate, out, who, ghost>>

\* The original build: before the data natively, after it in Compose.
RollbackUnit ==
    /\ pc = "rb_unit"
    /\ \/ Switch(from, IF mode = "native" THEN "rb_db" ELSE "rb_start") /\ UNCHANGED left
       \/ Keep /\ UNCHANGED unit
    /\ UNCHANGED <<conf, mail, jour, pinned, db, run, system, out, who, ghost>>

\* The files of the database are replaced one after the other.
RollbackDb ==
    /\ pc = "rb_db"
    /\ db' = [db EXCEPT !.whole = FALSE] /\ Go("rb_restore")
    /\ UNCHANGED <<conf, mail, jour, unit, pinned, run, system, out, who, ghost, left>>

RollbackRestore ==
    /\ pc = "rb_restore"
    /\ \/ db' = snap /\ Go(IF mode = "native" THEN "rb_start" ELSE "rb_unit") /\ UNCHANGED left
       \/ Keep /\ UNCHANGED db
    /\ UNCHANGED <<conf, mail, jour, unit, pinned, run, system, out, who, ghost>>

\* _start_backends: hub and dashboard only, the proxy stays closed.
StartBackends ==
    /\ pc \in {"rb_start", "resume"}
    /\ \/ \E s \in Backends : run[s] = 0 /\ run' = Started(s) /\ db' = Opened(s) /\ UNCHANGED <<pc, out, left>>
       \/ /\ \A s \in Backends : run[s] # 0
          /\ Head(IF pc = "resume" THEN "failed" ELSE "rolled_back") /\ UNCHANGED <<run, db, left>>
       \/ Keep /\ UNCHANGED <<run, db, out>>
    /\ UNCHANGED <<conf, mail, jour, unit, pinned, system, who, ghost>>

\* Mutant: a failed recovery ends the transaction.
KeepJournal_Clears ==
    /\ pc = "keep" /\ Publish("failed") /\ Go("idle") /\ phase' = None /\ request' = None
    /\ gate' = IF who = "gate" THEN "ok" ELSE gate
    /\ UNCHANGED <<conf, maint, rid, from, snap, host, boot, out, who, ghost, left>>

\* Recovery failed: the journal, the snapshot and the marker stay.
KeepJournal ==
    /\ pc = "keep" /\ Publish("failed") /\ Go("idle")
    /\ gate' = IF who = "gate" THEN "failed" ELSE gate
    /\ UNCHANGED <<conf, request, maint, jour, host, boot, out, who, ghost, left>>

\* _finish journals the terminal phase before anything reopens.
Commit ==
    /\ pc = "commit" /\ phase' = out /\ Go("reopen")
    /\ UNCHANGED <<conf, mail, rid, from, snap, host, system, out, who, ghost, left>>

\* finalize gives the containers their restart policies back, the proxy's last.
Unpin ==
    /\ pc = "reopen"
    /\ \E s \in pinned :
         /\ s = "dash" => "hub" \notin pinned
         /\ s = "proxy" => pinned = {"proxy"}
         /\ pinned' = pinned \ {s}
    /\ UNCHANGED <<conf, mail, jour, unit, db, run, system, worker, ghost, left>>

\* finalize opens: the proxy, left to systemd in the gate; in Compose the backends
\* first.  The probe of the public edge may fail after all of them started.
Reopen ==
    /\ pc = "reopen" /\ pinned = {}
    /\ \/ /\ mode = "native" /\ who = "gate"
          /\ boot' = boot \cup {"proxy"} /\ Go("unmark") /\ UNCHANGED <<run, db, left>>
       \/ /\ mode = "native" => who = "worker"
          /\ UNCHANGED <<boot, left>>
          /\ \/ \E s \in Services :
                  /\ run[s] = 0 /\ (mode = "native" => s = "proxy")
                  /\ mode = "compose" /\ s = "proxy" => \A t \in Backends : run[t] # 0
                  /\ run' = Started(s) /\ db' = Opened(s) /\ UNCHANGED pc
             \/ /\ run["proxy"] # 0
                /\ mode = "compose" => \A t \in Backends : run[t] # 0
                /\ Go("unmark") /\ UNCHANGED <<run, db>>
       \/ Keep /\ UNCHANGED <<run, db, boot>>
    /\ UNCHANGED <<conf, mail, jour, unit, pinned, gate, out, who, ghost>>

Unmark ==
    /\ pc = "unmark" /\ maint' = FALSE /\ Go("consume")
    /\ UNCHANGED <<conf, request, status, jour, host, system, out, who, ghost, left>>

Consume ==
    /\ pc = "consume" /\ request' = None /\ Go("report")
    /\ UNCHANGED <<conf, status, maint, jour, host, system, out, who, ghost, left>>

Report ==
    /\ pc = "report" /\ Publish(out) /\ Go("clear")
    /\ UNCHANGED <<conf, request, maint, jour, host, system, out, who, ghost, left>>

Clear ==
    /\ pc = "clear" /\ phase' = None /\ Go("idle")
    /\ gate' = IF who = "gate" THEN "ok" ELSE gate
    /\ UNCHANGED <<conf, mail, rid, from, snap, host, boot, out, who, ghost, left>>

-----------------------------------------------------------------------------
(* Crashes and the boot.                                                   *)

\* The worker dies, or an fsync raises: what it wrote stays.
Kill ==
    /\ pc # "idle" /\ Spend("kill") /\ Go("idle")
    /\ gate' = IF who = "gate" THEN "failed" ELSE gate
    /\ UNCHANGED <<conf, mail, jour, host, boot, out, who, ghost>>

\* The host goes down; Docker brings back what is not pinned, systemd the units.
Reboot ==
    /\ Spend("reboot") /\ Go("idle") /\ gate' = "pending"
    /\ run' = Stopped(Services)
    /\ boot' = IF mode = "native" THEN Services ELSE Services \ pinned
    /\ UNCHANGED <<conf, mail, jour, unit, pinned, db, out, who, ghost>>

\* Mutant: the proxy is not ordered after the gate.
MayBoot_Ungated(s) == TRUE

\* The proxy unit requires the gate; nothing else does.
MayBoot(s) == (mode = "native" /\ s = "proxy") => gate = "ok"

BootService(s) ==
    /\ s \in boot /\ MayBoot(s) /\ boot' = boot \ {s}
    /\ run' = (IF run[s] = 0 THEN Started(s) ELSE run)
    /\ db' = (IF run[s] = 0 THEN Opened(s) ELSE db)
    /\ UNCHANGED <<conf, mail, jour, unit, pinned, gate, worker, ghost, left>>

\* recover_boot, retried while a request pulls it in.
Gate ==
    /\ gate = "pending" \/ (gate = "failed" /\ request # None)
    /\ \/ Recover("gate")
       \/ /\ pc = "idle" /\ phase = None /\ gate' = "ok"
          /\ UNCHANGED <<conf, mail, jour, host, boot, worker, ghost, left>>

-----------------------------------------------------------------------------
Init ==
    /\ mode \in Modes /\ legacy \in BOOLEAN /\ left \in Budgets
    /\ request = None /\ status = [state |-> "idle", rid |-> None] /\ maint = FALSE
    /\ phase = None /\ rid = None /\ from = 1 /\ snap = NoSnapshot
    /\ unit = [s \in Backends |-> 1] /\ pinned = {}
    /\ db = [schema |-> 1, writes |-> 0, whole |-> TRUE]
    /\ run = [s \in Services |-> 1] /\ boot = {} /\ gate = "ok"
    /\ pc = "idle" /\ out = "failed" /\ who = "worker"
    /\ asked = {} /\ done = {} /\ accepted = 0

Step ==
    \/ OpenJournal \/ RecordId \/ Prepare \/ Quiesce \/ Pin \/ Stop \/ Backup
    \/ Mark \/ SetMaintenance \/ Install \/ BeginVerify \/ StartCandidate \/ Verify
    \/ RollbackBegin \/ RollbackProxy \/ RollbackStop \/ RollbackUnit \/ RollbackDb \/ RollbackRestore
    \/ StartBackends \/ KeepJournal \/ Commit \/ Unpin \/ Reopen \/ Unmark \/ Consume \/ Report \/ Clear

Next ==
    \/ Step \/ RunWorker \/ Gate \/ \E s \in Services : BootService(s)
    \/ PublicWrite \/ \E r \in Rids : Post(r) \/ RequestUpdate(r)
    \/ Kill \/ Reboot

Spec == Init /\ [][Next]_vars
Fair == WF_vars(Step) /\ WF_vars(RunWorker) /\ WF_vars(Gate) /\ \A s \in Services : WF_vars(BootService(s))
LiveSpec == Spec /\ Fair

-----------------------------------------------------------------------------
Public == run["proxy"] # 0 /\ run["hub"] # 0

\* No public write that was acknowledged is ever undone by a rollback, whatever
\* crashed, rebooted or failed on the way: the snapshot is only restored over
\* the same data.
NoWriteLost == db.whole => db.writes = accepted

\* Whoever gets through the proxy meets one build on a database it understands,
\* never half an installation or half a restored snapshot.
OneBuildServed ==
    Public => /\ db.whole /\ db.schema = run["hub"]
              /\ run["dash"] # 0 => run["dash"] = run["hub"]

\* An outcome in the journal is the truth about what is installed.
OutcomeIsTrue ==
    /\ phase = "succeeded" => \A s \in Backends : unit[s] = from + 1
    /\ phase \in {"rolled_back", "failed"} =>
          db.whole /\ db.schema = from /\ \A s \in Backends : unit[s] = from

\* The service is up and open in the end, unless the gate needs an operator.
ServiceReturns == <>[]((Public /\ run["dash"] # 0 /\ ~maint) \/ (gate = "failed" /\ request = None))

\* A request the hub accepted is taken up by a transaction before it is removed.
AcceptedRequestRuns == asked \subseteq done \cup {request}
=============================================================================
