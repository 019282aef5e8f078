------------------------- MODULE UpdatesProofs -------------------------
(***************************************************************************)
(* The two updates, for any binaries, releases, requests, kills, reboots,  *)
(* faults and writes.                                                      *)
(*                                                                         *)
(* Of the hub's deployment: no acknowledged write is lost, since a         *)
(* snapshot that may still be restored holds every one of them (the proxy  *)
(* is closed, or the candidate behind it refuses writes, from the moment   *)
(* it is taken); and whoever gets in meets one build on a database it      *)
(* understands, since the worker's place says how far an installation or a *)
(* rollback has come, and the proxy is open only at its two ends.          *)
(*                                                                         *)
(* Of the agent: the release floor that survives on disk covers the binary *)
(* in place, what runs was installed or signed, and the update path only   *)
(* goes forward.                                                           *)
(***************************************************************************)
EXTENDS Updates, TLAPS

Undecided == {"checking", "staging", "backing_up"}
Dirty == {"installing", "verifying", "rolling_back"}

Before == {"identify", "prepare", "quiesce", "pin", "stop_proxy", "stop", "backup", "mark",
           "resume"}
During == {"marker", "install", "installed", "start", "verify", "rb_begin", "rb_proxy", "rb_stop",
           "rb_unit", "rb_db", "rb_restore", "rb_start"}
After == {"reopen", "unmark", "consume", "report", "clear"}

Builds == Nat \ {0}
Databases == [schema : Nat, writes : Nat, whole : BOOLEAN]

TypeOK ==
    /\ mode \in Modes
    /\ from \in Builds /\ unit \in [Backends -> Builds] /\ run \in [Services -> Nat]
    /\ db \in Databases /\ snap \in Databases /\ accepted \in Nat
    /\ boot \subseteq Services
    /\ phase \in Undecided \cup Dirty \cup Terminal \cup {None} /\ out \in Terminal
    /\ pc \in Before \cup During \cup After \cup {"idle", "journal", "keep", "commit"}

(* The journal's phase tells how far the worker can have come.              *)
PhaseOfStep ==
    /\ pc = "journal" => phase = None
    /\ pc \in Before => phase \in Undecided
    /\ pc \in During => phase \in Dirty
    /\ pc \in After => phase \in Terminal

(* In Compose no container comes back by itself from the quiescence on.     *)
Pinned ==
    mode = "compose" /\ (phase \in Dirty \/ pc \in {"stop_proxy", "stop", "backup", "mark"}) =>
      pinned = Services

(* The hub is down from the backup to its start as the candidate.           *)
HubDown ==
    /\ pc \in {"backup", "mark", "marker", "install", "installed"} =>
          run["hub"] = 0 /\ "hub" \notin boot
    /\ pc \in {"journal"} \cup (Before \ {"resume"}) => unit["hub"] = from
    /\ pc \in {"marker", "install"} => unit["hub"] \in {from, from + 1}
    /\ pc = "installed" => unit["hub"] = from + 1
    /\ pc = "start" => unit["hub"] = from + 1 /\ run["hub"] \in {0, from + 1}
    /\ pc \in {"install", "installed", "start"} => maint

(* The proxy is down, and only a gate that has not opened may start it.     *)
Closed == run["proxy"] = 0 /\ ("proxy" \in boot => mode = "native" /\ gate # "ok")

(* A proxy that is up leads to the candidate, which sees the marker.        *)
Refusing == run["proxy"] # 0 /\ maint /\ run["hub"] = from + 1

(* While the snapshot may still be restored nobody can write.               *)
NoWriters ==
    /\ pc \in {"stop", "backup", "mark", "rb_stop"} => Closed
    /\ phase \in Dirty => Closed \/ Refusing

(* The snapshot that may still be restored holds every acknowledged write.  *)
SnapshotCurrent ==
    (pc = "mark" \/ phase \in Dirty) => (snap.whole => snap.writes = accepted)

Control == TypeOK /\ PhaseOfStep /\ Pinned /\ HubDown /\ NoWriters
IInv == Control /\ SnapshotCurrent /\ NoWriteLost

(* Build b is installed as a whole, and nothing else runs.                  *)
Installed(b) ==
    /\ \A s \in Backends : unit[s] = b /\ run[s] \in {0, b}
    /\ db.whole /\ db.schema = b

(* Outside the mutating region one build is installed: the one before the   *)
(* transaction, or the one its outcome names.                               *)
Settled ==
    /\ phase = None => Installed(unit["hub"])
    /\ phase \in Undecided \cup {"rolled_back", "failed"} => Installed(from)
    /\ phase = "succeeded" => Installed(from + 1)

(* Inside it, how far the installation or the rollback has come.            *)
Halfway ==
    /\ pc = "mark" \/ phase \in Dirty => snap.whole /\ snap.schema = from
    /\ pc = "installed" => \A s \in Backends : unit[s] = from + 1
    /\ pc \in {"backup", "mark", "marker", "install", "installed"} =>
          /\ \A s \in Backends : run[s] = 0 /\ s \notin boot
          /\ db.whole /\ db.schema = from
    /\ pc = "start" =>
          /\ \A s \in Backends : unit[s] = from + 1 /\ run[s] \in {0, from + 1}
          /\ db.whole /\ db.schema = IF run["hub"] = 0 THEN from ELSE from + 1
    /\ pc = "verify" => Installed(from + 1)
    /\ pc = "rb_stop" => run["proxy"] = 0 /\ "proxy" \notin boot
    /\ pc \in {"rb_unit", "rb_db", "rb_restore"} =>
          boot = {} /\ \A s \in Services : run[s] = 0
    /\ mode = "native" /\ pc \in {"rb_db", "rb_restore"} =>
          \A s \in Backends : unit[s] = from
    /\ mode = "compose" /\ pc = "rb_unit" => db.whole /\ db.schema = from
    /\ pc = "rb_start" => Installed(from)
    /\ pc = "commit" => Installed(IF out = "succeeded" THEN from + 1 ELSE from)
    /\ phase \in Dirty /\ run["proxy"] # 0 => Installed(from + 1)

BuildInv == Control /\ Settled /\ Halfway

(* The null value is no phase, and there are two deployments.               *)
Sane ==
    /\ None \notin Undecided \cup Dirty \cup Terminal
    /\ Modes \subseteq {"native", "compose"}

(***************************************************************************)
(* Which is what is assumed of the constants.                              *)
(***************************************************************************)
LEMMA IsSane == Sane
BY UpdatesAssumption DEF Sane, Undecided, Dirty, Terminal

(***************************************************************************)
(* Stopping services, and cancelling their start, keeps the types.         *)
(***************************************************************************)
LEMMA StopType ==
    ASSUME TypeOK, NEW S, StopServices(S) \/ UNCHANGED <<run, boot>>
    PROVE  run' \in [Services -> Nat] /\ boot' \subseteq Services
<1>1. CASE StopServices(S)
  <2>1. boot' \subseteq Services
    BY <1>1 DEF StopServices, TypeOK
  <2>2. run' \in [Services -> Nat]
    BY <1>1 DEF StopServices, Stopped, TypeOK
  <2>. QED BY <2>1, <2>2
<1>2. CASE UNCHANGED <<run, boot>>
  BY <1>2 DEF TypeOK
<1>. QED BY <1>1, <1>2

(***************************************************************************)
(* Every step keeps the types.                                             *)
(***************************************************************************)
LEMMA NextType ==
    ASSUME TypeOK, Next
    PROVE  TypeOK'
<1>. USE DEF TypeOK, Undecided, Dirty, Before, During, After, Terminal, Services, Backends,
             Builds, Databases
<1>1. CASE Prepare
  BY <1>1 DEF Prepare, Go, Publish, conf, host, system, ghost
<1>2. CASE Quiesce
  BY <1>2 DEF Quiesce, Go, Publish, conf, host, system, ghost
<1>3. CASE Stop
  <2>1. \E S \in {{"proxy"}, {"hub"}, Backends} : StopServices(S) \/ UNCHANGED <<run, boot>>
    BY <1>3 DEF Stop
  <2>2. run' \in [Services -> Nat] /\ boot' \subseteq Services
    BY <2>1, StopType
  <2>. QED BY <1>3, <2>2 DEF Stop, Spend, Go, conf, mail, jour, ghost
<1>4. CASE Backup
  BY <1>4 DEF Backup, Spend, Go, conf, mail, host, system, ghost
<1>5. CASE Mark
  BY <1>5 DEF Mark, Go, Publish, conf, host, system, ghost
<1>6. CASE SetMaintenance
  BY <1>6 DEF SetMaintenance, Go, conf, jour, host, system, ghost
<1>7. CASE Install
  BY <1>7 DEF Install, Switch, Spend, Go, conf, mail, jour, system, ghost
<1>8. CASE StartCandidate
  BY <1>8 DEF StartCandidate, Spend, Started, Opened, Go, conf, mail, jour, system, ghost
<1>9. CASE Verify
  BY <1>9 DEF Verify, Go, Head, conf, mail, jour, host, system, ghost
<1>10. CASE RollbackBegin
  BY <1>10 DEF RollbackBegin, Go, Publish, conf, host, system, ghost
<1>11. CASE RollbackProxy
  <2>1. \E S \in {{"proxy"}} : StopServices(S) \/ UNCHANGED <<run, boot>>
    BY <1>11 DEF RollbackProxy, Keep
  <2>2. run' \in [Services -> Nat] /\ boot' \subseteq Services
    BY <2>1, StopType
  <2>. QED BY <1>11, <2>2 DEF RollbackProxy, Spend, Go, Keep, conf, mail, jour, ghost
<1>12. CASE RollbackStop
  <2>1. \E S \in {{"hub"}, Backends} : StopServices(S) \/ UNCHANGED <<run, boot>>
    BY <1>12 DEF RollbackStop, Keep
  <2>2. run' \in [Services -> Nat] /\ boot' \subseteq Services
    BY <2>1, StopType
  <2>. QED BY <1>12, <2>2 DEF RollbackStop, Spend, Go, Keep, conf, mail, jour, ghost
<1>13. CASE RollbackUnit
  BY <1>13 DEF RollbackUnit, Switch, Spend, Go, Keep, conf, mail, jour, system, ghost
<1>14. CASE RollbackDb
  <2>1. db' \in Databases
    BY <1>14 DEF RollbackDb
  <2>. QED BY <1>14, <2>1 DEF RollbackDb, Go, conf, mail, jour, host, system, ghost
<1>15. CASE RollbackRestore
  BY <1>15 DEF RollbackRestore, Spend, Go, Keep, conf, mail, jour, system, ghost
<1>16. CASE StartBackends
  BY <1>16 DEF StartBackends, Spend, Started, Opened, Go, Head, Keep, conf, mail, jour,
               system, ghost
<1>17. CASE KeepJournal
  BY <1>17 DEF KeepJournal, Go, Publish, conf, jour, host, ghost
<1>18. CASE Commit
  BY <1>18 DEF Commit, Go, conf, mail, host, system, ghost
<1>19. CASE Reopen
  BY <1>19 DEF Reopen, Spend, Started, Opened, Go, Keep, conf, mail, jour, ghost
<1>20. CASE Unmark
  BY <1>20 DEF Unmark, Go, conf, jour, host, system, ghost
<1>21. CASE Consume
  BY <1>21 DEF Consume, Go, conf, jour, host, system, ghost
<1>22. CASE Report
  BY <1>22 DEF Report, Go, Publish, conf, jour, host, system, ghost
<1>23. CASE Clear
  BY <1>23 DEF Clear, Go, conf, mail, host, ghost
<1>24. CASE RunWorker
  <2>1. CASE Recover("worker")
    BY <1>24, <2>1 DEF RunWorker, Recover, RecoverStep, Go, conf, mail, jour, host, system,
                       ghost
  <2>2. CASE ~Recover("worker")
    <3>1. /\ UNCHANGED <<mode, unit, run, db, boot, accepted, out>>
          /\ phase' = phase /\ from' = unit["hub"] /\ snap' = NoSnapshot /\ pc' = "journal"
      BY <1>24, <2>2 DEF RunWorker, Go, conf, host, system
    <3>2. NoSnapshot \in Databases
      BY DEF NoSnapshot
    <3>. QED BY <3>1, <3>2
  <2>. QED BY <2>1, <2>2
<1>25. CASE Gate
  BY <1>25 DEF Gate, Go, Recover, RecoverStep, conf, mail, jour, host, system, worker, ghost
<1>26. CASE PublicWrite
  BY <1>26 DEF PublicWrite, Spend, Blocked, conf, mail, jour, system, worker
<1>27. CASE Kill
  BY <1>27 DEF Kill, Spend, Go, conf, mail, jour, host, ghost
<1>28. CASE Reboot
  BY <1>28 DEF Reboot, Spend, Stopped, Go, conf, mail, jour, ghost
<1>29. ASSUME NEW s \in Services, BootService(s) PROVE TypeOK'
  BY <1>29 DEF BootService, Started, Opened, MayBoot, conf, mail, jour, worker, ghost
<1>30. ASSUME NEW r \in Rids, Accept(r) PROVE TypeOK'
  BY <1>30 DEF Accept, conf, jour, host, system, worker
<1>31. CASE OpenJournal \/ RecordId
  BY <1>31 DEF OpenJournal, RecordId, Go, conf, mail, host, system, ghost
<1>32. CASE Pin
  BY <1>32 DEF Pin, Spend, Go, conf, mail, jour, system, ghost
<1>33. CASE BeginVerify
  BY <1>33 DEF BeginVerify, Go, Publish, conf, host, system, ghost
<1>34. CASE Unpin
  BY <1>34 DEF Unpin, conf, mail, jour, system, worker, ghost
<1>. QED BY <1>1, <1>2, <1>3, <1>4, <1>5, <1>6, <1>7, <1>8, <1>9, <1>10, <1>11, <1>12,
            <1>13, <1>14, <1>15, <1>16, <1>17, <1>18, <1>19, <1>20, <1>21, <1>22, <1>23,
            <1>24, <1>25, <1>26, <1>27, <1>28, <1>29, <1>30, <1>31, <1>32, <1>33,
            <1>34
         DEF Next, Step, Post, RequestUpdate

(***************************************************************************)
(* Every step keeps what relates the worker's place to the journal, to the *)
(* services that run and to those that may start.                          *)
(***************************************************************************)
LEMMA NextControl ==
    ASSUME Sane, Control, TypeOK', Next
    PROVE  Control'
<1>. USE DEF Sane, Control, TypeOK, PhaseOfStep, Pinned, HubDown, NoWriters, Closed,
             Refusing, Undecided, Dirty, Before, During, After, Terminal, Services,
             Backends, Builds
<1>1. CASE Prepare
  BY <1>1 DEF Prepare, Go, Publish, conf, host, system, ghost
<1>2. CASE Quiesce
  BY <1>2 DEF Quiesce, Go, Publish, conf, host, system, ghost
<1>3. CASE Stop
  BY <1>3 DEF Stop, Spend, StopServices, Stopped, Go, conf, mail, jour, ghost
<1>4. CASE Backup
  BY <1>4 DEF Backup, Spend, Go, conf, mail, host, system, ghost
<1>5. CASE Mark
  BY <1>5 DEF Mark, Go, Publish, conf, host, system, ghost
<1>6. CASE SetMaintenance
  BY <1>6 DEF SetMaintenance, Go, conf, jour, host, system, ghost
<1>7. CASE Install
  BY <1>7 DEF Install, Switch, Spend, Go, conf, mail, jour, system, ghost
<1>8. CASE StartCandidate
  BY <1>8 DEF StartCandidate, Spend, Started, Opened, Go, conf, mail, jour, system, ghost
<1>9. CASE Verify
  BY <1>9 DEF Verify, Go, Head, conf, mail, jour, host, system, ghost
<1>10. CASE RollbackBegin
  BY <1>10 DEF RollbackBegin, Go, Publish, conf, host, system, ghost
<1>11. CASE RollbackProxy
  BY <1>11 DEF RollbackProxy, Spend, StopServices, Stopped, Go, Keep, conf, mail, jour,
               ghost
<1>12. CASE RollbackStop
  BY <1>12 DEF RollbackStop, Spend, StopServices, Stopped, Go, Keep, conf, mail, jour, ghost
<1>13. CASE RollbackUnit
  BY <1>13 DEF RollbackUnit, Switch, Spend, Go, Keep, conf, mail, jour, system, ghost
<1>14. CASE RollbackDb
  BY <1>14 DEF RollbackDb, Go, conf, mail, jour, system, ghost
<1>15. CASE RollbackRestore
  BY <1>15 DEF RollbackRestore, Spend, Go, Keep, conf, mail, jour, system, ghost
<1>16. CASE StartBackends
  BY <1>16 DEF StartBackends, Spend, Started, Opened, Go, Head, Keep, conf, mail, jour,
               system, ghost
<1>17. CASE KeepJournal
  BY <1>17 DEF KeepJournal, Go, Publish, conf, jour, host, ghost
<1>18. CASE Commit
  BY <1>18 DEF Commit, Go, conf, mail, host, system, ghost
<1>19. CASE Reopen
  BY <1>19 DEF Reopen, Spend, Started, Opened, Go, Keep, conf, mail, jour, ghost
<1>20. CASE Unmark
  BY <1>20 DEF Unmark, Go, conf, jour, host, system, ghost
<1>21. CASE Consume
  BY <1>21 DEF Consume, Go, conf, jour, host, system, ghost
<1>22. CASE Report
  BY <1>22 DEF Report, Go, Publish, conf, jour, host, system, ghost
<1>23. CASE Clear
  BY <1>23 DEF Clear, Go, conf, mail, host, ghost
<1>24. CASE RunWorker
  BY <1>24 DEF RunWorker, Go, Recover, RecoverStep, NoSnapshot, conf, mail, jour, host,
               system, ghost
<1>25. CASE Gate
  BY <1>25 DEF Gate, Go, Recover, RecoverStep, conf, mail, jour, host, system, worker, ghost
<1>26. CASE PublicWrite
  BY <1>26 DEF PublicWrite, Spend, Blocked, conf, mail, jour, system, worker
<1>27. CASE Kill
  BY <1>27 DEF Kill, Spend, Go, conf, mail, jour, host, ghost
<1>28. CASE Reboot
  BY <1>28 DEF Reboot, Spend, Stopped, Go, conf, mail, jour, ghost
<1>29. ASSUME NEW s \in Services, BootService(s) PROVE Control'
  BY <1>29 DEF BootService, Started, Opened, MayBoot, conf, mail, jour, worker, ghost
<1>30. ASSUME NEW r \in Rids, Accept(r) PROVE Control'
  BY <1>30 DEF Accept, conf, jour, host, system, worker
<1>31. CASE OpenJournal \/ RecordId
  BY <1>31 DEF OpenJournal, RecordId, Go, conf, mail, host, system, ghost
<1>32. CASE Pin
  BY <1>32 DEF Pin, Spend, Go, conf, mail, jour, system, ghost
<1>33. CASE BeginVerify
  BY <1>33 DEF BeginVerify, Go, Publish, conf, host, system, ghost
<1>34. CASE Unpin
  BY <1>34 DEF Unpin, conf, mail, jour, system, worker, ghost
<1>. QED BY <1>1, <1>2, <1>3, <1>4, <1>5, <1>6, <1>7, <1>8, <1>9, <1>10, <1>11, <1>12,
            <1>13, <1>14, <1>15, <1>16, <1>17, <1>18, <1>19, <1>20, <1>21, <1>22, <1>23,
            <1>24, <1>25, <1>26, <1>27, <1>28, <1>29, <1>30, <1>31, <1>32, <1>33,
            <1>34
         DEF Next, Step, Post, RequestUpdate

(***************************************************************************)
(* Every step keeps the count of acknowledged writes in the database, and  *)
(* in the snapshot as long as that may be restored (adapter.backup,        *)
(* adapter.rollback).                                                      *)
(***************************************************************************)
LEMMA NextWrites ==
    ASSUME Sane, IInv, Next
    PROVE  (SnapshotCurrent /\ NoWriteLost)'
<1>. USE DEF Sane, IInv, Control, TypeOK, SnapshotCurrent, NoWriteLost, NoWriters,
             PhaseOfStep, Closed, Refusing, Undecided, Dirty, Before, During, After,
             Terminal, Services, Backends, Builds, Databases
<1>1. CASE Prepare
  BY <1>1 DEF Prepare, Go, Publish, conf, host, system, ghost
<1>2. CASE Quiesce
  BY <1>2 DEF Quiesce, Go, Publish, conf, host, system, ghost
<1>3. CASE Stop
  BY <1>3 DEF Stop, Spend, StopServices, Stopped, Go, conf, mail, jour, ghost
<1>4. CASE Backup
  BY <1>4 DEF Backup, Spend, Go, conf, mail, host, system, ghost
<1>5. CASE Mark
  BY <1>5 DEF Mark, Go, Publish, conf, host, system, ghost
<1>6. CASE SetMaintenance
  BY <1>6 DEF SetMaintenance, Go, conf, jour, host, system, ghost
<1>7. CASE Install
  BY <1>7 DEF Install, Switch, Spend, Go, conf, mail, jour, system, ghost
<1>8. CASE StartCandidate
  BY <1>8 DEF StartCandidate, Spend, Started, Opened, Go, conf, mail, jour, system, ghost
<1>9. CASE Verify
  BY <1>9 DEF Verify, Go, Head, conf, mail, jour, host, system, ghost
<1>10. CASE RollbackBegin
  BY <1>10 DEF RollbackBegin, Go, Publish, conf, host, system, ghost
<1>11. CASE RollbackProxy
  BY <1>11 DEF RollbackProxy, Spend, StopServices, Stopped, Go, Keep, conf, mail, jour,
               ghost
<1>12. CASE RollbackStop
  BY <1>12 DEF RollbackStop, Spend, StopServices, Stopped, Go, Keep, conf, mail, jour, ghost
<1>13. CASE RollbackUnit
  BY <1>13 DEF RollbackUnit, Switch, Spend, Go, Keep, conf, mail, jour, system, ghost
<1>14. CASE RollbackDb
  BY <1>14 DEF RollbackDb, Go, conf, mail, jour, system, ghost
<1>15. CASE RollbackRestore
  BY <1>15 DEF RollbackRestore, Spend, Go, Keep, conf, mail, jour, system, ghost
<1>16. CASE StartBackends
  BY <1>16 DEF StartBackends, Spend, Started, Opened, Go, Head, Keep, conf, mail, jour,
               system, ghost
<1>17. CASE KeepJournal
  BY <1>17 DEF KeepJournal, Go, Publish, conf, jour, host, ghost
<1>18. CASE Commit
  BY <1>18 DEF Commit, Go, conf, mail, host, system, ghost
<1>19. CASE Reopen
  BY <1>19 DEF Reopen, Spend, Started, Opened, Go, Keep, conf, mail, jour, ghost
<1>20. CASE Unmark
  BY <1>20 DEF Unmark, Go, conf, jour, host, system, ghost
<1>21. CASE Consume
  BY <1>21 DEF Consume, Go, conf, jour, host, system, ghost
<1>22. CASE Report
  BY <1>22 DEF Report, Go, Publish, conf, jour, host, system, ghost
<1>23. CASE Clear
  BY <1>23 DEF Clear, Go, conf, mail, host, ghost
<1>24. CASE RunWorker
  BY <1>24 DEF RunWorker, Go, Recover, RecoverStep, NoSnapshot, conf, mail, jour, host,
               system, ghost
<1>25. CASE Gate
  BY <1>25 DEF Gate, Go, Recover, RecoverStep, conf, mail, jour, host, system, worker, ghost
<1>26. CASE PublicWrite
  BY <1>26 DEF PublicWrite, Spend, Blocked, conf, mail, jour, system, worker
<1>27. CASE Kill
  BY <1>27 DEF Kill, Spend, Go, conf, mail, jour, host, ghost
<1>28. CASE Reboot
  BY <1>28 DEF Reboot, Spend, Stopped, Go, conf, mail, jour, ghost
<1>29. ASSUME NEW s \in Services, BootService(s) PROVE (SnapshotCurrent /\ NoWriteLost)'
  BY <1>29 DEF BootService, Started, Opened, MayBoot, conf, mail, jour, worker, ghost
<1>30. ASSUME NEW r \in Rids, Accept(r) PROVE (SnapshotCurrent /\ NoWriteLost)'
  BY <1>30 DEF Accept, conf, jour, host, system, worker
<1>31. CASE OpenJournal \/ RecordId
  BY <1>31 DEF OpenJournal, RecordId, Go, conf, mail, host, system, ghost
<1>32. CASE Pin
  BY <1>32 DEF Pin, Spend, Go, conf, mail, jour, system, ghost
<1>33. CASE BeginVerify
  BY <1>33 DEF BeginVerify, Go, Publish, conf, host, system, ghost
<1>34. CASE Unpin
  BY <1>34 DEF Unpin, conf, mail, jour, system, worker, ghost
<1>. QED BY <1>1, <1>2, <1>3, <1>4, <1>5, <1>6, <1>7, <1>8, <1>9, <1>10, <1>11, <1>12,
            <1>13, <1>14, <1>15, <1>16, <1>17, <1>18, <1>19, <1>20, <1>21, <1>22, <1>23,
            <1>24, <1>25, <1>26, <1>27, <1>28, <1>29, <1>30, <1>31, <1>32, <1>33,
            <1>34
         DEF Next, Step, Post, RequestUpdate

(***************************************************************************)
(* Every step keeps which build is installed: outside the mutating region  *)
(* one as a whole, inside it what the worker's place says                  *)
(* (adapter.install, adapter.rollback).                                    *)
(***************************************************************************)
LEMMA NextBuilds ==
    ASSUME Sane, BuildInv, TypeOK', Next
    PROVE  (Settled /\ Halfway)'
<1>. USE DEF Sane, BuildInv, Control, TypeOK, Installed, Settled, Halfway, NoWriters,
             PhaseOfStep, HubDown, Closed, Refusing, Undecided, Dirty, Before, During,
             After, Terminal, Services, Backends, Builds, Databases
<1>1. CASE Prepare
  BY <1>1 DEF Prepare, Go, Publish, conf, host, system, ghost
<1>2. CASE Quiesce
  BY <1>2 DEF Quiesce, Go, Publish, conf, host, system, ghost
<1>3. CASE Stop
  BY <1>3 DEF Stop, Spend, StopServices, Stopped, Go, conf, mail, jour, ghost
<1>4. CASE Backup
  BY <1>4 DEF Backup, Spend, Go, conf, mail, host, system, ghost
<1>5. CASE Mark
  BY <1>5 DEF Mark, Go, Publish, conf, host, system, ghost
<1>6. CASE SetMaintenance
  BY <1>6 DEF SetMaintenance, Go, conf, jour, host, system, ghost
<1>7. CASE Install
  BY <1>7 DEF Install, Switch, Spend, Go, conf, mail, jour, system, ghost
<1>8. CASE StartCandidate
  BY <1>8 DEF StartCandidate, Spend, Started, Opened, Go, conf, mail, jour, system, ghost
<1>9. CASE Verify
  BY <1>9 DEF Verify, Go, Head, conf, mail, jour, host, system, ghost
<1>10. CASE RollbackBegin
  BY <1>10 DEF RollbackBegin, Go, Publish, conf, host, system, ghost
<1>11. CASE RollbackProxy
  BY <1>11 DEF RollbackProxy, Spend, StopServices, Stopped, Go, Keep, conf, mail, jour,
               ghost
<1>12. CASE RollbackStop
  BY <1>12 DEF RollbackStop, Spend, StopServices, Stopped, Go, Keep, conf, mail, jour, ghost
<1>13. CASE RollbackUnit
  BY <1>13 DEF RollbackUnit, Switch, Spend, Go, Keep, conf, mail, jour, system, ghost
<1>14. CASE RollbackDb
  BY <1>14 DEF RollbackDb, Go, conf, mail, jour, system, ghost
<1>15. CASE RollbackRestore
  BY <1>15 DEF RollbackRestore, Spend, Go, Keep, conf, mail, jour, system, ghost
<1>16. CASE StartBackends
  BY <1>16 DEF StartBackends, Spend, Started, Opened, Go, Head, Keep, conf, mail, jour,
               system, ghost
<1>17. CASE KeepJournal
  BY <1>17 DEF KeepJournal, Go, Publish, conf, jour, host, ghost
<1>18. CASE Commit
  BY <1>18 DEF Commit, Go, conf, mail, host, system, ghost
<1>19. CASE Reopen
  BY <1>19 DEF Reopen, Spend, Started, Opened, Go, Keep, conf, mail, jour, ghost
<1>20. CASE Unmark
  BY <1>20 DEF Unmark, Go, conf, jour, host, system, ghost
<1>21. CASE Consume
  BY <1>21 DEF Consume, Go, conf, jour, host, system, ghost
<1>22. CASE Report
  BY <1>22 DEF Report, Go, Publish, conf, jour, host, system, ghost
<1>23. CASE Clear
  BY <1>23 DEF Clear, Go, conf, mail, host, ghost
<1>24. CASE RunWorker
  BY <1>24 DEF RunWorker, Go, Recover, RecoverStep, NoSnapshot, conf, mail, jour, host,
               system, ghost
<1>25. CASE Gate
  BY <1>25 DEF Gate, Go, Recover, RecoverStep, conf, mail, jour, host, system, worker, ghost
<1>26. CASE PublicWrite
  BY <1>26 DEF PublicWrite, Spend, Blocked, conf, mail, jour, system, worker
<1>27. CASE Kill
  BY <1>27 DEF Kill, Spend, Go, conf, mail, jour, host, ghost
<1>28. CASE Reboot
  BY <1>28 DEF Reboot, Spend, Stopped, Go, conf, mail, jour, ghost
<1>29. ASSUME NEW s \in Services, BootService(s) PROVE (Settled /\ Halfway)'
  BY <1>29 DEF BootService, Started, Opened, MayBoot, conf, mail, jour, worker, ghost
<1>30. ASSUME NEW r \in Rids, Accept(r) PROVE (Settled /\ Halfway)'
  BY <1>30 DEF Accept, conf, jour, host, system, worker
<1>31. CASE OpenJournal \/ RecordId
  BY <1>31 DEF OpenJournal, RecordId, Go, conf, mail, host, system, ghost
<1>32. CASE Pin
  BY <1>32 DEF Pin, Spend, Go, conf, mail, jour, system, ghost
<1>33. CASE BeginVerify
  BY <1>33 DEF BeginVerify, Go, Publish, conf, host, system, ghost
<1>34. CASE Unpin
  BY <1>34 DEF Unpin, conf, mail, jour, system, worker, ghost
<1>. QED BY <1>1, <1>2, <1>3, <1>4, <1>5, <1>6, <1>7, <1>8, <1>9, <1>10, <1>11, <1>12,
            <1>13, <1>14, <1>15, <1>16, <1>17, <1>18, <1>19, <1>20, <1>21, <1>22, <1>23,
            <1>24, <1>25, <1>26, <1>27, <1>28, <1>29, <1>30, <1>31, <1>32, <1>33,
            <1>34
         DEF Next, Step, Post, RequestUpdate

(***************************************************************************)
(* Whatever is killed, rebooted or failing on the way: a database that is  *)
(* whole holds every write the hub has acknowledged, so no rollback undoes *)
(* one.                                                                    *)
(***************************************************************************)
THEOREM NoWriteIsLost == Spec => []NoWriteLost
<1>. USE IsSane
<1>1. Init => IInv
  <2> SUFFICES ASSUME Init PROVE IInv
    OBVIOUS
  <2>1. TypeOK
    BY DEF Init, TypeOK, NoSnapshot, Databases, Builds, Terminal, Services, Backends
  <2>2. phase = None /\ pc = "idle" /\ db.whole /\ db.writes = accepted
    BY DEF Init
  <2>. QED BY <2>1, <2>2 DEF Sane, IInv, Control, PhaseOfStep, Pinned, HubDown, NoWriters,
           SnapshotCurrent, NoWriteLost, Undecided, Dirty, Before, During, After
<1>2. IInv /\ [Next]_vars => IInv'
  <2> SUFFICES ASSUME IInv, [Next]_vars PROVE IInv'
    OBVIOUS
  <2>1. CASE Next
    <3>1. TypeOK'
      BY <2>1, NextType DEF IInv, Control
    <3>2. Control'
      BY <2>1, <3>1, NextControl DEF IInv
    <3>. QED BY <2>1, <3>2, NextWrites DEF IInv
  <2>2. CASE UNCHANGED vars
    BY <2>2 DEF IInv, Control, TypeOK, PhaseOfStep, Pinned, HubDown, NoWriters, Closed,
                Refusing,
       SnapshotCurrent, NoWriteLost, vars, conf, mail, jour, host, system, worker, ghost
  <2>. QED BY <2>1, <2>2
<1>3. IInv => NoWriteLost
  BY DEF IInv
<1>. QED BY <1>1, <1>2, <1>3, PTL DEF Spec

(***************************************************************************)
(* Whatever is killed, rebooted or failing on the way: who gets through    *)
(* the proxy meets one build on a database it understands, and an outcome  *)
(* in the journal is the truth about what is installed.                    *)
(***************************************************************************)
THEOREM OneBuildIsServed == Spec => []BuildIsWhole
<1>. USE IsSane
<1>1. Init => BuildInv
  <2> SUFFICES ASSUME Init PROVE BuildInv
    OBVIOUS
  <2>1. TypeOK
    BY DEF Init, TypeOK, NoSnapshot, Databases, Builds, Terminal, Services, Backends
  <2>2. phase = None /\ pc = "idle" /\ Installed(unit["hub"])
    BY DEF Init, Installed, Services, Backends
  <2>. QED BY <2>1, <2>2 DEF Sane, BuildInv, Control, PhaseOfStep, Pinned, HubDown, NoWriters,
           Settled, Halfway, Undecided, Dirty, Before, During, After, Terminal
<1>2. BuildInv /\ [Next]_vars => BuildInv'
  <2> SUFFICES ASSUME BuildInv, [Next]_vars PROVE BuildInv'
    OBVIOUS
  <2>1. CASE Next
    <3>1. TypeOK'
      BY <2>1, NextType DEF BuildInv, Control
    <3>2. Control'
      BY <2>1, <3>1, NextControl DEF BuildInv
    <3>. QED BY <2>1, <3>1, <3>2, NextBuilds DEF BuildInv
  <2>2. CASE UNCHANGED vars
    BY <2>2 DEF BuildInv, Control, TypeOK, PhaseOfStep, Pinned, HubDown, NoWriters, Closed,
       Refusing, Settled, Halfway, Installed, vars, conf, mail, jour, host, system, worker, ghost
  <2>. QED BY <2>1, <2>2
<1>3. BuildInv => BuildIsWhole
  <2> SUFFICES ASSUME BuildInv PROVE OneBuildServed /\ OutcomeIsTrue
    BY DEF BuildIsWhole
  <2>1. OneBuildServed
    <3> SUFFICES ASSUME Public PROVE \E b : Installed(b)
      BY DEF OneBuildServed, Public, Installed, Backends
    <3>. QED BY DEF Public, BuildInv, Control, TypeOK, Settled, Halfway, Terminal
  <2>2. OutcomeIsTrue
    BY DEF BuildInv, Settled, OutcomeIsTrue, Installed
  <2>. QED BY <2>1, <2>2
<1>. QED BY <1>1, <1>2, <1>3, PTL DEF Spec

-----------------------------------------------------------------------------
(***************************************************************************)
(* The update of the agent.  Its inductive invariant follows the staged    *)
(* binary from the announcement to the swap: what is staged is what was    *)
(* authorised, it is newer than the build that runs, and from the raise    *)
(* on the floor on disk is its own.  Claims about a staged file stop       *)
(* where two attempts overlap on Windows, and claims about the floor       *)
(* where an operator has replaced it.                                      *)
(***************************************************************************)
Images == Bins \cup {None, Torn}
Floors == Bins \cup {None, Corrupt}
Steps == {"idle", "pending", "download", "downloading", "verify", "raise", "snapshot", "swap",
          "mark"}
Attempt == {"download", "downloading", "verify", "raise", "snapshot", "swap", "mark"}

SelfType ==
    /\ os \in Oses
    /\ exe \in Images /\ new \in Images /\ prev \in Images /\ marker \in Images
    /\ floor \in Floors /\ durable \in Floors
    /\ up \in BOOLEAN /\ self \in Bins /\ disabled \in BOOLEAN
    /\ task \in Steps /\ target \in Bins \cup {None}
    /\ helpers \in Nat /\ moved \in BOOLEAN
    /\ served \in Bins /\ frame \in Bins \cup {None} /\ report \in Bins \cup {None}
    /\ touched \in BOOLEAN /\ overlap \in BOOLEAN

(* Floor f stands at or above build g.                                     *)
Above(f, g) == f \in Bins /\ (Rel[f] > Rel[g] \/ f = g)
Covered(b) == b \in Bins \ {First} => Rel[b] # 0 /\ Above(durable, b)
Trusted(b) == b \in Bins => b \in Signed \cup {First}

(* The worker: it runs only while the process is up, for a signed build    *)
(* other than the one in place, newer than the one that runs; and from     *)
(* the raise of the floor on, the floor is that build's, on disk too.      *)
Engaged ==
    /\ task # "idle" => up
    /\ task \in Attempt => target \in Signed
    /\ up /\ (task = "mark" => os = "windows") => self = exe
    /\ task \in Attempt /\ (task = "mark" => os = "windows") => target # exe
    /\ task \in {"raise", "snapshot", "swap", "mark"} => Rel[target] > Rel[self]
        /\ Rel[target] # 0
    /\ task \in {"snapshot", "swap", "mark"} /\ ~touched => floor = target /\ durable = target
    /\ task \in {"verify", "raise"} => new \in {target, None}
    /\ task = "swap" => os = "linux"
(* Linux has no helper, and swaps before it marks.                         *)
OnLinux ==
    os = "linux" =>
      /\ helpers = 0 /\ ~overlap /\ task # "pending"
      /\ task = "mark" => exe = target
(* The staged file is the build that was authorised, no helper waits       *)
(* while a download runs, and a helper that waits moves something newer    *)
(* that the floor on disk covers.                                          *)
Staged ==
    /\ task \in {"verify", "raise", "snapshot", "swap"} => new = target
    /\ task = "mark" /\ os = "windows" => new = target
    /\ task \in Attempt \ {"download"} => helpers = 0
    /\ os = "windows" /\ new \in Bins => new # exe
    /\ helpers > 0 /\ new # None =>
         /\ new \in Signed /\ self = exe /\ Rel[new] > Rel[self] /\ Rel[new] # 0
         /\ ~touched => Above(durable, new)
(* The floor on disk may lag behind the one that reads back, never lead,   *)
(* and covers every binary that is in place or may come back.              *)
Covering ==
    ~touched =>
      /\ floor # Corrupt /\ durable # Corrupt
      /\ durable # None => Above(floor, durable)
      /\ ~overlap => Covered(exe) /\ Covered(prev) /\ Covered(self)

SelfInv ==
    /\ SelfType /\ Engaged /\ OnLinux /\ Covering
    /\ ~overlap => Staged /\ Trusted(exe) /\ Trusted(prev) /\ Trusted(self)

(***************************************************************************)
(* The installed agent that has never run satisfies the invariant.         *)
(***************************************************************************)
LEMMA SelfInit == Self!Init => SelfInv
<1> SUFFICES ASSUME Self!Init PROVE SelfInv
  OBVIOUS
<1>1. SelfType
  BY UpdatesAssumption DEF Self!Init, SelfType, Images, Floors, Steps
<1>2. Engaged /\ OnLinux /\ Staged
  BY UpdatesAssumption DEF Self!Init, Engaged, OnLinux, Staged, Attempt
<1>3. Covering /\ Trusted(exe) /\ Trusted(prev) /\ Trusted(self)
  BY UpdatesAssumption DEF Self!Init, Covering, Covered, Trusted
<1>. QED BY <1>1, <1>2, <1>3 DEF SelfInv

(***************************************************************************)
(* Every step of the agent, its helpers, its hub and its operator keeps    *)
(* the types.                                                              *)
(***************************************************************************)
LEMMA SelfNextType == ASSUME SelfType, Self!Next PROVE SelfType'
<1>. USE UpdatesAssumption DEF SelfType, Images, Floors, Steps
<1>1. CASE Self!ReceiveAnnouncement
  BY <1>1 DEF Self!ReceiveAnnouncement, Self!files, Self!floors, Self!help, Self!hub
<1>2. CASE Self!StartDownload
  BY <1>2 DEF Self!StartDownload, Self!floors, Self!help, Self!hub
<1>3. CASE Self!FinishDownload
  BY <1>3 DEF Self!FinishDownload, Self!Idle, Self!floors, Self!help, Self!hub
<1>4. CASE Self!VerifyCandidate
  BY <1>4 DEF Self!VerifyCandidate, Self!Discard, Self!Idle, Self!floors, Self!help, Self!hub
<1>5. CASE Self!RaiseFloor
  BY <1>5 DEF Self!RaiseFloor, Self!Discard, Self!Idle, Self!Permits, Self!WriteOk,
              Self!WriteFails, Self!WriteVisible, Self!floors, Self!help, Self!hub
<1>6. CASE Self!Snapshot
  BY <1>6 DEF Self!Snapshot, Self!Discard, Self!Idle, Self!floors, Self!help, Self!hub
<1>7. CASE Self!Swap
  BY <1>7 DEF Self!Swap, Self!Discard, Self!Idle, Self!floors, Self!help, Self!hub
<1>8. CASE Self!MarkAndExit
  <2>1. task' = "idle" /\ target' = None /\ up' \in BOOLEAN
    BY <1>8 DEF Self!MarkAndExit, Self!Idle
  <2>2. new' \in {new, None} /\ marker' \in {marker, target}
    BY <1>8 DEF Self!MarkAndExit, Self!Idle
  <2>. QED BY <1>8, <2>1, <2>2 DEF Self!MarkAndExit, Self!floors, Self!help, Self!hub
<1>9. CASE Self!HelperMove
  BY <1>9 DEF Self!HelperMove, Self!floors, Self!proc, Self!hub
<1>10. CASE Self!HelperGiveUp
  BY <1>10 DEF Self!HelperGiveUp, Self!floors, Self!proc, Self!hub
<1>11. CASE Self!HelperDone
  <2>1. moved' = FALSE /\ marker' = None
      /\ UNCHANGED <<os, exe, new, prev, Self!floors, Self!proc, helpers, Self!hub, touched,
                      overlap>>
    BY <1>11 DEF Self!HelperDone
  <2>2. moved' \in BOOLEAN
    BY <2>1, Zenon
  <2>. QED BY <2>1, <2>2 DEF Self!floors, Self!proc, Self!hub
<1>12. CASE Self!Boot
  <2>1. floor' \in Floors /\ durable' \in Floors /\ disabled' \in BOOLEAN
    <3>1. Self!Seed(exe) /\ exe \in Bins
      BY <1>12 DEF Self!Boot
    <3>. QED BY <3>1, ZenonT(60) DEF Self!Seed, Self!WriteOk, Self!WriteFails,
                                     Self!WriteVisible, Self!floors
  <2>2. task' \in Steps /\ self' \in Bins /\ up' \in BOOLEAN /\ frame' = None
    BY <1>12 DEF Self!Boot
  <2>3. UNCHANGED <<os, Self!files, target, Self!help, served, report, touched, overlap>>
    BY <1>12 DEF Self!Boot
  <2>. QED BY <2>1, <2>2, <2>3 DEF Self!files, Self!help
<1>13. CASE Self!ApplyPending
  <2>1. task' = "idle"
      /\ UNCHANGED <<os, exe, prev, self, disabled, target, moved, Self!hub, touched, overlap>>
    BY <1>13 DEF Self!ApplyPending
  <2>2. up' \in BOOLEAN /\ helpers' \in {helpers, helpers + 1} /\ new' \in {new, None}
      /\ marker' \in {marker, None}
    BY <1>13 DEF Self!ApplyPending
  <2>3. floor' \in {floor, new} /\ durable' \in {durable, new}
      /\ (new \in Bins \/ UNCHANGED Self!floors)
    BY <1>13 DEF Self!ApplyPending, Self!PendingValid, Self!WriteOk, Self!WriteFails,
                 Self!WriteVisible, Self!floors
  <2>. QED BY <2>1, <2>2, <2>3 DEF Self!hub, Self!floors
<1>14. CASE Self!Recover
  BY <1>14 DEF Self!Recover, Self!Dead, Self!CanRollBack, Self!floors, Self!proc, Self!help, Self!hub
<1>15. CASE Self!Connect
  BY <1>15 DEF Self!Connect, Self!Status, Self!Usable, Self!files, Self!floors, Self!proc,
               Self!help, Self!hub
<1>16. CASE Self!Announce
  BY <1>16 DEF Self!Announce, Self!files, Self!floors, Self!proc, Self!help, Self!hub
<1>17. CASE Self!Crash
  <2>1. up' = FALSE /\ Self!Idle /\ frame' = None
       
            /\ UNCHANGED <<os, Self!files, Self!floors, self, disabled, Self!help, served, report,
                            touched, overlap>>
    BY <1>17 DEF Self!Crash
  <2>2. up' \in BOOLEAN
    BY <2>1, Zenon
  <2>. QED BY <2>1, <2>2 DEF Self!Idle, Self!files, Self!floors, Self!help
<1>18. CASE Self!PowerLoss
  <2>1. exe' \in Images /\ new' \in Images /\ prev' \in Images /\ marker' \in Images
    BY <1>18 DEF Self!PowerLoss, Self!Unsynced
  <2>2. up' = FALSE /\ task' = "idle" /\ target' = None /\ frame' = None /\ helpers' = 0
      /\ moved' = FALSE /\ floor' \in {floor, durable} /\ durable' = floor'
      /\ UNCHANGED <<os, self, disabled, served, report, touched, overlap>>
    BY <1>18 DEF Self!PowerLoss, Self!Idle
  <2>3. up' \in BOOLEAN /\ moved' \in BOOLEAN
    BY <2>2, Zenon
  <2>. QED BY <2>1, <2>2, <2>3
<1>21. CASE Self!MarkerAges
  BY <1>21 DEF Self!MarkerAges, Self!floors, Self!proc, Self!help, Self!hub
<1>19. CASE Self!EditFloor
  BY <1>19 DEF Self!EditFloor, Self!files, Self!proc, Self!help, Self!hub
<1>20. ASSUME NEW b \in Bins, Self!Serve(b) PROVE SelfType'
  BY <1>20 DEF Self!Serve, Self!files, Self!floors, Self!proc, Self!help
<1>. HIDE UpdatesAssumption DEF SelfType, Images, Floors, Steps
<1>. QED BY <1>1, <1>2, <1>3, <1>4, <1>5, <1>6, <1>7, <1>8, <1>9, <1>10, <1>11, <1>12, <1>13,
    <1>14, <1>15, <1>16, <1>17, <1>18, <1>19, <1>20, <1>21
         DEF Self!Next, Self!Worker, Self!Helper, Self!Start, Self!Faulty

(***************************************************************************)
(* Every step keeps the invariant: the floor on disk only rises while      *)
(* nobody edits it, and no binary is put in place before it.               *)
(***************************************************************************)
LEMMA SelfNext == ASSUME SelfInv, Self!Next PROVE SelfInv'
<1>0. SelfType'
  BY SelfNextType DEF SelfInv
<1>. USE <1>0, UpdatesAssumption DEF SelfInv, SelfType, Engaged, OnLinux, Covering, Covered,
                                     Above, Staged, Trusted, Images, Floors, Steps, Attempt
<1>1. CASE Self!ReceiveAnnouncement
  BY <1>1 DEF Self!ReceiveAnnouncement, Self!Authorised, Self!files, Self!floors, Self!help,
              Self!hub
<1>2. CASE Self!StartDownload
  <2>1. CASE helpers > 0
    <3>1. overlap' = TRUE
      BY <1>2, <2>1 DEF Self!StartDownload
    <3>. QED BY <1>2, <2>1, <3>1 DEF Self!StartDownload, Self!floors, Self!help, Self!hub
  <2>2. CASE helpers = 0
    <3>1. overlap' = overlap
      BY <1>2, <2>2 DEF Self!StartDownload
    <3>. QED BY <1>2, <2>2, <3>1 DEF Self!StartDownload, Self!floors, Self!help, Self!hub
  <2>. QED BY <2>1, <2>2
<1>3. CASE Self!FinishDownload
  BY <1>3 DEF Self!FinishDownload, Self!Spend, Self!Idle, Self!floors, Self!help, Self!hub
<1>4. CASE Self!VerifyCandidate
  <2>1. CASE new \in Bins /\ Self!Usable /\ Self!Permits(floor, new) /\ task' = "raise"
      /\ UNCHANGED <<new, target>>
    <3>1. new = target /\ target # self
      BY <1>4, <2>1 DEF Self!VerifyCandidate
    <3>2. task' = "raise"
        /\ UNCHANGED <<os, Self!files, Self!floors, up, self, disabled, target, Self!help, Self!hub,
                        touched, overlap>>
      BY <1>4, <2>1 DEF Self!VerifyCandidate, Self!files
    <3>3. new # self => Rel[new] > Rel[self] /\ Rel[new] # 0
      BY <2>1 DEF Self!Usable, Self!Permits, Self!Covers
    <3>. QED BY <1>4, <3>1, <3>2, <3>3 DEF Self!VerifyCandidate, Self!files, Self!floors,
                                           Self!help, Self!hub
  <2>2. CASE Self!Discard
    BY <1>4, <2>2 DEF Self!VerifyCandidate, Self!Discard, Self!Idle, Self!floors, Self!help,
                      Self!hub
  <2>. QED BY <1>4, <2>1, <2>2 DEF Self!VerifyCandidate
<1>5. CASE Self!RaiseFloor
  BY <1>5 DEF Self!RaiseFloor, Self!Discard, Self!Idle, Self!Permits, Self!Spend,
              Self!WriteOk, Self!WriteFails, Self!WriteVisible, Self!floors, Self!help,
              Self!hub
<1>6. CASE Self!Snapshot
  BY <1>6 DEF Self!Snapshot, Self!Spend, Self!Discard, Self!Idle, Self!floors, Self!help,
              Self!hub
<1>7. CASE Self!Swap
  BY <1>7 DEF Self!Swap, Self!Spend, Self!Discard, Self!Idle, Self!floors, Self!help, Self!hub
<1>8. CASE Self!MarkAndExit
  <2>1. CASE os = "linux"
    <3>1. up' = FALSE /\ UNCHANGED new
      BY <1>8, <2>1 DEF Self!MarkAndExit
    <3>. QED BY <1>8, <2>1, <3>1 DEF Self!MarkAndExit, Self!Spend, Self!Idle, Self!floors,
                                     Self!help, Self!hub
  <2>2. CASE os = "windows"
    <3>1. overlap \/ new = target
      BY <1>8, <2>2 DEF Self!MarkAndExit
    <3>2. task' = "idle" /\ target' = None /\ new' \in {new, None} /\ self = exe
      BY <1>8, <2>2 DEF Self!MarkAndExit, Self!Idle
    <3>3. UNCHANGED <<os, exe, prev, floor, durable, self, disabled, helpers, moved, served, frame,
                      report, touched, overlap>>
      BY <1>8 DEF Self!MarkAndExit, Self!floors, Self!help, Self!hub
    <3>4. Engaged' /\ OnLinux'
      BY <2>2, <3>2, <3>3
    <3>5. Covering'
      BY <3>3
    <3>6. ~overlap' => Staged' /\ Trusted(exe)' /\ Trusted(prev)' /\ Trusted(self)'
      BY <2>2, <3>1, <3>2, <3>3
    <3>. QED BY <3>4, <3>5, <3>6
  <2>. QED BY <2>1, <2>2
<1>9. CASE Self!HelperMove
  BY <1>9 DEF Self!HelperMove, Self!floors, Self!proc, Self!hub
<1>10. CASE Self!HelperGiveUp
  BY <1>10 DEF Self!HelperGiveUp, Self!floors, Self!proc, Self!hub
<1>11. CASE Self!HelperDone
  BY <1>11 DEF Self!HelperDone, Self!floors, Self!proc, Self!hub
<1>12. CASE Self!Boot
  BY <1>12 DEF Self!Boot, Self!Seed, Self!Covers, Self!Spend, Self!WriteOk, Self!WriteFails,
               Self!WriteVisible, Self!files, Self!floors, Self!help
<1>13. CASE Self!ApplyPending
  <2>1. task' = "idle"
      /\ UNCHANGED <<os, exe, prev, self, disabled, target, moved, Self!hub, touched, overlap>>
    BY <1>13 DEF Self!ApplyPending
  <2>2. CASE Self!PendingValid /\ Self!WriteOk(new) /\ up' = FALSE
      /\ helpers' \in {helpers, helpers + 1} /\ UNCHANGED new
    <3>1. floor \in Bins /\ Self!Covers(floor, self) /\ new \in Signed
        /\ Self!Permits(floor, new)
      BY <2>2 DEF Self!PendingValid, Self!Usable
    <3>2. new # self => Rel[new] > Rel[self] /\ Rel[new] # 0
      BY <3>1 DEF Self!Permits, Self!Covers
    <3>3. ~touched /\ durable # None => Above(new, durable)
      BY <3>1 DEF Self!Permits
    <3>4. floor' = new /\ durable' = new
      BY <2>2 DEF Self!WriteOk
    <3>. QED BY <1>13, <2>1, <2>2, <3>1, <3>2, <3>3, <3>4 DEF Self!ApplyPending, Self!hub
  <2>3. CASE Self!PendingValid /\ floor' = new /\ durable' = new
      /\ UNCHANGED <<new, up, helpers>>
    <3>1. floor \in Bins /\ new \in Signed /\ Self!Permits(floor, new)
      BY <2>3 DEF Self!PendingValid, Self!Usable
    <3>2. ~touched /\ durable # None => Above(new, durable)
      BY <3>1 DEF Self!Permits
    <3>. QED BY <1>13, <2>1, <2>3, <3>1, <3>2 DEF Self!ApplyPending, Self!hub
  <2>4. CASE Self!PendingValid /\ (Self!WriteFails \/ Self!WriteVisible(new)) /\ new' = None
      /\ UNCHANGED <<up, helpers>>
    <3>1. floor \in Bins /\ new \in Signed /\ Self!Permits(floor, new)
      BY <2>4 DEF Self!PendingValid, Self!Usable
    <3>2. ~touched /\ durable # None => Above(new, durable)
      BY <3>1 DEF Self!Permits
    <3>3. floor' \in {floor, new} /\ durable' = durable
      BY <2>4 DEF Self!WriteFails, Self!WriteVisible, Self!floors
    <3>. QED BY <1>13, <2>1, <2>4, <3>1, <3>2, <3>3 DEF Self!ApplyPending, Self!hub
  <2>5. CASE new' = None /\ UNCHANGED <<Self!floors, up, helpers>>
    BY <1>13, <2>1, <2>5 DEF Self!ApplyPending, Self!floors, Self!hub
  <2>. QED BY <1>13, <2>2, <2>3, <2>4, <2>5 DEF Self!ApplyPending
<1>14. CASE Self!Recover
  BY <1>14 DEF Self!Recover, Self!Dead, Self!CanRollBack, Self!floors, Self!proc, Self!help, Self!hub
<1>15. CASE Self!Connect \/ Self!Announce
  BY <1>15 DEF Self!Connect, Self!Announce, Self!files, Self!floors, Self!proc, Self!help,
               Self!hub
<1>16. CASE Self!Crash
  BY <1>16 DEF Self!Crash, Self!Spend, Self!Idle, Self!files, Self!floors, Self!help, Self!hub
<1>17. CASE Self!PowerLoss
  <2>1. task' = "idle" /\ up' = FALSE /\ helpers' = 0 /\ floor' \in {floor, durable}
      /\ durable' = floor' /\ UNCHANGED <<os, self, disabled, touched, overlap>>
    BY <1>17 DEF Self!PowerLoss, Self!Idle
  <2>2. exe' \in {exe, self, Torn} /\ prev' \in {prev, None, Torn}
    BY <1>17 DEF Self!PowerLoss, Self!Unsynced
  <2>3. new' \in {new, None, Torn} \/ (new' = exe /\ exe' = self /\ exe # self)
    BY <1>17 DEF Self!PowerLoss, Self!Unsynced
  <2>4. exe' \in {exe, Torn} \/ (exe' = self /\ new' = exe /\ exe # self)
    BY <1>17 DEF Self!PowerLoss
  <2>5. Engaged' /\ OnLinux'
    BY <2>1
  <2>6. Covering'
    BY <2>1, <2>2
  <2>7. ~overlap' => Staged' /\ Trusted(exe)' /\ Trusted(prev)' /\ Trusted(self)'
    BY <2>1, <2>2, <2>3, <2>4
  <2>. QED BY <2>5, <2>6, <2>7
<1>20. CASE Self!MarkerAges
  BY <1>20 DEF Self!MarkerAges, Self!floors, Self!proc, Self!help, Self!hub
<1>18. CASE Self!EditFloor
  BY <1>18 DEF Self!EditFloor, Self!Spend, Self!files, Self!proc, Self!help, Self!hub
<1>19. ASSUME NEW b \in Bins, Self!Serve(b) PROVE SelfInv'
  BY <1>19 DEF Self!Serve, Self!Spend, Self!files, Self!floors, Self!proc, Self!help
<1>. HIDE <1>0, UpdatesAssumption DEF SelfInv, SelfType, Engaged, OnLinux, Covering, Covered,
                                      Above, Staged, Trusted, Images, Floors, Steps, Attempt
<1>. QED BY <1>1, <1>2, <1>3, <1>4, <1>5, <1>6, <1>7, <1>8, <1>9, <1>10, <1>11, <1>12, <1>13,
    <1>14, <1>15, <1>16, <1>17, <1>18, <1>19, <1>20
         DEF Self!Next, Self!Worker, Self!Helper, Self!Start, Self!Faulty

(***************************************************************************)
(* A step or a stutter keeps it.                                           *)
(***************************************************************************)
LEMMA SelfStep == SelfInv /\ [Self!Next]_Self!vars => SelfInv'
<1> SUFFICES ASSUME SelfInv, [Self!Next]_Self!vars PROVE SelfInv'
  OBVIOUS
<1>1. CASE UNCHANGED Self!vars
  BY <1>1 DEF SelfInv, SelfType, Engaged, OnLinux, Covering, Covered, Above, Staged, Trusted,
              Self!vars, Self!files, Self!floors, Self!proc, Self!help, Self!hub
<1>. QED BY <1>1, SelfNext

(***************************************************************************)
(* The invariant holds throughout.                                         *)
(***************************************************************************)
LEMMA SelfAlways == Self!Spec => []SelfInv
BY SelfInit, SelfStep, PTL DEF Self!Spec

(***************************************************************************)
(* The invariant implies that the floor on disk covers the binary in       *)
(* place and that what runs was installed or signed.                       *)
(***************************************************************************)
LEMMA SelfSafe == SelfInv => FloorCoversBinary
<1> SUFFICES ASSUME SelfInv PROVE FloorCoversBinary
  OBVIOUS
<1>1. Self!FloorCoversBinary
  BY DEF SelfInv, Covering, Covered, Above, Self!FloorCoversBinary, Self!Covers
<1>2. Self!OnlySignedRuns
  BY DEF SelfInv, SelfType, Trusted, Self!OnlySignedRuns
<1>. QED BY <1>1, <1>2 DEF FloorCoversBinary

(***************************************************************************)
(* Whatever crash, power loss, failed fsync or second helper comes in      *)
(* between: the release floor that survives on disk covers the binary in   *)
(* place (so no release is ever replayed), and what runs was installed by  *)
(* hand or signed by the key (release_floor.go, update_verify.go).         *)
(***************************************************************************)
THEOREM FloorHolds == Self!Spec => []FloorCoversBinary
BY SelfAlways, SelfSafe, PTL

(* What a step that puts another binary in place must respect.             *)
Forward ==
    exe' # exe /\ ~Self!Recover /\ ~Self!PowerLoss /\ ~overlap /\ exe' \in Bins => Rel[exe'] > Rel[self]

(***************************************************************************)
(* Only a swap, a helper's move and the recovery unit touch the binary,    *)
(* and the first two put something newer in place.                         *)
(***************************************************************************)
LEMMA ForwardStep == SelfInv /\ [Self!Next]_Self!vars => [Forward]_Self!vars
<1> SUFFICES ASSUME SelfInv, Self!Next PROVE Forward
  BY DEF Self!vars
<1>. USE DEF Forward
<1>1. CASE Self!Swap
  BY <1>1, UpdatesAssumption DEF Self!Swap, Self!Discard, SelfInv, Engaged, Staged
<1>2. CASE Self!HelperMove
  BY <1>2, UpdatesAssumption DEF Self!HelperMove, SelfInv, Staged, SelfType
<1>3. CASE Self!Worker /\ ~Self!Swap
  BY <1>3 DEF Self!Worker, Self!ReceiveAnnouncement, Self!StartDownload, Self!FinishDownload,
              Self!VerifyCandidate, Self!RaiseFloor, Self!Snapshot, Self!MarkAndExit, Self!files
<1>4. CASE Self!HelperGiveUp \/ Self!HelperDone \/ Self!Boot \/ Self!ApplyPending
           \/ Self!Connect \/ Self!Announce \/ (Self!Faulty /\ ~Self!PowerLoss)
  BY <1>4 DEF Self!HelperGiveUp, Self!HelperDone, Self!Boot, Self!ApplyPending, Self!Connect,
              Self!Announce, Self!Faulty, Self!Crash, Self!MarkerAges, Self!EditFloor,
              Self!Serve, Self!files
<1>5. CASE Self!PowerLoss \/ Self!Recover
  BY <1>5
<1>. QED BY <1>1, <1>2, <1>3, <1>4, <1>5 DEF Self!Next, Self!Helper, Self!Start

(***************************************************************************)
(* The hub's copy of the floor gate agrees with the agent's, for every     *)
(* build and every report that is current (releaseAnnounceBlocked,         *)
(* permits).                                                               *)
(***************************************************************************)
LEMMA GatesAgree == SelfInv => Self!HubMirrorsAgent
BY UpdatesAssumption
   DEF SelfInv, SelfType, Self!HubMirrorsAgent, Self!Status, Self!Usable, Self!HubAllows,
       Self!Permits

(***************************************************************************)
(* The update path installs only what is newer than the build that         *)
(* installs it, even over a valid but older floor put in place behind the  *)
(* agent's back, and the hub announces exactly what the floor permits.     *)
(***************************************************************************)
THEOREM UpdatesGoForward == Self!Spec => OnlyForward
BY SelfAlways, ForwardStep, GatesAgree, PTL
   DEF Self!Spec, OnlyForward, Self!NoDowngrade, Forward

-----------------------------------------------------------------------------
(***************************************************************************)
(* Both updates together, the specification of the runs.  The part that    *)
(* is not the behaviour's own is at rest, where its invariant holds and    *)
(* stays.                                                                  *)
(***************************************************************************)
LEMMA RestIsSafe == SelfAtRest => SelfInv
<1> SUFFICES ASSUME SelfAtRest PROVE SelfInv
  OBVIOUS
<1>1. SelfType
  <2>1. os \in Oses
    BY UpdatesAssumption, Zenon DEF SelfAtRest
  <2>. QED BY <2>1, UpdatesAssumption DEF SelfAtRest, SelfType, Images, Floors, Steps
<1>2. Engaged /\ OnLinux /\ Staged
  BY UpdatesAssumption DEF SelfAtRest, Engaged, OnLinux, Staged, Attempt
<1>3. Covering /\ Trusted(exe) /\ Trusted(prev) /\ Trusted(self)
  BY UpdatesAssumption DEF SelfAtRest, Covering, Covered, Above, Trusted
<1>. QED BY <1>1, <1>2, <1>3 DEF SelfInv

(***************************************************************************)
(* Both parts keep what is theirs in every behaviour of the runs: the      *)
(* floor covers the binary and rises with it, no acknowledged write is     *)
(* lost, and the public meets one build on a database it understands.      *)
(***************************************************************************)
THEOREM UpdatesAreSafe ==
    UpdatesSpec => [](FloorCoversBinary /\ NoWriteLost /\ BuildIsWhole) /\ OnlyForward
<1>1. UpdatesInit => Init /\ SelfInv
  BY SelfInit, RestIsSafe DEF UpdatesInit, HostAtRest
<1>2. [UpdatesNext]_updatesVars => [Next]_vars
  BY DEF UpdatesNext, updatesVars, hostVars
<1>3. [UpdatesNext]_updatesVars => [Self!Next]_Self!vars
  BY DEF UpdatesNext, updatesVars, selfVars, Self!vars, Self!files, Self!floors, Self!proc,
         Self!help, Self!hub
<1>4. SelfInv => Self!HubMirrorsAgent /\ FloorCoversBinary
  BY GatesAgree, SelfSafe
<1>. QED BY <1>1, <1>2, <1>3, <1>4, SelfStep, ForwardStep, NoWriteIsLost, OneBuildIsServed,
            PTL
         DEF UpdatesSpec, Spec, OnlyForward, Self!NoDowngrade, Forward

=============================================================================
