# A TLA+ model of BloxOs

BloxOs is a fleet monitor: a hub (Go, SQLite) that agents on machines connect to
over WebSockets, a dashboard, and an updater for the hub itself. This directory
holds TLA+ modules of the parts of it that are hard to test, the TLC
configurations that check them on small instances, and TLAPS proofs that hold for
every instance.

## The system and what is hard about it

| Component | State | Operations | Interacts through | Correct when |
|---|---|---|---|---|
| Rollout controller (`hub/agent_rollout.go`, `hub/rollout_pause.go`) | `agent_rollout_platform`, `agent_rollout_slot`, pause setting; evidence per connection in memory | reserve, release, mark, observe, withhold, fail, tick, resume, reconcile | one scheduler goroutine, socket handlers, HTTP handlers, restarts | exposure is bounded, the canary comes first, nothing is promoted unearned, every attempt ends |
| Announcer (`hub/agent_versions.go`) | last reported version, served binary | announce, record a version report, pause, resume | reads the registry, writes sockets and slots | what is written was admitted and is still wanted |
| Registry and sockets (`hub/agentws.go`, `hub/server.go`) | connection by machine, ingestion barrier | register, displace, unregister, revoke, ingest a frame | locks shared with deletion and the scheduler | a displaced or deleted connection has no effect |
| Enrollment (`hub/agentws.go`, `agent/credential_handoff.go`, `agent/main.go`) | tokens, active and pending credentials on both sides | consume a token, stage, promote, confirm, revoke | frames that can be lost, crashes on both sides | no machine is locked out, no token is used twice |
| Power history (`agent/power_history.go`, `agent/power_journal.go`, `hub/power_history.go`) | windows in memory, journal and reservation on disk, tables of buckets and gaps, per-stream acknowledgement | sample, close a window, append, rotate, batch, acknowledge, commit, prune, page | frames, restarts, lost disks, retention on both sides | every bucket is stored once or reported as a gap, and the acknowledgement is true |
| System updater (`scripts/updater/`, `hub/system_update.go`) | request and status mailbox, journal, snapshot, maintenance marker, services | prepare, quiesce, back up, install, verify, commit, roll back, recover, gate a boot | kills and reboots between any two steps, a second request | no acknowledged write is undone, one complete build is served |
| Agent self-update (`agent/updater.go`, `agent/updater_windows.go`, `agent/release_floor.go`, `agent/update_verify.go`, `hub/release_policy.go`) | floor file, binary, staged file, backup, marker | announce, download, verify, raise, swap, recover | announcements, crashes, power loss, Windows helpers | nothing unsigned or older runs, and a good release gets in |
| Release marker (`proto/updatesigning/release.go`) | a buffer over a stream | scan | chunk boundaries | what is found is what the file declares |
| Alerts (`hub/alerts.go`) | rules, alerts, pending breaches in memory | evaluate, acknowledge, edit, clean up | metrics, pollers, deletion, restart | opened after a held breach, ended by evidence |
| Fleet power (`hub/fleet_power*.go`) | none: reads of the power tables | classify, combine, bin, cut off | commits between two queries | no watt that was not measured, whole bins only |
| Accounts (`hub/auth.go`, `hub/users.go`) | users table, setup token in memory and in a file | set up, create, change, delete | requests that overlap, restarts | setup makes one administrator; unless a request acts on a stale role there always is one |
| API-polled machines (`hub/main.go`) | rows, one goroutine each, table of goroutines | create, change, delete, poll | requests and polls that overlap, statements that fail | one poller, which can be stopped and polls what the row says |
| AI sessions (`hub/ai_sessions.go`, `agent/ai_sessions.go`, `agent/aiscan/`) | switch, snapshots, the agent's gate | flip, send, apply, scan, ingest, clear | goroutines per frame, displaced sockets, restarts | off means nothing scanned or kept |
| Commands, terminal (`hub/main.go`, `hub/terminal.go`, `hub/command_feedback.go`, `agent/`) | waiting commands, terminal sessions | dispatch, wait, refuse, relay, tear down | client, hub, agent and timers | every request that nobody holds up ends, with the truth |

`PROJECT.json` lists every component with its status, and every hazard with the
properties that watch it.
The hardest behaviour is the agent rollout: it decides
which machines of a fleet run an unproven build, one goroutine drives it while
socket handlers, operators and deletions change what it has read, its durable
state is ambiguous after a crash by design, and its evidence of health lives in
memory. It is modelled first and completely. Second comes enrollment: two programs that
may each crash, and a socket that may lose any frame, must agree on one secret.

## Modules

| Module | What it is |
|---|---|
| `RolloutPolicy` | What the rollout promises: slots, capacity, stages, halting, retries. No scheduler, sockets, clock or crashes. |
| `DwellEvidence` | The operators of a connection's evidence record (`rolloutEvidence`), shared by the modules that use it. |
| `RolloutHealth` | The evidence of one machine's sockets against a log of every frame with its absolute receipt time. |
| `AgentRollout` | The rollout of one platform: scheduler, announcer, registry, reports, operator, deletion, restarts. |
| `RolloutPolicyProofs` | The policy's two promises, proved. |
| `AgentRolloutProofs` | The inductive invariant of `AgentRollout`, its safety theorems, and that it implements `RolloutPolicy` and inherits its theorems. |
| `RolloutEvidence` | The rollout and the evidence it promotes on, composed. |
| `RolloutEvidenceProofs` | The evidence record decides what the log of its frames says, proved. |
| `Enrollment` | Install tokens, credentials, the handshake and the agent's secret files, on both sides of the socket. |
| `EnrollmentProofs` | The inductive invariant of `Enrollment` and its theorems. |
| `PowerLedger` | What power history promises: numbers settled in order and for good, as stored or as lost, and an agent that learns of it. No journal, frames, tables, clocks or crashes. |
| `PowerHistory` | Journal, batches, acknowledgements, the hub's tables and a dashboard's cursor, on both sides of the socket. |
| `PowerWindow` | One window of the agent's power samples, and the hub's validation of what it emits. |
| `FleetPower` | The hub's reads of stored windows: classification, binning, the row cap, the current reading. |
| `SelfUpdate` | The agent's update of itself on Linux and Windows against its release floor. |
| `ReleaseMarker` | The scan of a binary for its release marker, chunk by chunk, against what the file holds. |
| `SystemUpdate` | The root-owned updater of the host's deployment: mailbox, journalled transaction, adapters, boot gate. |
| `Alerts` | The evaluator's pass over one machine and everything that changes its tables meanwhile. |
| `Updates` | The two updates, the agent's and the host's, composed, and their promises. |
| `UpdatesProofs` | No write is lost, one build is served, the release floor holds and updates go forward, proved. |
| `Accounts` | First-boot setup and the requests that change accounts. |
| `ApiPollers` | One API-polled machine: its row, its pollers, its requests. |
| `AiSessions` | The AI-session switch from an administrator's request to an agent's gate and back to the store. |
| `Terminal` | One terminal session, the agent's socket and any number of browsers', its timers, relays, the agent's refusal and copiers. |
| `Commands` | A command to several machines at once. |
| `Services` | AI sessions, a terminal and bulk commands composed, and their promises. |
| `ServicesProofs` | Nothing is kept against the switch, a refusal reaches the browser, bulk answers are true, proved. |
| `Decisions` | The rollout's rules, alerts, accounts, API pollers, power windows, charts and the marker scan composed, and their promises. |
| `DecisionsProofs` | Administrators, pollers, both directions of an alert, power windows, fleet reads and the marker scan, proved. |
| `PowerHistoryProofs` | The inductive invariant of `PowerHistory`, its safety theorems, and that it implements `PowerLedger` and inherits its promises. |
| `MC_*` | The constants of an instance for TLC. |

`RolloutEvidence`, `Updates`, `Services` and `Decisions` compose several components. The components share no state, so the composition is a sum: a variable `part`, fixed
by the initial state, says which of them moves, and the others rest in one of their initial
states (where a part has fairness, in a state in which that asks for nothing). The
behaviours of each part are those of its module, no more and no fewer. A property of a
sum is a property of a part, and some join the promises of one component or of two related ones
(`OneBucketPerSeq`, `LossIsAccounted`, `StaysEnrolled`, `BuildIsWhole`, `FleetReadsAreTrue`, `AnswersAreTrue`, ...).

Operators named `X_...` after a definition `X` are faulty versions of it, such as a
dropped guard; substituting one for `X` must break the property it is listed
with in `PROJECT.json`. A property that joins several promises has such a version listed for one of them; the
others stand beside the code they would break.

### How AgentRollout corresponds to the code

*State.* `gen, cand, stage, status` is the platform's row; `state, row` are the
slots of the current generation (older ones are never read again); `paused` and
`known` stand for `hub_settings` and `machines`; `served` for the binary state,
`registry` for `Server.agents`, `reported` for `agentRunningVersions`, `ev` for the
evidence by connection. `owner, proc, rep` belong to a socket: its machine, the
build its process runs, and how far its handler is in a version report. `pc` and
the variables after it are the scheduler goroutine's program counter and locals.
`exposed` and `validated` are history variables.

*Steps.* One action is one transaction, one critical section or one read that
decides. A tick is `TickRead`, one `TickCheck` per slot followed by `TickPromote` or
`TickExpire`, and `TickAdvance`. An announcement is `Announce`, then inside the
barrier `Withhold` or one of the four `Reserve...` outcomes, then `SendCheck`, `Write`
and `MarkOffered`, or `ReleaseBeforeSend`. A version report is three steps
(`ReportBegin`, `ReportFile`, `ReportObserve`) because the hub reads the served binary
once and the platform's row twice with no lock between. The hub may crash between
any two of these (`HubRestart`), and sockets, operators and deletions interleave.

*Locks.* The pause lock is held from `SendCheck` to `Write` (`PauseLockFree`); the
ingestion barrier is the guard `Registered` inside the steps that write, and
`DeleteMachine` waits for reports in progress. `claimSend` needs no state of its own:
the scheduler is the only sender.

*Time.* Deadlines and evidence keep differences to now; `Elapse` moves the clock at any
moment. A deadline counts down to -1, which is the strict comparison
`now > deadline` of the code.

*Free choices.* `announceDecision` may refuse any machine at any time; a busy socket lock
skips a machine; a write may fail although it was delivered; any authenticated
process may run any build.

*Left out.* Failing SQL statements (a failed `releaseBeforeSend` or `markOffered` leaves the
row as a crash at that point would; a failed read skips the step), several
platforms (every statement is keyed by platform), the display fields
`reason`, `ran_candidate` and the summary.

### How Enrollment corresponds to the code

*State.* `tok` and `cred` are the tables `tokens` and `agent_credentials`, `agents` is
`Server.agents`, `ws` the locals of each running `handleAgentWS`, `up` and `down` the frames
in flight per socket. `file` is what a machine keeps over a restart (the active
and the pending secret file and the token of its service), `proc` the agent
process: its token, the candidate it dials with and `rejectedPendingSecret`. A
secret stands for its hash as well; a deadline is a flag that time may set at any
moment.

*Steps.* The handshake is one action per database statement: `LookupActive`,
`LookupPending` and `PromotePending` for `validateAgentSecret`, `VerifyToken` for the token
with the routing that follows. The first metrics frame is refused, stages a
replacement or issues a first secret (`RefuseEnrollment`, `StageReenrollment`, `IssueFresh`).
`enrollment_committed` is `CommitFresh`, or `ReadLive` and `PromoteStaged`: the check that the
connection is still registered and the transaction are two steps. The agent's steps are `Dial`,
`Disconnect`, `ReceiveRejection`, `handleEnrolledFrame` and `handleEnrollmentConfirmed`; a file
replacement by rename is atomic. Sockets of one machine overlap because the hub may notice the end of an
old one after the agent has dialled again.

*Locks.* A handler holds the read side of `agentAuthMu` in the phases `AuthPending`; revocation and
deletion (`RemoveCredential`) wait until no handler is in one.

*Faults.* `Faults` names what an instance may suffer: dropped connections, crashes and
restarts of either side, failed saves, database errors in the lookups, deadlines,
revocation, deletion, and the operators' tokens and installations. When the agent closes
a socket, any suffix of what it sent may be lost.

*Left out.* The machines row and its online status, rate limits, hardware and version frames held
back until the commit, `last_used_at`, `BLOXOS_SECRET`, the duration of the auth window.
`Restore-PreviousInstall` takes the token back to none rather than to the one
that was there before.

### How the other modules correspond to the code

*PowerHistory.* `up, j` is the agent process with its journal in memory, `disk` what a crash leaves: the
stream's identity, the reservation, the records written, a torn record at the end and
the acknowledgement. A journal record is a window number with its sequence number and flag
`gap`; segments are one sequence, as only the byte caps tell them apart. `AppendBucket` is
`appendBucket` with everything `append` does: opening, cutting back a torn tail, reserving, writing and
`enforce`; `AppendFails` its failures at each of these points. `SendBatch` reads the pending batch and writes it;
`OfferAck` and `ApplyAck` are the reader goroutine and the worker, with the channel of capacity one between them; the write of
an acknowledgement may fail, before its rename or after it.
`HubCommit` is the whole transaction of `commitPowerBatch`: conflicts, gaps, rows, settlement of what is too old,
and the new acknowledgement. `HubPrune` is retention. The dashboard's delta is `ReadHighWater` before the page,
`ReadInitial` and `ReadDelta`. A clock `skew` of the agent makes the hub refuse buckets that lie too far ahead.

*PowerLedger* sees of this the rows ever inserted, the declared gaps and the acknowledged prefix of each stream, and what the agent goes by: its
journal while it runs, the directory it will open while it does not. `Settle` is a commit, `Learn` an acknowledgement that the journal accepts,
or one that only its directory holds when the process ends, `Rotate` a new stream, at an append or at a start.

*PowerWindow.* A window is a multiset of readings; `Sample` adds one, `Close` is `roll` with `emit`. `ValidBucket` is the hub's
`validatePowerBatch`: two programs that must agree on a format, each translated from its own code. It keeps the checks that relate one number to
another: sample counts, a mean against its peak, a total against its sensors. The times of a bucket, the sign and the maximum of its watts (each producer
bounds every single reading before it is added) and the form of a label, which the agent writes together with its statistics, are not in it.

*FleetPower.* `ReadRow` is one row of `readFleetPowerHistory`, `Take` and `CutOff` the cap that removes the incomplete
bin; `Fold` is `aggregateFleetPowerStream`. `Classify`, `KindFor` and `CombinedReading` follow the Go functions case
by case over every label the agents use.

*SelfUpdate.* `exe, new, prev, marker` are the files, `floor` and `durable` the floor file as read and as a power loss leaves
it. `pc` is the update worker, one step per file operation. On Windows the process exits and `helpers` move the
staged file. `Connect` and `Announce` are the hub's side. A failing chmod or rename gives an attempt up with the floor already raised. The floor is the only file the
agent syncs: a power loss may tear or lose the staged file, the backup and the marker, tear the binary, or undo its rename. `Recover` is the recovery unit the
hub's installer writes; it heeds a marker for ten minutes only, and as whatever is put in place may have run for longer, `MarkerAges` may happen whenever the agent is up.

*SystemUpdate.* `phase, rid, from` is the journal, `snap` the committed snapshot, `unit, run, pinned, db` the host: what
each backend is installed as, what runs, and which schema and writes the database holds. `pc` names the worker's
next step; one action is one effect of an adapter: one container pinned or unpinned, one unit stopped or started, one drop-in (in Compose, one override
file) replaced. The adapters share actions and keep their orders: natively a rollback puts the old units back and then the database, in Compose the
database and then the override. `Kill` ends the worker, `Reboot` the host; then services start at boot
(`BootService`) and `recover_boot` is `Gate`. A `legacy` build ignores the maintenance marker. `RunWorker` starts with
`Recover`, as `run_worker` does; otherwise it publishes, and `OpenJournal` and `RecordId` write the journal's first two records. From then on the status and
the phase that follow each other are one step, as both are of a transaction under way, and recovery only reads the phase.

*Alerts.* `PassRead`, `PassOpen`, `Judge` and `PassEnd` are the statements of `evaluateAlertsAt`, with reports, edits,
deletions, acknowledgements and clean-ups between them. `log` is a history of the observations.

*Accounts.* A request is `Begin...` followed by the statement that acts on what was read. *ApiPollers.* A request is one step per statement and one for the
poller it starts or stops, any of its writes may fail, and a goroutine that is cancelled finishes the poll it is in. The ghost `overlapped` remembers that an edit met another edit or a deletion.

*AiSessions.* Each config frame is a goroutine of its own (`sends`) that first reads the switch, then writes to the socket;
`ingest` holds handlers that passed the registration check. *Terminal.* `handler` is one `handleTerminalWS` per
socket; the browser's token is good for a minute, so several browsers may come, the last of which is `held` as the session's. `relay` is the pair of copying loops a
socket started when it found both sides there, and `mate` the browser it copies to; `copier` is the agent's pair. *Commands.* `wire` and `answer` are a target's socket and its waiter's
channel, `outcome` what really happened there. The agents in `deaf` are connected but read nothing, so that a write to them blocks (`"stuck"`) until their socket ends (`Fail`).

## Runs

| Run | Question | Result |
|---|---|---|
| `decisions` | Seven parts. Rollout policy of four machines, capacities 1 and 2, three stages; alerts; accounts; API pollers; power windows; fleet power; marker scan. | all nine properties hold |
| `rollout_faults` | One machine under unlimited crashes, pauses, resumes, deletions and revocations; and the evidence of two sockets against the log of their frames. | all seven hold |
| `rollout_races` | Two sockets of one machine and any two displacements, deletions, revocations, pauses or new binaries, so also a second generation, in the middle of reports and reservations. | holds |
| `rollout_live` | Is every live attempt decided, although the hub may crash for ever, and be paused or revoke a credential once? | holds under `LiveSpec` |
| `enroll_shared` | Two machines, one install command, re-enrollment and revocation at any point. | one token, one machine; no revoked machine stays registered; an agent promotes what the hub holds |
| `reenroll_live` | A machine re-enrolled, or revoked and enrolled afresh, over one socket at a time under every fault but database errors: is it stranded, does it get back in? | holds under `LiveSpec` |
| `power_history` | Two streams of up to four buckets under torn writes, crashes, a lost disk, lost and repeated frames, retention on both sides, wrong clocks. | holds, implements the ledger, and the backlog drains |
| `updates` | The agent's update and the host's update with a crash, reboot, failed write or power loss anywhere. | holds, and both converge, or wait for the operator the code leaves them to |
| `services` | AI sessions over two sockets and two toggles; one terminal session and two browsers; a command to three machines, two at a time, any of them deaf. | holds, and every request ends that no agent holds up and no relay still serves |
| `rollout_report_race` | Does an observed slot have evidence that can accrue? | violated, see findings |
| `last_admin_race` | Is there always an administrator? | violated, see findings |
| `update_request_lost` | Is an accepted update request taken up? | violated, see findings |

`TypeOK` of `AgentRollout`, `RolloutPolicy` and `Enrollment` is proved rather than run, for every instance;
`ExposureBounded` and `CanaryFirst` are checked on the policy and proved of `AgentRollout` through the refinement.

*Bounds of the rollout.* `MaxGen`, `MaxAttempts` and `MaxStage` cut counters that only grow; one more
value of each lets every transition of the counter happen once and be followed by
all others. `Faults` says which disturbances an instance has, `Free` which of them are
unlimited, `MaxFaults` how many of the rest may happen; the split keeps each run's
question small. Windows of 0 to 2 units distinguish before, at and after a deadline,
a dwell and a gap. Two builds are enough because the code only compares builds for
equality, two sockets because one can only be displaced by one other at a time.
The evidence log of `rollout_faults` holds four frames within two units of time, a report and three more: that is a dwell reached on one socket, on
a socket that displaced another, in a second generation, or missed because of a gap.
More machines, and capacity together with crashes, are covered by the proofs.

*Bounds of enrollment.* The handler of one abandoned socket next to the current one is what
`Conns` of two provides; `Secrets` of four (three in `enroll_shared`, which asks nothing of the files) is one more than are ever held at
once by a machine's files, the hub's row and a frame in flight, and a value
nobody holds may be drawn again. Tokens are the bound on installations. `reenroll_live` has
one socket, because with more the observations below appear.

*Bounds of the other modules.* They bound disturbances by budgets: a record that says how many crashes, faults, edits, ...
a behaviour may contain, and a set of such records, each of which combines the disturbances that
meet in one hazard (a crash with a failed write, a lost frame with retention), where the full product would only repeat
them side by side. In `power_history` four sequence numbers are a journal of two records that overflows twice, a batch of two and a page of one, and
a second stream is a disk that was lost or a journal that rotated. In `updates` five builds are one per
relation to the floor: older, the same number with other bytes, newer but unsigned, unnumbered, and one
that crash-loops; two requests are one and its successor. In `services` three targets compete for two semaphore slots, one of
them takes its agent down and any of them may not read; the second browser of a terminal is one that replaces another. An API-polled machine has two requests at once, which is what an overlap takes. A reading an alert's rule looks at is below or above its threshold, or missing. Tables of `FleetPower` hold every payload of one window and three windows of two machines at every time;
files of `ReleaseMarker` hold two markers, or parts of them, at every offset of a chunk of five.

`CHECK_DEADLOCK FALSE` is said where the system really rests: bounded logs and budgets that are used up, an agent
that waits for an operator, a request that was answered, a scan that came to its end.

*Fairness.* `LiveSpec` assumes that the scheduler's goroutine keeps running and time passes.
Weak fairness is enough for an announcement. The steps of a tick get strong
fairness: the hub may crash infinitely often, but a tick is a few statements at the
start of a pass and, unless the process dies in every one of them, gets through
again and again. Nothing is assumed of agents, sockets or operators.

`LiveSpec` of `Enrollment` assumes weak fairness of every handler goroutine and of every
agent process, which is the `for` loop of `connectLoop` with its finite backoff. `Reconnects`
speaks of what follows `calm`, the moment after which nothing fails any more and no operator acts;
that such a moment comes is not assumed.

`PowerHistory` assumes weak fairness of the agent's journal worker, of sending a batch (a loop over a
timer), of handing an acknowledgement on, of starting again after a crash, and of the hub's handler; crashes, faults and losses are finite by budget.
`SelfUpdate` assumes it of the update worker, of starting, of connecting and announcing (both are repeated), of a
helper that has given up or is done, and strong fairness of a helper's move, which retries every second while the process
may come and go. `SystemUpdate` assumes it of the worker's steps, of the path unit that starts the worker, of
the boot gate and of each service's start. `AiSessions` and `Commands` assume it of each goroutine, `Terminal` of the hub's goroutines and
timers together; nothing is assumed of users, and of an agent only that a connected one handles the AI-session frames it gets. A relay is assumed to end only once one of its sockets is closed, when a read
or a write on it fails: the inactivity timer is reset by what the agent prints as well as by what a user types (`terminal.go:474, 492`), so that a relay with traffic goes on, and
`RequestsEnd` says of a session that it leaves the table *or is served by a relay between two open sockets*. A write to a bulk target has no deadline (`main.go:714`); nothing is assumed of one that blocks, and
`RequestsEnd` excepts a request with a worker that stays in it.

### Findings

1. *An observed slot whose dwell cannot accrue* (`rollout_report_race`).
   `recordAgentRunningVersionOn` files evidence under the generation it reads first, and
   marks the slot observed under the generation it reads again afterwards. If
   the scheduler opens the generation in between, the slot is shown as validating while
   the connection has no evidence for it. The agent reports its version once per
   connection, so the attempt runs into its deadline and the platform halts unless
   the agent happens to reconnect.
2. *The last administrator* (`last_admin_race`). `handleUpdateUser` and `handleDeleteUser` use the statement that
   guards the last administrator only if they read the target as one. A target that is promoted
   between the read and the statement is demoted or deleted without the guard.
3. *An accepted request removed* (`update_request_lost`). `_finish` removes the request, publishes, and clears the journal.
   A worker killed in between leaves a journal with a terminal phase; `recover` finishes it once more and removes whatever
   request was accepted since, which nothing compares with the journal's id.

### Observations

What follows was met while modelling and contradicts what a comment or a reader would expect. The first group can be
reproduced by checking the named definition in an instance of the module; the second is outside the models.

- *A promotion between two lookups* (`FallbackIsValid`, two sockets, `Faults` of re-enrollment, installation and drop).
  The agent redials with its pending secret while the hub still holds its commit on the old
  socket. The new handler finds no such active secret, the old one promotes it, the new handler finds no such
  pending secret (`agentws.go:2085-2092`), and answers 401. The agent avoids the secret the hub holds until its process restarts.
- *A commit read late* (`NotStranded`, two sockets, a generic token). The agent redials before its commit is
  read, is issued another secret and overwrites its pending file; the commit then stores the first one and spends the token.
- *Re-enrolled twice* (`NotStranded`, two tokens). With the first confirmation lost, the pending file holds the
  only copy of the active secret. A second targeted token leads to the staging path, and the agent overwrites the file.
- *A halt without a failure*. `tick` reads the outstanding slots and fails an expired one in a later transaction. If the machine is
  deleted in between, `failSlotTx` updates no slot and halts the platform all the same. `RolloutPolicy` has the action `Halt` for it.
- *A machine that comes back* (`DeletedIsGone` of `ApiPollers`). A forced poll, or the poll a cancelled goroutine is in,
  stores its result after the deletion and creates the machine again.
- *Edits that overlap* (`PollsTheRow` of `ApiPollers` without its condition `~overlapped`). Each request writes the row and then starts its poller, with no lock over both. Of two overlapping edits the
  slower starts its poller last, maybe with the settings that were overwritten. An edit that overlaps a deletion may start a poller of a row that is gone; its settings live on in that goroutine, every
  later request answers 404 before it reaches `stopAPIPoller`, and only a restart of the hub ends it. `OnePoller` holds of it all the same: it is one, and the table knows it.
- *Two copiers* (`AgentNeverPanics` of `Terminal`). The agent's two copying goroutines check a channel and then close it
  (`agent/main_linux.go:316-351`), the pattern the comment at `hub/terminal.go:438-442` says must be avoided.
- *A socket too late* (`SocketsClosed` of `Terminal`). A side that passed the look-up is attached after the session was
  cleaned up, and nothing closes it until its peer does. Nor is a browser closed, or told of a refusal, that another one with the same token has replaced; if both found the agent there, two relays read from one socket.
- *A bulk request held up* (`BulkReturns` of `Commands` without its second disjunct). An agent that stays connected without reading blocks the write for as long, with its semaphore slot and the socket's lock.
- *Terminal audit*: a `start_terminal` that could not be written, and a hub restart, leave rows open.
- *AI sessions*: revocation that races a metrics frame, and a hub restart, leave a machine's row `online` until its next contact; the
  configuration events of the dashboard are not ordered.
- *Accounts*: a password change in flight may overwrite an administrator's forced reset.
- *Stranded* (`Stranded` of `SelfUpdate`). A binary in place that does not run is only rolled back within ten minutes of the marker, with a backup. A build that starts failing later, or one that a power loss tore
  together with the backup or the marker, none of which is synced, waits for the operator.
- *Self-update*: a failed or partial copy to `.prev` is only a warning, although the comment at `agent/updater.go:236-238` counts on
  it; a Windows helper may move a staged file that an overlapping download is rewriting (the ghost `overlap` excludes such behaviours).
- *Power history*: `append` may return an error of `enforce` after the record is durable, so "not durable" does not
  imply "never uploaded". `hub/fleet_power.go` around 253 says an unlabelled reading stays measured; `fleetPowerClassify` makes an unlabelled
  system or DRAM reading unknown.
- *Alerts*: an alert of a rule that is switched off stays open. A failing API poll refreshes `last_seen`, so `machine_offline` does not
  fire while the poller runs, unlike what `docs/alerts.md` suggests.

## Proofs

The theorems hold for every value of the constants that the named assumption of the module admits; each run
evaluates the assumptions of its modules. Those of the rollout (`RolloutAssumption`, `DwellAssumption`,
`PolicyAssumption`) admit any finite set of machines, any sets of sockets and
builds, any capacities with canary at most batch, any windows and bounds. A theorem is about the specification its run
checks, or about one with more behaviours (no fairness). What a run finds true of an instance, its theorem shows of all.

*Policy.* Exposure is not inductive: a failed slot is not counted by the capacity check,
so the invariant says that failed slots exist only while the platform is halted
(`FailureHalts`) and counts live and failed slots together (`CapacityKept`). For the canary,
the stage number must be earned: every stage below the present one validated a slot
(`StagesProven`), and a healthy slot belongs to a validated stage (`HealthyCounts`) that is not
ahead (`SlotNotAhead`).

*Rollout.* `IInv` adds to types what the scheduler may rely on between two of its steps:
during a tick, the slots it has not decided are live or deleted (`TickOK`); while it
carries a reservation, the slot is still there as long as the connection is still
registered, because a deletion takes the registry entry too and a new socket is
another pointer, and a reservation that may be released belongs to a machine that was sent nothing
(`AnnounceOK`); what it carries is the candidate (`CarriedOK`); and registered or slotted
machines exist (`KnownOK`). `SentIsTracked` is itself part of it. There is one lemma per
conjunct with one step per action.

Four properties of steps rest on it. `PromotionIsEarned` and `ObservedRuns` need to know what the evidence and a report
in progress say about the process behind a socket (`ConnOK`): evidence that accrues is for the build the process runs, and the
build a report carries is the one it read from that process. `DecidedStaysDecided` and `DeadlineIsFixed` follow case by case from the
statements that write a slot.

*Refinement.* A slot's phase is idle, live, healthy or failed by its state, its stage that of its
row. Reserving is `Admit` or `NewGeneration`, passing the send check is `Send`, releasing is
`Release`, promoting is `Validate`, expiring is `Fail`, or `Halt` when the slot was deleted;
resume is `Retry`, deletion `Remove`; everything else stutters. `Exposure` and `Canary` then follow
from the policy's own invariant, instantiated with the mapping.

*Evidence.* `EvidenceIsTrue` relates each connection's record to the log of its frames (`Fits`): the last report gives the
generation, the build and whether a dwell may accrue, the last metrics frame the silence, and the dwell is the time since the first frame of the last run
without a silence longer than the gap, among the frames in the window of that report (`Spans`). A frame that is appended extends that run,
begins another or ends the window, which is what `observeCandidateReport` and `noteMetrics` write; as both the record and the property stop at the
dwell and one past the gap (`Capped`), nothing more than that is claimed of long silences. `HealthAssumption` says that dwell and gap are numbers.

*Enrollment.* `EnrollmentAssumption` only keeps the null values apart and the subsets subsets. Types need
`GoodHandler`: the locals of a handler fit its phase, so that a confirmation always has a
secret to name. `RevocationCutsOff` is not inductive by itself, because between a valid secret and its registration
there are several steps; the invariant adds that a handler inside the gate that has an
identity found one with a credential (`AuthHasCredential`), which survives because only
`RemoveCredential` takes one away and it waits for the gate. `OnlyStagedReplaces` is an action property: one
step per action that writes `cred`, from what the compare-and-swap returns (`AfterCASActive`).
`OneTokenOneMachine` counts: every credential beyond the initial ones was paid for by one spent token, because
`CommitFresh` and the compare-and-swap spend it in the transaction that adds the credential; that the set of enrolled machines is
finite is part of the invariant.

*Updates.* `UpdatesAssumption` says that releases are numbers, that the values standing for no file, a torn file and a spoiled
floor are no binaries, and that the null value is no phase.
The theorems on the host follow the worker's place and the journal's phase (`PhaseOfStep`).
`NoWriteLost` is not inductive: a rollback restores a snapshot, so every snapshot that may
still be restored must hold all acknowledged writes (`SnapshotCurrent`), so nobody may write between the backup and the decision
(`NoWriters`): the proxy is down and only a gate that has not opened may start it, or it is up and leads to the candidate, which
refuses writes because the marker is set (`HubDown`, `Refusing`), also after a reboot, because Compose's containers were pinned (`Pinned`).
`OneBuildIsServed` adds which build is installed: one as a whole outside the mutating region (`Settled`), and inside
it what the worker's place says (`Halfway`).
Those on the agent follow the update worker: a staged binary was verified and is newer than what runs, unless it is the one a
rollback kept; and the floor on disk only rises while nobody edits it, before the binary it covers is moved. The claims about the
floor stop where an operator touched it, and on Windows where two helpers overlapped, as the model's ghosts record. What a power loss tears is no binary, so that nothing has to cover it.
`UpdatesAreSafe` puts both parts together.

*Services.* `NothingIsKept` needs that a switch nobody has loaded has let nothing in, and that a deleted machine has neither
socket nor ingest, which is what the barrier gives (`ServicesAssumption`: 0, the empty registry entry, is no socket).
A refusal of a terminal reaches the browser because it is written before the session can end: the refusal found a browser or none, and whoever takes that place afterwards reads the
reason itself (`TermInv`). A bulk answer is true because what
is on the wire or in the waiter's channel is what happened there, and nothing happens before the write; one that blocks leaves an incomplete frame if it fails (`BulkInv`).

*Decisions.* `AdminsKept` needs to know where the setup token is: in memory, or with one request that
inserts (`TokenOnce`), and unspent as long as it is (`TokenUnspent`); that a guarded statement leaves an administrator is a
fact on cardinalities. One half of `OnePoller` is inductive with types: whatever starts or stops a poller cancels the one the entry names, and by the
invariant no other was going on. For the other half, what it polls, the invariant says that an edit is alone as long as none has overlapped, with its settings in the row once written (`EditsAlone`), that a deletion has
stopped the poller before it takes the row (`DeletesStopped`), and that between requests the poller agrees with the row (`LooseAgree`). An alert is opened once because a pass judges each rule once and a new incident gets a new number
(`OneInv`); its wait is justified because a wait the last pass left is held by the log up to the last observation, and one this pass has
judged up to the present one (`HeldInv`); it is ended by evidence because an unresolved incident is contradicted only by something that was
noted (`EvidenceInv`). The scan of a file carries the last symbols of a chunk, one fewer than a marker can have, so that each round
sees exactly the markers that end in its chunk (`MarkerInv`), for any chunk size, symbols and prefix: `MarkerAssumption` only types them and
keeps the verdicts apart, and `DecisionsAssumption` types the constants of time and says that `None` is no row and no pass, 0 no goroutine and no row no settings.

*Power windows.* An accumulator is what the hub's validation accepts (`Accs`). `WindowInv` says this of
every sensor, of the total and of each domain, and links them to what was seen: the polls in an unmixed total are of the one set of sensors it names,
all placed in the window and sampled at least as often (`TotalOK`), and the samples of an unmixed domain have one label (`DomainOK`). The total is added to
by a sum over the sensors of a poll, a recursive function over an enumeration of them: that it exists and is an integer is shown by a least
counterexample (`SumsExist`, `SumIsInt`), since the induction theorems cannot be instantiated. `WindowAssumption` says that sensors are finitely many, readings
integers, and that no label is the value that stands for none.

*Fleet reads.* While the cursor runs, what it has yielded is folded, except the rows of the newest bin it may still be inside, which are pending, and
nothing it has yet to yield is in a newer bin (`ReadOK`, from rows coming newest first). A cut therefore withholds or completes exactly one bin, and the number
of rows read tells whether the chart was cut (`CutOffStep`, `EndOfRowsStep`). A reading that counts as measured has one of a few sources in each domain
(`MeasuredSources`) and is no frozen counter. What was chosen for a machine is newer than every row stored when the request began, whatever arrives
(`LatestOK`). `ChartAssumption`: tables are finite sets of windows the hub let in, or of payloads that no longer decode; no key of the table is needed.

*Power history.* `PowerAssumption` types the constants; a stream has room for a number, a page for a row. The invariant `PowerInv` has three parts,
over the buckets *known* under a stream, those that some part of the system holds: the journal, its directory, the snapshot, the batch on
the wire, or the rows that were ever inserted.
(1) A number is given once. What is known lies below the journal's next number while the agent runs, and at or below the reservation on disk
always (`NumbersInv`), so that a journal opened after any crash resumes above it; two known buckets with one number are one bucket, and of two
with consecutive numbers the later follows the earlier or is flagged (`BucketsInv`). For that the queue is a chain that ends at the present window
(`ChainInv`), and a line whose write failed, which recovery may bring back, would follow everything known (`TailInv`).
(2) What is stored or declared is what is acknowledged (`SettledInv`), and nobody believes in more (`AckInv`). It makes a commit simple:
of a batch the hub has exactly what is at or below the acknowledged prefix (`NewBuckets`), so it declares at most one run (`OneRunLost`), which comes after
every declared one and joins the row it touches (`GapDeclared`), and the prefix grows over both (`AckedFacts`).
(3) The cursor of a dashboard lies below its high-water, and a page of the oldest ids is full up to its last or has them all (`OldestPage`).
Steps of the journal are proved by composing what each stage of an append keeps (`Ready`, `Credited`). `PowerInv` was checked on the
instance of the run before it was proved.

*Ledger.* `LedgerRefined` maps every step to one of `PowerLedger` or to none. A commit stores exactly the numbers from where the batch is kept (`KeptFrom`)
to the new acknowledgement and loses exactly those before it, which is (2) read in both directions (`CommitSteps`); a prune and a failed
append change nothing of it. Two facts more are needed (`LedgerInv`): the directory goes by no less than memory while the agent runs, so that a crash
forgets nothing (`Carries`, over the stages of an append as above), and a stream not drawn yet has nothing settled, so that `Rotate` begins with nothing.
It may go by more: a write of the acknowledgement that failed after its rename leaves it ahead, the next reservation sets it back, and a crash in between is
a `Learn`, of what the hub had settled (`AckInv`).
The ledger keeps its own books whoever implements it (`LedgerIsFinal`): every number up to the acknowledged one is either stored or lost, no other is either, the
agent goes by no more, and no later step changes an outcome. `HistoryIsFinal` draws the conclusion for power history.

*Only model-checked.* Liveness under fairness: `Reconnects`, `AttemptResolves`, `BacklogDrains`, `Converges`, `ServiceReturns`,
`GateFollowsSwitch`, `RequestsEnd`. `StaysEnrolled` and `PromotesWhatHubHolds`, which are false in general (observations) and hold of the instances that
leave the observed races out. Every other safety property of a passing run is a theorem, or part of one. What a fold or a filter of the library computes for every
input would be induction over data, for which the provers have no theorem they can instantiate; where a property depends on one, the model has a set or a
recursive function instead, and the proof takes a least counterexample (`NatLeast` in `DecisionsProofs`, `MaxExists` in `RolloutEvidenceProofs`).

## What is left

Journal segments with their byte caps and the `degraded` flag; several platforms and several hubs' releases.

## Not modelled

The dashboard, hardware and power collection, schema migrations, script and
installer generation, inventory, preferences and branding are I/O, presentation, generated text or
reads and writes of one row. Cryptography (signatures, password hashes, tokens, session cookies) is taken as given. SQLite's transactions are
taken as atomic, with the immediate lock the code asks for. Of modelled components: the early return of Compose's `finalize` before anything was pinned, rate limits, audit rows, webhooks, byte caps, disk space,
image pulls, service control of Windows, and the ageing of an AI-session snapshot after 90 seconds. `AiSessions` assumes that an agent's reader has finished its
frame before it dials again.
