----------------------------- MODULE AgentRollout -----------------------------
(***************************************************************************)
(* The staged rollout of agent builds (hub/agent_rollout.go with the       *)
(* scheduler of hub/server.go, the announcer of hub/agent_versions.go, the *)
(* connection registry of hub/agentws.go and the operator's handlers).     *)
(*                                                                         *)
(* One platform: every statement and every map of the code is keyed by the *)
(* platform, and the scheduler handles the platforms one after another.    *)
(* Slots of past generations are never read again, so a slot exists here   *)
(* only for the current generation.                                        *)
(*                                                                         *)
(* Times are relative to the hub's clock: a slot keeps left = deadline -   *)
(* now, saturating at -1 (expired).  An action is one transaction, one     *)
(* critical section or one uninterruptible read of the code; steps of the  *)
(* scheduler goroutine, of connection handlers and of HTTP handlers        *)
(* interleave between them, and the hub may die between any two.           *)
(***************************************************************************)
EXTENDS DwellEvidence, FiniteSets

CONSTANTS
    Machines, NoMachine,
    Conns, NoConn,       \* agent sockets (ConnectedAgent pointers)
    CanaryCapacity,      \* rolloutCanaryCapacity
    BatchCapacity,       \* rolloutBatchCapacity
    AttemptTimeout,      \* rolloutAttemptTimeout, in clock units
    Grace,               \* rolloutRestartGrace, in clock units
    MaxResends,          \* rolloutMaxResends
    Faults, Free,        \* the kinds of disturbance of an instance, and which
                         \* of them may happen any number of times
    MaxFaults,           \* bound: disturbances of the other kinds
    MaxGen,              \* bound: builds the hub may start serving
    MaxAttempts,         \* bound: attempts an operator may open per slot
    MaxStage             \* bound: stages the platform may reach

Kinds == {"crash", "delete", "revoke", "displace", "serve", "pause"}

ASSUME RolloutAssumption ==
    /\ IsFiniteSet(Machines)
    /\ Free \subseteq Kinds /\ Faults \subseteq Kinds /\ MaxFaults \in Nat
    /\ NoMachine \notin Machines /\ NoConn \notin Conns
    /\ CanaryCapacity \in Nat \ {0} /\ BatchCapacity \in Nat
    /\ CanaryCapacity <= BatchCapacity
    /\ AttemptTimeout \in Nat /\ Grace \in Nat /\ MaxResends \in Nat
    /\ MaxGen \in Nat /\ MaxAttempts \in Nat /\ MaxStage \in Nat

VARIABLES
    \* durable: agent_rollout_platform (gen = 0: no row yet)
    gen, cand, stage, status,
    \* durable: agent_rollout_slot of this generation
    state, row,
    \* durable: hub_settings, machines
    paused, known,
    \* memory: served binary, registry, last reported version by machine
    served, registry, reported,
    \* a socket's machine, the build its process runs, its evidence, and the
    \* progress of a version report in its handler
    owner, proc, ev, rep,
    \* the scheduler goroutine: program counter and locals
    pc, todo, late, snap, cur, conn, sha, rsv,
    \* history: machines sent this generation's build, stages that validated
    \* a slot
    exposed, validated,
    \* the disturbances so far, of the kinds that are bounded
    faults

platformVars == <<gen, cand, stage, status>>
slotVars     == <<state, row>>
otherVars    == <<paused, known, faults>>
connVars     == <<registry, owner, proc, ev, rep>>
schedVars    == <<pc, todo, late, snap, cur, conn, sha, rsv>>
historyVars  == <<exposed, validated>>
vars == <<platformVars, slotVars, otherVars, served, reported, connVars,
          schedVars, historyVars>>

----------------------------------------------------------------------------
(* Slots *)

Live  == {"reserved", "offered", "observed"}     \* outstanding, unvalidated
States == Live \cup {"none", "healthy", "failed", "withheld"}

InState(S) == {m \in Machines : state[m] \in S}
Outstanding == InState(Live)

Capacity(s) == IF s <= 0 THEN CanaryCapacity ELSE BatchCapacity

Row(s, a, l) == [stage |-> s, attempt |-> a, resends |-> 0, grace |-> FALSE, left |-> l]

\* No row, the row reserve inserts at stage s, and the one withhold inserts.
NoRow == Row(0, 0, -1)
ReservedRow(s) == Row(s, 1, AttemptTimeout)
WithheldRow(s) == Row(s, 0, 0)

SetSlot(m, st, r) == /\ state' = [state EXCEPT ![m] = st]
                     /\ row' = [row EXCEPT ![m] = r]

SetState(m, st) == state' = [state EXCEPT ![m] = st] /\ UNCHANGED row

\* A disturbance of kind k happens, within the bound.
Disturb(k) == /\ k \in Faults
              /\ k \in Free \/ faults < MaxFaults
              /\ faults' = IF k \in Free THEN faults ELSE faults + 1

NoReservation == [gen |-> 0, attempt |-> 0, resend |-> FALSE]
NoReport == [at |-> "idle", expected |-> NoSHA]

Init ==
    /\ gen = 0 /\ cand = NoSHA /\ stage = 0 /\ status = "active"
    /\ state = [m \in Machines |-> "none"] /\ row = [m \in Machines |-> NoRow]
    /\ paused = FALSE /\ known = {} /\ faults = 0
    /\ served \in SHAs
    /\ registry = [m \in Machines |-> NoConn]
    /\ reported = [m \in Machines |-> NoSHA]
    /\ owner = [c \in Conns |-> NoMachine] /\ proc = [c \in Conns |-> NoSHA]
    /\ ev = [c \in Conns |-> NoEvidence] /\ rep = [c \in Conns |-> NoReport]
    /\ pc = "idle" /\ todo = {} /\ late = {}
    /\ snap = [m \in Machines |-> NoConn]
    /\ cur = NoMachine /\ conn = NoConn /\ sha = NoSHA /\ rsv = NoReservation
    /\ exposed = {} /\ validated = {}

----------------------------------------------------------------------------
(* The scheduler: tick.  Only this goroutine opens generations, reserves,   *)
(* promotes, fails and advances, so gen and stage cannot move under it.     *)

\* platformState and the query of outstanding slots; now is read once for the
\* whole loop, so the expired slots are decided here.
TickRead ==
    /\ pc = "idle"
    /\ IF gen > 0 /\ status = "active"
       THEN /\ pc' = "check"
            /\ todo' = Outstanding
            /\ late' = {m \in Outstanding : row[m].left < 0}
       ELSE pc' = "snapshot" /\ UNCHANGED <<todo, late>>
    /\ UNCHANGED <<platformVars, slotVars, otherVars, served, reported,
                   connVars, snap, cur, conn, sha, rsv, historyVars>>

\* dwellSatisfied: the record of the connection that owns the machine now.
Proven(m) == /\ registry[m] # NoConn
             /\ DwellSatisfied(ev[registry[m]], gen, cand)

TickCheck(m) ==
    /\ pc = "check" /\ m \in todo
    /\ todo' = todo \ {m}
    /\ \/ Proven(m) /\ pc' = "promote" /\ cur' = m
       \/ ~Proven(m) /\ m \in late /\ pc' = "expire" /\ cur' = m
       \/ ~Proven(m) /\ m \notin late /\ UNCHANGED <<pc, cur>>
    /\ UNCHANGED <<platformVars, slotVars, otherVars, served, reported,
                   connVars, late, snap, conn, sha, rsv, historyVars>>

\* The UPDATE names the row only by its key; it does nothing when a machine
\* deletion took the row since the query.
TickPromote ==
    /\ pc = "promote" /\ pc' = "check" /\ cur' = NoMachine
    /\ IF state[cur] = "none"
       THEN UNCHANGED <<state, validated>>
       ELSE /\ state' = [state EXCEPT ![cur] = "healthy"]
            /\ validated' = validated \cup {row[cur].stage}
    /\ UNCHANGED <<platformVars, row, otherVars, served, reported, connVars,
                   todo, late, snap, conn, sha, rsv, exposed>>

\* failSlotTx: the slot fails, if it is still there, and the platform halts.
FailSlot(m) ==
    /\ state' = [state EXCEPT ![m] = IF @ = "none" THEN @ ELSE "failed"]
    /\ status' = "halted"
    /\ UNCHANGED <<gen, cand, stage, row>>

TickExpire ==
    /\ pc = "expire" /\ pc' = "snapshot" /\ cur' = NoMachine
    /\ todo' = {} /\ late' = {}
    /\ FailSlot(cur)
    /\ UNCHANGED <<otherVars, served, reported, connVars, snap, conn, sha,
                   rsv, historyVars>>

\* Mutant: a stage that proved nothing is passed.
StageDone_Empty == /\ status = "active"
                   /\ \A m \in Outstanding : row[m].stage # stage

\* One UPDATE: the stage has nothing in flight and has validated a slot.
StageDone == /\ status = "active"
             /\ \A m \in Outstanding : row[m].stage # stage
             /\ \E m \in InState({"healthy"}) : row[m].stage = stage

TickAdvance ==
    /\ pc = "check" /\ todo = {}
    /\ pc' = "snapshot" /\ late' = {}
    /\ stage' = IF StageDone /\ stage < MaxStage THEN stage + 1 ELSE stage
    /\ UNCHANGED <<gen, cand, status, slotVars, otherVars, served, reported,
                   connVars, todo, snap, cur, conn, sha, rsv, historyVars>>

----------------------------------------------------------------------------
(* The scheduler: one announcement per connection of the registry snapshot *)

PassSnapshot ==
    /\ pc = "snapshot" /\ pc' = "pass"
    /\ snap' = registry
    /\ UNCHANGED <<platformVars, slotVars, otherVars, served, reported,
                   connVars, todo, late, cur, conn, sha, rsv, historyVars>>

PassEnd ==
    /\ pc = "pass" /\ \A m \in Machines : snap[m] = NoConn
    /\ pc' = "idle"
    /\ UNCHANGED <<platformVars, slotVars, otherVars, served, reported,
                   connVars, todo, late, snap, cur, conn, sha, rsv, historyVars>>

\* The scheduler turns to the next machine of the snapshot.
NextMachine == /\ pc' = "pass" /\ cur' = NoMachine /\ conn' = NoConn
               /\ sha' = NoSHA /\ rsv' = NoReservation
               /\ UNCHANGED <<todo, late, snap>>

\* announceVersionToAgent up to the decision: returns when the operator paused,
\* the socket's write lock is busy, nothing is served, or the machine already
\* runs the served build.  announceDecision refuses a machine that never
\* reported; otherwise its answer depends on signatures, keys, transport and
\* release floors that can change at any time.
Announce(m) ==
    /\ pc = "pass" /\ snap[m] # NoConn
    /\ snap' = [snap EXCEPT ![m] = NoConn]
    /\ \/ UNCHANGED <<pc, cur, conn, sha>>
       \/ /\ ~paused /\ served # NoSHA /\ reported[m] # served
          /\ pc' \in IF reported[m] = NoSHA THEN {"withhold"}
                                            ELSE {"withhold", "reserve"}
          /\ cur' = m /\ conn' = snap[m] /\ sha' = served
    /\ UNCHANGED <<platformVars, slotVars, otherVars, served, reported,
                   connVars, todo, late, rsv, historyVars>>

\* loadPlatform finds no row, or another candidate: a new generation starts,
\* in which only machine m has a slot.
NewCandidate == gen = 0 \/ cand # sha

OpenGeneration(m, st, r) ==
    /\ gen' = gen + 1 /\ cand' = sha /\ stage' = 0 /\ status' = "active"
    /\ state' = [n \in Machines |-> IF n = m THEN st ELSE "none"]
    /\ row' = [n \in Machines |-> IF n = m THEN r ELSE NoRow]
    /\ exposed' = {} /\ validated' = {}

\* Mutant: the barrier does not check.
Registered_Any(m, c) == TRUE

\* ingestFrame's registration check, made inside the barrier.
Registered(m, c) == registry[m] = c

\* The barrier refuses the connection: it lost the machine, or the machine is
\* gone.
BarrierRefuses ==
    /\ pc \in {"withhold", "reserve"} /\ ~Registered(cur, conn)
    /\ NextMachine
    /\ UNCHANGED <<platformVars, slotVars, otherVars, served, reported,
                   connVars, historyVars>>

\* Mutant: the upsert loses its WHERE.
Refusable_Any(m) == TRUE

\* withhold's upsert changes no slot but a withheld one (of which it rewrites the
\* reason only).
Refusable(m) == state[m] = "none"

Withhold ==
    /\ pc = "withhold" /\ Registered(cur, conn)
    /\ \/ NewCandidate /\ OpenGeneration(cur, "withheld", WithheldRow(0))
       \/ /\ ~NewCandidate
          /\ IF Refusable(cur) THEN SetSlot(cur, "withheld", WithheldRow(stage))
                               ELSE UNCHANGED slotVars
          /\ UNCHANGED <<platformVars, exposed, validated>>
    /\ NextMachine
    /\ UNCHANGED <<otherVars, served, reported, connVars>>

\* A reservation was taken: carry it to the send boundary.
Carry(g, attempt, resend) ==
    /\ pc' = "send"
    /\ rsv' = [gen |-> g, attempt |-> attempt, resend |-> resend]
    /\ UNCHANGED <<todo, late, snap, cur, conn, sha>>

\* reserve, for a build the platform row does not name yet.
ReserveNewGeneration ==
    /\ pc = "reserve" /\ Registered(cur, conn) /\ NewCandidate
    /\ OpenGeneration(cur, "reserved", ReservedRow(0))
    /\ Carry(gen + 1, 1, FALSE)
    /\ UNCHANGED <<otherVars, served, reported, connVars>>

\* reserve goes on to the machine's slot in the current generation.
Reserving == /\ pc = "reserve" /\ Registered(cur, conn)
             /\ ~NewCandidate /\ status = "active"

CapacityLeft == Cardinality(Outstanding) < Capacity(stage)

\* reserve commits without a reservation: halted, already decided, or full.
\* A withheld row is deleted before the capacity is counted.
ReserveStop ==
    /\ pc = "reserve" /\ Registered(cur, conn) /\ ~NewCandidate
    /\ \/ /\ \/ status = "halted"
             \/ state[cur] \in {"healthy", "failed", "offered", "observed"}
          /\ UNCHANGED slotVars
       \/ /\ Reserving /\ state[cur] \in {"none", "withheld"} /\ ~CapacityLeft
          /\ SetSlot(cur, "none", NoRow)
    /\ NextMachine
    /\ UNCHANGED <<platformVars, otherVars, served, reported, connVars,
                   historyVars>>

ReserveSlot ==
    /\ Reserving /\ state[cur] \in {"none", "withheld"} /\ CapacityLeft
    /\ SetSlot(cur, "reserved", ReservedRow(stage))
    /\ Carry(gen, 1, FALSE)
    /\ UNCHANGED <<platformVars, otherVars, served, reported, connVars,
                   historyVars>>

\* A slot still reserved: the write of its attempt may or may not have landed.
\* Its window is over or its resend budget is spent: it fails.
ReserveFails ==
    /\ Reserving /\ state[cur] = "reserved"
    /\ row[cur].left < 0 \/ row[cur].resends >= MaxResends
    /\ FailSlot(cur)
    /\ NextMachine
    /\ UNCHANGED <<otherVars, served, reported, connVars, historyVars>>

\* Otherwise it is resent under the same attempt, deadline and grace.
ReserveResend ==
    /\ Reserving /\ state[cur] = "reserved"
    /\ row[cur].left >= 0 /\ row[cur].resends < MaxResends
    /\ row' = [row EXCEPT ![cur].resends = @ + 1]
    /\ Carry(gen, row[cur].attempt, TRUE)
    /\ UNCHANGED <<platformVars, state, otherVars, served, reported,
                   connVars, historyVars>>

\* The recheck at the send boundary, under the pause lock's read side, which
\* is then held until the write returns.
MaySend == /\ ~paused
           /\ served = sha
           /\ Registered(cur, conn)
           /\ gen = rsv.gen /\ status = "active"

SendCheck ==
    /\ pc = "send"
    /\ \/ /\ MaySend /\ pc' = "write"
          /\ exposed' = exposed \cup {cur}
          /\ UNCHANGED <<todo, late, snap, cur, conn, sha, rsv>>
       \/ /\ ~MaySend /\ ~rsv.resend /\ pc' = "release"
          /\ UNCHANGED <<todo, late, snap, cur, conn, sha, rsv, exposed>>
       \/ /\ ~MaySend /\ rsv.resend /\ NextMachine
          /\ UNCHANGED exposed
    /\ UNCHANGED <<platformVars, slotVars, otherVars, served, reported,
                   connVars, validated>>

\* The row this reservation created or recovered, as long as it is reserved.
ReservationRow == /\ gen = rsv.gen
                  /\ state[cur] = "reserved" /\ row[cur].attempt = rsv.attempt

ReleaseBeforeSend ==
    /\ pc = "release"
    /\ IF ReservationRow THEN SetSlot(cur, "none", NoRow) ELSE UNCHANGED slotVars
    /\ NextMachine
    /\ UNCHANGED <<platformVars, otherVars, served, reported, connVars,
                   historyVars>>

\* WriteMessage returns: without error, or with one although the frame may
\* have been delivered.
Write ==
    /\ pc = "write"
    /\ \/ pc' = "mark" /\ UNCHANGED <<todo, late, snap, cur, conn, sha, rsv>>
       \/ NextMachine
    /\ UNCHANGED <<platformVars, slotVars, otherVars, served, reported,
                   connVars, historyVars>>

MarkOffered ==
    /\ pc = "mark"
    /\ IF ReservationRow THEN SetState(cur, "offered") ELSE UNCHANGED slotVars
    /\ NextMachine
    /\ UNCHANGED <<platformVars, otherVars, served, reported, connVars,
                   historyVars>>

Tick == TickRead \/ (\E m \in Machines : TickCheck(m)) \/ TickPromote
        \/ TickExpire \/ TickAdvance
Pass == PassSnapshot \/ PassEnd \/ (\E m \in Machines : Announce(m))
        \/ BarrierRefuses \/ Withhold \/ ReserveNewGeneration \/ ReserveStop
        \/ ReserveSlot \/ ReserveFails \/ ReserveResend \/ SendCheck
        \/ ReleaseBeforeSend \/ Write \/ MarkOffered
Scheduler == Tick \/ Pass

----------------------------------------------------------------------------
(* Connections *)

\* A new socket is a new pointer: not one the scheduler still holds.
Unreferenced(c) == c # conn /\ \A m \in Machines : snap[m] # c

\* An authenticated socket c of machine m, whose process runs build s, enters
\* the registry and displaces the one there; a machine the hub does not know
\* is enrolled.
Connect(m, c, s) ==
    /\ owner[c] = NoMachine /\ Unreferenced(c)
    /\ IF registry[m] = NoConn THEN UNCHANGED faults ELSE Disturb("displace")
    /\ owner' = [owner EXCEPT ![c] = m] /\ proc' = [proc EXCEPT ![c] = s]
    /\ registry' = [registry EXCEPT ![m] = c]
    /\ known' = known \cup {m}
    /\ UNCHANGED <<platformVars, slotVars, paused, served, reported, ev, rep,
                   schedVars, historyVars>>

\* A handler exits: it drops its own evidence, and the registry entry if that
\* is still its own.
Disconnect(c) ==
    /\ owner[c] # NoMachine /\ rep[c].at = "idle"
    /\ registry' = [registry EXCEPT ![owner[c]] = IF @ = c THEN NoConn ELSE @]
    /\ owner' = [owner EXCEPT ![c] = NoMachine]
    /\ proc' = [proc EXCEPT ![c] = NoSHA]
    /\ ev' = [ev EXCEPT ![c] = NoEvidence]
    /\ UNCHANGED <<platformVars, slotVars, otherVars, served, reported, rep,
                   schedVars, historyVars>>

\* Revocation unregisters a machine's socket from outside its handler, which
\* may be in the middle of a frame.
Revoke(m) ==
    /\ registry[m] # NoConn /\ Disturb("revoke")
    /\ registry' = [registry EXCEPT ![m] = NoConn]
    /\ ev' = [ev EXCEPT ![registry[m]] = NoEvidence]
    /\ UNCHANGED <<platformVars, slotVars, paused, known, served, reported,
                   owner, proc, rep, schedVars, historyVars>>

\* A handler may take a frame of its socket into the ingestion barrier.
MayIngest(c) == /\ owner[c] # NoMachine /\ rep[c].at = "idle"
                /\ Registered(owner[c], c)

\* observeTelemetry for one metrics frame.
Metrics(c) ==
    /\ MayIngest(c)
    /\ ev' = [ev EXCEPT ![c] = NoteMetrics(@)]
    /\ UNCHANGED <<platformVars, slotVars, otherVars, served, reported,
                   registry, owner, proc, rep, schedVars, historyVars>>

\* recordAgentRunningVersionOn, in the steps between which the scheduler, the
\* operator and a new binary can act: read the expected build; file the
\* evidence under the generation read then, and record the version; reread the
\* platform and mark the slot observed.  (A generation that opens between the
\* read of a platform row and the write that uses it makes that write moot, so
\* the two are one step.)
ReportStep(c, from, r) ==
    /\ rep[c].at = from
    /\ rep' = [rep EXCEPT ![c] = r]
    /\ UNCHANGED <<platformVars, otherVars, served, registry, owner, proc,
                   schedVars, historyVars>>

ReportBegin(c) ==
    /\ MayIngest(c)
    /\ ReportStep(c, "idle", [at |-> "file", expected |-> served])
    /\ UNCHANGED <<slotVars, reported, ev>>

ReportFile(c) ==
    /\ ReportStep(c, "file", IF proc[c] = rep[c].expected
                             THEN [rep[c] EXCEPT !.at = "observe"]
                             ELSE NoReport)
    /\ IF rep[c].expected # NoSHA /\ gen > 0
       THEN ev' = [ev EXCEPT ![c] =
                     ObserveCandidateReport(@, gen, proc[c], rep[c].expected)]
       ELSE UNCHANGED ev
    /\ reported' = [reported EXCEPT ![owner[c]] = proc[c]]
    /\ UNCHANGED slotVars

\* Mutants: the report is not held against the reread platform row; a decided
\* slot is reopened.
StillCandidate_Any(c) == gen > 0
Awaiting_AnySlot(m) == state[m] # "none"

\* The platform's candidate is the build this report matched, and the slot is
\* neither observed yet nor decided.
StillCandidate(c) == gen > 0 /\ cand = rep[c].expected
Awaiting(m) == state[m] \in {"reserved", "offered"}

\* observeRunningCandidate.
ReportObserve(c) ==
    /\ ReportStep(c, "observe", NoReport)
    /\ IF StillCandidate(c) /\ Awaiting(owner[c])
       THEN SetState(owner[c], "observed")
       ELSE UNCHANGED slotVars
    /\ UNCHANGED <<reported, ev>>

Report(c) == ReportBegin(c) \/ ReportFile(c) \/ ReportObserve(c)

----------------------------------------------------------------------------
(* Operator, environment *)

\* Mutant: the pause does not wait for a write in progress.
PauseLockFree_Any == TRUE

\* The scheduler holds the pause lock's read side from SendCheck to Write.
PauseLockFree == pc # "write"

Pause == /\ PauseLockFree /\ Disturb("pause")
         /\ paused' = TRUE
         /\ UNCHANGED <<platformVars, slotVars, known, served, reported,
                        connVars, schedVars, historyVars>>

\* resumeRolloutAtomically: clears the pause, opens a new attempt for every
\* failed slot, clears the halt.
Resume ==
    /\ PauseLockFree
    /\ \A m \in InState({"failed"}) : row[m].attempt < MaxAttempts
    /\ paused' = FALSE
    /\ status' = "active"
    /\ state' = [m \in Machines |-> IF state[m] = "failed" THEN "reserved" ELSE state[m]]
    /\ row' = [m \in Machines |->
                 IF state[m] = "failed"
                 THEN [row[m] EXCEPT !.attempt = @ + 1, !.resends = 0,
                                     !.grace = FALSE, !.left = AttemptTimeout]
                 ELSE row[m]]
    /\ UNCHANGED <<gen, cand, stage, known, faults, served, reported, connVars,
                   schedVars, historyVars>>

\* handleDeleteMachine.  The write side of the ingestion barrier waits for
\* every frame in progress.  If its transaction fails, the socket and the
\* version are gone and the durable state is untouched.
DeleteMachine(m) ==
    /\ m \in known /\ Disturb("delete")
    /\ \A c \in Conns : rep[c].at = "idle"
    /\ registry' = [registry EXCEPT ![m] = NoConn]
    /\ reported' = [reported EXCEPT ![m] = NoSHA]
    /\ \/ /\ known' = known \ {m}
          /\ SetSlot(m, "none", NoRow)
          /\ ev' = [c \in Conns |-> IF owner[c] = m THEN NoEvidence ELSE ev[c]]
          /\ exposed' = exposed \ {m}
       \/ UNCHANGED <<known, slotVars, ev, exposed>>
    /\ UNCHANGED <<platformVars, paused, served, owner, proc, rep, schedVars,
                   validated>>

\* recomputeBinaryForPlatform: another build, or none, is found on disk.
ServeBinary(s) ==
    /\ s # served /\ Disturb("serve")
    /\ s # NoSHA => gen < MaxGen
    /\ served' = s
    /\ UNCHANGED <<platformVars, slotVars, paused, known, reported, connVars,
                   schedVars, historyVars>>

\* Mutants: every restart grants the grace; the grace is not recorded.
Graceable_Always(m) == state[m] \in Live
Extended_Unmarked(r) == [r EXCEPT !.left = IF @ > Grace THEN @ ELSE Grace]

\* reconcileAfterRestart extends each live attempt that had no extension yet.
Graceable(m) == state[m] \in Live /\ ~row[m].grace
Extended(r) == [r EXCEPT !.grace = TRUE, !.left = IF @ > Grace THEN @ ELSE Grace]

\* The hub dies and starts again: memory is lost.
HubRestart ==
    /\ Disturb("crash")
    /\ registry' = [m \in Machines |-> NoConn]
    /\ reported' = [m \in Machines |-> NoSHA]
    /\ owner' = [c \in Conns |-> NoMachine] /\ proc' = [c \in Conns |-> NoSHA]
    /\ ev' = [c \in Conns |-> NoEvidence] /\ rep' = [c \in Conns |-> NoReport]
    /\ pc' = "idle" /\ todo' = {} /\ late' = {}
    /\ snap' = [m \in Machines |-> NoConn]
    /\ cur' = NoMachine /\ conn' = NoConn /\ sha' = NoSHA /\ rsv' = NoReservation
    /\ row' = [m \in Machines |-> IF Graceable(m) THEN Extended(row[m]) ELSE row[m]]
    /\ UNCHANGED <<platformVars, state, paused, known, served, exposed, validated>>

\* One unit of time passes.
Elapse ==
    /\ row' = [m \in Machines |->
                 [row[m] EXCEPT !.left = IF @ < 0 THEN @ ELSE @ - 1]]
    /\ ev' = [c \in Conns |-> Aged(ev[c])]
    /\ UNCHANGED <<platformVars, state, otherVars, served, reported,
                   registry, owner, proc, rep, schedVars, historyVars>>

Connections == \/ \E m \in Machines, c \in Conns, s \in SHAs : Connect(m, c, s)
               \/ \E c \in Conns : Disconnect(c) \/ Metrics(c) \/ Report(c)
               \/ \E m \in Machines : Revoke(m)
Operator == Pause \/ Resume \/ \E m \in Machines : DeleteMachine(m)
Environment == HubRestart \/ Elapse \/ \E s \in SHAs \cup {NoSHA} : ServeBinary(s)

Next == Scheduler \/ Connections \/ Operator \/ Environment

Spec == Init /\ [][Next]_vars

\* The scheduler goroutine keeps running, a pass of each process lifetime gets
\* through to the end of its tick often enough, and time passes.
Fairness == /\ WF_vars(Elapse)
            /\ SF_vars(TickRead)
            /\ \A m \in Machines : SF_vars(TickCheck(m))
            /\ SF_vars(TickPromote) /\ SF_vars(TickExpire) /\ SF_vars(TickAdvance)
            /\ WF_vars(Pass)

LiveSpec == Spec /\ Fairness

----------------------------------------------------------------------------
(* Properties *)

Reservations == [gen : Nat, attempt : Nat, resend : BOOLEAN]
Rows == [stage : Nat, attempt : Nat, resends : Nat, grace : BOOLEAN,
         left : Int]

TypeOK ==
    /\ gen \in Nat /\ cand \in SHAs \cup {NoSHA} /\ stage \in Nat
    /\ status \in {"active", "halted"}
    /\ state \in [Machines -> States] /\ row \in [Machines -> Rows]
    /\ paused \in BOOLEAN /\ known \subseteq Machines /\ faults \in Nat
    /\ served \in SHAs \cup {NoSHA}
    /\ registry \in [Machines -> Conns \cup {NoConn}]
    /\ reported \in [Machines -> SHAs \cup {NoSHA}]
    /\ owner \in [Conns -> Machines \cup {NoMachine}]
    /\ proc \in [Conns -> SHAs \cup {NoSHA}]
    /\ ev \in [Conns -> Evidence]
    /\ rep \in [Conns -> [at : {"idle", "file", "observe"},
                          expected : SHAs \cup {NoSHA}]]
    /\ pc \in {"idle", "check", "promote", "expire", "snapshot", "pass",
               "withhold", "reserve", "send", "release", "write", "mark"}
    /\ todo \subseteq Machines /\ late \subseteq Machines
    /\ snap \in [Machines -> Conns \cup {NoConn}]
    /\ cur \in Machines \cup {NoMachine} /\ conn \in Conns \cup {NoConn}
    /\ sha \in SHAs \cup {NoSHA} /\ rsv \in Reservations
    /\ exposed \subseteq Machines /\ validated \subseteq Nat

\* At most a stage's capacity of machines have been sent this generation's
\* build without having validated it, whatever crashes, resends, resumes and
\* deletions happen (reserve, failSlotTx, resumeTx).
ExposureBounded ==
    Cardinality(exposed \ InState({"healthy"})) <= Capacity(stage)

\* Nobody but the canary is sent the build before a stage 0 slot was promoted
\* (the advancement UPDATE of tick).
CanaryFirst == Cardinality(exposed) > CanaryCapacity => 0 \in validated

\* A machine that was sent the build keeps its slot: neither a later refusal
\* (withhold) nor the release of a reservation (releaseBeforeSend) forgets an
\* offer that may be live.
SentIsTracked == exposed \subseteq InState(Live \cup {"healthy", "failed"})

\* While a frame is being written the operator has not paused, the platform is
\* not halted, and the build is the platform's candidate (the recheck at the
\* send boundary under operatorRolloutMu).
SendBarrier == pc = "write" => ~paused /\ status = "active" /\ sha = cand

\* A slot exists only for a machine that exists: a pass queued behind a
\* deletion inserts nothing (ingestFrame against handleDeleteMachine).
SlotHasMachine == InState(States \ {"none"}) \subseteq known

\* A slot is promoted only on the word of the registered connection of a
\* machine whose process runs the candidate now (dwellSatisfied).
PromotionEarned ==
    [][pc # "promote" /\ pc' = "promote" =>
         /\ registry[cur'] # NoConn
         /\ owner[registry[cur']] = cur'
         /\ proc[registry[cur']] = cand]_vars

\* A slot is marked observed only while a socket of the machine runs this
\* generation's candidate, also when the served binary or the generation
\* changed during the report (recordAgentRunningVersionOn).
ObservedIsRunning ==
    [][\A m \in Machines : state[m] # "observed" /\ state'[m] = "observed" =>
          \E c \in Conns : owner[c] = m /\ proc[c] = cand']_vars

\* A decided slot stays decided: a validated one until its generation or its
\* machine goes, a failed one until an operator resumes.  Late reports, marks
\* and releases do not reopen it.
DecidedStays ==
    [][\A m \in Machines : state[m] \in {"healthy", "failed"} =>
          \/ state'[m] = state[m]
          \/ gen' # gen \/ m \notin known'
          \/ state[m] = "failed" /\ state'[m] = "reserved" /\ status' = "active"
               /\ row'[m].attempt = row[m].attempt + 1]_vars

\* An attempt gets its window and at most one restart grace, and a restart never
\* shortens it: short of a new attempt a deadline is left alone but for the
\* single extension (reconcileAfterRestart, reserve's resends).
DeadlineFixed ==
    [][\A m \in Machines :
         /\ state[m] \in Live /\ state'[m] \in Live
         /\ gen' = gen /\ row'[m].attempt = row[m].attempt
         => \/ row'[m].left \in {row[m].left, row[m].left - 1}
            \/ ~row[m].grace /\ row'[m].grace /\ row'[m].left > row[m].left]_vars

\* A live attempt on an active platform is decided, however often the hub
\* restarts (tick, with one restart grace per attempt).
AttemptResolves ==
    \A m \in Machines :
        state[m] \in Live /\ status = "active" ~>
            state[m] \notin Live \/ status = "halted"

\* "observed" shows as validating: running the candidate with its dwell still
\* accruing.  So a report that is about to mark the slot observed has filed
\* evidence for that slot's generation on the registered connection.
ValidatingAccrues ==
    \A c \in Conns :
        /\ rep[c].at = "observe" /\ registry[owner[c]] = c
        /\ gen > 0 /\ cand = rep[c].expected
        /\ state[owner[c]] \in {"reserved", "offered"}
        => ev[c].gen = gen /\ ev[c].cand = cand /\ ev[c].saw

----------------------------------------------------------------------------
(* The rollout implements the policy *)

PhaseOf(s) == IF s \in Live THEN "live"
              ELSE IF s \in {"healthy", "failed"} THEN s
              ELSE "idle"

slotPhase == [m \in Machines |-> PhaseOf(state[m])]
slotStage == [m \in Machines |->
                IF PhaseOf(state[m]) = "idle" THEN 0 ELSE row[m].stage]

Policy == INSTANCE RolloutPolicy
            WITH phase <- slotPhase, at <- slotStage, sent <- exposed

\* Every step of the scheduler, the handlers and the operator is a step the
\* policy allows.
RefinesPolicy == Policy!Spec
==============================================================================
