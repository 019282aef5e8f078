------------------------------ MODULE SelfUpdate ------------------------------
(***************************************************************************)
(* The agent's self-update against its persistent release floor, on Linux  *)
(* (rename over the running binary, systemd restart, recovery unit) and on *)
(* Windows (staged file, pending marker, helper after exit): updater.go,   *)
(* updater_windows.go, release_floor.go, update_verify.go, marker.go and   *)
(* the recovery script the hub's installer writes.  A binary stands for    *)
(* its bytes: its SHA, its embedded release and whether the pinned key     *)
(* signed it.                                                              *)
(***************************************************************************)
EXTENDS Integers, FiniteSets

CONSTANTS
    Bins,         \* binaries that exist
    Rel,          \* embedded release of each; 0 is unnumbered
    Signed,       \* those the pinned key signed
    Broken,       \* those that crash-loop when started
    First,        \* the binary of the installation
    Oses,
    Budgets,      \* bounds: [crash, power, fault, edit, serve]
    MaxHelpers,   \* bound: helpers waiting at once
    None, Torn, Corrupt

VARIABLES
    os,
    exe, new, prev,     \* <exe>, <exe>.new, <exe>.prev
    marker,             \* Linux: an update less than ten minutes ago; Windows: .pending
    floor, durable,     \* the floor file as read, and as a power loss leaves it
    up, self, disabled, \* the process: running, what it booted from, bootErr
    pc, target,         \* the update worker
    helpers, moved,     \* Windows helpers waiting; one that has moved or given up
    served, frame,      \* what the hub serves; an announcement in flight
    report,             \* the floor the agent last reported; None is not ok
    touched,            \* the operator edited the floor file
    overlap,            \* a download began while a helper was still waiting
    left                \* what is left of the budgets

files == <<exe, new, prev, marker>>
floors == <<floor, durable>>
proc == <<up, self, disabled, pc, target>>
help == <<helpers, moved>>
hub == <<served, frame, report>>
vars == <<os, files, floors, proc, help, hub, touched, overlap, left>>

Spend(kind) == left[kind] > 0 /\ left' = [left EXCEPT ![kind] = @ - 1]

-----------------------------------------------------------------------------
(* The floor: a release pinned to the build that set it.                   *)

\* Mutant: the retry of the build that raised the floor is refused.
Permits_OnlyHigher(f, b) == Rel[b] # 0 /\ Rel[b] > Rel[f]

\* releaseFloor.permits
Permits(f, b) == Rel[b] # 0 /\ (Rel[b] > Rel[f] \/ b = f)

\* Mutant: any valid floor will do.
Covers_Any(f, b) == TRUE

\* releaseFloor.covers: higher than the running build, or exactly it.
Covers(f, b) == Rel[b] # 0 /\ (Rel[f] > Rel[b] \/ f = b)

\* currentReleaseFloor: usable since boot, readable, still covering.
Usable == ~disabled /\ floor \in Bins /\ Covers(floor, self)

\* writeReleaseFloor: durable, refused, or visible with its fsync failed.
WriteOk(b) == floor' = b /\ durable' = b /\ UNCHANGED left
WriteFails == Spend("fault") /\ UNCHANGED floors
WriteVisible(b) == Spend("fault") /\ floor' = b /\ UNCHANGED durable

\* releaseFloorStatus, in the version report of every connection.
Status == IF Usable THEN floor ELSE None

\* Mutant: the report of an unreadable floor passes for a legacy agent's.
HubAllows_NotOk(b) ==
    /\ Rel[b] # 0
    /\ report # None => Rel[b] >= Rel[report] /\ (Rel[b] = Rel[report] => b = report)

\* releaseAnnounceBlocked, the hub's copy of the agent's gate.
HubAllows(b) ==
    /\ report # None /\ Rel[b] # 0
    /\ Rel[b] >= Rel[report] /\ (Rel[b] = Rel[report] => b = report)

-----------------------------------------------------------------------------
(* Boot.                                                                   *)

\* seedReleaseFloor, as the floor it leaves and whether self-update stays off.
Seed(b) ==
    \/ /\ floor \in Bins /\ Covers(floor, b) /\ disabled' = FALSE
       /\ UNCHANGED <<floors, left>>
    \/ /\ \/ Rel[b] = 0 \/ floor = Corrupt
          \/ floor \in Bins /\ Rel[floor] = Rel[b] /\ floor # b
       /\ disabled' = TRUE
       /\ UNCHANGED <<floors, left>>
    \/ /\ Rel[b] # 0
       /\ floor = None \/ (floor \in Bins /\ Rel[floor] < Rel[b])
       /\ \/ WriteOk(b) /\ disabled' = FALSE
          \/ (WriteFails \/ WriteVisible(b)) /\ disabled' = TRUE

\* systemd or the SCM starts the binary: the floor is seeded first.
Boot ==
    /\ ~up /\ exe \in Bins \ Broken /\ pc = "idle"
    /\ self' = exe /\ up' = TRUE /\ frame' = None
    /\ Seed(exe)
    /\ pc' = IF os = "windows" /\ marker # None THEN "pending" ELSE "idle"
    /\ UNCHANGED <<os, files, target, help, served, report, touched, overlap>>

\* validatePendingUpdate and checkStagedRelease, against the floor of this boot.
PendingValid == new = marker /\ new \in Signed /\ Usable /\ Permits(floor, new)

\* applyPendingUpdate: hand over to a helper, carry on if none starts, or clean up.
ApplyPending ==
    /\ pc = "pending" /\ pc' = "idle"
    /\ \/ /\ PendingValid
          /\ \/ /\ WriteOk(new) /\ up' = FALSE /\ helpers' = IF helpers < MaxHelpers THEN helpers + 1 ELSE helpers
                /\ UNCHANGED <<new, marker>>
             \/ /\ Spend("fault") /\ floor' = new /\ durable' = new
                /\ UNCHANGED <<new, marker, up, helpers>>
             \/ /\ WriteFails \/ WriteVisible(new)
                /\ new' = None /\ marker' = None
                /\ UNCHANGED <<up, helpers>>
       \/ /\ ~PendingValid
          /\ new' = None /\ marker' = None
          /\ UNCHANGED <<floors, left, up, helpers>>
    /\ UNCHANGED <<os, exe, prev, self, disabled, target, moved, hub, touched, overlap>>

-----------------------------------------------------------------------------
(* The announcement and the update worker.                                 *)

\* The hub serves another build, and announces what it serves on a connect.
Serve(b) ==
    /\ b # served /\ Spend("serve") /\ served' = b
    /\ UNCHANGED <<os, files, floors, proc, help, frame, report, touched, overlap>>

\* A connection reports the build and the floor, and hears what is served.
Connect ==
    /\ up /\ pc = "idle" /\ report' = Status
    /\ report' # report /\ frame' = None
    /\ UNCHANGED <<os, files, floors, proc, help, served, touched, left, overlap>>

Announce ==
    /\ up /\ pc = "idle" /\ frame = None /\ served # exe /\ HubAllows(served)
    /\ frame' = served
    /\ UNCHANGED <<os, files, floors, proc, help, served, report, touched, left, overlap>>

\* Mutant: the announced SHA alone authorises.
Authorised_Unsigned(b, hint) == b # exe /\ Usable /\ (hint => Permits(floor, b))

\* handleAgentVersion with authorizeUpdate; the unsigned hint may be absent.
Authorised(b, hint) ==
    /\ b # exe /\ b \in Signed /\ Usable
    /\ hint => Permits(floor, b)

ReceiveAnnouncement ==
    /\ up /\ pc = "idle" /\ frame # None /\ frame' = None
    /\ \E hint \in {Rel[frame] # 0, FALSE} :
         \/ Authorised(frame, hint) /\ pc' = "download" /\ target' = frame
         \/ ~Authorised(frame, hint) /\ UNCHANGED <<pc, target>>
    /\ UNCHANGED <<os, files, floors, up, self, disabled, help, served, report, touched, left, overlap>>

Idle == pc' = "idle" /\ target' = None

\* downloadAgentBinary creates the file before the bytes are there.
StartDownload ==
    /\ up /\ pc = "download" /\ pc' = "downloading" /\ new' = Torn
    /\ overlap' = (overlap \/ helpers > 0)
    /\ UNCHANGED <<os, exe, prev, marker, floors, up, self, disabled, target, help, hub, touched, left>>

\* The bytes are what the hub serves now; anything but the announced SHA goes.
FinishDownload ==
    /\ up /\ pc = "downloading" /\ new = Torn
    /\ \/ served = target /\ new' = served /\ pc' = "verify" /\ UNCHANGED <<target, left>>
       \/ served # target /\ new' = None /\ Idle /\ UNCHANGED left
       \/ Spend("fault") /\ new' = None /\ Idle
    /\ UNCHANGED <<os, exe, prev, marker, floors, up, self, disabled, help, hub, touched, overlap>>

Discard == new' = None /\ Idle

\* verifyCandidateRelease reads the release out of the verified bytes.
VerifyCandidate ==
    /\ up /\ pc = "verify"
    /\ \/ new \in Bins /\ Usable /\ Permits(floor, new) /\ pc' = "raise" /\ UNCHANGED <<new, target>>
       \/ ~(new \in Bins /\ Usable /\ Permits(floor, new)) /\ Discard
    /\ UNCHANGED <<os, exe, prev, marker, floors, up, self, disabled, help, hub, touched, left, overlap>>

\* Mutant: a floor that already reads as the candidate is not written again.
RaiseFloor_UnlessEqual ==
    /\ up /\ pc = "raise"
    /\ \/ /\ floor \in Bins /\ Permits(floor, target)
          /\ \/ floor = target /\ pc' = "snapshot" /\ UNCHANGED <<floors, left, new, target>>
             \/ floor # target /\ WriteOk(target) /\ pc' = "snapshot" /\ UNCHANGED <<new, target>>
             \/ floor # target /\ (WriteFails \/ WriteVisible(target)) /\ Discard
       \/ /\ ~(floor \in Bins /\ Permits(floor, target))
          /\ Discard /\ UNCHANGED <<floors, left>>
    /\ UNCHANGED <<os, exe, prev, marker, up, self, disabled, help, hub, touched, overlap>>

\* raiseReleaseFloor: always written and synced, before anything is swapped.
RaiseFloor ==
    /\ up /\ pc = "raise"
    /\ \/ /\ floor \in Bins /\ Permits(floor, target)
          /\ \/ WriteOk(target) /\ pc' = "snapshot" /\ UNCHANGED <<new, target>>
             \/ (WriteFails \/ WriteVisible(target)) /\ Discard
       \/ /\ ~(floor \in Bins /\ Permits(floor, target))
          /\ Discard /\ UNCHANGED <<floors, left>>
    /\ UNCHANGED <<os, exe, prev, marker, up, self, disabled, help, hub, touched, overlap>>

\* chmod, on Linux, whose failure ends the attempt; then copyFile to .prev, whose
\* failure is a warning, whatever it left behind.
Snapshot ==
    /\ up /\ pc = "snapshot"
    /\ \/ /\ pc' = IF os = "linux" THEN "swap" ELSE "mark"
          /\ \/ prev' = exe /\ UNCHANGED left
             \/ prev' \in {prev, Torn} /\ Spend("fault")
          /\ UNCHANGED <<new, target>>
       \/ os = "linux" /\ Spend("fault") /\ Discard /\ UNCHANGED prev
    /\ UNCHANGED <<os, exe, marker, floors, up, self, disabled, help, hub, touched, overlap>>

\* Linux: the rename, whose failure ends the attempt with the floor raised.
Swap ==
    /\ up /\ pc = "swap"
    /\ \/ pc' = "mark" /\ exe' = new /\ new' = None /\ UNCHANGED <<target, left>>
       \/ Spend("fault") /\ Discard /\ UNCHANGED exe
    /\ UNCHANGED <<os, prev, marker, floors, up, self, disabled, help, hub, touched, overlap>>

\* The marker, then exit: on Linux its failure is a warning, whatever it left
\* behind; on Windows it ends the attempt.

MarkAndExit ==
    /\ up /\ pc = "mark"
    /\ \/ marker' = target /\ up' = FALSE /\ Idle /\ UNCHANGED <<new, left>>
       \/ /\ Spend("fault") /\ marker' \in {marker, target} /\ Idle
          /\ IF os = "linux" THEN up' = FALSE /\ UNCHANGED new ELSE new' = None /\ UNCHANGED up
    /\ UNCHANGED <<os, exe, prev, floors, self, disabled, help, hub, touched, overlap>>

-----------------------------------------------------------------------------
(* The Windows helper: it moves the staged file once the binary unlocks.   *)

HelperMove ==
    /\ helpers > 0 /\ ~up /\ new # None
    /\ exe' = new /\ new' = None
    /\ helpers' = helpers - 1 /\ moved' = TRUE
    /\ UNCHANGED <<os, prev, marker, floors, proc, hub, touched, left, overlap>>

\* The binary stays locked or nothing is staged: a staged copy nobody holds open
\* is dropped.
HelperGiveUp ==
    /\ helpers > 0 /\ (up \/ new = None)
    /\ new' = IF pc = "downloading" THEN new ELSE None
    /\ helpers' = helpers - 1 /\ moved' = TRUE
    /\ UNCHANGED <<os, exe, prev, marker, floors, proc, hub, touched, left, overlap>>

HelperDone ==
    /\ moved /\ moved' = FALSE /\ marker' = None
    /\ UNCHANGED <<os, exe, new, prev, floors, proc, helpers, hub, touched, left, overlap>>

-----------------------------------------------------------------------------
(* Crashes, recovery and the operator.                                     *)

\* The process dies; what it wrote stays.
Crash ==
    /\ up /\ Spend("crash")
    /\ up' = FALSE /\ Idle /\ frame' = None
    /\ UNCHANGED <<os, files, floors, self, disabled, help, served, report, touched, overlap>>

\* What a power loss leaves of a file nobody synced.
Unsynced(file) == {file} \cup (IF file = None THEN {} ELSE {None, Torn})

\* The machine loses power: a floor whose fsync failed may be gone, and the files
\* of the update, none of them synced, may be torn or missing, or the rename of
\* the binary undone.
PowerLoss ==
    /\ Spend("power")
    /\ up' = FALSE /\ Idle /\ frame' = None /\ helpers' = 0 /\ moved' = FALSE
    /\ floor' \in {floor, durable} /\ durable' = floor'
    /\ \/ exe' \in {exe, Torn} /\ new' \in Unsynced(new)
       \/ exe # self /\ exe' = self /\ new' = exe
    /\ prev' \in Unsynced(prev) /\ marker' \in Unsynced(marker)
    /\ UNCHANGED <<os, self, disabled, served, report, touched, overlap>>

\* Linux: ten minutes pass, and the recovery unit no longer heeds the marker.
MarkerAges ==
    /\ os = "linux" /\ up /\ marker # None /\ marker' = None
    /\ UNCHANGED <<os, exe, new, prev, floors, proc, help, hub, touched, left, overlap>>

\* The binary in place does not run.
Dead == ~up /\ exe \in Broken \cup {Torn}

\* The recovery script has something to go back to, and a reason.
CanRollBack == os = "linux" /\ prev # None /\ marker # None

\* The recovery unit, once the start limit is hit within 10 minutes of an update.
Recover ==
    /\ Dead /\ CanRollBack
    /\ exe' = prev /\ prev' = None /\ marker' = None
    /\ UNCHANGED <<os, new, floors, proc, help, hub, touched, left, overlap>>

\* An operator removes, breaks or replaces the floor file.
EditFloor ==
    /\ Spend("edit") /\ touched' = TRUE
    /\ floor' \in Bins \cup {None, Corrupt} /\ durable' = floor'
    /\ UNCHANGED <<os, files, proc, help, hub, overlap>>

-----------------------------------------------------------------------------
Init ==
    /\ os \in Oses /\ left \in Budgets
    /\ exe = First /\ new = None /\ prev = None /\ marker = None
    /\ floor = None /\ durable = None
    /\ up = FALSE /\ self = First /\ disabled = FALSE /\ pc = "idle" /\ target = None
    /\ helpers = 0 /\ moved = FALSE
    /\ served = First /\ frame = None /\ report = None /\ touched = FALSE /\ overlap = FALSE

Worker == ReceiveAnnouncement \/ StartDownload \/ FinishDownload \/ VerifyCandidate
          \/ RaiseFloor \/ Snapshot \/ Swap \/ MarkAndExit
Helper == HelperMove \/ HelperGiveUp \/ HelperDone
Start == Boot \/ ApplyPending \/ Recover
Faulty == Crash \/ PowerLoss \/ MarkerAges \/ EditFloor \/ \E b \in Bins : Serve(b)

Next == Worker \/ Helper \/ Start \/ Connect \/ Announce \/ Faulty

Spec == Init /\ [][Next]_vars
Fair == /\ WF_vars(Worker) /\ WF_vars(Start) /\ WF_vars(Connect) /\ WF_vars(Announce)
        /\ SF_vars(HelperMove) /\ WF_vars(HelperGiveUp) /\ WF_vars(HelperDone)
LiveSpec == Spec /\ Fair

-----------------------------------------------------------------------------
\* Nothing but what was installed by hand or signed by the key ever runs, on any
\* path and after any crash.
OnlySignedRuns == up /\ ~overlap => self \in Signed \cup {First}

\* Whatever crash, power loss or failed fsync came in between, the floor that
\* survives covers the binary in place: an update can be lost, never replayed.
FloorCoversBinary ==
    (~touched /\ ~overlap /\ exe # First /\ exe \in Bins) => durable \in Bins /\ Covers(durable, exe)

\* The update path installs only what is newer than the build that installs it,
\* or the very build that raised the floor, even when a valid but older floor
\* file is put in place behind the agent's back; only recovery, and a power loss that
\* undoes the rename, go back.
NoDowngrade ==
    [][(exe' # exe /\ ~Recover /\ ~PowerLoss /\ ~overlap /\ exe' \in Bins) => Rel[exe'] > Rel[self]]_vars

\* The hub's gate mirrors the agent's: an announcement it makes to an agent whose
\* report is current is one the floor permits, and it holds back no build the floor
\* permits.
HubMirrorsAgent ==
    (up /\ report = Status) => (HubAllows(served) <=> Usable /\ Permits(floor, served))

\* A build that is signed, works and is not below the floor is installed in the
\* end, whenever the previous attempt died, unless the floor was spoiled or what
\* is in place does not run and recovery has no copy, or no recent marker, to
\* roll back with: that waits for the operator.
Installable ==
    /\ served \in Signed \ Broken /\ floor \in Bins
    /\ Rel[served] # 0 /\ Rel[served] >= Rel[floor] /\ (Rel[served] = Rel[floor] => served = floor)
Stranded == Dead /\ ~CanRollBack
Converges == <>[](exe = served \/ Stranded \/ ~Installable \/ disabled \/ touched \/ overlap)
=============================================================================
