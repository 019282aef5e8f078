------------------------------- MODULE Updates -------------------------------
(***************************************************************************)
(* The two updates: of the host's deployment (SystemUpdate, which this     *)
(* module extends) and of the agent by itself (Self).  They share no       *)
(* state: a behaviour is about one of them, and the other is at rest, in a *)
(* state in which its fairness asks for nothing.                           *)
(***************************************************************************)
EXTENDS SystemUpdate

CONSTANTS Bins, Rel, Signed, Broken, First, Oses, SelfBudgets, MaxHelpers, Torn, Corrupt

VARIABLES
    part,               \* "self" or "host"
    os, exe, new, prev, marker, floor, durable, up, self, disabled, task, target,
    helpers, moved, served, frame, report, touched, overlap, selfLeft

selfVars ==
    <<os, exe, new, prev, marker, floor, durable, up, self, disabled, task, target,
      helpers, moved, served, frame, report, touched, overlap, selfLeft>>
hostVars == vars
updatesVars == <<part, selfVars, hostVars>>

Self == INSTANCE SelfUpdate WITH pc <- task, left <- selfLeft, Budgets <- SelfBudgets

\* Releases are numbers, the installation is some binary, and the values that
\* stand for no binary, a torn file and a spoiled floor are none; the null value
\* is no phase of the journal, and there are two deployments.
ASSUME UpdatesAssumption ==
    /\ None \notin {"checking", "staging", "backing_up", "installing", "verifying",
                    "rolling_back"} \cup Terminal
    /\ Modes \subseteq {"native", "compose"}
    /\ Rel \in [Bins -> Nat] /\ Signed \subseteq Bins /\ First \in Bins
    /\ {None, Torn, Corrupt} \cap Bins = {} /\ None \notin {Torn, Corrupt}
    /\ Oses \subseteq {"linux", "windows"} /\ Oses # {}

\* An agent that runs what is served and has said so.
SelfAtRest ==
    /\ os = (CHOOSE o \in Oses : TRUE) /\ selfLeft = [crash |-> 0, power |-> 0, fault |-> 0, edit |-> 0, serve |-> 0]
    /\ exe = First /\ new = None /\ prev = None /\ marker = None
    /\ floor = First /\ durable = First
    /\ up = TRUE /\ self = First /\ disabled = FALSE /\ task = "idle" /\ target = None
    /\ helpers = 0 /\ moved = FALSE
    /\ served = First /\ frame = None /\ report = First /\ touched = FALSE /\ overlap = FALSE

\* A deployment nobody asks to update.
HostAtRest ==
    /\ Init /\ mode = (CHOOSE m \in Modes : TRUE) /\ legacy = FALSE
    /\ left = [kill |-> 0, reboot |-> 0, fault |-> 0, write |-> 0]

UpdatesInit ==
    \/ part = "self" /\ Self!Init /\ HostAtRest
    \/ part = "host" /\ SelfAtRest /\ Init

UpdatesNext ==
    \/ part = "self" /\ Self!Next /\ UNCHANGED <<part, hostVars>>
    \/ part = "host" /\ Next /\ UNCHANGED <<part, selfVars>>

UpdatesSpec == UpdatesInit /\ [][UpdatesNext]_updatesVars
UpdatesLiveSpec == UpdatesSpec /\ Self!Fair /\ Fair

----------------------------------------------------------------------------
\* No crash, power loss or failed fsync replays a release, and nothing unsigned
\* runs (release_floor.go, updater.go, updater_windows.go).
FloorCoversBinary == Self!FloorCoversBinary /\ Self!OnlySignedRuns

\* An update installs only what is newer than the build that installs it, and
\* the hub announces exactly what the agent's floor permits.
OnlyForward == Self!NoDowngrade /\ []Self!HubMirrorsAgent

\* A good build is installed in the end, however the last attempt died.
Converges == Self!Converges

\* The public meets one build on a database it understands, and an outcome in
\* the journal is the truth about what is installed.
BuildIsWhole == OneBuildServed /\ OutcomeIsTrue
=============================================================================
