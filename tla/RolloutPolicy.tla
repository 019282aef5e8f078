---------------------------- MODULE RolloutPolicy ----------------------------
(***************************************************************************)
(* What the staged rollout promises, without the scheduler, sockets,       *)
(* evidence or clock that implement it (AgentRollout does, and refines     *)
(* this): a candidate build reaches machines by slots; at most a stage's   *)
(* capacity of them hold an unvalidated build; one failure halts the       *)
(* platform until an operator retries; a stage is passed only once it      *)
(* validated a machine; a machine that was sent the build keeps its slot   *)
(* until the slot is decided, the machine is deleted, or another candidate *)
(* opens a new generation.                                                 *)
(***************************************************************************)
EXTENDS Integers, FiniteSets

CONSTANTS Machines, CanaryCapacity, BatchCapacity, MaxStage

ASSUME PolicyAssumption ==
    /\ IsFiniteSet(Machines)
    /\ CanaryCapacity \in Nat \ {0} /\ BatchCapacity \in Nat
    /\ CanaryCapacity <= BatchCapacity
    /\ MaxStage \in Nat

VARIABLES
    stage, status,
    phase,       \* of each machine's slot
    at,          \* the stage its slot was opened in
    sent,        \* machines the candidate was sent to
    validated    \* stages in which a slot was validated

vars == <<stage, status, phase, at, sent, validated>>

Phases == {"idle", "live", "healthy", "failed"}

InPhase(P) == {m \in Machines : phase[m] \in P}

Capacity(s) == IF s <= 0 THEN CanaryCapacity ELSE BatchCapacity

Init ==
    /\ stage = 0 /\ status = "active"
    /\ phase = [m \in Machines |-> "idle"] /\ at = [m \in Machines |-> 0]
    /\ sent = {} /\ validated = {}

\* Another candidate: everything starts over, with at most one slot taken.
NewGeneration(S) ==
    /\ stage' = 0 /\ status' = "active"
    /\ phase' = [m \in Machines |-> IF m \in S THEN "live" ELSE "idle"]
    /\ at' = [m \in Machines |-> 0]
    /\ sent' = {} /\ validated' = {}

Admit(m) ==
    /\ status = "active" /\ phase[m] = "idle"
    /\ Cardinality(InPhase({"live"})) < Capacity(stage)
    /\ phase' = [phase EXCEPT ![m] = "live"] /\ at' = [at EXCEPT ![m] = stage]
    /\ UNCHANGED <<stage, status, sent, validated>>

Send(m) ==
    /\ status = "active" /\ phase[m] = "live"
    /\ sent' = sent \cup {m}
    /\ UNCHANGED <<stage, status, phase, at, validated>>

\* A slot nothing was sent for is given back.
Release(m) ==
    /\ phase[m] = "live" /\ m \notin sent
    /\ phase' = [phase EXCEPT ![m] = "idle"] /\ at' = [at EXCEPT ![m] = 0]
    /\ UNCHANGED <<stage, status, sent, validated>>

Validate(m) ==
    /\ phase[m] = "live"
    /\ phase' = [phase EXCEPT ![m] = "healthy"]
    /\ validated' = validated \cup {at[m]}
    /\ UNCHANGED <<stage, status, at, sent>>

\* Mutant: a failure does not halt.
Fail_GoesOn(m) ==
    /\ status = "active" /\ phase[m] = "live"
    /\ phase' = [phase EXCEPT ![m] = "failed"]
    /\ UNCHANGED <<stage, status, at, sent, validated>>

Fail(m) ==
    /\ status = "active" /\ phase[m] = "live"
    /\ phase' = [phase EXCEPT ![m] = "failed"] /\ status' = "halted"
    /\ UNCHANGED <<stage, at, sent, validated>>

\* The platform halts on the failure of a slot that is deleted meanwhile.
Halt == /\ status' = "halted"
        /\ UNCHANGED <<stage, phase, at, sent, validated>>

\* Mutant: a stage that proved nothing is passed.
Advance_Empty ==
    /\ status = "active" /\ stage < MaxStage
    /\ \A m \in InPhase({"live"}) : at[m] # stage
    /\ stage' = stage + 1
    /\ UNCHANGED <<status, phase, at, sent, validated>>

Advance ==
    /\ status = "active" /\ stage < MaxStage
    /\ \A m \in InPhase({"live"}) : at[m] # stage
    /\ \E m \in InPhase({"healthy"}) : at[m] = stage
    /\ stage' = stage + 1
    /\ UNCHANGED <<status, phase, at, sent, validated>>

Retry ==
    /\ status' = "active"
    /\ phase' = [m \in Machines |-> IF phase[m] = "failed" THEN "live" ELSE phase[m]]
    /\ UNCHANGED <<stage, at, sent, validated>>

Remove(m) ==
    /\ phase' = [phase EXCEPT ![m] = "idle"] /\ at' = [at EXCEPT ![m] = 0]
    /\ sent' = sent \ {m}
    /\ UNCHANGED <<stage, status, validated>>

Next ==
    \/ NewGeneration({}) \/ \E m \in Machines : NewGeneration({m})
    \/ \E m \in Machines : \/ Admit(m) \/ Send(m) \/ Release(m) \/ Validate(m)
                           \/ Fail(m) \/ Remove(m)
    \/ Halt \/ Advance \/ Retry

Spec == Init /\ [][Next]_vars

----------------------------------------------------------------------------
TypeOK ==
    /\ stage \in Nat /\ status \in {"active", "halted"}
    /\ phase \in [Machines -> Phases] /\ at \in [Machines -> Nat]
    /\ sent \subseteq Machines /\ validated \subseteq Nat

\* At most a stage's capacity of machines have been sent the candidate and not
\* validated it (what reserve's capacity check and halting on the first failed
\* attempt are for).
ExposureBounded ==
    Cardinality(sent \ InPhase({"healthy"})) <= Capacity(stage)

\* No machine beyond the canary gets the candidate before the canary stage has
\* validated it (tick's advancement condition).
CanaryFirst == Cardinality(sent) > CanaryCapacity => 0 \in validated
==============================================================================
