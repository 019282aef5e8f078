---------------------------- MODULE RolloutEvidence ----------------------------
(***************************************************************************)
(* The rollout and the evidence it promotes on: behaviours of the          *)
(* controller, and behaviours of one machine's sockets with everything the *)
(* hub received on them (Health).  They share the definitions of           *)
(* DwellEvidence and no state; a behaviour is about one of them.           *)
(***************************************************************************)
EXTENDS AgentRollout, Sequences

CONSTANTS
    Sockets, NoSocket,   \* of Health, with its own dwell and gap
    HealthDwell, HealthGap,
    MaxClock, MaxFrames, MaxHealthGen

ASSUME HealthAssumption == HealthDwell \in Nat /\ HealthGap \in Nat

VARIABLES part, clock, hgen, hcand, current, open, sevid, frames

healthVars == <<clock, hgen, hcand, current, open, sevid, frames>>

Health == INSTANCE RolloutHealth
    WITH Conns <- Sockets, NoConn <- NoSocket, Dwell <- HealthDwell, Gap <- HealthGap,
         MaxTime <- MaxClock, MaxGen <- MaxHealthGen,
         now <- clock, gen <- hgen, cand <- hcand, ev <- sevid, log <- frames

SumInit == part \in {"rollout", "health"} /\ Init /\ hcand = served /\ Health!Init

SumNext ==
    \/ part = "rollout" /\ Next /\ UNCHANGED <<part, healthVars>>
    \/ part = "health" /\ Health!Next /\ UNCHANGED <<part, vars>>

SumSpec == SumInit /\ [][SumNext]_<<part, vars, healthVars>>

----------------------------------------------------------------------------
\* A dwell is satisfied exactly when the frames received on the socket that owns
\* the machine say so (dwellSatisfied, noteMetrics, observeCandidateReport).
DwellIsObserved == Health!DwellIsObserved
===============================================================================
