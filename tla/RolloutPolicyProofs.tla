------------------------- MODULE RolloutPolicyProofs -------------------------
(***************************************************************************)
(* The two promises of the rollout policy, for any set of machines and any *)
(* capacities: bounded exposure and canary first.                          *)
(***************************************************************************)
EXTENDS RolloutPolicy, FiniteSetTheorems, TLAPS

\* Slots that hold the candidate undecided or badly: the ones that count.
Unproven == InPhase({"live", "failed"})

\* The inductive invariant.  Exposure stays bounded because a failed slot, which
\* capacity does not count, exists only while the platform is halted and nobody
\* is admitted; the canary comes first because a stage number is reached only
\* through validated stages, and a slot never belongs to a later stage.
CapacityKept == Cardinality(Unproven) <= Capacity(stage)
FailureHalts == status = "active" => InPhase({"failed"}) = {}
SentHasSlot == sent \subseteq InPhase({"live", "healthy", "failed"})
SlotNotAhead == \A m \in Machines : at[m] <= stage
HealthyCounts == \A m \in InPhase({"healthy"}) : at[m] \in validated
StagesProven == \A s \in 0..(stage - 1) : s \in validated

Inv == /\ TypeOK /\ CapacityKept /\ FailureHalts /\ SentHasSlot
       /\ SlotNotAhead /\ HealthyCounts /\ StagesProven

\* A set of machines that is included in another has no larger cardinality.
LEMMA SubsetCardinality ==
    ASSUME NEW S \in SUBSET Machines, NEW T \in SUBSET Machines, S \subseteq T
    PROVE  /\ Cardinality(S) \in Nat /\ Cardinality(T) \in Nat
           /\ Cardinality(S) <= Cardinality(T)
<1>1. IsFiniteSet(S) /\ IsFiniteSet(T)
  BY FS_Subset, PolicyAssumption
<1>. QED
  BY <1>1, FS_Subset, FS_CardinalityType

\* A set of machines grows by at most one when a machine is added.
LEMMA AddCardinality ==
    ASSUME NEW S \in SUBSET Machines, NEW m \in Machines
    PROVE  Cardinality(S \cup {m}) <= Cardinality(S) + 1
<1>1. IsFiniteSet(S)
  BY FS_Subset, PolicyAssumption
<1>. QED
  BY <1>1, FS_AddElement, FS_CardinalityType

\* Capacities are naturals, and a later stage never has less.
LEMMA CapacityMonotone ==
    ASSUME NEW s \in Nat
    PROVE  /\ Capacity(s) \in Nat /\ Capacity(s) <= Capacity(s + 1)
           /\ CanaryCapacity <= Capacity(s)
BY PolicyAssumption DEF Capacity

\* The invariant holds before anything is rolled out.
LEMMA InitInv == Init => Inv
<1>. SUFFICES ASSUME Init PROVE Inv
  OBVIOUS
<1>1. Unproven = {} /\ InPhase({"failed"}) = {} /\ InPhase({"healthy"}) = {}
  BY DEF Init, Unproven, InPhase
<1>2. CapacityKept
  BY <1>1, FS_EmptySet, PolicyAssumption DEF CapacityKept, Capacity, Init
<1>. QED
  BY <1>1, <1>2 DEF Init, Inv, TypeOK, Phases, FailureHalts, SentHasSlot,
                    SlotNotAhead, HealthyCounts, StagesProven

\* Every step of the policy preserves the invariant.
LEMMA NextInv == Inv /\ [Next]_vars => Inv'
<1>. SUFFICES ASSUME Inv, [Next]_vars PROVE Inv'
  OBVIOUS
<1>. USE DEF Inv
<1>shrink. ASSUME stage' = stage, Unproven' \subseteq Unproven,
                  TypeOK'
           PROVE  CapacityKept'
  <2>1. Cardinality(Unproven') <= Cardinality(Unproven)
    BY <1>shrink, SubsetCardinality DEF Unproven, InPhase
  <2>2. Cardinality(Unproven) \in Nat /\ Cardinality(Unproven') \in Nat
    BY SubsetCardinality DEF Unproven, InPhase
  <2>3. Capacity(stage) \in Nat
    BY CapacityMonotone DEF TypeOK
  <2>. QED
    BY <1>shrink, <2>1, <2>2, <2>3 DEF CapacityKept
<1>new. ASSUME NEW S \in SUBSET Machines, Cardinality(S) <= 1, NewGeneration(S)
        PROVE  Inv'
  <2>1. TypeOK'
    BY <1>new DEF NewGeneration, TypeOK, Phases
  <2>2. Unproven' \subseteq S /\ InPhase({"failed"})' = {}
        /\ InPhase({"healthy"})' = {}
    BY <1>new DEF NewGeneration, Unproven, InPhase
  <2>3. Cardinality(Unproven') <= Cardinality(S)
        /\ Cardinality(Unproven') \in Nat /\ Cardinality(S) \in Nat
    BY <2>2, SubsetCardinality DEF Unproven, InPhase
  <2>4. CapacityKept'
    BY <1>new, <2>3, PolicyAssumption DEF CapacityKept, Capacity, NewGeneration
  <2>. QED
    BY <1>new, <2>1, <2>2, <2>4
       DEF NewGeneration, FailureHalts, SentHasSlot, SlotNotAhead, HealthyCounts,
           StagesProven
<1>1. CASE NewGeneration({})
  BY <1>1, <1>new, FS_EmptySet
<1>2. ASSUME NEW m \in Machines, NewGeneration({m}) PROVE Inv'
  BY <1>2, <1>new, FS_Singleton
<1>3. ASSUME NEW m \in Machines, Admit(m) PROVE Inv'
  <2>1. TypeOK'
    BY <1>3 DEF Admit, TypeOK, Phases
  <2>2. /\ InPhase({"live"}) = Unproven
        /\ Unproven' \subseteq Unproven \cup {m}
    BY <1>3 DEF Admit, FailureHalts, Unproven, InPhase, TypeOK
  <2>3. /\ Cardinality(Unproven') <= Cardinality(Unproven) + 1
        /\ Cardinality(Unproven') \in Nat /\ Cardinality(Unproven) \in Nat
    <3>1. Cardinality(Unproven \cup {m}) <= Cardinality(Unproven) + 1
      BY AddCardinality DEF Unproven, InPhase
    <3>2. /\ Cardinality(Unproven') <= Cardinality(Unproven \cup {m})
          /\ Cardinality(Unproven') \in Nat
          /\ Cardinality(Unproven \cup {m}) \in Nat
      BY <2>2, SubsetCardinality DEF Unproven, InPhase
    <3>3. Cardinality(Unproven) \in Nat
      BY SubsetCardinality DEF Unproven, InPhase
    <3>. QED
      BY <3>1, <3>2, <3>3
  <2>4. CapacityKept'
    BY <1>3, <2>2, <2>3, CapacityMonotone DEF CapacityKept, Admit, TypeOK
  <2>. QED
    BY <1>3, <2>1, <2>4
       DEF Admit, TypeOK, FailureHalts, SentHasSlot, SlotNotAhead, HealthyCounts,
           StagesProven, InPhase
<1>4. ASSUME NEW m \in Machines, Send(m) PROVE Inv'
  <2>1. TypeOK' /\ Unproven' = Unproven /\ stage' = stage
    BY <1>4 DEF Send, TypeOK, Unproven, InPhase
  <2>. QED
    BY <1>4, <1>shrink, <2>1
       DEF Send, TypeOK, FailureHalts, SentHasSlot, SlotNotAhead, HealthyCounts,
           StagesProven, InPhase
<1>5. ASSUME NEW m \in Machines, Release(m) PROVE Inv'
  <2>1. TypeOK' /\ Unproven' \subseteq Unproven /\ stage' = stage
    BY <1>5 DEF Release, TypeOK, Phases, Unproven, InPhase
  <2>. QED
    BY <1>5, <1>shrink, <2>1
       DEF Release, TypeOK, FailureHalts, SentHasSlot, SlotNotAhead, HealthyCounts,
           StagesProven, InPhase
<1>6. ASSUME NEW m \in Machines, Validate(m) PROVE Inv'
  <2>1. TypeOK' /\ Unproven' \subseteq Unproven /\ stage' = stage
    BY <1>6 DEF Validate, TypeOK, Phases, Unproven, InPhase
  <2>. QED
    BY <1>6, <1>shrink, <2>1
       DEF Validate, TypeOK, FailureHalts, SentHasSlot, SlotNotAhead,
           HealthyCounts, StagesProven, InPhase
<1>7. ASSUME NEW m \in Machines, Fail(m) PROVE Inv'
  <2>1. TypeOK' /\ Unproven' \subseteq Unproven /\ stage' = stage
    BY <1>7 DEF Fail, TypeOK, Phases, Unproven, InPhase
  <2>. QED
    BY <1>7, <1>shrink, <2>1
       DEF Fail, TypeOK, FailureHalts, SentHasSlot, SlotNotAhead, HealthyCounts,
           StagesProven, InPhase
<1>8. ASSUME NEW m \in Machines, Remove(m) PROVE Inv'
  <2>1. TypeOK' /\ Unproven' \subseteq Unproven /\ stage' = stage
    BY <1>8 DEF Remove, TypeOK, Phases, Unproven, InPhase
  <2>. QED
    BY <1>8, <1>shrink, <2>1
       DEF Remove, TypeOK, FailureHalts, SentHasSlot, SlotNotAhead, HealthyCounts,
           StagesProven, InPhase
<1>9. CASE Halt
  <2>1. TypeOK' /\ Unproven' = Unproven /\ stage' = stage
    BY <1>9 DEF Halt, TypeOK, Unproven, InPhase
  <2>. QED
    BY <1>9, <1>shrink, <2>1
       DEF Halt, TypeOK, FailureHalts, SentHasSlot, SlotNotAhead, HealthyCounts,
           StagesProven, InPhase
<1>10. CASE Advance
  <2>1. TypeOK' /\ Unproven' = Unproven /\ stage' = stage + 1
    BY <1>10 DEF Advance, TypeOK, Unproven, InPhase
  <2>2. Cardinality(Unproven) \in Nat
    BY SubsetCardinality DEF Unproven, InPhase
  <2>3. CapacityKept'
    BY <2>1, <2>2, CapacityMonotone DEF CapacityKept, TypeOK
  <2>4. stage \in validated
    BY <1>10 DEF Advance, HealthyCounts
  <2>5. StagesProven'
    BY <1>10, <2>4 DEF StagesProven, Advance, TypeOK
  <2>. QED
    BY <1>10, <2>1, <2>3, <2>5
       DEF Advance, TypeOK, FailureHalts, SentHasSlot, SlotNotAhead,
           HealthyCounts, InPhase
<1>11. CASE Retry
  <2>1. TypeOK' /\ Unproven' = Unproven /\ stage' = stage
    BY <1>11 DEF Retry, TypeOK, Phases, Unproven, InPhase
  <2>. QED
    BY <1>11, <1>shrink, <2>1
       DEF Retry, TypeOK, FailureHalts, SentHasSlot, SlotNotAhead, HealthyCounts,
           StagesProven, InPhase
<1>12. CASE UNCHANGED vars
  BY <1>12 DEF vars, TypeOK, CapacityKept, FailureHalts, SentHasSlot,
               SlotNotAhead, HealthyCounts, StagesProven, Unproven, InPhase
<1>. QED
  BY <1>1, <1>2, <1>3, <1>4, <1>5, <1>6, <1>7, <1>8, <1>9, <1>10, <1>11, <1>12
     DEF Next

\* The invariant gives the two promises.
LEMMA InvGives == Inv => ExposureBounded /\ CanaryFirst
<1>. SUFFICES ASSUME Inv PROVE ExposureBounded /\ CanaryFirst
  OBVIOUS
<1>1. ExposureBounded
  <2>1. sent \ InPhase({"healthy"}) \subseteq Unproven
    BY DEF Inv, SentHasSlot, Unproven, InPhase
  <2>2. /\ Cardinality(sent \ InPhase({"healthy"})) <= Cardinality(Unproven)
        /\ Cardinality(sent \ InPhase({"healthy"})) \in Nat
        /\ Cardinality(Unproven) \in Nat
    BY <2>1, SubsetCardinality DEF Inv, TypeOK, Unproven, InPhase
  <2>. QED
    BY <2>2, CapacityMonotone DEF Inv, TypeOK, CapacityKept, ExposureBounded
<1>2. CanaryFirst
  <2>. SUFFICES ASSUME 0 \notin validated
                PROVE  Cardinality(sent) <= CanaryCapacity
    <3>1. Cardinality(sent) \in Nat
      BY SubsetCardinality DEF Inv, TypeOK
    <3>. QED
      BY <3>1, PolicyAssumption DEF CanaryFirst
  <2>1. stage = 0
    BY DEF Inv, TypeOK, StagesProven
  <2>2. InPhase({"healthy"}) = {}
    BY <2>1 DEF Inv, TypeOK, SlotNotAhead, HealthyCounts, InPhase
  <2>3. sent \subseteq Unproven
    BY <2>2 DEF Inv, SentHasSlot, Unproven, InPhase
  <2>4. Cardinality(sent) <= Cardinality(Unproven)
        /\ Cardinality(sent) \in Nat /\ Cardinality(Unproven) \in Nat
    BY <2>3, SubsetCardinality DEF Inv, TypeOK, Unproven, InPhase
  <2>. QED
    BY <2>1, <2>4, PolicyAssumption DEF Inv, CapacityKept, Capacity
<1>. QED
  BY <1>1, <1>2

\* The policy never lets more than a stage's capacity of machines hold an
\* unvalidated candidate.
THEOREM PolicyExposure == Spec => []ExposureBounded
<1>1. Init => Inv
  BY InitInv
<1>2. Inv /\ [Next]_vars => Inv'
  BY NextInv
<1>3. Inv => ExposureBounded
  BY InvGives
<1>. QED
  BY <1>1, <1>2, <1>3, PTL DEF Spec

\* The policy never sends the candidate past the canary before stage 0
\* validated it.
THEOREM PolicyCanary == Spec => []CanaryFirst
<1>1. Init => Inv
  BY InitInv
<1>2. Inv /\ [Next]_vars => Inv'
  BY NextInv
<1>3. Inv => CanaryFirst
  BY InvGives
<1>. QED
  BY <1>1, <1>2, <1>3, PTL DEF Spec
==============================================================================
