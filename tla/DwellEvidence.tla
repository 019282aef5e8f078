---------------------------- MODULE DwellEvidence ----------------------------
(***************************************************************************)
(* Health evidence of the staged agent rollout (hub/agent_rollout.go): what*)
(* one agent connection has proven about the candidate build.  These are   *)
(* the operators of rolloutEvidence; AgentRollout keeps one record per     *)
(* connection and applies them.                                            *)
(*                                                                         *)
(* The code stores the absolute times dwellStart and lastMetrics and only  *)
(* ever compares two differences, so a record keeps those differences:     *)
(*   dwell  = lastMetrics - dwellStart, or NoDwell when dwellStart is zero *)
(*   quiet  = now - lastMetrics, or Gap + 1 when there was no frame yet    *)
(* both saturating just above the last value a comparison can tell apart.  *)
(***************************************************************************)
EXTENDS Integers

CONSTANTS
    SHAs,      \* the builds an agent can run and the hub can serve
    NoSHA,     \* "" : no build
    Dwell,     \* rolloutDwell, in clock units
    Gap        \* rolloutTelemetryGap, in clock units

ASSUME DwellAssumption == Dwell \in Nat /\ Gap \in Nat
ASSUME NoSHAAssumption == NoSHA \notin SHAs

NoDwell == -1

Capped(t, max) == IF t > max THEN max ELSE t

\* One connection's record (rolloutEvidence).  gen = 0 is the zero value of
\* the struct: no generation has that number.
Evidence == [gen : Nat, cand : SHAs \cup {NoSHA}, saw : BOOLEAN,
             dwell : NoDwell..Dwell, quiet : 0..(Gap + 1)]

\* A connection without a record, and the zero record evidenceFor creates.
NoEvidence == [gen |-> 0, cand |-> NoSHA, saw |-> FALSE,
               dwell |-> NoDwell, quiet |-> Gap + 1]

\* A version report of build running received while the hub serves candidate
\* and the platform is at generation g.  A record about other bytes or another
\* generation starts over; a report of other bytes ends the dwell; a matching
\* report never starts one.
ObserveCandidateReport(e, g, running, candidate) ==
    LET same == e.gen = g /\ e.cand = candidate
        hit  == running = candidate
    IN [e EXCEPT !.gen = g,
                 !.cand = candidate,
                 !.saw = hit,
                 !.dwell = IF same /\ hit THEN e.dwell ELSE NoDwell]

\* Mutant: the frame overwrites lastMetrics before the silence is judged.
NoteMetrics_Launder(e) ==
    [e EXCEPT !.quiet = 0,
              !.dwell = IF ~e.saw THEN NoDwell
                        ELSE IF e.dwell = NoDwell THEN 0
                        ELSE Capped(e.dwell + e.quiet, Dwell)]

\* A metrics frame received now.  The silence that precedes it is judged before
\* lastMetrics is overwritten.
NoteMetrics(e) ==
    [e EXCEPT !.quiet = 0,
              !.dwell = IF ~e.saw THEN NoDwell
                        ELSE IF e.dwell = NoDwell \/ e.quiet > Gap THEN 0
                        ELSE Capped(e.dwell + e.quiet, Dwell)]

\* One unit of hub time passes.
Aged(e) == [e EXCEPT !.quiet = Capped(e.quiet + 1, Gap + 1)]

\* Mutant: it is not asked what the evidence is evidence for.
DwellSatisfied_AnyBuild(e, g, candidate) ==
    e.saw /\ e.dwell # NoDwell /\ e.quiet <= Gap /\ e.dwell >= Dwell

\* dwellSatisfied, for the record of the connection the registry holds now.
DwellSatisfied(e, g, candidate) ==
    /\ e.gen = g
    /\ e.cand = candidate
    /\ e.saw
    /\ e.dwell # NoDwell
    /\ e.quiet <= Gap
    /\ e.dwell >= Dwell
==============================================================================
