------------------------------ MODULE PowerLedger ------------------------------
(***************************************************************************)
(* What power history promises of a bucket, without the journal, frames,   *)
(* tables and clocks that implement it (PowerHistory does, and refines     *)
(* this): the numbers of a stream are settled in their order and for good, *)
(* a run of lost ones before a run of stored ones at a time; the agent     *)
(* learns of it later, forgets none of it, and begins another stream with  *)
(* nothing settled.                                                        *)
(***************************************************************************)
EXTENDS Integers

CONSTANTS MaxStreams, MaxSeq

VARIABLES
    stored, lost,   \* the numbers of each stream the hub took, and gave up
    settled,        \* how far each stream is acknowledged
    mine, known     \* the agent's stream, and the acknowledgement it goes by

vars == <<stored, lost, settled, mine, known>>

Streams == 1..MaxStreams

Init ==
    /\ stored = [s \in Streams |-> {}] /\ lost = [s \in Streams |-> {}]
    /\ settled = [s \in Streams |-> 0]
    /\ mine = 1 /\ known = 0

\* The hub commits a batch: what lies before `kept' is lost, up to `through' stored.
Settle(s, kept, through) ==
    /\ kept > settled[s] /\ kept - 1 <= through
    /\ lost' = [lost EXCEPT ![s] = @ \cup settled[s] + 1..kept - 1]
    /\ stored' = [stored EXCEPT ![s] = @ \cup kept..through]
    /\ settled' = [settled EXCEPT ![s] = through]
    /\ UNCHANGED <<mine, known>>

\* An acknowledgement of the agent's stream reaches its journal, or was in its
\* directory when the process ended.
Learn ==
    /\ known' \in known + 1..settled[mine]
    /\ UNCHANGED <<stored, lost, settled, mine>>

\* The agent gives its stream up, with whatever was not settled.
Rotate ==
    /\ \E s \in Streams : s > mine /\ settled[s] = 0 /\ mine' = s
    /\ known' = 0
    /\ UNCHANGED <<stored, lost, settled>>

Next ==
    \/ \E s \in Streams, kept \in 1..MaxSeq + 1, through \in 0..MaxSeq : Settle(s, kept, through)
    \/ Learn \/ Rotate

Spec == Init /\ [][Next]_vars

----------------------------------------------------------------------------
\* Every number up to the acknowledged one has one outcome, no other has any, and
\* the agent goes by no more than that (commitPowerBatch, ack).
Accounted ==
    /\ \A s \in Streams : /\ stored[s] \cup lost[s] = 1..settled[s]
                          /\ stored[s] \cap lost[s] = {}
    /\ known <= settled[mine]

\* What was settled stays as it was (commitPowerBatch).
Unaltered ==
    \A s \in Streams : /\ stored[s] = stored'[s] \cap 1..settled[s]
                       /\ lost[s] = lost'[s] \cap 1..settled[s]
Final == [][Unaltered]_vars
================================================================================
