------------------------------ MODULE PowerWindow ------------------------------
(***************************************************************************)
(* One 30 s accumulation window of the agent (powerAccumulator in          *)
(* agent/power_history.go) against the validation the hub applies to the   *)
(* bucket it becomes (validatePowerBatch in hub/power_history.go).  A      *)
(* bucket the hub refuses is refused again on every replay, together with  *)
(* the batch around it, so what the agent can emit must be acceptable.     *)
(* Watts are small integers; a mean is kept as its sum and count.          *)
(***************************************************************************)
EXTENDS Integers, Sequences, FiniteSets, SequencesExt

CONSTANTS
    Gpus,        \* sensor ids a poll may report
    Domains,     \* scalar domains of a machine: system, cpu, dram
    Sources,     \* backend labels of the scalar domains
    Watts,
    Expected,    \* samples a window expects
    MaxSensors,  \* powerhistory.MaxSensors
    MaxEvents    \* bound: samples of a behaviour

VARIABLES
    w,           \* powerWindowState
    gapPending,
    bucket,      \* the bucket of the last closed window, or Nothing
    seen,        \* what the open window observed: the device sets of the polls
                 \* summed into the total, the labels that reported by domain
    about,       \* the same for the bucket
    events

vars == <<w, gapPending, bucket, seen, about, events>>

Nothing == << >>
NoValue == -1   \* a sensor that answered without a reading
NothingSeen == [polls |-> {}, labels |-> [d \in Domains |-> {}]]
EmptyAcc == [n |-> 0, sum |-> 0, peak |-> 0]

NewWindow ==
    [order |-> << >>, gpus |-> << >>, total |-> EmptyAcc, sig |-> {}, mixed |-> FALSE,
     dom |-> [d \in Domains |-> [acc |-> EmptyAcc, source |-> Nothing, mixed |-> FALSE]],
     any |-> FALSE]

\* statsAcc.add under the cap of expected samples
Add(acc, watts) ==
    IF acc.n >= Expected THEN acc
    ELSE [n |-> acc.n + 1, sum |-> acc.sum + watts,
          peak |-> IF acc.n = 0 \/ watts > acc.peak THEN watts ELSE acc.peak]

-----------------------------------------------------------------------------
(* A poll: the sensors it lists, what each read (or NoValue), and   *)
(* whether it covers every sensor the sampler knows.                       *)

\* The readings of a poll are added up one after the other.
SumOf(reading) ==
    LET ids == SetToSeq(DOMAIN reading)
        sum[i \in 0..Len(ids)] == IF i = 0 THEN 0 ELSE sum[i - 1] + reading[ids[i]]
    IN sum[Len(ids)]

\* addGPUAt
AddGPU(ids, reading, complete) ==
    LET known == ToSet(w.order)
        room  == MaxSensors - Len(w.order)
        new   == SetToSeq(ids \ known)
        taken == SubSeq(new, 1, IF Len(new) > room THEN room ELSE Len(new))
        order == w.order \o taken
        had(i) == IF i <= Len(w.order) THEN w.gpus[i] ELSE EmptyAcc
        reads(i) == order[i] \in ids /\ reading[order[i]] # NoValue
        present == /\ complete /\ ids \subseteq ToSet(order)
                   /\ \A g \in ids : reading[g] # NoValue
        counted == present /\ w.total.n < Expected
    IN /\ events < MaxEvents /\ events' = events + 1
       /\ w' = [w EXCEPT
            !.order = order,
            !.gpus = [i \in DOMAIN order |->
                        IF reads(i) THEN Add(had(i), reading[order[i]]) ELSE had(i)],
            !.any = @ \/ \E i \in DOMAIN order : reads(i) /\ had(i).n < Expected,
            !.sig = IF complete /\ @ = {} THEN ids ELSE @,
            !.mixed = @ \/ (complete /\ w.sig # {} /\ w.sig # ids),
            !.total = IF counted THEN Add(@, SumOf(reading)) ELSE @]
       /\ seen' = IF counted THEN [seen EXCEPT !.polls = @ \cup {ids}] ELSE seen
       /\ UNCHANGED <<gapPending, bucket, about>>

\* Mutant: the backend of the first sample labels the window.
AddDomain_FirstLabel(d, source, watts) ==
    /\ events < MaxEvents /\ events' = events + 1
    /\ w' = [w EXCEPT
         !.dom[d].acc = Add(@, watts),
         !.dom[d].source = IF @ = Nothing THEN source ELSE @,
         !.any = TRUE]
    /\ seen' = [seen EXCEPT !.labels[d] = @ \cup {source}]
    /\ UNCHANGED <<gapPending, bucket, about>>

\* addDomainAt: a second backend makes the domain mixed, also past the cap.
AddDomain(d, source, watts) ==
    /\ events < MaxEvents /\ events' = events + 1
    /\ w' = [w EXCEPT
         !.dom[d].acc = Add(@, watts),
         !.dom[d].source = IF @ = Nothing THEN source ELSE @,
         !.dom[d].mixed = @ \/ w.dom[d].source \notin {Nothing, source},
         !.any = TRUE]
    /\ seen' = [seen EXCEPT !.labels[d] = @ \cup {source}]
    /\ UNCHANGED <<gapPending, bucket, about>>

-----------------------------------------------------------------------------
\* Mutant: the total survives a sensor seen outside the reference set.
TotalEmitted_AnyUnion == w.total.n > 0 /\ ~w.mixed

\* emit's condition on the GPU total.
TotalEmitted == w.total.n > 0 /\ ~w.mixed /\ Len(w.order) = Cardinality(w.sig)

DomainEmitted(d) == w.dom[d].acc.n > 0 /\ ~w.dom[d].mixed

Emitted ==
    [gap |-> gapPending, ids |-> w.order, gpus |-> w.gpus,
     total |-> IF TotalEmitted THEN w.total ELSE Nothing,
     dom |-> [d \in Domains |-> IF DomainEmitted(d)
                THEN [acc |-> w.dom[d].acc, source |-> w.dom[d].source] ELSE Nothing]]

\* roll closes the window: emit, unless nothing usable was seen.
Close ==
    LET usable == w.any /\ (w.order # << >> \/ \E d \in Domains : DomainEmitted(d))
    IN /\ w # NewWindow
       /\ bucket' = IF usable THEN Emitted ELSE Nothing
       /\ gapPending' = ~usable
       /\ w' = NewWindow
       /\ about' = seen /\ seen' = NothingSeen
       /\ UNCHANGED events

-----------------------------------------------------------------------------
(* The hub: validatePowerBatch on the sensors and the statistics of one    *)
(* bucket.  Not here: its times, which are the clock's; that watts are     *)
(* neither negative nor beyond a maximum, which every producer sees to     *)
(* reading by reading; and that a label comes with statistics, since emit  *)
(* appends the two together.                                               *)

\* validPowerStats: how many samples, and a mean that is not above the peak.
ValidStats(a) ==
    /\ a.n \in 0..Expected
    /\ a.n = 0 => a.sum = 0 /\ a.peak = 0
    /\ a.sum <= a.n * a.peak

ValidBucket(b) ==
    /\ Len(b.ids) <= MaxSensors
    /\ \A i, k \in DOMAIN b.ids : i # k => b.ids[i] # b.ids[k]
    /\ \A i \in DOMAIN b.gpus : ValidStats(b.gpus[i])
    /\ b.total # Nothing =>
         /\ ValidStats(b.total)
         /\ b.total.n > 0 => /\ b.gpus # << >>
                             /\ \A i \in DOMAIN b.gpus : b.total.n <= b.gpus[i].n
    /\ \A d \in Domains : b.dom[d] # Nothing => ValidStats(b.dom[d].acc)

-----------------------------------------------------------------------------
Init ==
    /\ w = NewWindow /\ gapPending = TRUE /\ bucket = Nothing
    /\ seen = NothingSeen /\ about = NothingSeen /\ events = 0

Sample ==
    \/ \E ids \in (SUBSET Gpus) \ {{}}, complete \in BOOLEAN :
         \E reading \in [ids -> Watts \cup {NoValue}] : AddGPU(ids, reading, complete)
    \/ \E d \in Domains, s \in Sources, x \in Watts : AddDomain(d, s, x)

Next == Sample \/ Close

Spec == Init /\ [][Next]_vars

\* Whatever devices come and go and however often a producer reports, the hub
\* accepts the bucket: no window the agent closes can block its replay queue.
EmittedIsAccepted == bucket # Nothing => ValidBucket(bucket)

\* A total is a sum over exactly the sensors reported beside it, and a domain's
\* statistics come from the one backend that labels them.
NothingBlended ==
    bucket # Nothing =>
        /\ bucket.total # Nothing => about.polls = {ToSet(bucket.ids)}
        /\ \A d \in Domains :
              bucket.dom[d] # Nothing => about.labels[d] = {bucket.dom[d].source}
=============================================================================
