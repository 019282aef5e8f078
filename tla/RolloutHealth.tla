---------------------------- MODULE RolloutHealth ----------------------------
(***************************************************************************)
(* The dwell of one machine against what the hub really received.  Each    *)
(* socket of the machine has its evidence record (DwellEvidence, relative  *)
(* times, updated in place as the code does); a log keeps, by socket, every *)
(* frame the hub handled with its absolute receipt time.  The decision of  *)
(* dwellSatisfied is compared with a definition over the log.              *)
(***************************************************************************)
EXTENDS DwellEvidence, Sequences, FiniteSets

CONSTANTS
    Conns, NoConn,
    MaxTime,      \* bound: the clock
    MaxFrames,    \* bound: frames in the logs
    MaxGen        \* bound: generations

VARIABLES
    now,
    gen, cand,    \* the platform row the reports and tick read
    current,      \* the registry's connection of the machine
    open,         \* sockets whose handler is running
    ev,           \* evidence by connection
    log           \* frames handled on each socket that is open, in order

vars == <<now, gen, cand, current, open, ev, log>>

Init ==
    /\ now = 0
    /\ gen = 1 /\ cand \in SHAs
    /\ current = NoConn /\ open = {}
    /\ ev = [c \in Conns |-> NoEvidence] /\ log = [c \in Conns |-> << >>]

\* registerAgentConnection: a new socket takes the machine over.
Register(c) ==
    /\ c \notin open
    /\ open' = open \cup {c} /\ current' = c
    /\ UNCHANGED <<now, gen, cand, ev, log>>

\* unregisterAgentConnection: the handler drops its own record and, if it still
\* owns the machine, the registry entry.
Unregister(c) ==
    /\ c \in open
    /\ open' = open \ {c}
    /\ current' = IF current = c THEN NoConn ELSE current
    /\ ev' = [ev EXCEPT ![c] = NoEvidence]
    /\ log' = [log EXCEPT ![c] = << >>]
    /\ UNCHANGED <<now, gen, cand>>

Logged(c, frame) ==
    /\ Cardinality({p \in Conns \X (1..MaxFrames) : p[2] <= Len(log[p[1]])}) < MaxFrames
    /\ log' = [log EXCEPT ![c] = Append(@, frame)]

\* A report on c is handled: ownership was checked before, so c may have been
\* displaced since.  The candidate it is compared with is the served build,
\* which can differ from the platform's.
Report(c, running, expected) ==
    /\ c \in open
    /\ Logged(c, [kind |-> "report", time |-> now, gen |-> gen,
                  running |-> running, expected |-> expected])
    /\ ev' = [ev EXCEPT ![c] = ObserveCandidateReport(@, gen, running, expected)]
    /\ UNCHANGED <<now, gen, cand, current, open>>

Metrics(c) ==
    /\ c \in open
    /\ Logged(c, [kind |-> "metrics", time |-> now])
    /\ ev' = [ev EXCEPT ![c] = NoteMetrics(@)]
    /\ UNCHANGED <<now, gen, cand, current, open>>

NewGeneration(s) ==
    /\ gen < MaxGen /\ s # cand
    /\ gen' = gen + 1 /\ cand' = s
    /\ UNCHANGED <<now, current, open, ev, log>>

Elapse ==
    /\ now < MaxTime /\ now' = now + 1
    /\ ev' = [c \in Conns |-> Aged(ev[c])]
    /\ UNCHANGED <<gen, cand, current, open, log>>

Next == \/ \E c \in Conns : Register(c) \/ Unregister(c) \/ Metrics(c)
        \/ \E c \in Conns, running \in SHAs, expected \in SHAs :
              Report(c, running, expected)
        \/ \E s \in SHAs : NewGeneration(s)
        \/ Elapse

Spec == Init /\ [][Next]_vars

----------------------------------------------------------------------------
\* dwellSatisfied for the machine.
Satisfied == current # NoConn /\ DwellSatisfied(ev[current], gen, cand)

\* A report that does not confirm build b for generation g.
Refutes(f, g, b) ==
    f.kind = "report" /\ ~(f.gen = g /\ f.expected = b /\ f.running = b)

\* The metrics frames of a socket since it first confirmed build b for generation
\* g without a later report of anything else.
Window(frames, g, b) ==
    {frames[n] : n \in {n \in DOMAIN frames :
        /\ frames[n].kind = "metrics"
        /\ \E i \in 1..n - 1 : /\ frames[i].kind = "report"
                               /\ \A k \in i..Len(frames) : ~Refutes(frames[k], g, b)}}

\* What a dwell promises: on the socket that owns the machine now there are
\* metrics frames, since it reported the candidate, that span Dwell without a
\* silence longer than Gap, the last of them no older than Gap.
TrulyHealthy ==
    /\ current # NoConn
    /\ LET times == {f.time : f \in Window(log[current], gen, cand)}
       IN \E first, last \in times :
             /\ last - first >= Dwell
             /\ now - last <= Gap
             /\ \A t \in times : t <= last
             /\ \A t \in times : first <= t /\ t < last =>
                   \E u \in times : t < u /\ u - t <= Gap

\* The in-place record decides exactly what the frames received say: no dwell
\* is inherited across sockets, generations or silences, and none is lost.
DwellIsObserved == Satisfied <=> TrulyHealthy
==============================================================================
