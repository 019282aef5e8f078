-------------------------- MODULE AgentRolloutProofs --------------------------
(***************************************************************************)
(* Theorems about the staged agent rollout, for any fleet, any number of   *)
(* sockets and builds, any capacities and windows, and any number of       *)
(* restarts: type correctness, that a machine that was sent the build keeps*)
(* its slot, the send and deletion barriers, and that it implements        *)
(* RolloutPolicy, whose theorems it inherits.  One lemma per part of the   *)
(* inductive invariant, one step per action.                               *)
(***************************************************************************)
EXTENDS AgentRollout, TLAPS

\* Where the scheduler is in its tick: the platform is active, the slots it
\* still has to look at are live or were deleted, and so is the one it decides.
TickOK ==
    /\ pc \in {"check", "promote", "expire"} =>
          /\ status = "active"
          /\ \A m \in todo : state[m] \in Live \cup {"none"}
    /\ pc \in {"promote", "expire"} =>
          /\ cur \in Machines /\ cur \notin todo
          /\ state[cur] \in Live \cup {"none"}

\* Where it is in an announcement.  A deletion takes the registry entry with the
\* slot and a new socket is another one, so a reservation whose connection is
\* still registered still has its slot; and a reservation that may be released
\* belongs to a machine that was sent nothing.
AnnounceOK ==
    /\ pc \in {"withhold", "reserve", "send", "release", "write", "mark"} =>
          cur \in Machines /\ conn \in Conns
    /\ pc = "send" /\ registry[cur] = conn => state[cur] \in Live
    /\ pc = "send" /\ ~rsv.resend => cur \notin exposed
    /\ pc = "release" => cur \notin exposed

\* The build carried to the socket is the candidate of the platform row, and a
\* write happens behind the pause and the halt.
CarriedOK ==
    /\ pc \in {"send", "write"} => gen > 0 /\ sha = cand
    /\ pc = "write" => ~paused /\ status = "active"

\* What is registered exists, and what has a slot exists.
KnownOK == \A m \in Machines :
    (registry[m] # NoConn \/ state[m] # "none") => m \in known

\* What the hub's memory says of a socket: the registry names a machine's own
\* socket, a frame in progress and evidence belong to a socket that is open, and
\* evidence of the candidate is evidence of the process that runs now.
ConnOK ==
    /\ \A m \in Machines : registry[m] # NoConn => owner[registry[m]] = m
    /\ \A c \in Conns : ev[c].saw => owner[c] # NoMachine /\ proc[c] = ev[c].cand
    /\ \A c \in Conns : rep[c].at # "idle" => owner[c] # NoMachine
    /\ \A c \in Conns : rep[c].at = "observe" => proc[c] = rep[c].expected

\* The inductive invariant.
IInv == /\ TypeOK /\ TickOK /\ AnnounceOK /\ SentIsTracked /\ CarriedOK
        /\ KnownOK /\ ConnOK

\* A report changes evidence within its type.
LEMMA ReportType ==
    ASSUME NEW e \in Evidence, NEW g \in Nat,
           NEW r \in SHAs \cup {NoSHA}, NEW k \in SHAs \cup {NoSHA}
    PROVE  ObserveCandidateReport(e, g, r, k) \in Evidence
<1>. DEFINE d == IF e.gen = g /\ e.cand = k /\ r = k THEN e.dwell ELSE NoDwell
<1>1. d \in NoDwell..Dwell
  BY DwellAssumption DEF Evidence, NoDwell
<1>2. ObserveCandidateReport(e, g, r, k) =
        [e EXCEPT !.gen = g, !.cand = k, !.saw = (r = k), !.dwell = d]
  BY DEF ObserveCandidateReport
<1>. QED
  BY <1>1, <1>2 DEF Evidence

\* A metrics frame changes evidence within its type.
LEMMA MetricsType ==
    ASSUME NEW e \in Evidence PROVE NoteMetrics(e) \in Evidence
<1>. DEFINE d == IF ~e.saw THEN NoDwell
                 ELSE IF e.dwell = NoDwell \/ e.quiet > Gap THEN 0
                 ELSE Capped(e.dwell + e.quiet, Dwell)
<1>1. e.dwell \in NoDwell..Dwell /\ e.quiet \in 0..(Gap + 1)
  BY DEF Evidence
<1>2. d \in NoDwell..Dwell /\ 0 \in 0..(Gap + 1)
  BY <1>1, DwellAssumption DEF NoDwell, Capped
<1>3. NoteMetrics(e) = [e EXCEPT !.quiet = 0, !.dwell = d]
  BY DEF NoteMetrics
<1>. QED
  BY <1>2, <1>3 DEF Evidence

\* So does the passage of time.
LEMMA AgedType == ASSUME NEW e \in Evidence PROVE Aged(e) \in Evidence
BY DwellAssumption DEF Evidence, Aged, Capped

\* The initial values have their types.
LEMMA InitialTypes ==
    /\ NoEvidence \in Evidence
    /\ NoReservation \in Reservations
    /\ NoReport \in [at : {"idle", "file", "observe"}, expected : SHAs \cup {NoSHA}]
<1>1. NoEvidence \in Evidence
  BY DwellAssumption DEF Evidence, NoEvidence, NoDwell
<1>. QED
  BY <1>1 DEF NoReservation, Reservations, NoReport

\* The rows that are inserted or left behind are rows.
LEMMA RowTypes ==
    /\ NoRow \in Rows
    /\ \A s \in Nat : ReservedRow(s) \in Rows /\ WithheldRow(s) \in Rows
BY RolloutAssumption DEF Rows, Row, NoRow, ReservedRow, WithheldRow

\* The invariant holds when the hub first starts.
LEMMA InitIInv == Init => IInv
<1>. SUFFICES ASSUME Init PROVE IInv
  OBVIOUS
<1>1. TypeOK
  BY RowTypes, InitialTypes DEF Init, TypeOK, States, Live
<1>. QED
  BY <1>1 DEF Init, IInv, TickOK, AnnounceOK, SentIsTracked, CarriedOK, KnownOK,
     ConnOK, NoEvidence, NoReport

\* Every step preserves type correctness.
LEMMA TypeStep == IInv /\ [Next]_vars => TypeOK'
<1>. SUFFICES ASSUME IInv, [Next]_vars PROVE TypeOK'
  OBVIOUS
<1>. USE DEF IInv, platformVars, slotVars, otherVars, connVars, schedVars,
              historyVars
<1>1. CASE TickRead
  BY <1>1 DEF TickRead, TypeOK, States, Live, Outstanding, InState
<1>2. ASSUME NEW m \in Machines, TickCheck(m) PROVE TypeOK'
  BY <1>2 DEF TickCheck, Proven, TypeOK, States, Live
<1>3. CASE TickPromote
  <2>1. cur \in Machines
    BY <1>3 DEF TickPromote, TickOK
  <2>2. row[cur].stage \in Nat
    BY <2>1 DEF TypeOK, Rows
  <2>. QED
    BY <1>3, <2>1, <2>2 DEF TickPromote, TypeOK, States, Live
<1>4. CASE TickExpire
  BY <1>4 DEF TickExpire, FailSlot, TypeOK, States, Live, TickOK
<1>5. CASE TickAdvance
  BY <1>5 DEF TickAdvance, StageDone, TypeOK, States, Live
<1>6. CASE PassSnapshot
  BY <1>6 DEF PassSnapshot, TypeOK, States, Live
<1>7. CASE PassEnd
  BY <1>7 DEF PassEnd, TypeOK, States, Live
<1>8. ASSUME NEW m \in Machines, Announce(m) PROVE TypeOK'
  BY <1>8 DEF Announce, TypeOK, States, Live
<1>9. CASE BarrierRefuses
  BY <1>9, InitialTypes DEF BarrierRefuses, NextMachine, Registered, TypeOK,
       States, Live
<1>10. CASE Withhold
  <2>. USE RowTypes, InitialTypes
  <2>1. cur \in Machines
    BY <1>10 DEF Withhold, Refusable, AnnounceOK
  <2>2. CASE NewCandidate /\ OpenGeneration(cur, "withheld", WithheldRow(0))
    BY <1>10, <2>1, <2>2
       DEF Withhold, Refusable, NextMachine, OpenGeneration, TypeOK, States, Live
  <2>3. CASE ~NewCandidate
    BY <1>10, <2>1, <2>3 DEF Withhold, Refusable, NextMachine, SetSlot, TypeOK, States, Live
  <2>. QED
    BY <1>10, <2>2, <2>3 DEF Withhold
<1>11. CASE ReserveNewGeneration
  BY <1>11, RowTypes DEF ReserveNewGeneration, Registered, NewCandidate,
       OpenGeneration, Carry, TypeOK, States, Live, Reservations, AnnounceOK
<1>12. CASE ReserveStop
  BY <1>12, RowTypes, InitialTypes, SMTT(30) DEF ReserveStop, Reserving, Registered,
       NewCandidate, SetSlot, NextMachine, TypeOK, States, Live, AnnounceOK
<1>13. CASE ReserveSlot
  BY <1>13, RowTypes DEF ReserveSlot, Reserving, Registered, NewCandidate,
       SetSlot, Carry, TypeOK, States, Live, Reservations, AnnounceOK
<1>14. CASE ReserveFails
  BY <1>14, InitialTypes DEF ReserveFails, Reserving, Registered,
       NewCandidate, FailSlot, NextMachine, TypeOK, States, Live, AnnounceOK
<1>15. CASE ReserveResend
  <2>1. cur \in Machines
    BY <1>15 DEF ReserveResend, Reserving, AnnounceOK
  <2>2. row[cur] \in Rows
    BY <2>1 DEF TypeOK
  <2>3. [row[cur] EXCEPT !.resends = @ + 1] \in Rows /\ row[cur].attempt \in Nat
    BY <2>2 DEF Rows
  <2>. QED
    BY <1>15, <2>1, <2>3 DEF ReserveResend, Carry, TypeOK, Reservations
<1>16. CASE SendCheck
  BY <1>16, InitialTypes DEF SendCheck, MaySend, Registered, NextMachine,
       TypeOK, States, Live, AnnounceOK
<1>17. CASE ReleaseBeforeSend
  BY <1>17, RowTypes, InitialTypes DEF ReleaseBeforeSend, ReservationRow,
       SetSlot, NextMachine, TypeOK, States, Live, AnnounceOK
<1>18. CASE Write
  BY <1>18, InitialTypes DEF Write, NextMachine, TypeOK, States, Live
<1>19. CASE MarkOffered
  BY <1>19, InitialTypes DEF MarkOffered, ReservationRow, SetState,
       NextMachine, TypeOK, States, Live, AnnounceOK
<1>20. ASSUME NEW m \in Machines, NEW c \in Conns, NEW s \in SHAs, Connect(m, c, s) PROVE TypeOK'
  BY <1>20 DEF Connect, Unreferenced, Disturb, TypeOK, States, Live
<1>21. ASSUME NEW c \in Conns, Disconnect(c) PROVE TypeOK'
  BY <1>21, InitialTypes DEF Disconnect, TypeOK, States, Live
<1>22. ASSUME NEW c \in Conns, Metrics(c) PROVE TypeOK'
  BY <1>22, MetricsType DEF Metrics, MayIngest, Registered, TypeOK, States,
       Live
<1>23. ASSUME NEW c \in Conns, ReportBegin(c) PROVE TypeOK'
  BY <1>23, InitialTypes DEF ReportBegin, ReportStep, MayIngest, Registered,
       TypeOK, States, Live
<1>24. ASSUME NEW c \in Conns, ReportFile(c) PROVE TypeOK'
  <2>. DEFINE Reports == [at : {"idle", "file", "observe"},
                          expected : SHAs \cup {NoSHA}]
  <2>1. [rep[c] EXCEPT !.at = "observe"] \in Reports
    BY DEF TypeOK
  <2>2. rep' \in [Conns -> Reports]
    BY <1>24, <2>1, InitialTypes DEF ReportFile, ReportStep, TypeOK
  <2>3. ObserveCandidateReport(ev[c], gen, proc[c], rep[c].expected) \in Evidence
    BY ReportType DEF TypeOK
  <2>4. ev' \in [Conns -> Evidence]
    BY <1>24, <2>3 DEF ReportFile, TypeOK
  <2>. QED
    BY <1>24, <2>2, <2>4, ZenonT(60) DEF ReportFile, ReportStep, TypeOK
<1>25. ASSUME NEW c \in Conns, ReportObserve(c) PROVE TypeOK'
  BY <1>25, InitialTypes DEF ReportObserve, StillCandidate, Awaiting, ReportStep, SetState,
                             TypeOK,
       States, Live
<1>26. ASSUME NEW m \in Machines, Revoke(m) PROVE TypeOK'
  BY <1>26, InitialTypes DEF Revoke, Disturb, TypeOK, States, Live
<1>27. CASE Pause
  BY <1>27 DEF Pause, PauseLockFree, Disturb, TypeOK, States, Live
<1>28. CASE Resume
  <2>. DEFINE Reopened(m) == [row[m] EXCEPT !.attempt = @ + 1, !.resends = 0,
                                            !.grace = FALSE,
                                            !.left = AttemptTimeout]
  <2>1. ASSUME NEW m \in Machines PROVE Reopened(m) \in Rows
    <3>1. AttemptTimeout \in Int
      BY RolloutAssumption
    <3>2. row[m] \in Rows /\ row[m].attempt + 1 \in Nat
      BY DEF TypeOK, Rows
    <3>. QED
      BY <3>1, <3>2 DEF Rows
  <2>2. row' = [m \in Machines |-> IF state[m] = "failed" THEN Reopened(m)
                                                       ELSE row[m]]
    BY <1>28 DEF Resume
  <2>3. row' \in [Machines -> Rows]
    BY <2>1, <2>2 DEF TypeOK
  <2>4. state' \in [Machines -> States]
    BY <1>28 DEF Resume, TypeOK, States, Live
  <2>. QED
    BY <1>28, <2>3, <2>4 DEF Resume, TypeOK
<1>29. ASSUME NEW m \in Machines, DeleteMachine(m) PROVE TypeOK'
  <2>1. state' \in [Machines -> States] /\ row' \in [Machines -> Rows]
    BY <1>29, RowTypes DEF DeleteMachine, SetSlot, TypeOK, States
  <2>2. ev' \in [Conns -> Evidence]
    BY <1>29, InitialTypes DEF DeleteMachine, TypeOK
  <2>3. faults' \in Nat /\ known' \subseteq Machines /\ exposed' \subseteq Machines
    BY <1>29 DEF DeleteMachine, Disturb, TypeOK
  <2>4. /\ registry' \in [Machines -> Conns \cup {NoConn}]
        /\ reported' \in [Machines -> SHAs \cup {NoSHA}]
    BY <1>29 DEF DeleteMachine, TypeOK
  <2>. QED
    BY <1>29, <2>1, <2>2, <2>3, <2>4 DEF DeleteMachine, TypeOK
<1>30. CASE HubRestart
  <2>1. ASSUME NEW r \in Rows PROVE Extended(r) \in Rows
    <3>. DEFINE later == IF r.left > Grace THEN r.left ELSE Grace
    <3>1. later \in Int
      BY RolloutAssumption DEF Rows
    <3>2. Extended(r) = [r EXCEPT !.grace = TRUE, !.left = later]
      BY DEF Extended
    <3>. QED
      BY <3>1, <3>2 DEF Rows
  <2>2. row' = [m \in Machines |-> IF Graceable(m) THEN Extended(row[m]) ELSE row[m]]
    BY <1>30 DEF HubRestart
  <2>3. row' \in [Machines -> Rows]
    BY <2>1, <2>2 DEF TypeOK
  <2>4. ev' \in [Conns -> Evidence] /\ rsv' \in Reservations
    BY <1>30, InitialTypes DEF HubRestart
  <2>5. rep' \in [Conns -> [at : {"idle", "file", "observe"},
                           expected : SHAs \cup {NoSHA}]]
    BY <1>30, InitialTypes DEF HubRestart
  <2>6. faults' \in Nat
    <3>1. Disturb("crash") /\ faults \in Nat
      BY <1>30 DEF HubRestart, TypeOK
    <3>. QED
      BY <3>1 DEF Disturb
  <2>7. /\ registry' \in [Machines -> Conns \cup {NoConn}]
        /\ reported' \in [Machines -> SHAs \cup {NoSHA}]
        /\ owner' \in [Conns -> Machines \cup {NoMachine}]
        /\ proc' \in [Conns -> SHAs \cup {NoSHA}]
        /\ snap' \in [Machines -> Conns \cup {NoConn}]
    BY <1>30 DEF HubRestart
  <2>. QED
    BY <1>30, <2>3, <2>4, <2>5, <2>6, <2>7 DEF HubRestart, TypeOK
<1>31. CASE Elapse
  <2>1. \A m \in Machines :
          [row[m] EXCEPT !.left = IF @ < 0 THEN @ ELSE @ - 1] \in Rows
    BY DEF TypeOK, Rows
  <2>2. row' \in [Machines -> Rows] /\ ev' \in [Conns -> Evidence]
    BY <1>31, <2>1, AgedType DEF Elapse, TypeOK
  <2>. QED
    BY <1>31, <2>2 DEF Elapse, TypeOK
<1>32. ASSUME NEW s \in SHAs \cup {NoSHA}, ServeBinary(s) PROVE TypeOK'
  BY <1>32 DEF ServeBinary, Disturb, TypeOK, States, Live
<1>33. CASE UNCHANGED vars
  BY <1>33 DEF vars, TypeOK, States, Live
<1>. QED
  BY <1>1, <1>2, <1>3, <1>4, <1>5, <1>6, <1>7, <1>8, <1>9, <1>10, <1>11,
     <1>12, <1>13, <1>14, <1>15, <1>16, <1>17, <1>18, <1>19, <1>20, <1>21,
     <1>22, <1>23, <1>24, <1>25, <1>26, <1>27, <1>28, <1>29, <1>30, <1>31,
     <1>32, <1>33 DEF Next, Scheduler, Tick, Pass, Connections, Report,
     Operator, Environment

\* Every step preserves what the scheduler knows during a tick.
LEMMA TickStep == IInv /\ [Next]_vars => TickOK'
<1>. SUFFICES ASSUME IInv, [Next]_vars PROVE TickOK'
  OBVIOUS
<1>. USE DEF IInv, platformVars, slotVars, otherVars, connVars, schedVars,
              historyVars
<1>1. CASE TickRead
  BY <1>1 DEF TickRead, TickOK, TypeOK, Live, Outstanding, InState
<1>2. ASSUME NEW m \in Machines, TickCheck(m) PROVE TickOK'
  BY <1>2 DEF TickCheck, Proven, TickOK, TypeOK, Live
<1>3. CASE TickPromote
  BY <1>3 DEF TickPromote, TickOK, TypeOK, Live
<1>4. CASE TickExpire
  BY <1>4 DEF TickExpire, FailSlot, TickOK, TypeOK, Live
<1>5. CASE TickAdvance
  BY <1>5 DEF TickAdvance, StageDone, TickOK, TypeOK, Live
<1>6. CASE PassSnapshot
  BY <1>6 DEF PassSnapshot, TickOK, TypeOK, Live
<1>7. CASE PassEnd
  BY <1>7 DEF PassEnd, TickOK, TypeOK, Live
<1>8. ASSUME NEW m \in Machines, Announce(m) PROVE TickOK'
  BY <1>8 DEF Announce, TickOK, TypeOK, Live
<1>9. CASE BarrierRefuses
  BY <1>9 DEF BarrierRefuses, NextMachine, Registered, TickOK, TypeOK, Live
<1>10. CASE Withhold
  BY <1>10 DEF Withhold, Refusable, NextMachine, Registered, NewCandidate,
       OpenGeneration, SetSlot, TickOK, TypeOK, Live
<1>11. CASE ReserveNewGeneration
  BY <1>11 DEF ReserveNewGeneration, Registered, NewCandidate, OpenGeneration,
       Carry, TickOK, TypeOK, Live
<1>12. CASE ReserveStop
  BY <1>12 DEF ReserveStop, Reserving, Registered, NewCandidate, SetSlot,
       NextMachine, TickOK, TypeOK, Live
<1>13. CASE ReserveSlot
  BY <1>13 DEF ReserveSlot, Reserving, Registered, NewCandidate, SetSlot,
       Carry, TickOK, TypeOK, Live
<1>14. CASE ReserveFails
  BY <1>14 DEF ReserveFails, Reserving, Registered, NewCandidate, FailSlot,
       NextMachine, TickOK, TypeOK, Live
<1>15. CASE ReserveResend
  BY <1>15 DEF ReserveResend, Reserving, Registered, NewCandidate, Carry,
       TickOK, TypeOK, Live
<1>16. CASE SendCheck
  BY <1>16 DEF SendCheck, MaySend, Registered, NextMachine, TickOK, TypeOK,
       Live
<1>17. CASE ReleaseBeforeSend
  BY <1>17 DEF ReleaseBeforeSend, ReservationRow, SetSlot, NextMachine,
       TickOK, TypeOK, Live
<1>18. CASE Write
  BY <1>18 DEF Write, NextMachine, TickOK, TypeOK, Live
<1>19. CASE MarkOffered
  BY <1>19 DEF MarkOffered, ReservationRow, SetState, NextMachine, TickOK,
       TypeOK, Live
<1>20. ASSUME NEW m \in Machines, NEW c \in Conns, NEW s \in SHAs, Connect(m, c, s) PROVE TickOK'
  BY <1>20 DEF Connect, Unreferenced, Disturb, TickOK, TypeOK, Live
<1>21. ASSUME NEW c \in Conns, Disconnect(c) PROVE TickOK'
  BY <1>21 DEF Disconnect, TickOK, TypeOK, Live
<1>22. ASSUME NEW c \in Conns, Metrics(c) PROVE TickOK'
  BY <1>22 DEF Metrics, MayIngest, Registered, TickOK, TypeOK, Live
<1>23. ASSUME NEW c \in Conns, ReportBegin(c) PROVE TickOK'
  BY <1>23 DEF ReportBegin, ReportStep, MayIngest, Registered, TickOK, TypeOK,
       Live
<1>24. ASSUME NEW c \in Conns, ReportFile(c) PROVE TickOK'
  BY <1>24 DEF ReportFile, ReportStep, TickOK, TypeOK, Live
<1>25. ASSUME NEW c \in Conns, ReportObserve(c) PROVE TickOK'
  BY <1>25 DEF ReportObserve, StillCandidate, Awaiting, ReportStep, SetState, TickOK, TypeOK,
               Live
<1>26. ASSUME NEW m \in Machines, Revoke(m) PROVE TickOK'
  BY <1>26 DEF Revoke, Disturb, TickOK, TypeOK, Live
<1>27. CASE Pause
  BY <1>27 DEF Pause, PauseLockFree, Disturb, TickOK, TypeOK, Live
<1>28. CASE Resume
  BY <1>28 DEF Resume, PauseLockFree, InState, TickOK, TypeOK, Live
<1>29. ASSUME NEW m \in Machines, DeleteMachine(m) PROVE TickOK'
  BY <1>29 DEF DeleteMachine, Disturb, SetSlot, TickOK, TypeOK, Live
<1>30. CASE HubRestart
  BY <1>30 DEF HubRestart, Graceable, Extended, Disturb, TickOK, TypeOK, Live
<1>31. CASE Elapse
  BY <1>31 DEF Elapse, TickOK, TypeOK, Live
<1>32. ASSUME NEW s \in SHAs \cup {NoSHA}, ServeBinary(s) PROVE TickOK'
  BY <1>32 DEF ServeBinary, Disturb, TickOK, TypeOK, Live
<1>33. CASE UNCHANGED vars
  BY <1>33 DEF vars, TickOK, TypeOK, Live
<1>. QED
  BY <1>1, <1>2, <1>3, <1>4, <1>5, <1>6, <1>7, <1>8, <1>9, <1>10, <1>11,
     <1>12, <1>13, <1>14, <1>15, <1>16, <1>17, <1>18, <1>19, <1>20, <1>21,
     <1>22, <1>23, <1>24, <1>25, <1>26, <1>27, <1>28, <1>29, <1>30, <1>31,
     <1>32, <1>33 DEF Next, Scheduler, Tick, Pass, Connections, Report,
     Operator, Environment

\* Every step preserves what the scheduler knows during an announcement.
LEMMA AnnounceStep == IInv /\ [Next]_vars => AnnounceOK'
<1>. SUFFICES ASSUME IInv, [Next]_vars PROVE AnnounceOK'
  OBVIOUS
<1>. USE DEF IInv, platformVars, slotVars, otherVars, connVars, schedVars,
              historyVars
<1>1. CASE TickRead
  BY <1>1 DEF TickRead, AnnounceOK, TypeOK, Live
<1>2. ASSUME NEW m \in Machines, TickCheck(m) PROVE AnnounceOK'
  BY <1>2 DEF TickCheck, Proven, AnnounceOK, TypeOK, Live
<1>3. CASE TickPromote
  BY <1>3 DEF TickPromote, AnnounceOK, TypeOK, Live
<1>4. CASE TickExpire
  BY <1>4 DEF TickExpire, FailSlot, AnnounceOK, TypeOK, Live
<1>5. CASE TickAdvance
  BY <1>5 DEF TickAdvance, StageDone, AnnounceOK, TypeOK, Live
<1>6. CASE PassSnapshot
  BY <1>6 DEF PassSnapshot, AnnounceOK, TypeOK, Live
<1>7. CASE PassEnd
  BY <1>7 DEF PassEnd, AnnounceOK, TypeOK, Live
<1>8. ASSUME NEW m \in Machines, Announce(m) PROVE AnnounceOK'
  BY <1>8, RolloutAssumption DEF Announce, AnnounceOK, TypeOK, Live
<1>9. CASE BarrierRefuses
  BY <1>9 DEF BarrierRefuses, NextMachine, Registered, AnnounceOK, TypeOK,
       Live
<1>10. CASE Withhold
  BY <1>10 DEF Withhold, Refusable, NextMachine, Registered, NewCandidate,
       OpenGeneration, SetSlot, AnnounceOK, TypeOK, Live
<1>11. CASE ReserveNewGeneration
  BY <1>11 DEF ReserveNewGeneration, Registered, NewCandidate, OpenGeneration,
       Carry, AnnounceOK, TypeOK, Live
<1>12. CASE ReserveStop
  BY <1>12 DEF ReserveStop, Reserving, Registered, NewCandidate, SetSlot,
       NextMachine, AnnounceOK, TypeOK, Live
<1>13. CASE ReserveSlot
  BY <1>13 DEF ReserveSlot, Reserving, Registered, NewCandidate, SetSlot,
       Carry, AnnounceOK, TypeOK, Live, SentIsTracked, InState
<1>14. CASE ReserveFails
  BY <1>14 DEF ReserveFails, Reserving, Registered, NewCandidate, FailSlot,
       NextMachine, AnnounceOK, TypeOK, Live
<1>15. CASE ReserveResend
  BY <1>15 DEF ReserveResend, Reserving, Registered, NewCandidate, Carry,
       AnnounceOK, TypeOK, Live
<1>16. CASE SendCheck
  BY <1>16 DEF SendCheck, MaySend, Registered, NextMachine, AnnounceOK,
       TypeOK, Live
<1>17. CASE ReleaseBeforeSend
  BY <1>17 DEF ReleaseBeforeSend, ReservationRow, SetSlot, NextMachine,
       AnnounceOK, TypeOK, Live
<1>18. CASE Write
  BY <1>18 DEF Write, NextMachine, AnnounceOK, TypeOK, Live
<1>19. CASE MarkOffered
  BY <1>19 DEF MarkOffered, ReservationRow, SetState, NextMachine, AnnounceOK,
       TypeOK, Live
<1>20. ASSUME NEW m \in Machines, NEW c \in Conns, NEW s \in SHAs, Connect(m, c, s) PROVE AnnounceOK'
  BY <1>20 DEF Connect, Unreferenced, Disturb, AnnounceOK, TypeOK, Live
<1>21. ASSUME NEW c \in Conns, Disconnect(c) PROVE AnnounceOK'
  BY <1>21, RolloutAssumption DEF Disconnect, AnnounceOK, TypeOK, Live
<1>22. ASSUME NEW c \in Conns, Metrics(c) PROVE AnnounceOK'
  BY <1>22 DEF Metrics, MayIngest, Registered, AnnounceOK, TypeOK, Live
<1>23. ASSUME NEW c \in Conns, ReportBegin(c) PROVE AnnounceOK'
  BY <1>23 DEF ReportBegin, ReportStep, MayIngest, Registered, AnnounceOK,
       TypeOK, Live
<1>24. ASSUME NEW c \in Conns, ReportFile(c) PROVE AnnounceOK'
  BY <1>24 DEF ReportFile, ReportStep, AnnounceOK, TypeOK, Live
<1>25. ASSUME NEW c \in Conns, ReportObserve(c) PROVE AnnounceOK'
  BY <1>25 DEF ReportObserve, StillCandidate, Awaiting, ReportStep, SetState, AnnounceOK,
               TypeOK, Live
<1>26. ASSUME NEW m \in Machines, Revoke(m) PROVE AnnounceOK'
  BY <1>26, RolloutAssumption DEF Revoke, Disturb, AnnounceOK, TypeOK, Live
<1>27. CASE Pause
  BY <1>27 DEF Pause, PauseLockFree, Disturb, AnnounceOK, TypeOK, Live
<1>28. CASE Resume
  BY <1>28 DEF Resume, PauseLockFree, InState, AnnounceOK, TypeOK, Live
<1>29. ASSUME NEW m \in Machines, DeleteMachine(m) PROVE AnnounceOK'
  BY <1>29, RolloutAssumption DEF DeleteMachine, Disturb, SetSlot, AnnounceOK,
       TypeOK, Live
<1>30. CASE HubRestart
  BY <1>30 DEF HubRestart, Graceable, Extended, Disturb, AnnounceOK, TypeOK, Live
<1>31. CASE Elapse
  BY <1>31 DEF Elapse, AnnounceOK, TypeOK, Live
<1>32. ASSUME NEW s \in SHAs \cup {NoSHA}, ServeBinary(s) PROVE AnnounceOK'
  BY <1>32 DEF ServeBinary, Disturb, AnnounceOK, TypeOK, Live
<1>33. CASE UNCHANGED vars
  BY <1>33 DEF vars, AnnounceOK, TypeOK, Live
<1>. QED
  BY <1>1, <1>2, <1>3, <1>4, <1>5, <1>6, <1>7, <1>8, <1>9, <1>10, <1>11,
     <1>12, <1>13, <1>14, <1>15, <1>16, <1>17, <1>18, <1>19, <1>20, <1>21,
     <1>22, <1>23, <1>24, <1>25, <1>26, <1>27, <1>28, <1>29, <1>30, <1>31,
     <1>32, <1>33 DEF Next, Scheduler, Tick, Pass, Connections, Report,
     Operator, Environment

\* Every step keeps track of the machines that were sent the build.
LEMMA TrackedStep == IInv /\ [Next]_vars => SentIsTracked'
<1>. SUFFICES ASSUME IInv, [Next]_vars PROVE SentIsTracked'
  OBVIOUS
<1>. USE DEF IInv, platformVars, slotVars, otherVars, connVars, schedVars,
              historyVars
<1>1. CASE TickRead
  BY <1>1 DEF TickRead, SentIsTracked, InState, TypeOK, States, Live
<1>2. ASSUME NEW m \in Machines, TickCheck(m) PROVE SentIsTracked'
  BY <1>2 DEF TickCheck, Proven, SentIsTracked, InState, TypeOK, States, Live
<1>3. CASE TickPromote
  BY <1>3 DEF TickPromote, SentIsTracked, InState, TypeOK, States, Live,
       TickOK
<1>4. CASE TickExpire
  BY <1>4 DEF TickExpire, FailSlot, SentIsTracked, InState, TypeOK, States,
       Live, TickOK
<1>5. CASE TickAdvance
  BY <1>5 DEF TickAdvance, StageDone, SentIsTracked, InState, TypeOK, States,
       Live
<1>6. CASE PassSnapshot
  BY <1>6 DEF PassSnapshot, SentIsTracked, InState, TypeOK, States, Live
<1>7. CASE PassEnd
  BY <1>7 DEF PassEnd, SentIsTracked, InState, TypeOK, States, Live
<1>8. ASSUME NEW m \in Machines, Announce(m) PROVE SentIsTracked'
  BY <1>8 DEF Announce, SentIsTracked, InState, TypeOK, States, Live
<1>9. CASE BarrierRefuses
  BY <1>9 DEF BarrierRefuses, NextMachine, Registered, SentIsTracked, InState,
       TypeOK, States, Live
<1>10. CASE Withhold
  BY <1>10 DEF Withhold, Refusable, NextMachine, Registered, NewCandidate,
       OpenGeneration, SetSlot, SentIsTracked, InState, TypeOK, States, Live
<1>11. CASE ReserveNewGeneration
  BY <1>11 DEF ReserveNewGeneration, Registered, NewCandidate, OpenGeneration,
       Carry, SentIsTracked, InState, TypeOK, States, Live
<1>12. CASE ReserveStop
  BY <1>12 DEF ReserveStop, Reserving, Registered, NewCandidate, SetSlot,
       NextMachine, SentIsTracked, InState, TypeOK, States, Live
<1>13. CASE ReserveSlot
  BY <1>13 DEF ReserveSlot, Reserving, Registered, NewCandidate, SetSlot,
       Carry, SentIsTracked, InState, TypeOK, States, Live
<1>14. CASE ReserveFails
  BY <1>14 DEF ReserveFails, Reserving, Registered, NewCandidate, FailSlot,
       NextMachine, SentIsTracked, InState, TypeOK, States, Live
<1>15. CASE ReserveResend
  BY <1>15 DEF ReserveResend, Reserving, Registered, NewCandidate, Carry,
       SentIsTracked, InState, TypeOK, States, Live
<1>16. CASE SendCheck
  BY <1>16 DEF SendCheck, MaySend, Registered, NextMachine, SentIsTracked,
       InState, TypeOK, States, Live, AnnounceOK
<1>17. CASE ReleaseBeforeSend
  BY <1>17 DEF ReleaseBeforeSend, ReservationRow, SetSlot, NextMachine,
       SentIsTracked, InState, TypeOK, States, Live, AnnounceOK
<1>18. CASE Write
  BY <1>18 DEF Write, NextMachine, SentIsTracked, InState, TypeOK, States,
       Live
<1>19. CASE MarkOffered
  BY <1>19 DEF MarkOffered, ReservationRow, SetState, NextMachine,
       SentIsTracked, InState, TypeOK, States, Live
<1>20. ASSUME NEW m \in Machines, NEW c \in Conns, NEW s \in SHAs, Connect(m, c, s) PROVE SentIsTracked'
  BY <1>20 DEF Connect, Unreferenced, Disturb, SentIsTracked, InState, TypeOK,
       States, Live
<1>21. ASSUME NEW c \in Conns, Disconnect(c) PROVE SentIsTracked'
  BY <1>21 DEF Disconnect, SentIsTracked, InState, TypeOK, States, Live
<1>22. ASSUME NEW c \in Conns, Metrics(c) PROVE SentIsTracked'
  BY <1>22 DEF Metrics, MayIngest, Registered, SentIsTracked, InState, TypeOK,
       States, Live
<1>23. ASSUME NEW c \in Conns, ReportBegin(c) PROVE SentIsTracked'
  BY <1>23 DEF ReportBegin, ReportStep, MayIngest, Registered, SentIsTracked,
       InState, TypeOK, States, Live
<1>24. ASSUME NEW c \in Conns, ReportFile(c) PROVE SentIsTracked'
  BY <1>24 DEF ReportFile, ReportStep, SentIsTracked, InState, TypeOK, States,
       Live
<1>25. ASSUME NEW c \in Conns, ReportObserve(c) PROVE SentIsTracked'
  BY <1>25 DEF ReportObserve, StillCandidate, Awaiting, ReportStep, SetState, SentIsTracked,
               InState,
       TypeOK, States, Live
<1>26. ASSUME NEW m \in Machines, Revoke(m) PROVE SentIsTracked'
  BY <1>26 DEF Revoke, Disturb, SentIsTracked, InState, TypeOK, States, Live
<1>27. CASE Pause
  BY <1>27 DEF Pause, PauseLockFree, Disturb, SentIsTracked, InState, TypeOK,
       States, Live
<1>28. CASE Resume
  BY <1>28 DEF Resume, PauseLockFree, InState, SentIsTracked, TypeOK, States,
       Live
<1>29. ASSUME NEW m \in Machines, DeleteMachine(m) PROVE SentIsTracked'
  BY <1>29 DEF DeleteMachine, Disturb, SetSlot, SentIsTracked, InState,
       TypeOK, States, Live
<1>30. CASE HubRestart
  BY <1>30 DEF HubRestart, Graceable, Extended, Disturb, SentIsTracked, InState, TypeOK, States,
       Live
<1>31. CASE Elapse
  BY <1>31 DEF Elapse, SentIsTracked, InState, TypeOK, States, Live
<1>32. ASSUME NEW s \in SHAs \cup {NoSHA}, ServeBinary(s) PROVE SentIsTracked'
  BY <1>32 DEF ServeBinary, Disturb, SentIsTracked, InState, TypeOK, States,
       Live
<1>33. CASE UNCHANGED vars
  BY <1>33 DEF vars, SentIsTracked, InState, TypeOK, States, Live
<1>. QED
  BY <1>1, <1>2, <1>3, <1>4, <1>5, <1>6, <1>7, <1>8, <1>9, <1>10, <1>11,
     <1>12, <1>13, <1>14, <1>15, <1>16, <1>17, <1>18, <1>19, <1>20, <1>21,
     <1>22, <1>23, <1>24, <1>25, <1>26, <1>27, <1>28, <1>29, <1>30, <1>31,
     <1>32, <1>33 DEF Next, Scheduler, Tick, Pass, Connections, Report,
     Operator, Environment

\* Every step preserves the barrier around the write.
LEMMA CarriedStep == IInv /\ [Next]_vars => CarriedOK'
<1>. SUFFICES ASSUME IInv, [Next]_vars PROVE CarriedOK'
  OBVIOUS
<1>. USE DEF IInv, platformVars, slotVars, otherVars, connVars, schedVars,
              historyVars
<1>1. CASE TickRead
  BY <1>1 DEF TickRead, CarriedOK, TypeOK
<1>2. ASSUME NEW m \in Machines, TickCheck(m) PROVE CarriedOK'
  BY <1>2 DEF TickCheck, Proven, CarriedOK, TypeOK
<1>3. CASE TickPromote
  BY <1>3 DEF TickPromote, CarriedOK, TypeOK
<1>4. CASE TickExpire
  BY <1>4 DEF TickExpire, FailSlot, CarriedOK, TypeOK
<1>5. CASE TickAdvance
  BY <1>5 DEF TickAdvance, StageDone, CarriedOK, TypeOK
<1>6. CASE PassSnapshot
  BY <1>6 DEF PassSnapshot, CarriedOK, TypeOK
<1>7. CASE PassEnd
  BY <1>7 DEF PassEnd, CarriedOK, TypeOK
<1>8. ASSUME NEW m \in Machines, Announce(m) PROVE CarriedOK'
  BY <1>8 DEF Announce, CarriedOK, TypeOK
<1>9. CASE BarrierRefuses
  BY <1>9 DEF BarrierRefuses, NextMachine, Registered, CarriedOK, TypeOK
<1>10. CASE Withhold
  BY <1>10 DEF Withhold, Refusable, NextMachine, Registered, NewCandidate,
       OpenGeneration, SetSlot, CarriedOK, TypeOK
<1>11. CASE ReserveNewGeneration
  BY <1>11 DEF ReserveNewGeneration, Registered, NewCandidate, OpenGeneration,
       Carry, CarriedOK, TypeOK
<1>12. CASE ReserveStop
  BY <1>12 DEF ReserveStop, Reserving, Registered, NewCandidate, SetSlot,
       NextMachine, CarriedOK, TypeOK
<1>13. CASE ReserveSlot
  BY <1>13 DEF ReserveSlot, Reserving, Registered, NewCandidate, SetSlot,
       Carry, CarriedOK, TypeOK
<1>14. CASE ReserveFails
  BY <1>14 DEF ReserveFails, Reserving, Registered, NewCandidate, FailSlot,
       NextMachine, CarriedOK, TypeOK
<1>15. CASE ReserveResend
  BY <1>15 DEF ReserveResend, Reserving, Registered, NewCandidate, Carry,
       CarriedOK, TypeOK
<1>16. CASE SendCheck
  BY <1>16 DEF SendCheck, MaySend, Registered, NextMachine, CarriedOK, TypeOK
<1>17. CASE ReleaseBeforeSend
  BY <1>17 DEF ReleaseBeforeSend, ReservationRow, SetSlot, NextMachine,
       CarriedOK, TypeOK
<1>18. CASE Write
  BY <1>18 DEF Write, NextMachine, CarriedOK, TypeOK
<1>19. CASE MarkOffered
  BY <1>19 DEF MarkOffered, ReservationRow, SetState, NextMachine, CarriedOK,
       TypeOK
<1>20. ASSUME NEW m \in Machines, NEW c \in Conns, NEW s \in SHAs, Connect(m, c, s) PROVE CarriedOK'
  BY <1>20 DEF Connect, Unreferenced, Disturb, CarriedOK, TypeOK
<1>21. ASSUME NEW c \in Conns, Disconnect(c) PROVE CarriedOK'
  BY <1>21 DEF Disconnect, CarriedOK, TypeOK
<1>22. ASSUME NEW c \in Conns, Metrics(c) PROVE CarriedOK'
  BY <1>22 DEF Metrics, MayIngest, Registered, CarriedOK, TypeOK
<1>23. ASSUME NEW c \in Conns, ReportBegin(c) PROVE CarriedOK'
  BY <1>23 DEF ReportBegin, ReportStep, MayIngest, Registered, CarriedOK,
       TypeOK
<1>24. ASSUME NEW c \in Conns, ReportFile(c) PROVE CarriedOK'
  BY <1>24 DEF ReportFile, ReportStep, CarriedOK, TypeOK
<1>25. ASSUME NEW c \in Conns, ReportObserve(c) PROVE CarriedOK'
  BY <1>25 DEF ReportObserve, StillCandidate, Awaiting, ReportStep, SetState, CarriedOK, TypeOK
<1>26. ASSUME NEW m \in Machines, Revoke(m) PROVE CarriedOK'
  BY <1>26 DEF Revoke, Disturb, CarriedOK, TypeOK
<1>27. CASE Pause
  BY <1>27 DEF Pause, PauseLockFree, Disturb, CarriedOK, TypeOK
<1>28. CASE Resume
  BY <1>28 DEF Resume, PauseLockFree, InState, CarriedOK, TypeOK
<1>29. ASSUME NEW m \in Machines, DeleteMachine(m) PROVE CarriedOK'
  BY <1>29 DEF DeleteMachine, Disturb, SetSlot, CarriedOK, TypeOK
<1>30. CASE HubRestart
  BY <1>30 DEF HubRestart, Graceable, Extended, Disturb, CarriedOK, TypeOK
<1>31. CASE Elapse
  BY <1>31 DEF Elapse, CarriedOK, TypeOK
<1>32. ASSUME NEW s \in SHAs \cup {NoSHA}, ServeBinary(s) PROVE CarriedOK'
  BY <1>32 DEF ServeBinary, Disturb, CarriedOK, TypeOK
<1>33. CASE UNCHANGED vars
  BY <1>33 DEF vars, CarriedOK, TypeOK
<1>. QED
  BY <1>1, <1>2, <1>3, <1>4, <1>5, <1>6, <1>7, <1>8, <1>9, <1>10, <1>11,
     <1>12, <1>13, <1>14, <1>15, <1>16, <1>17, <1>18, <1>19, <1>20, <1>21,
     <1>22, <1>23, <1>24, <1>25, <1>26, <1>27, <1>28, <1>29, <1>30, <1>31,
     <1>32, <1>33 DEF Next, Scheduler, Tick, Pass, Connections, Report,
     Operator, Environment

\* Every step preserves that slots and sockets belong to machines.
LEMMA KnownStep == IInv /\ [Next]_vars => KnownOK'
<1>. SUFFICES ASSUME IInv, [Next]_vars PROVE KnownOK'
  OBVIOUS
<1>. USE DEF IInv, platformVars, slotVars, otherVars, connVars, schedVars,
              historyVars
<1>1. CASE TickRead
  BY <1>1 DEF TickRead, KnownOK, TypeOK, Live
<1>2. ASSUME NEW m \in Machines, TickCheck(m) PROVE KnownOK'
  BY <1>2 DEF TickCheck, Proven, KnownOK, TypeOK, Live
<1>3. CASE TickPromote
  BY <1>3 DEF TickPromote, KnownOK, TypeOK, Live
<1>4. CASE TickExpire
  BY <1>4 DEF TickExpire, FailSlot, KnownOK, TypeOK, Live
<1>5. CASE TickAdvance
  BY <1>5 DEF TickAdvance, StageDone, KnownOK, TypeOK, Live
<1>6. CASE PassSnapshot
  BY <1>6 DEF PassSnapshot, KnownOK, TypeOK, Live
<1>7. CASE PassEnd
  BY <1>7 DEF PassEnd, KnownOK, TypeOK, Live
<1>8. ASSUME NEW m \in Machines, Announce(m) PROVE KnownOK'
  BY <1>8 DEF Announce, KnownOK, TypeOK, Live
<1>9. CASE BarrierRefuses
  BY <1>9 DEF BarrierRefuses, NextMachine, Registered, KnownOK, TypeOK, Live
<1>10. CASE Withhold
  BY <1>10, RolloutAssumption DEF Withhold, Refusable, NextMachine, Registered,
       NewCandidate, OpenGeneration, SetSlot, KnownOK, TypeOK, Live,
       AnnounceOK
<1>11. CASE ReserveNewGeneration
  BY <1>11, RolloutAssumption DEF ReserveNewGeneration, Registered,
       NewCandidate, OpenGeneration, Carry, KnownOK, TypeOK, Live, AnnounceOK
<1>12. CASE ReserveStop
  BY <1>12 DEF ReserveStop, Reserving, Registered, NewCandidate, SetSlot,
       NextMachine, KnownOK, TypeOK, Live
<1>13. CASE ReserveSlot
  BY <1>13, RolloutAssumption DEF ReserveSlot, Reserving, Registered,
       NewCandidate, SetSlot, Carry, KnownOK, TypeOK, Live, AnnounceOK
<1>14. CASE ReserveFails
  BY <1>14 DEF ReserveFails, Reserving, Registered, NewCandidate, FailSlot,
       NextMachine, KnownOK, TypeOK, Live
<1>15. CASE ReserveResend
  BY <1>15 DEF ReserveResend, Reserving, Registered, NewCandidate, Carry,
       KnownOK, TypeOK, Live, AnnounceOK
<1>16. CASE SendCheck
  BY <1>16 DEF SendCheck, MaySend, Registered, NextMachine, KnownOK, TypeOK,
       Live
<1>17. CASE ReleaseBeforeSend
  BY <1>17 DEF ReleaseBeforeSend, ReservationRow, SetSlot, NextMachine,
       KnownOK, TypeOK, Live
<1>18. CASE Write
  BY <1>18 DEF Write, NextMachine, KnownOK, TypeOK, Live
<1>19. CASE MarkOffered
  BY <1>19 DEF MarkOffered, ReservationRow, SetState, NextMachine, KnownOK,
       TypeOK, Live
<1>20. ASSUME NEW m \in Machines, NEW c \in Conns, NEW s \in SHAs, Connect(m, c, s) PROVE KnownOK'
  BY <1>20, RolloutAssumption DEF Connect, Unreferenced, Disturb, KnownOK,
       TypeOK, Live
<1>21. ASSUME NEW c \in Conns, Disconnect(c) PROVE KnownOK'
  BY <1>21 DEF Disconnect, KnownOK, TypeOK, Live
<1>22. ASSUME NEW c \in Conns, Metrics(c) PROVE KnownOK'
  BY <1>22 DEF Metrics, MayIngest, Registered, KnownOK, TypeOK, Live
<1>23. ASSUME NEW c \in Conns, ReportBegin(c) PROVE KnownOK'
  BY <1>23 DEF ReportBegin, ReportStep, MayIngest, Registered, KnownOK,
       TypeOK, Live
<1>24. ASSUME NEW c \in Conns, ReportFile(c) PROVE KnownOK'
  BY <1>24 DEF ReportFile, ReportStep, KnownOK, TypeOK, Live
<1>25. ASSUME NEW c \in Conns, ReportObserve(c) PROVE KnownOK'
  BY <1>25 DEF ReportObserve, StillCandidate, Awaiting, ReportStep, SetState, KnownOK,
               TypeOK, Live
<1>26. ASSUME NEW m \in Machines, Revoke(m) PROVE KnownOK'
  BY <1>26 DEF Revoke, Disturb, KnownOK, TypeOK, Live
<1>27. CASE Pause
  BY <1>27 DEF Pause, PauseLockFree, Disturb, KnownOK, TypeOK, Live
<1>28. CASE Resume
  BY <1>28 DEF Resume, PauseLockFree, InState, KnownOK, TypeOK, Live
<1>29. ASSUME NEW m \in Machines, DeleteMachine(m) PROVE KnownOK'
  BY <1>29 DEF DeleteMachine, Disturb, SetSlot, KnownOK, TypeOK, Live
<1>30. CASE HubRestart
  BY <1>30 DEF HubRestart, Graceable, Extended, Disturb, KnownOK, TypeOK, Live
<1>31. CASE Elapse
  BY <1>31 DEF Elapse, KnownOK, TypeOK, Live
<1>32. ASSUME NEW s \in SHAs \cup {NoSHA}, ServeBinary(s) PROVE KnownOK'
  BY <1>32 DEF ServeBinary, Disturb, KnownOK, TypeOK, Live
<1>33. CASE UNCHANGED vars
  BY <1>33 DEF vars, KnownOK, TypeOK, Live
<1>. QED
  BY <1>1, <1>2, <1>3, <1>4, <1>5, <1>6, <1>7, <1>8, <1>9, <1>10, <1>11,
     <1>12, <1>13, <1>14, <1>15, <1>16, <1>17, <1>18, <1>19, <1>20, <1>21,
     <1>22, <1>23, <1>24, <1>25, <1>26, <1>27, <1>28, <1>29, <1>30, <1>31,
     <1>32, <1>33 DEF Next, Scheduler, Tick, Pass, Connections, Report,
     Operator, Environment

\* The scheduler reads the sockets and changes none.
LEMMA SchedulerLeavesSockets == Scheduler => UNCHANGED connVars
BY DEF Scheduler, Tick, Pass, TickRead, TickCheck, TickPromote, TickExpire,
       TickAdvance, PassSnapshot, PassEnd, Announce, BarrierRefuses, Withhold,
       ReserveNewGeneration, ReserveStop, ReserveSlot, ReserveFails,
       ReserveResend, SendCheck, ReleaseBeforeSend, Write, MarkOffered, connVars

\* A report that is taken for the candidate was the candidate.
LEMMA ReportedCandidate ==
    ASSUME NEW e \in Evidence, NEW g, NEW r, NEW k,
           ObserveCandidateReport(e, g, r, k).saw
    PROVE  ObserveCandidateReport(e, g, r, k).cand = r
BY DEF ObserveCandidateReport, Evidence

\* Every step preserves what a socket's records say of its process.
LEMMA ConnStep == IInv /\ [Next]_vars => ConnOK'
<1>. SUFFICES ASSUME IInv, [Next]_vars PROVE ConnOK'
  OBVIOUS
<1>. USE RolloutAssumption DEF IInv, connVars
<1>1. CASE Scheduler
  BY <1>1, SchedulerLeavesSockets DEF ConnOK
<1>2. ASSUME NEW m \in Machines, NEW c \in Conns, NEW s \in SHAs, Connect(m, c, s)
      PROVE  ConnOK'
  BY <1>2 DEF Connect, Unreferenced, Disturb, ConnOK, TypeOK
<1>3. ASSUME NEW c \in Conns, Disconnect(c) PROVE ConnOK'
  BY <1>3 DEF Disconnect, ConnOK, TypeOK, NoEvidence
<1>4. ASSUME NEW c \in Conns, Metrics(c) PROVE ConnOK'
  BY <1>4 DEF Metrics, ConnOK, TypeOK, Evidence, NoteMetrics
<1>5. ASSUME NEW c \in Conns, ReportBegin(c) PROVE ConnOK'
  BY <1>5 DEF ReportBegin, ReportStep, MayIngest, ConnOK, TypeOK
<1>6. ASSUME NEW c \in Conns, ReportFile(c) PROVE ConnOK'
  <2>1. /\ rep[c].at = "file" /\ UNCHANGED <<registry, owner, proc>>
        /\ rep' = [rep EXCEPT ![c] = IF proc[c] = rep[c].expected
                                    THEN [rep[c] EXCEPT !.at = "observe"]
                                    ELSE NoReport]
    BY <1>6 DEF ReportFile, ReportStep
  <2>2. \A d \in Conns : d # c => ev'[d] = ev[d] /\ rep'[d] = rep[d]
    BY <1>6 DEF ReportFile, ReportStep, TypeOK
  <2>3. ev'[c].saw => ev'[c] = ev[c] \/ proc[c] = ev'[c].cand
    BY <1>6, ReportedCandidate DEF ReportFile, TypeOK
  <2>4. /\ rep'[c].at # "file"
        /\ rep'[c].at = "observe" => proc[c] = rep'[c].expected
    BY <1>6, <2>1 DEF TypeOK, NoReport
  <2>. QED
    BY <2>1, <2>2, <2>3, <2>4 DEF ConnOK
<1>7. ASSUME NEW c \in Conns, ReportObserve(c) PROVE ConnOK'
  BY <1>7 DEF ReportObserve, ReportStep, ConnOK, TypeOK, NoReport
<1>8. ASSUME NEW m \in Machines, Revoke(m) PROVE ConnOK'
  BY <1>8 DEF Revoke, Disturb, ConnOK, TypeOK, NoEvidence
<1>9. CASE Pause \/ Resume
  BY <1>9 DEF Pause, Resume, ConnOK
<1>10. ASSUME NEW m \in Machines, DeleteMachine(m) PROVE ConnOK'
  BY <1>10 DEF DeleteMachine, Disturb, ConnOK, TypeOK, NoEvidence
<1>11. CASE HubRestart
  BY <1>11 DEF HubRestart, ConnOK, NoEvidence, NoReport
<1>12. CASE Elapse
  BY <1>12 DEF Elapse, ConnOK, TypeOK, Evidence, Aged
<1>13. ASSUME NEW s \in SHAs \cup {NoSHA}, ServeBinary(s) PROVE ConnOK'
  BY <1>13 DEF ServeBinary, ConnOK
<1>14. CASE UNCHANGED vars
  BY <1>14 DEF vars, ConnOK
<1>. QED
  BY <1>1, <1>2, <1>3, <1>4, <1>5, <1>6, <1>7, <1>8, <1>9, <1>10, <1>11,
     <1>12, <1>13, <1>14 DEF Next, Connections, Report, Operator, Environment

\* The inductive invariant holds of every state of the rollout.
LEMMA Invariance == Spec => []IInv
<1>1. IInv /\ [Next]_vars => IInv'
  BY TypeStep, TickStep, AnnounceStep, TrackedStep, CarriedStep, KnownStep, ConnStep
     DEF IInv
<1>. QED
  BY InitIInv, <1>1, PTL DEF Spec

\* Every variable of the rollout keeps its type.
THEOREM TypeCorrect == Spec => []TypeOK
<1>1. IInv => TypeOK
  BY DEF IInv
<1>. QED
  BY Invariance, <1>1, PTL

\* A machine that was sent this generation's build keeps its slot until it is
\* decided, whatever is refused, released or restarted.
THEOREM Tracked == Spec => []SentIsTracked
<1>1. IInv => SentIsTracked
  BY DEF IInv
<1>. QED
  BY Invariance, <1>1, PTL

\* Nothing is written to a socket while the rollout is paused or halted, or of a
\* build other than the candidate.
THEOREM Barrier == Spec => []SendBarrier
<1>1. IInv => SendBarrier
  BY DEF IInv, CarriedOK, SendBarrier
<1>. QED
  BY Invariance, <1>1, PTL

\* No slot outlives the deletion of its machine or is inserted after it.
THEOREM SlotsOfMachines == Spec => []SlotHasMachine
<1>1. IInv => SlotHasMachine
  BY DEF IInv, KnownOK, SlotHasMachine, InState
<1>. QED
  BY Invariance, <1>1, PTL

\* The scheduler comes to promote a slot only on the evidence of the connection
\* that the registry holds now.
LEMMA PromotionStep ==
    IInv /\ [Next]_vars =>
        (pc # "promote" /\ pc' = "promote" =>
            /\ registry[cur'] # NoConn
            /\ owner[registry[cur']] = cur'
            /\ proc[registry[cur']] = cand)
<1>. SUFFICES ASSUME IInv, [Next]_vars, pc # "promote", pc' = "promote"
              PROVE  /\ registry[cur'] # NoConn
                     /\ owner[registry[cur']] = cur'
                     /\ proc[registry[cur']] = cand
  OBVIOUS
<1>1. \E m \in Machines : TickCheck(m)
  <2>1. ~(Connections \/ Operator \/ Elapse \/ (\E s \in SHAs \cup {NoSHA} : ServeBinary(s)))
    BY DEF Connections, Connect, Disconnect, Metrics, Report, ReportBegin,
       ReportFile, ReportObserve, ReportStep, Revoke, Operator, Pause, Resume,
       DeleteMachine, Elapse, ServeBinary, schedVars
  <2>2. ~Pass
    BY DEF Pass, PassSnapshot, PassEnd, Announce, BarrierRefuses, Withhold,
       ReserveNewGeneration, ReserveStop, ReserveSlot, ReserveFails, Carry,
       ReserveResend, SendCheck, ReleaseBeforeSend, Write, MarkOffered, NextMachine
  <2>3. ~HubRestart /\ ~(UNCHANGED vars)
    BY DEF HubRestart, vars, schedVars
  <2>4. ~TickRead /\ ~TickPromote /\ ~TickExpire /\ ~TickAdvance
    BY DEF TickRead, TickPromote, TickExpire, TickAdvance
  <2>. QED
    BY <2>1, <2>2, <2>3, <2>4 DEF Next, Scheduler, Tick, Environment
<1>2. PICK m \in Machines : TickCheck(m)
  BY <1>1
<1>3. cur' = m /\ registry[m] # NoConn /\ DwellSatisfied(ev[registry[m]], gen, cand)
  BY <1>2 DEF TickCheck, Proven
<1>4. registry[m] \in Conns
  BY <1>3 DEF IInv, TypeOK
<1>5. ev[registry[m]].saw /\ ev[registry[m]].cand = cand
  BY <1>3 DEF DwellSatisfied
<1>6. owner[registry[m]] = m /\ proc[registry[m]] = cand
  BY <1>3, <1>4, <1>5 DEF IInv, ConnOK
<1>. QED
  BY <1>3, <1>6

\* The steps that change a slot.
LEMMA SlotSteps ==
    [Next]_vars =>
        \/ UNCHANGED slotVars
        \/ TickPromote \/ TickExpire \/ Withhold \/ ReserveNewGeneration
        \/ ReserveStop \/ ReserveSlot \/ ReserveFails \/ ReserveResend
        \/ ReleaseBeforeSend \/ MarkOffered
        \/ \E c \in Conns : ReportObserve(c)
        \/ Resume \/ \E m \in Machines : DeleteMachine(m)
        \/ HubRestart \/ Elapse
<1>1. Tick => UNCHANGED slotVars \/ TickPromote \/ TickExpire
  BY DEF Tick, TickRead, TickAdvance, TickCheck
<1>2. Pass => \/ UNCHANGED slotVars
              \/ Withhold \/ ReserveNewGeneration \/ ReserveStop \/ ReserveSlot
              \/ ReserveFails \/ ReserveResend \/ ReleaseBeforeSend \/ MarkOffered
  BY DEF Pass, PassSnapshot, PassEnd, Announce, BarrierRefuses, SendCheck, Write
<1>3. Connections => UNCHANGED slotVars \/ \E c \in Conns : ReportObserve(c)
  BY DEF Connections, Connect, Disconnect, Metrics, Report, ReportBegin, ReportFile, Revoke
<1>4. Operator => UNCHANGED slotVars \/ Resume \/ \E m \in Machines : DeleteMachine(m)
  BY DEF Operator, Pause
<1>5. Environment => UNCHANGED slotVars \/ HubRestart \/ Elapse
  BY DEF Environment, ServeBinary
<1>6. UNCHANGED vars => UNCHANGED slotVars
  BY DEF vars
<1>. QED
  BY <1>1, <1>2, <1>3, <1>4, <1>5, <1>6 DEF Next, Scheduler

\* What a step may make of a slot that is not observed yet.
ObservesRunning ==
    \A m \in Machines : state[m] # "observed" /\ state'[m] = "observed" =>
        \E c \in Conns : owner[c] = m /\ proc[c] = cand'

\* A slot is marked observed by the last step of a report, of a socket whose
\* process runs the candidate.
LEMMA ObservedStep == IInv /\ [Next]_vars => ObservesRunning
<1>. SUFFICES ASSUME IInv, [Next]_vars PROVE ObservesRunning
  OBVIOUS
<1>. USE DEF IInv, slotVars, ObservesRunning, TypeOK
<1>1. CASE TickPromote \/ TickExpire
  BY <1>1 DEF TickPromote, TickExpire, FailSlot
<1>2. CASE Withhold \/ ReserveNewGeneration
  BY <1>2 DEF Withhold, OpenGeneration, SetSlot, ReserveNewGeneration
<1>3. CASE ReserveStop \/ ReserveSlot \/ ReleaseBeforeSend \/ MarkOffered
  BY <1>3 DEF ReserveStop, ReserveSlot, ReleaseBeforeSend, MarkOffered, SetSlot, SetState
<1>4. CASE ReserveFails \/ ReserveResend
  BY <1>4 DEF ReserveFails, FailSlot, ReserveResend
<1>5. ASSUME NEW c \in Conns, ReportObserve(c) PROVE ObservesRunning
  BY <1>5 DEF ReportObserve, ReportStep, SetState, StillCandidate, platformVars, ConnOK
<1>6. CASE Resume
  BY <1>6 DEF Resume
<1>7. ASSUME NEW m \in Machines, DeleteMachine(m) PROVE ObservesRunning
  BY <1>7 DEF DeleteMachine, SetSlot
<1>8. CASE HubRestart \/ Elapse
  BY <1>8 DEF HubRestart, Elapse
<1>. QED
  BY <1>1, <1>2, <1>3, <1>4, <1>5, <1>6, <1>7, <1>8, SlotSteps

\* What a step may make of a decided slot.
KeepsDecided ==
    \A m \in Machines : state[m] \in {"healthy", "failed"} =>
        \/ state'[m] = state[m]
        \/ gen' # gen \/ m \notin known'
        \/ state[m] = "failed" /\ state'[m] = "reserved" /\ status' = "active"
             /\ row'[m].attempt = row[m].attempt + 1

\* The tick decides live slots only, and late marks, releases and reports find
\* that the slot is no longer theirs.
LEMMA DecidedStep == IInv /\ [Next]_vars => KeepsDecided
<1>. SUFFICES ASSUME IInv, [Next]_vars PROVE KeepsDecided
  OBVIOUS
<1>. USE DEF IInv, slotVars, KeepsDecided, TypeOK, Live
<1>1. CASE TickPromote \/ TickExpire
  <2>1. \A m \in Machines : m # cur => state'[m] = state[m]
    BY <1>1 DEF TickPromote, TickExpire, FailSlot
  <2>2. state[cur] \notin {"healthy", "failed"}
    BY <1>1 DEF TickPromote, TickExpire, TickOK
  <2>. QED
    BY <2>1, <2>2
<1>2. CASE Withhold \/ ReserveNewGeneration
  <2>1. CASE gen' = gen + 1
    BY <2>1
  <2>2. CASE gen' # gen + 1
    BY <1>2, <2>2 DEF Withhold, Refusable, OpenGeneration, SetSlot, ReserveNewGeneration
  <2>. QED
    BY <2>1, <2>2
<1>3. CASE ReserveStop \/ ReserveSlot
  BY <1>3 DEF ReserveStop, Reserving, ReserveSlot, SetSlot
<1>4. CASE ReleaseBeforeSend \/ MarkOffered
  BY <1>4 DEF ReleaseBeforeSend, MarkOffered, ReservationRow, SetSlot, SetState
<1>5. CASE ReserveFails \/ ReserveResend
  BY <1>5 DEF ReserveFails, FailSlot, ReserveResend
<1>6. ASSUME NEW c \in Conns, ReportObserve(c) PROVE KeepsDecided
  BY <1>6 DEF ReportObserve, Awaiting, SetState
<1>7. CASE Resume
  <2>1. ASSUME NEW m \in Machines, state[m] = "healthy" PROVE state'[m] = state[m]
    BY <1>7, <2>1 DEF Resume
  <2>2. ASSUME NEW m \in Machines, state[m] = "failed"
        PROVE  state'[m] = "reserved" /\ row'[m].attempt = row[m].attempt + 1
    <3>1. row'[m] = [row[m] EXCEPT !.attempt = @ + 1, !.resends = 0, !.grace = FALSE,
                                   !.left = AttemptTimeout]
      BY <1>7, <2>2 DEF Resume
    <3>2. row[m] \in Rows
      OBVIOUS
    <3>. QED
      BY <1>7, <2>2, <3>1, <3>2 DEF Resume, Rows
  <2>3. status' = "active"
    BY <1>7 DEF Resume
  <2>. QED
    BY <2>1, <2>2, <2>3
<1>8. ASSUME NEW m \in Machines, DeleteMachine(m) PROVE KeepsDecided
  BY <1>8 DEF DeleteMachine, SetSlot
<1>9. CASE HubRestart \/ Elapse
  BY <1>9 DEF HubRestart, Elapse
<1>. QED
  BY <1>1, <1>2, <1>3, <1>4, <1>5, <1>6, <1>7, <1>8, <1>9, SlotSteps

\* The extension of a restart never brings a deadline forward.
LEMMA ExtendedRow ==
    ASSUME NEW r \in Rows
    PROVE  /\ Extended(r).grace
           /\ Extended(r).left = r.left \/ Extended(r).left > r.left
BY RolloutAssumption DEF Extended, Rows

\* What a step may make of the deadline of a live attempt.
KeepsDeadline ==
    \A m \in Machines :
        /\ state[m] \in Live /\ state'[m] \in Live
        /\ gen' = gen /\ row'[m].attempt = row[m].attempt
        => \/ row'[m].left \in {row[m].left, row[m].left - 1}
           \/ ~row[m].grace /\ row'[m].grace /\ row'[m].left > row[m].left

\* Resends and marks leave the deadline, and the one grace of an attempt is used
\* by the restart that grants it.
LEMMA DeadlineStep == IInv /\ [Next]_vars => KeepsDeadline
<1>. SUFFICES ASSUME IInv, [Next]_vars PROVE KeepsDeadline
  OBVIOUS
<1>. USE RolloutAssumption DEF IInv, slotVars, KeepsDeadline, TypeOK, Live
<1>1. CASE TickPromote \/ TickExpire
  BY <1>1 DEF TickPromote, TickExpire, FailSlot
<1>2. CASE Withhold \/ ReserveNewGeneration
  <2>1. CASE gen' = gen + 1
    BY <2>1
  <2>2. CASE gen' # gen + 1
    BY <1>2, <2>2 DEF Withhold, Refusable, OpenGeneration, SetSlot, ReserveNewGeneration
  <2>. QED
    BY <2>1, <2>2
<1>3. CASE ReserveStop \/ ReserveSlot
  BY <1>3 DEF ReserveStop, Reserving, ReserveSlot, SetSlot
<1>4. CASE ReleaseBeforeSend \/ MarkOffered
  BY <1>4 DEF ReleaseBeforeSend, MarkOffered, SetSlot, SetState
<1>5. CASE ReserveFails \/ ReserveResend
  <2>1. CASE ReserveFails
    BY <2>1 DEF ReserveFails, FailSlot
  <2>2. CASE ReserveResend
    BY <2>2 DEF ReserveResend, Rows
  <2>. QED
    BY <1>5, <2>1, <2>2
<1>6. ASSUME NEW c \in Conns, ReportObserve(c) PROVE KeepsDeadline
  BY <1>6 DEF ReportObserve, SetState
<1>7. CASE Resume
  BY <1>7 DEF Resume
<1>8. ASSUME NEW m \in Machines, DeleteMachine(m) PROVE KeepsDeadline
  BY <1>8 DEF DeleteMachine, SetSlot
<1>9. CASE HubRestart
  <2>1. ASSUME NEW m \in Machines, row'[m] # row[m]
        PROVE  /\ ~row[m].grace /\ row'[m].grace
               /\ row'[m].left = row[m].left \/ row'[m].left > row[m].left
    <3>1. row[m] \in Rows /\ ~row[m].grace /\ row'[m] = Extended(row[m])
      BY <1>9, <2>1 DEF HubRestart, Graceable
    <3>. QED
      BY <3>1, ExtendedRow
  <2>. QED
    BY <2>1
<1>10. CASE Elapse
  BY <1>10 DEF Elapse, Rows
<1>. QED
  BY <1>1, <1>2, <1>3, <1>4, <1>5, <1>6, <1>7, <1>8, <1>9, <1>10, SlotSteps

\* A slot is promoted only on the word of the registered connection of its
\* machine, whose process runs the candidate at that moment.
THEOREM PromotionIsEarned == Spec => PromotionEarned
BY Invariance, PromotionStep, PTL DEF Spec, PromotionEarned

\* A slot is marked observed only while a socket of its machine runs the
\* candidate, whatever was served or opened during the report.
THEOREM ObservedRuns == Spec => ObservedIsRunning
<1>1. IInv /\ [Next]_vars => [ObservesRunning]_vars
  BY ObservedStep
<1>. QED
  BY Invariance, <1>1, PTL DEF Spec, ObservedIsRunning, ObservesRunning

\* A decided slot stays decided, but for the operator's resume, a new generation
\* and the deletion of its machine.
THEOREM DecidedStaysDecided == Spec => DecidedStays
<1>1. IInv /\ [Next]_vars => [KeepsDecided]_vars
  BY DecidedStep
<1>. QED
  BY Invariance, <1>1, PTL DEF Spec, DecidedStays, KeepsDecided

\* The deadline of a live attempt is extended at most once, by a restart, and
\* never brought forward.
THEOREM DeadlineIsFixed == Spec => DeadlineFixed
<1>1. IInv /\ [Next]_vars => [KeepsDeadline]_vars
  BY DeadlineStep
<1>. QED
  BY Invariance, <1>1, PTL DEF Spec, DeadlineFixed, KeepsDeadline

----------------------------------------------------------------------------
(***************************************************************************)
(* The staged rollout implements RolloutPolicy, and so inherits the        *)
(* theorems of RolloutPolicyProofs: bounded exposure and canary first.     *)
(***************************************************************************)

\* A row that keeps its stage under a slot that keeps its phase is the same slot
\* to the policy.
LEMMA SameSlots ==
    ASSUME \A m \in Machines : /\ PhaseOf(state'[m]) = PhaseOf(state[m])
                               /\ \/ row'[m].stage = row[m].stage
                                  \/ PhaseOf(state[m]) = "idle"
    PROVE  slotPhase' = slotPhase /\ slotStage' = slotStage
BY DEF slotPhase, slotStage

\* The phases of the states.
LEMMA PhaseFacts ==
    /\ \A s \in Live : PhaseOf(s) = "live"
    /\ PhaseOf("healthy") = "healthy" /\ PhaseOf("failed") = "failed"
    /\ PhaseOf("none") = "idle" /\ PhaseOf("withheld") = "idle"
    /\ PhaseOf("reserved") = "live" /\ PhaseOf("offered") = "live"
    /\ PhaseOf("observed") = "live"
BY DEF PhaseOf, Live

\* The policy's live slots are the outstanding ones.
LEMMA LiveSlots == TypeOK => Policy!InPhase({"live"}) = Outstanding
BY PhaseFacts DEF TypeOK, Policy!InPhase, Outstanding, InState, slotPhase, States,
                  PhaseOf, Live

\* The policy counts machines as the rollout does.
LEMMA SameCount ==
    /\ \A S : Policy!Cardinality(S) = Cardinality(S)
    /\ \A s : Policy!Capacity(s) = Capacity(s)
BY DEF Policy!Cardinality, Cardinality, Policy!Capacity, Capacity

\* Every step of the rollout is a step of the policy, or leaves what the policy
\* speaks of alone.
LEMMA PolicyStep == IInv /\ [Next]_vars => [Policy!Next]_(Policy!vars)
<1>. SUFFICES ASSUME IInv, [Next]_vars PROVE [Policy!Next]_(Policy!vars)
  OBVIOUS
<1>. USE DEF IInv, platformVars, slotVars, otherVars, connVars, schedVars,
             historyVars
<1>same. ASSUME UNCHANGED <<stage, status, exposed, validated>>,
                slotPhase' = slotPhase, slotStage' = slotStage
         PROVE  [Policy!Next]_(Policy!vars)
  BY <1>same DEF Policy!vars
<1>still. ASSUME UNCHANGED <<stage, status, slotVars, exposed, validated>>
          PROVE  [Policy!Next]_(Policy!vars)
  BY <1>still, <1>same DEF slotPhase, slotStage
<1>fail. ASSUME cur \in Machines, state[cur] \in Live \cup {"none"},
                status = "active", FailSlot(cur), UNCHANGED <<exposed, validated>>
         PROVE  [Policy!Next]_(Policy!vars)
  <2>1. CASE state[cur] = "none"
    <3>1. state' = state
      BY <1>fail, <2>1 DEF FailSlot, TypeOK
    <3>2. Policy!Halt
      BY <1>fail, <3>1 DEF FailSlot, Policy!Halt, slotPhase, slotStage
    <3>. QED
      BY <3>2 DEF Policy!Next
  <2>2. CASE state[cur] # "none"
    <3>1. /\ state' = [state EXCEPT ![cur] = "failed"]
          /\ row' = [row EXCEPT ![cur] = row[cur]]
      BY <1>fail, <2>2 DEF FailSlot, TypeOK
    <3>2. /\ slotPhase' = [slotPhase EXCEPT ![cur] = "failed"]
          /\ slotStage' = [slotStage EXCEPT ![cur] = row[cur].stage]
      BY <1>fail, <3>1, PhaseFacts DEF TypeOK, slotPhase, slotStage
    <3>3. slotPhase[cur] = "live" /\ slotStage[cur] = row[cur].stage
      BY <1>fail, <2>2, PhaseFacts DEF slotPhase, slotStage
    <3>4. slotStage' = slotStage
      BY <1>fail, <3>2, <3>3 DEF slotStage
    <3>5. Policy!Fail(cur)
      BY <1>fail, <3>2, <3>3, <3>4 DEF FailSlot, Policy!Fail
    <3>. QED
      BY <1>fail, <3>5 DEF Policy!Next
  <2>. QED
    BY <2>1, <2>2
<1>1. CASE TickRead
  BY <1>1, <1>still DEF TickRead
<1>2. ASSUME NEW m \in Machines, TickCheck(m)
      PROVE  [Policy!Next]_(Policy!vars)
  BY <1>2, <1>still DEF TickCheck
<1>3. CASE TickPromote
  <2>1. cur \in Machines /\ state[cur] \in Live \cup {"none"}
    BY <1>3 DEF TickPromote, TickOK
  <2>2. CASE state[cur] = "none"
    BY <1>3, <2>2, <1>still DEF TickPromote
  <2>3. CASE state[cur] # "none"
    <3>1. /\ state' = [state EXCEPT ![cur] = "healthy"]
          /\ row' = [row EXCEPT ![cur] = row[cur]]
          /\ validated' = validated \cup {row[cur].stage}
          /\ UNCHANGED <<stage, status, exposed>>
      BY <1>3, <2>3 DEF TickPromote, TypeOK
    <3>2. /\ slotPhase' = [slotPhase EXCEPT ![cur] = "healthy"]
          /\ slotStage' = [slotStage EXCEPT ![cur] = row[cur].stage]
      BY <2>1, <3>1, PhaseFacts DEF TypeOK, slotPhase, slotStage
    <3>3. slotPhase[cur] = "live" /\ slotStage[cur] = row[cur].stage
      BY <2>1, <2>3, PhaseFacts DEF slotPhase, slotStage
    <3>4. slotStage' = slotStage
      BY <2>1, <3>2, <3>3 DEF slotStage
    <3>5. Policy!Validate(cur)
      BY <3>1, <3>2, <3>3, <3>4 DEF Policy!Validate
    <3>. QED
      BY <2>1, <3>5 DEF Policy!Next
  <2>. QED
    BY <2>2, <2>3
<1>4. CASE TickExpire
  <2>1. cur \in Machines /\ state[cur] \in Live \cup {"none"} /\ status = "active"
    BY <1>4 DEF TickExpire, TickOK
  <2>2. FailSlot(cur) /\ UNCHANGED <<exposed, validated>>
    BY <1>4 DEF TickExpire
  <2>. QED
    BY <2>1, <2>2, <1>fail
<1>5. CASE TickAdvance
  <2>1. slotPhase' = slotPhase /\ slotStage' = slotStage
    BY <1>5 DEF TickAdvance, slotPhase, slotStage
  <2>2. CASE StageDone /\ stage < MaxStage
    <3>1. \A m \in Policy!InPhase({"live"}) : slotStage[m] # stage
      BY <2>2, LiveSlots, PhaseFacts
         DEF StageDone, Outstanding, InState, slotStage
    <3>2. \E m \in Policy!InPhase({"healthy"}) : slotStage[m] = stage
      BY <2>2, PhaseFacts
         DEF StageDone, InState, Policy!InPhase, slotPhase, slotStage
    <3>3. Policy!Advance
      BY <1>5, <2>1, <2>2, <3>1, <3>2 DEF TickAdvance, StageDone, Policy!Advance
    <3>. QED
      BY <3>3 DEF Policy!Next
  <2>3. CASE ~(StageDone /\ stage < MaxStage)
    BY <1>5, <2>1, <2>3, <1>same DEF TickAdvance
  <2>. QED
    BY <2>2, <2>3
<1>6. CASE PassSnapshot
  BY <1>6, <1>still DEF PassSnapshot
<1>7. CASE PassEnd
  BY <1>7, <1>still DEF PassEnd
<1>8. ASSUME NEW m \in Machines, Announce(m)
      PROVE  [Policy!Next]_(Policy!vars)
  BY <1>8, <1>still DEF Announce
<1>9. CASE BarrierRefuses
  BY <1>9, <1>still DEF BarrierRefuses, NextMachine
<1>10. CASE Withhold
  <2>1. cur \in Machines
    BY <1>10 DEF Withhold, Refusable, AnnounceOK
  <2>2. CASE NewCandidate
    <3>1. OpenGeneration(cur, "withheld", WithheldRow(0))
      BY <1>10, <2>2 DEF Withhold
    <3>2. /\ slotPhase' = [m \in Machines |-> "idle"]
          /\ slotStage' = [m \in Machines |-> 0]
      BY <3>1, PhaseFacts DEF OpenGeneration, slotPhase, slotStage
    <3>3. Policy!NewGeneration({})
      BY <3>1, <3>2 DEF OpenGeneration, Policy!NewGeneration
    <3>. QED
      BY <3>3 DEF Policy!Next
  <2>3. CASE ~NewCandidate
    <3>1. \A m \in Machines : \/ state'[m] = state[m] /\ row'[m] = row[m]
                              \/ state[m] = "none" /\ state'[m] = "withheld"
      BY <1>10, <2>1, <2>3 DEF Withhold, Refusable, SetSlot, TypeOK
    <3>2. slotPhase' = slotPhase /\ slotStage' = slotStage
      BY <3>1, SameSlots, PhaseFacts
    <3>. QED
      BY <1>10, <2>3, <3>2, <1>same DEF Withhold
  <2>. QED
    BY <2>2, <2>3
<1>11. CASE ReserveNewGeneration
  <2>1. cur \in Machines /\ OpenGeneration(cur, "reserved", ReservedRow(0))
    BY <1>11 DEF ReserveNewGeneration, AnnounceOK
  <2>2. \A m \in Machines : row'[m].stage = 0
    BY <2>1 DEF OpenGeneration, ReservedRow, NoRow, Row
  <2>3. /\ slotPhase' = [m \in Machines |-> IF m \in {cur} THEN "live" ELSE "idle"]
        /\ slotStage' = [m \in Machines |-> 0]
    BY <2>1, <2>2, PhaseFacts DEF OpenGeneration, slotPhase, slotStage
  <2>4. Policy!NewGeneration({cur})
    BY <2>1, <2>3 DEF OpenGeneration, Policy!NewGeneration
  <2>. QED
    BY <2>1, <2>4 DEF Policy!Next
<1>12. CASE ReserveStop
  <2>1. cur \in Machines /\ UNCHANGED <<stage, status, exposed, validated>>
    BY <1>12 DEF ReserveStop, AnnounceOK
  <2>2. \A m \in Machines :
          \/ state'[m] = state[m] /\ row'[m] = row[m]
          \/ state[m] \in {"none", "withheld"} /\ state'[m] = "none"
    BY <1>12, <2>1 DEF ReserveStop, SetSlot, TypeOK
  <2>3. slotPhase' = slotPhase /\ slotStage' = slotStage
    BY <2>2, SameSlots, PhaseFacts
  <2>. QED
    BY <2>1, <2>3, <1>same
<1>13. CASE ReserveSlot
  <2>1. /\ cur \in Machines /\ state[cur] \in {"none", "withheld"}
        /\ status = "active" /\ CapacityLeft
        /\ state' = [state EXCEPT ![cur] = "reserved"]
        /\ row' = [row EXCEPT ![cur] = ReservedRow(stage)]
        /\ UNCHANGED <<stage, status, exposed, validated>>
    BY <1>13 DEF ReserveSlot, Reserving, SetSlot, AnnounceOK
  <2>2. ReservedRow(stage) \in Rows /\ ReservedRow(stage).stage = stage
    BY RowTypes DEF TypeOK, ReservedRow, Row
  <2>3. /\ slotPhase' = [slotPhase EXCEPT ![cur] = "live"]
        /\ slotStage' = [slotStage EXCEPT ![cur] = stage]
    BY <2>1, <2>2, PhaseFacts DEF TypeOK, slotPhase, slotStage
  <2>4. slotPhase[cur] = "idle"
    BY <2>1, PhaseFacts DEF slotPhase
  <2>5. Cardinality(Policy!InPhase({"live"})) < Capacity(stage)
    BY <2>1, LiveSlots DEF CapacityLeft
  <2>6. Policy!Admit(cur)
    BY <2>1, <2>3, <2>4, <2>5, SameCount DEF Policy!Admit
  <2>. QED
    BY <2>1, <2>6 DEF Policy!Next
<1>14. CASE ReserveFails
  <2>1. /\ cur \in Machines /\ state[cur] \in Live /\ status = "active"
        /\ FailSlot(cur) /\ UNCHANGED <<exposed, validated>>
    BY <1>14 DEF ReserveFails, Reserving, AnnounceOK, Live
  <2>. QED
    BY <2>1, <1>fail
<1>15. CASE ReserveResend
  <2>1. cur \in Machines /\ UNCHANGED <<stage, status, exposed, validated>>
    BY <1>15 DEF ReserveResend, Reserving, AnnounceOK
  <2>2. \A m \in Machines : row'[m].stage = row[m].stage /\ state'[m] = state[m]
    BY <1>15, <2>1 DEF ReserveResend, TypeOK, Rows
  <2>3. slotPhase' = slotPhase /\ slotStage' = slotStage
    BY <2>2, SameSlots
  <2>. QED
    BY <2>1, <2>3, <1>same
<1>16. CASE SendCheck
  <2>1. slotPhase' = slotPhase /\ slotStage' = slotStage
    BY <1>16 DEF SendCheck, slotPhase, slotStage
  <2>2. CASE MaySend /\ exposed' = exposed \cup {cur}
    <3>1. cur \in Machines /\ state[cur] \in Live /\ status = "active"
      BY <1>16, <2>2 DEF SendCheck, MaySend, Registered, AnnounceOK
    <3>2. slotPhase[cur] = "live"
      BY <3>1, PhaseFacts DEF slotPhase
    <3>3. Policy!Send(cur)
      BY <1>16, <2>1, <2>2, <3>1, <3>2 DEF SendCheck, Policy!Send
    <3>. QED
      BY <3>1, <3>3 DEF Policy!Next
  <2>3. CASE UNCHANGED exposed
    BY <1>16, <2>1, <2>3, <1>same DEF SendCheck
  <2>. QED
    BY <1>16, <2>2, <2>3 DEF SendCheck
<1>17. CASE ReleaseBeforeSend
  <2>1. /\ cur \in Machines /\ cur \notin exposed
        /\ UNCHANGED <<stage, status, exposed, validated>>
    BY <1>17 DEF ReleaseBeforeSend, AnnounceOK
  <2>2. CASE ReservationRow
    <3>1. /\ state' = [state EXCEPT ![cur] = "none"]
          /\ row' = [row EXCEPT ![cur] = NoRow]
          /\ state[cur] = "reserved"
      BY <1>17, <2>2 DEF ReleaseBeforeSend, ReservationRow, SetSlot
    <3>2. /\ slotPhase' = [slotPhase EXCEPT ![cur] = "idle"]
          /\ slotStage' = [slotStage EXCEPT ![cur] = 0]
      BY <2>1, <3>1, PhaseFacts DEF TypeOK, slotPhase, slotStage
    <3>3. slotPhase[cur] = "live"
      BY <2>1, <3>1, PhaseFacts DEF slotPhase
    <3>4. Policy!Release(cur)
      BY <2>1, <3>2, <3>3 DEF Policy!Release
    <3>. QED
      BY <2>1, <3>4 DEF Policy!Next
  <2>3. CASE ~ReservationRow
    BY <1>17, <2>3, <1>still DEF ReleaseBeforeSend
  <2>. QED
    BY <2>2, <2>3
<1>18. CASE Write
  BY <1>18, <1>still DEF Write, NextMachine
<1>19. CASE MarkOffered
  <2>1. cur \in Machines /\ UNCHANGED <<stage, status, exposed, validated>>
    BY <1>19 DEF MarkOffered, AnnounceOK
  <2>2. \A m \in Machines : /\ row'[m] = row[m]
                            /\ \/ state'[m] = state[m]
                               \/ state[m] = "reserved" /\ state'[m] = "offered"
    BY <1>19, <2>1 DEF MarkOffered, ReservationRow, SetState, TypeOK
  <2>3. slotPhase' = slotPhase /\ slotStage' = slotStage
    BY <2>2, SameSlots, PhaseFacts
  <2>. QED
    BY <2>1, <2>3, <1>same
<1>20. ASSUME NEW m \in Machines, NEW c \in Conns, NEW s \in SHAs, Connect(m, c, s)
       PROVE  [Policy!Next]_(Policy!vars)
  BY <1>20, <1>still DEF Connect
<1>21. ASSUME NEW c \in Conns, Disconnect(c)
       PROVE  [Policy!Next]_(Policy!vars)
  BY <1>21, <1>still DEF Disconnect
<1>22. ASSUME NEW c \in Conns, Metrics(c)
       PROVE  [Policy!Next]_(Policy!vars)
  BY <1>22, <1>still DEF Metrics
<1>23. ASSUME NEW c \in Conns, ReportBegin(c)
       PROVE  [Policy!Next]_(Policy!vars)
  BY <1>23, <1>still DEF ReportBegin, ReportStep
<1>24. ASSUME NEW c \in Conns, ReportFile(c)
       PROVE  [Policy!Next]_(Policy!vars)
  BY <1>24, <1>still DEF ReportFile, ReportStep
<1>25. ASSUME NEW c \in Conns, ReportObserve(c)
       PROVE  [Policy!Next]_(Policy!vars)
  <2>1. UNCHANGED <<stage, status, exposed, validated>>
    BY <1>25 DEF ReportObserve, Awaiting, ReportStep
  <2>2. \A m \in Machines :
          /\ row'[m] = row[m]
          /\ \/ state'[m] = state[m]
             \/ state[m] \in {"reserved", "offered"} /\ state'[m] = "observed"
    BY <1>25 DEF ReportObserve, Awaiting, SetState, TypeOK
  <2>3. slotPhase' = slotPhase /\ slotStage' = slotStage
    BY <2>2, SameSlots, PhaseFacts
  <2>. QED
    BY <2>1, <2>3, <1>same
<1>26. ASSUME NEW m \in Machines, Revoke(m)
       PROVE  [Policy!Next]_(Policy!vars)
  BY <1>26, <1>still DEF Revoke
<1>27. CASE Pause
  BY <1>27, <1>still DEF Pause
<1>28. CASE Resume
  <2>1. ASSUME NEW m \in Machines PROVE row'[m].stage = row[m].stage
    <3>1. row[m] \in Rows
      BY DEF TypeOK
    <3>2. [row[m] EXCEPT !.attempt = @ + 1, !.resends = 0, !.grace = FALSE,
                         !.left = AttemptTimeout].stage = row[m].stage
      BY <3>1 DEF Rows
    <3>. QED
      BY <1>28, <3>2 DEF Resume
  <2>2. \A m \in Machines :
          state'[m] = IF state[m] = "failed" THEN "reserved" ELSE state[m]
    BY <1>28 DEF Resume
  <2>3. \A m \in Machines : PhaseOf(state[m]) = "failed" <=> state[m] = "failed"
    BY PhaseFacts DEF TypeOK, States, PhaseOf
  <2>4. /\ slotPhase' = [m \in Machines |-> IF slotPhase[m] = "failed" THEN "live"
                                                                ELSE slotPhase[m]]
        /\ slotStage' = slotStage
    BY <2>1, <2>2, <2>3, PhaseFacts DEF slotPhase, slotStage
  <2>5. Policy!Retry
    BY <1>28, <2>4 DEF Resume, Policy!Retry
  <2>. QED
    BY <2>5 DEF Policy!Next
<1>29. ASSUME NEW m \in Machines, DeleteMachine(m)
       PROVE  [Policy!Next]_(Policy!vars)
  <2>1. UNCHANGED <<stage, status, validated>>
    BY <1>29 DEF DeleteMachine
  <2>2. CASE SetSlot(m, "none", NoRow) /\ exposed' = exposed \ {m}
    <3>1. /\ slotPhase' = [slotPhase EXCEPT ![m] = "idle"]
          /\ slotStage' = [slotStage EXCEPT ![m] = 0]
      BY <1>29, <2>2, PhaseFacts DEF SetSlot, TypeOK, slotPhase, slotStage
    <3>2. Policy!Remove(m)
      BY <2>1, <2>2, <3>1 DEF Policy!Remove
    <3>. QED
      BY <1>29, <3>2 DEF Policy!Next
  <2>3. CASE UNCHANGED <<slotVars, exposed>>
    BY <2>1, <2>3, <1>still
  <2>. QED
    BY <1>29, <2>2, <2>3 DEF DeleteMachine
<1>30. CASE HubRestart
  <2>1. ASSUME NEW m \in Machines
        PROVE  row'[m].stage = row[m].stage /\ state'[m] = state[m]
    <3>1. row[m] \in Rows
      BY DEF TypeOK
    <3>2. Extended(row[m]).stage = row[m].stage
      BY <3>1 DEF Rows, Extended
    <3>. QED
      BY <1>30, <3>2 DEF HubRestart
  <2>2. slotPhase' = slotPhase /\ slotStage' = slotStage
    BY <2>1, SameSlots
  <2>. QED
    BY <1>30, <2>2, <1>same DEF HubRestart
<1>31. CASE Elapse
  <2>1. ASSUME NEW m \in Machines
        PROVE  row'[m].stage = row[m].stage /\ state'[m] = state[m]
    <3>1. row[m] \in Rows
      BY DEF TypeOK
    <3>2. [row[m] EXCEPT !.left = IF @ < 0 THEN @ ELSE @ - 1].stage = row[m].stage
      BY <3>1 DEF Rows
    <3>. QED
      BY <1>31, <3>2 DEF Elapse
  <2>2. slotPhase' = slotPhase /\ slotStage' = slotStage
    BY <2>1, SameSlots
  <2>. QED
    BY <1>31, <2>2, <1>same DEF Elapse
<1>32. ASSUME NEW s \in SHAs \cup {NoSHA}, ServeBinary(s)
       PROVE  [Policy!Next]_(Policy!vars)
  BY <1>32, <1>still DEF ServeBinary
<1>33. CASE UNCHANGED vars
  BY <1>33, <1>still DEF vars
<1>. QED
  BY <1>1, <1>2, <1>3, <1>4, <1>5, <1>6, <1>7, <1>8, <1>9, <1>10, <1>11,
     <1>12, <1>13, <1>14, <1>15, <1>16, <1>17, <1>18, <1>19, <1>20, <1>21,
     <1>22, <1>23, <1>24, <1>25, <1>26, <1>27, <1>28, <1>29, <1>30, <1>31,
     <1>32, <1>33 DEF Next, Scheduler, Tick, Pass, Connections, Report,
     Operator, Environment

\* The rollout starts where the policy starts.
LEMMA PolicyInit == Init => Policy!Init
BY PhaseFacts DEF Init, Policy!Init, slotPhase, slotStage

\* The rollout implements RolloutPolicy: whatever the scheduler, the sockets, the
\* operator and crashes do, capacity, halting, stages and slots are kept as the
\* policy says.
THEOREM Refinement == Spec => RefinesPolicy
<1>1. Init => Policy!Init
  BY PolicyInit
<1>2. IInv /\ [Next]_vars => [Policy!Next]_(Policy!vars)
  BY PolicyStep
<1>. QED
  BY <1>1, <1>2, Invariance, PTL DEF Spec, RefinesPolicy, Policy!Spec

----------------------------------------------------------------------------
(* What is proved of the policy holds of the rollout *)

Promise == INSTANCE RolloutPolicyProofs
             WITH phase <- slotPhase, at <- slotStage, sent <- exposed

\* The policy of the theorems is the one that is implemented.
LEMMA SamePolicy == [Policy!Next]_(Policy!vars) => [Promise!Next]_(Promise!vars)
BY DEF Policy!Next, Policy!vars, Policy!NewGeneration, Policy!Admit,
       Policy!Send, Policy!Release, Policy!Validate, Policy!Fail,
       Policy!Halt, Policy!Advance, Policy!Retry, Policy!Remove,
       Policy!InPhase, Policy!Capacity, Policy!Cardinality, Promise!Next,
       Promise!vars, Promise!NewGeneration, Promise!Admit, Promise!Send,
       Promise!Release, Promise!Validate, Promise!Fail, Promise!Halt,
       Promise!Advance, Promise!Retry, Promise!Remove, Promise!InPhase,
       Promise!Capacity, Promise!Cardinality

\* The policy's inductive invariant is one of the rollout, and gives its bounds.
LEMMA PromiseKept ==
    /\ Init => Promise!Inv
    /\ IInv /\ Promise!Inv /\ [Next]_vars => Promise!Inv'
    /\ Promise!Inv => ExposureBounded /\ CanaryFirst
<1>1. Promise!PolicyAssumption
  BY RolloutAssumption DEF Promise!PolicyAssumption, Promise!IsFiniteSet, IsFiniteSet
<1>2. Init => Promise!Inv
  BY <1>1, PolicyInit, Promise!InitInv DEF Policy!Init, Promise!Init
<1>3. IInv /\ Promise!Inv /\ [Next]_vars => Promise!Inv'
  BY <1>1, PolicyStep, SamePolicy, Promise!NextInv
<1>4. Promise!Inv => ExposureBounded /\ CanaryFirst
  <2>1. Promise!InPhase({"healthy"}) = InState({"healthy"})
    BY DEF Promise!InPhase, InState, slotPhase, PhaseOf, Live
  <2>2. /\ \A S : Promise!Cardinality(S) = Cardinality(S)
        /\ \A s : Promise!Capacity(s) = Capacity(s)
    BY DEF Promise!Cardinality, Cardinality, Promise!Capacity, Capacity
  <2>3. Promise!Inv => Promise!ExposureBounded /\ Promise!CanaryFirst
    BY <1>1, Promise!InvGives
  <2>. QED
    BY <2>1, <2>2, <2>3
       DEF Promise!ExposureBounded, Promise!CanaryFirst, ExposureBounded, CanaryFirst
<1>. QED
  BY <1>2, <1>3, <1>4

\* However often the hub restarts, resends, is resumed or loses machines, at most
\* a stage's capacity of machines hold a build they have not validated.
THEOREM Exposure == Spec => []ExposureBounded
BY PromiseKept, Invariance, PTL DEF Spec

\* And none but the canary is sent a build before the canary stage validated it.
THEOREM Canary == Spec => []CanaryFirst
BY PromiseKept, Invariance, PTL DEF Spec
==============================================================================
