------------------------- MODULE RolloutEvidenceProofs -------------------------
(***************************************************************************)
(* Theorem about the evidence a rollout promotes on, for any number of     *)
(* sockets and frames, any builds, generations, dwell and gap: the record  *)
(* a connection keeps, updated in place, decides what the log of its       *)
(* frames says.  The invariant relates each record to its log: the last    *)
(* report, the last metrics frame, and the span of the frames without a    *)
(* silence since the candidate was confirmed.                              *)
(***************************************************************************)
EXTENDS RolloutEvidence, WellFoundedInduction, TLAPS

Frames ==
    [kind : {"metrics"}, time : Nat] \cup
    [kind : {"report"}, time : Nat, gen : Nat, running : SHAs, expected : SHAs]

\* Frames are handled one after the other, none later than at time t.
InOrder(L, t) ==
    /\ \A i \in DOMAIN L : L[i].time <= t
    /\ \A i, k \in DOMAIN L : i <= k => L[i].time <= L[k].time

\* The last frame of a kind stands at position l.
LastAt(L, kind, l) ==
    /\ l \in DOMAIN L /\ L[l].kind = kind
    /\ \A k \in DOMAIN L : k > l => L[k].kind # kind
None(L, kind) == \A k \in DOMAIN L : L[k].kind # kind

\* What a record says of the last report.
Reported(L, e) ==
    \/ None(L, "report") /\ ~e.saw
    \/ \E l \in DOMAIN L :
          /\ LastAt(L, "report", l)
          /\ e.gen = L[l].gen /\ e.cand = L[l].expected
          /\ e.saw = (L[l].running = L[l].expected)

\* What it says of the last metrics frame.
Quiet(L, e, t) ==
    \/ None(L, "metrics") /\ e.quiet = HealthGap + 1
    \/ \E l \in DOMAIN L :
          LastAt(L, "metrics", l) /\ e.quiet = Health!Capped(t - L[l].time, HealthGap + 1)

\* The positions of the frames in a window, and their times.
Marks(L, g, b) ==
    {n \in DOMAIN L :
        /\ L[n].kind = "metrics"
        /\ \E i \in 1..n - 1 : /\ L[i].kind = "report"
                               /\ \A k \in i..Len(L) : ~Health!Refutes(L[k], g, b)}
Times(L, g, b) == {L[n].time : n \in Marks(L, g, b)}

\* Time s begins the last run of times without a silence, which ends at l.
Run(T, s, l) ==
    /\ s \in T /\ l \in T
    /\ \A t \in T : t <= l
    /\ \A t \in T : s <= t /\ t < l => \E u \in T : t < u /\ u - t <= HealthGap
    /\ \A t \in T : t < s => s - t > HealthGap
Spans(d, T) ==
    \/ T = {} /\ d = Health!NoDwell
    \/ \E s, l \in T : Run(T, s, l) /\ d = Health!Capped(l - s, HealthDwell)

Dwelt(L, e) ==
    IF e.saw THEN Spans(e.dwell, Times(L, e.gen, e.cand)) ELSE e.dwell = Health!NoDwell

\* A record fits its log.
Fits(L, e, t) == InOrder(L, t) /\ Reported(L, e) /\ Quiet(L, e, t) /\ Dwelt(L, e)

HealthType ==
    /\ clock \in Nat /\ hgen \in Nat /\ hcand \in SHAs
    /\ current \in Sockets \cup {NoSocket} /\ open \subseteq Sockets
    /\ sevid \in [Sockets -> Health!Evidence] /\ frames \in [Sockets -> Seq(Frames)]

HealthInv == HealthType /\ \A c \in Sockets : Fits(frames[c], sevid[c], clock)

----------------------------------------------------------------------------
\* What a frame at the end of a log leaves where it was.
LEMMA AppendFacts ==
    ASSUME NEW L \in Seq(Frames), NEW f \in Frames
    PROVE  /\ Append(L, f) \in Seq(Frames)
           /\ Len(L) \in Nat /\ Len(Append(L, f)) = Len(L) + 1
           /\ DOMAIN L = 1..Len(L) /\ DOMAIN Append(L, f) = 1..Len(L) + 1
           /\ \A i \in 1..Len(L) : Append(L, f)[i] = L[i] /\ L[i] \in Frames
           /\ Append(L, f)[Len(L) + 1] = f
OBVIOUS

\* The times are kept in order.
LEMMA AppendInOrder ==
    ASSUME NEW L \in Seq(Frames), NEW f \in Frames, InOrder(L, f.time)
    PROVE  InOrder(Append(L, f), f.time)
<1>1. f.time \in Nat /\ \A i \in 1..Len(L) : L[i].time \in Nat
  BY AppendFacts DEF Frames
<1>. QED
  BY <1>1, AppendFacts DEF InOrder

\* A new frame is the last of its kind, and leaves the last of the other kind.
LEMMA AppendLast ==
    ASSUME NEW L \in Seq(Frames), NEW f \in Frames
    PROVE  /\ LastAt(Append(L, f), f.kind, Len(L) + 1)
           /\ \A k \in {"metrics", "report"} : k # f.kind =>
                /\ None(L, k) => None(Append(L, f), k)
                /\ \A l \in DOMAIN L : LastAt(L, k, l) => LastAt(Append(L, f), k, l)
BY AppendFacts DEF LastAt, None

\* A metrics frame enters the window if the last report confirms the build.
LEMMA MarksOfMetrics ==
    ASSUME NEW L \in Seq(Frames), NEW f \in Frames, f.kind = "metrics", NEW g, NEW b,
           NEW l \in DOMAIN L, LastAt(L, "report", l), ~Health!Refutes(L[l], g, b)
    PROVE  Marks(Append(L, f), g, b) = Marks(L, g, b) \cup {Len(L) + 1}
<1> DEFINE M == Append(L, f)
           n == Len(L)
<1>1. /\ n \in Nat /\ Len(M) = n + 1 /\ DOMAIN L = 1..n /\ DOMAIN M = 1..n + 1
      /\ \A i \in 1..n : M[i] = L[i]
      /\ M[n + 1] = f
  BY AppendFacts
<1> HIDE DEF M, n
<1>2. ~Health!Refutes(M[n + 1], g, b)
  BY <1>1 DEF Health!Refutes
<1>3. \A i \in 1..n : (\A k \in i..n + 1 : ~Health!Refutes(M[k], g, b))
                        <=> (\A k \in i..n : ~Health!Refutes(L[k], g, b))
  <2>1. ASSUME NEW i \in 1..n, NEW k \in i..n PROVE M[k] = L[k]
    BY <1>1
  <2>2. ASSUME NEW i \in 1..n, NEW k \in i..n + 1 PROVE k = n + 1 \/ k \in i..n
    BY <1>1
  <2>3. ASSUME NEW i \in 1..n PROVE i..n \subseteq i..n + 1
    BY <1>1
  <2>. QED
    BY <1>2, <2>1, <2>2, <2>3
<1>4. \A k \in l..n : ~Health!Refutes(L[k], g, b)
  BY <1>1 DEF LastAt, Health!Refutes
<1>5. l \in 1..n /\ M[l].kind = "report"
  BY <1>1 DEF LastAt
<1>6. n + 1 \in Marks(M, g, b)
  BY <1>1, <1>3, <1>4, <1>5 DEF Marks
<1>7. \A i \in 1..n : i \in Marks(M, g, b) <=> i \in Marks(L, g, b)
  <2>1. ASSUME NEW i \in 1..n PROVE 1..i - 1 \subseteq 1..n
    BY <1>1
  <2>. QED
    BY <1>1, <1>3, <2>1 DEF Marks
<1>8. Marks(M, g, b) \subseteq 1..n + 1 /\ Marks(L, g, b) \subseteq 1..n /\ n + 1 \notin 1..n
  BY <1>1 DEF Marks
<1>9. 1..n + 1 = 1..n \cup {n + 1}
  BY <1>1
<1>. QED
  BY <1>6, <1>7, <1>8, <1>9 DEF M, n

\* A report that confirms the build leaves the window alone; one that does not
\* empties it.
LEMMA MarksOfReport ==
    ASSUME NEW L \in Seq(Frames), NEW f \in Frames, f.kind = "report", NEW g, NEW b
    PROVE  Marks(Append(L, f), g, b) = IF Health!Refutes(f, g, b) THEN {} ELSE Marks(L, g, b)
<1> DEFINE M == Append(L, f)
           n == Len(L)
<1>1. /\ n \in Nat /\ Len(M) = n + 1 /\ DOMAIN L = 1..n /\ DOMAIN M = 1..n + 1
      /\ \A i \in 1..n : M[i] = L[i]
      /\ M[n + 1] = f
  BY AppendFacts
<1> HIDE DEF M, n
<1>2. Marks(M, g, b) \subseteq 1..n /\ Marks(L, g, b) \subseteq 1..n
  BY <1>1 DEF Marks
<1>3. CASE Health!Refutes(f, g, b)
  <2>1. ASSUME NEW i \in 1..n PROVE n + 1 \in i..n + 1
    BY <1>1
  <2>2. ASSUME NEW k \in 1..n, NEW i \in 1..k - 1 PROVE i \in 1..n
    BY <1>1
  <2>3. Marks(M, g, b) = {}
    BY <1>1, <1>2, <1>3, <2>1, <2>2 DEF Marks
  <2>. QED
    BY <1>3, <2>3 DEF M
<1>4. CASE ~Health!Refutes(f, g, b)
  <2>1. \A i \in 1..n : (\A k \in i..n + 1 : ~Health!Refutes(M[k], g, b))
                          <=> (\A k \in i..n : ~Health!Refutes(L[k], g, b))
    <3>1. ASSUME NEW i \in 1..n, NEW k \in i..n PROVE M[k] = L[k]
      BY <1>1
    <3>2. ASSUME NEW i \in 1..n, NEW k \in i..n + 1 PROVE k = n + 1 \/ k \in i..n
      BY <1>1
    <3>3. ASSUME NEW i \in 1..n PROVE i..n \subseteq i..n + 1
      BY <1>1
    <3>. QED
      BY <1>1, <1>4, <3>1, <3>2, <3>3
  <2>2. \A i \in 1..n : i \in Marks(M, g, b) <=> i \in Marks(L, g, b)
    <3>1. ASSUME NEW i \in 1..n PROVE 1..i - 1 \subseteq 1..n
      BY <1>1
    <3>. QED
      BY <1>1, <2>1, <3>1 DEF Marks
  <2>. QED
    BY <1>2, <1>4, <2>2 DEF M, n
<1>. QED
  BY <1>3, <1>4

\* A record that says nothing for a build belongs to an empty window.
LEMMA NoMarks ==
    ASSUME NEW L \in Seq(Frames), NEW e, Reported(L, e), NEW g, NEW b,
           ~(e.saw /\ e.gen = g /\ e.cand = b)
    PROVE  Marks(L, g, b) = {}
<1> DEFINE n == Len(L)
<1>1. n \in Nat /\ DOMAIN L = 1..n
  OBVIOUS
<1> HIDE DEF n
<1>2. ASSUME NEW k \in 1..n, NEW i \in 1..k - 1 PROVE i \in 1..n
  BY <1>1
<1>3. CASE None(L, "report")
  BY <1>1, <1>2, <1>3 DEF Marks, None
<1>4. ASSUME NEW l \in DOMAIN L, LastAt(L, "report", l), e.gen = L[l].gen,
             e.cand = L[l].expected, e.saw = (L[l].running = L[l].expected)
      PROVE  Marks(L, g, b) = {}
  <2>1. Health!Refutes(L[l], g, b)
    BY <1>4 DEF LastAt, Health!Refutes
  <2>2. ASSUME NEW i \in 1..n, L[i].kind = "report" PROVE l \in i..n
    BY <1>1, <1>4, <2>2 DEF LastAt
  <2>3. ASSUME NEW i \in 1..n, L[i].kind = "report"
        PROVE  ~(\A k \in i..Len(L) : ~Health!Refutes(L[k], g, b))
    BY <2>1, <2>2, <2>3 DEF n
  <2>. QED
    BY <1>1, <1>2, <2>3 DEF Marks
<1>. QED
  BY <1>3, <1>4 DEF Reported

\* A window with frames has the last metrics frame of the log, and none is later.
LEMMA LastMark ==
    ASSUME NEW L \in Seq(Frames), NEW t, InOrder(L, t), NEW g, NEW b,
           NEW m \in Marks(L, g, b), NEW l \in DOMAIN L, LastAt(L, "metrics", l)
    PROVE  l \in Marks(L, g, b) /\ \A x \in Times(L, g, b) : x <= L[l].time
<1> DEFINE n == Len(L)
<1>1. n \in Nat /\ DOMAIN L = 1..n
  OBVIOUS
<1> HIDE DEF n
<1>2. \A k \in Marks(L, g, b) : k \in 1..n /\ k <= l
  BY <1>1 DEF Marks, LastAt
<1>3. 1..m - 1 \subseteq 1..l - 1
  BY <1>1, <1>2
<1>4. l \in Marks(L, g, b)
  BY <1>1, <1>3 DEF Marks, LastAt
<1>5. \A k \in Marks(L, g, b) : L[k].time <= L[l].time
  BY <1>1, <1>2 DEF InOrder
<1>. QED
  BY <1>4, <1>5 DEF Times

\* Times are those of frames that were handled.
LEMMA TimesType ==
    ASSUME NEW L \in Seq(Frames), NEW g, NEW b
    PROVE  Times(L, g, b) \subseteq Nat
<1>1. \A n \in DOMAIN L : L[n] \in Frames
  OBVIOUS
<1>. QED
  BY <1>1 DEF Times, Marks, Frames

----------------------------------------------------------------------------
\* A report leaves a record that fits.
LEMMA ReportFits ==
    ASSUME NEW L \in Seq(Frames), NEW e \in Health!Evidence, NEW t \in Nat, Fits(L, e, t),
           NEW g \in Nat, NEW r \in SHAs, NEW x \in SHAs
    PROVE  Fits(Append(L, [kind |-> "report", time |-> t, gen |-> g, running |-> r,
                           expected |-> x]),
                Health!ObserveCandidateReport(e, g, r, x), t)
<1> DEFINE f == [kind |-> "report", time |-> t, gen |-> g, running |-> r, expected |-> x]
           M == Append(L, f)
           o == Health!ObserveCandidateReport(e, g, r, x)
<1>1. f \in Frames /\ f.kind = "report" /\ f.time = t /\ f.gen = g /\ f.running = r
      /\ f.expected = x
  BY DEF Frames
<1>2. /\ o.gen = g /\ o.cand = x /\ o.saw = (r = x) /\ o.quiet = e.quiet
      /\ o.dwell = IF e.gen = g /\ e.cand = x /\ r = x THEN e.dwell ELSE Health!NoDwell
  BY DEF Health!ObserveCandidateReport, Health!Evidence
<1> HIDE DEF f, o
<1>3. InOrder(M, t)
  BY <1>1, AppendInOrder DEF Fits
<1>4. Reported(M, o)
  BY <1>1, <1>2, AppendFacts, AppendLast DEF Reported
<1>5. Quiet(M, o, t)
  <2>1. CASE None(L, "metrics") /\ e.quiet = HealthGap + 1
    BY <1>1, <1>2, <2>1, AppendLast DEF Quiet
  <2>2. ASSUME NEW l \in DOMAIN L, LastAt(L, "metrics", l),
               e.quiet = Health!Capped(t - L[l].time, HealthGap + 1)
        PROVE  Quiet(M, o, t)
    <3>1. LastAt(M, "metrics", l) /\ l \in DOMAIN M /\ M[l] = L[l]
      BY <1>1, <2>2, AppendLast, AppendFacts
    <3>. QED
      BY <1>2, <2>2, <3>1 DEF Quiet
  <2>. QED
    BY <2>1, <2>2 DEF Fits, Quiet
<1>6. Dwelt(M, o)
  <2>1. CASE r # x
    BY <1>2, <2>1 DEF Dwelt
  <2>2. CASE r = x
    <3>1. Marks(M, g, x) = Marks(L, g, x)
      BY <1>1, <2>2, MarksOfReport DEF Health!Refutes
    <3>2. Times(M, g, x) = Times(L, g, x)
      <4>1. \A n \in Marks(L, g, x) : M[n] = L[n]
        BY <1>1, AppendFacts DEF Marks
      <4>. QED
        BY <3>1, <4>1 DEF Times
    <3>3. CASE e.saw /\ e.gen = g /\ e.cand = x
      BY <1>2, <2>2, <3>2, <3>3 DEF Fits, Dwelt
    <3>4. CASE ~(e.saw /\ e.gen = g /\ e.cand = x)
      <4>1. Times(L, g, x) = {}
        BY <3>4, NoMarks DEF Fits, Times
      <4>2. o.dwell = Health!NoDwell
        BY <1>2, <2>2, <3>4 DEF Fits, Dwelt
      <4>. QED
        BY <1>2, <2>2, <3>2, <4>1, <4>2 DEF Dwelt, Spans
    <3>. QED
      BY <3>3, <3>4
  <2>. QED
    BY <2>1, <2>2
<1>. QED
  BY <1>3, <1>4, <1>5, <1>6 DEF Fits, f, o

\* A frame received now extends the run it follows closely, or begins one.
LEMMA SpanGrows ==
    ASSUME NEW T \in SUBSET Nat, NEW d, Spans(d, T), NEW t \in Nat, NEW q, NEW last \in Nat,
           \A x \in T : x <= last, T # {} => last \in T /\ last <= t,
           T # {} => q = Health!Capped(t - last, HealthGap + 1)
    PROVE  Spans(IF d = Health!NoDwell \/ q > HealthGap THEN 0
                 ELSE Health!Capped(d + q, HealthDwell), T \cup {t})
<1> DEFINE d2 == IF d = Health!NoDwell \/ q > HealthGap THEN 0
                 ELSE Health!Capped(d + q, HealthDwell)
           U == T \cup {t}
<1>1. CASE T = {}
  <2>1. d2 = 0 /\ U = {t} /\ Health!Capped(t - t, HealthDwell) = 0
    BY <1>1, HealthAssumption DEF Spans, Run, Health!NoDwell, Health!Capped
  <2>2. Run(U, t, t)
    BY <2>1 DEF Run
  <2>. QED
    BY <2>1, <2>2 DEF Spans
<1>2. ASSUME NEW s \in T, NEW l \in T, Run(T, s, l), d = Health!Capped(l - s, HealthDwell)
      PROVE  Spans(d2, U)
  <2>1. l = last /\ s \in Nat /\ l \in Nat /\ s <= l /\ l <= t
    BY <1>2 DEF Run
  <2>2. d \in Nat /\ d # Health!NoDwell
    BY <1>2, <2>1, HealthAssumption DEF Health!Capped, Health!NoDwell
  <2>3. \A x \in U : x <= t
    BY <2>1
  <2>4. CASE t - l > HealthGap
    <3>1. q > HealthGap /\ d2 = 0 /\ Health!Capped(t - t, HealthDwell) = 0
      BY <1>2, <2>1, <2>4, HealthAssumption DEF Health!Capped
    <3>2. \A x \in U : x < t => t - x > HealthGap
      BY <2>1, <2>4, HealthAssumption
    <3>3. Run(U, t, t)
      BY <2>3, <3>2 DEF Run
    <3>. QED
      BY <3>1, <3>3 DEF Spans
  <2>5. CASE ~(t - l > HealthGap)
    <3>1. q = t - l /\ ~(q > HealthGap)
      BY <1>2, <2>1, <2>5, HealthAssumption DEF Health!Capped
    <3>2. d2 = Health!Capped(d + (t - l), HealthDwell)
      BY <2>2, <3>1
    <3>3. d2 = Health!Capped(t - s, HealthDwell)
      BY <1>2, <2>1, <3>2, HealthAssumption DEF Health!Capped
    <3>4. ASSUME NEW x \in U, s <= x, x < t PROVE \E u \in U : x < u /\ u - x <= HealthGap
      <4>1. x \in T /\ x <= l
        BY <2>1, <3>4
      <4>2. CASE x = l
        <5>1. t \in U /\ t - x <= HealthGap
          BY <2>1, <2>5, <4>2, HealthAssumption
        <5>. QED
          BY <3>4, <5>1
      <4>3. CASE x # l
        BY <1>2, <2>1, <3>4, <4>1, <4>3 DEF Run
      <4>. QED
        BY <4>2, <4>3
    <3>5. \A x \in U : x < s => s - x > HealthGap
      BY <1>2, <2>1 DEF Run
    <3>6. Run(U, s, t)
      BY <2>3, <3>4, <3>5 DEF Run
    <3>. QED
      BY <3>3, <3>6 DEF Spans
  <2>. QED
    BY <2>4, <2>5
<1>. QED
  BY <1>1, <1>2 DEF Spans

\* A metrics frame leaves a record that fits.
LEMMA MetricsFits ==
    ASSUME NEW L \in Seq(Frames), NEW e \in Health!Evidence, NEW t \in Nat, Fits(L, e, t)
    PROVE  Fits(Append(L, [kind |-> "metrics", time |-> t]), Health!NoteMetrics(e), t)
<1> DEFINE f == [kind |-> "metrics", time |-> t]
           M == Append(L, f)
           o == Health!NoteMetrics(e)
<1>1. f \in Frames /\ f.kind = "metrics" /\ f.time = t
  BY DEF Frames
<1>2. /\ o.gen = e.gen /\ o.cand = e.cand /\ o.saw = e.saw /\ o.quiet = 0
      /\ o.dwell = IF ~e.saw THEN Health!NoDwell
                   ELSE IF e.dwell = Health!NoDwell \/ e.quiet > HealthGap THEN 0
                   ELSE Health!Capped(e.dwell + e.quiet, HealthDwell)
  BY DEF Health!NoteMetrics, Health!Evidence
<1> HIDE DEF f, o
<1>3. InOrder(M, t)
  BY <1>1, AppendInOrder DEF Fits
<1>4. Reported(M, o)
  <2>1. CASE None(L, "report") /\ ~e.saw
    BY <1>1, <1>2, <2>1, AppendLast DEF Reported
  <2>2. ASSUME NEW l \in DOMAIN L, LastAt(L, "report", l), e.gen = L[l].gen,
               e.cand = L[l].expected, e.saw = (L[l].running = L[l].expected)
        PROVE  Reported(M, o)
    <3>1. LastAt(M, "report", l) /\ l \in DOMAIN M /\ M[l] = L[l]
      BY <1>1, <2>2, AppendLast, AppendFacts
    <3>. QED
      BY <1>2, <2>2, <3>1 DEF Reported
  <2>. QED
    BY <2>1, <2>2 DEF Fits, Reported
<1>5. Quiet(M, o, t)
  <2>1. Health!Capped(t - t, HealthGap + 1) = 0
    BY HealthAssumption DEF Health!Capped
  <2>. QED
    BY <1>1, <1>2, <2>1, AppendLast, AppendFacts DEF Quiet
<1>6. Dwelt(M, o)
  <2>1. CASE ~e.saw
    BY <1>2, <2>1 DEF Dwelt
  <2>2. CASE e.saw
    <3> DEFINE T == Times(L, e.gen, e.cand)
    <3>1. PICK l \in DOMAIN L : /\ LastAt(L, "report", l)
                                /\ e.gen = L[l].gen /\ e.cand = L[l].expected
                                /\ L[l].running = L[l].expected
      BY <2>2 DEF Fits, Reported
    <3>2. ~Health!Refutes(L[l], e.gen, e.cand)
      BY <3>1 DEF Health!Refutes
    <3>3. Marks(M, e.gen, e.cand) = Marks(L, e.gen, e.cand) \cup {Len(L) + 1}
      BY <1>1, <3>1, <3>2, MarksOfMetrics
    <3>4. Times(M, e.gen, e.cand) = T \cup {t}
      <4>1. \A n \in Marks(L, e.gen, e.cand) : M[n] = L[n]
        BY <1>1, AppendFacts DEF Marks
      <4>2. M[Len(L) + 1].time = t
        BY <1>1, AppendFacts
      <4> DEFINE old == Marks(L, e.gen, e.cand)
                 new == Marks(M, e.gen, e.cand)
      <4>3. {M[n].time : n \in new} = {M[n].time : n \in old} \cup {M[Len(L) + 1].time}
        <5>1. new = old \cup {Len(L) + 1}
          BY <3>3
        <5> HIDE DEF old, new
        <5>. QED
          BY <5>1
      <4>4. {M[n].time : n \in old} = {L[n].time : n \in old}
        <5>1. \A n \in old : M[n] = L[n]
          BY <4>1
        <5> HIDE DEF old
        <5>. QED
          BY <5>1
      <4>. QED
        BY <4>2, <4>3, <4>4, Zenon DEF Times
    <3>5. T \in SUBSET Nat /\ Spans(e.dwell, T)
      BY <2>2, TimesType DEF Fits, Dwelt
    <3>6. PICK last \in Nat : /\ \A x \in T : x <= last
                              /\ T # {} => last \in T /\ last <= t
                              /\ T # {} => e.quiet = Health!Capped(t - last, HealthGap + 1)
      <4>1. CASE T = {}
        BY <4>1
      <4>2. CASE T # {}
        <5>1. PICK m \in Marks(L, e.gen, e.cand) : TRUE
          BY <4>2 DEF Times
        <5>2. ~None(L, "metrics")
          BY <5>1 DEF None, Marks
        <5>3. PICK k \in DOMAIN L : LastAt(L, "metrics", k)
                                    /\ e.quiet = Health!Capped(t - L[k].time, HealthGap + 1)
          BY <5>2 DEF Fits, Quiet
        <5>4. k \in Marks(L, e.gen, e.cand) /\ \A x \in T : x <= L[k].time
          BY <5>1, <5>3, LastMark DEF Fits
        <5>5. L[k].time \in T /\ L[k].time <= t
          BY <5>4 DEF Times, Fits, InOrder
        <5>. QED
          BY <3>5, <5>3, <5>4, <5>5
      <4>. QED
        BY <4>1, <4>2
    <3> HIDE DEF T
    <3>7. Spans(o.dwell, T \cup {t})
      <4>1. Spans(IF e.dwell = Health!NoDwell \/ e.quiet > HealthGap THEN 0
                  ELSE Health!Capped(e.dwell + e.quiet, HealthDwell), T \cup {t})
        BY <3>5, <3>6, SpanGrows
      <4>. QED
        BY <1>2, <2>2, <4>1
    <3>. QED
      BY <1>2, <2>2, <3>4, <3>7 DEF Dwelt
  <2>. QED
    BY <2>1, <2>2
<1>. QED
  BY <1>3, <1>4, <1>5, <1>6 DEF Fits, f, o

\* Time leaves a record that fits.
LEMMA AgedFits ==
    ASSUME NEW L \in Seq(Frames), NEW e \in Health!Evidence, NEW t \in Nat, Fits(L, e, t)
    PROVE  Fits(L, Health!Aged(e), t + 1)
<1> DEFINE o == Health!Aged(e)
<1>1. /\ o.gen = e.gen /\ o.cand = e.cand /\ o.saw = e.saw /\ o.dwell = e.dwell
      /\ o.quiet = Health!Capped(e.quiet + 1, HealthGap + 1)
  BY DEF Health!Aged, Health!Evidence
<1> HIDE DEF o
<1>2. \A i \in DOMAIN L : L[i].time \in Nat /\ L[i].time <= t
  <2>1. \A i \in DOMAIN L : L[i] \in Frames
    OBVIOUS
  <2>. QED
    BY <2>1 DEF Frames, Fits, InOrder
<1>3. InOrder(L, t + 1)
  BY <1>2 DEF Fits, InOrder
<1>4. Quiet(L, o, t + 1)
  <2>1. CASE None(L, "metrics") /\ e.quiet = HealthGap + 1
    BY <1>1, <2>1, HealthAssumption DEF Quiet, Health!Capped
  <2>2. ASSUME NEW l \in DOMAIN L, LastAt(L, "metrics", l),
               e.quiet = Health!Capped(t - L[l].time, HealthGap + 1)
        PROVE  Quiet(L, o, t + 1)
    <3>1. o.quiet = Health!Capped((t + 1) - L[l].time, HealthGap + 1)
      BY <1>1, <1>2, <2>2, HealthAssumption DEF Health!Capped
    <3>. QED
      BY <2>2, <3>1 DEF Quiet
  <2>. QED
    BY <2>1, <2>2 DEF Fits, Quiet
<1>5. Reported(L, o) /\ Dwelt(L, o)
  BY <1>1 DEF Fits, Reported, Dwelt
<1>. QED
  BY <1>3, <1>4, <1>5 DEF Fits, o

\* A socket that has received nothing fits.
LEMMA NothingFits == ASSUME NEW t \in Nat PROVE Fits(<< >>, Health!NoEvidence, t)
BY DEF Fits, InOrder, Reported, Quiet, Dwelt, None, Health!NoEvidence

----------------------------------------------------------------------------
\* Initially no socket has received anything.
LEMMA HealthInit == ASSUME served \in SHAs, hcand = served, Health!Init PROVE HealthInv
<1>1. Health!NoEvidence \in Health!Evidence
  BY HealthAssumption DEF Health!NoEvidence, Health!Evidence, Health!NoDwell
<1>2. HealthType
  BY <1>1 DEF Health!Init, HealthType
<1>3. \A c \in Sockets : Fits(frames[c], sevid[c], clock)
  BY NothingFits DEF Health!Init
<1>. QED
  BY <1>2, <1>3 DEF HealthInv

\* The records stay well typed.
LEMMA EvidenceTypes ==
    ASSUME NEW e \in Health!Evidence
    PROVE  /\ \A g \in Nat : \A r, x \in SHAs :
                Health!ObserveCandidateReport(e, g, r, x) \in Health!Evidence
           /\ Health!NoteMetrics(e) \in Health!Evidence
           /\ Health!Aged(e) \in Health!Evidence
           /\ Health!NoEvidence \in Health!Evidence
<1>1. \A n \in Int : n >= 0 => /\ Health!Capped(n, HealthDwell) \in Health!NoDwell..HealthDwell
                               /\ Health!Capped(n, HealthGap + 1) \in 0..HealthGap + 1
  BY HealthAssumption DEF Health!Capped, Health!NoDwell
<1>2. e.quiet + 1 \in Int /\ e.quiet + 1 >= 0
  BY HealthAssumption DEF Health!Evidence
<1>3. e.dwell # Health!NoDwell => e.dwell + e.quiet \in Int /\ e.dwell + e.quiet >= 0
  BY HealthAssumption DEF Health!Evidence, Health!NoDwell
<1>4. {0, Health!NoDwell} \subseteq Health!NoDwell..HealthDwell /\ 0 \in 0..HealthGap + 1
  BY HealthAssumption DEF Health!NoDwell
<1>5. Health!Aged(e) \in Health!Evidence
  BY <1>1, <1>2 DEF Health!Aged, Health!Evidence
<1>6. Health!NoteMetrics(e) \in Health!Evidence
  BY <1>1, <1>3, <1>4 DEF Health!NoteMetrics, Health!Evidence
<1>7. \A g \in Nat : \A r, x \in SHAs :
         Health!ObserveCandidateReport(e, g, r, x) \in Health!Evidence
  BY <1>4 DEF Health!ObserveCandidateReport, Health!Evidence
<1>8. Health!NoEvidence \in Health!Evidence
  BY HealthAssumption DEF Health!NoEvidence, Health!Evidence, Health!NoDwell
<1>. QED
  BY <1>5, <1>6, <1>7, <1>8

\* Every frame, every closed socket and every unit of time keeps the records
\* fitting their logs.
LEMMA HealthStep == HealthInv /\ Health!Next => HealthInv'
<1>. SUFFICES ASSUME HealthInv, Health!Next PROVE HealthInv'
  OBVIOUS
<1>. USE DEF HealthInv, HealthType
<1>1. ASSUME NEW c \in Sockets, Health!Register(c) PROVE HealthInv'
  BY <1>1 DEF Health!Register
<1>2. ASSUME NEW c \in Sockets, Health!Unregister(c) PROVE HealthInv'
  <2>1. sevid' \in [Sockets -> Health!Evidence] /\ frames' \in [Sockets -> Seq(Frames)]
    <3>1. << >> \in Seq(Frames) /\ Health!NoEvidence \in Health!Evidence
      BY EvidenceTypes
    <3>2. sevid' = [sevid EXCEPT ![c] = Health!NoEvidence] /\ frames' = [frames EXCEPT ![c] = << >>]
      BY <1>2 DEF Health!Unregister
    <3>. QED
      BY <3>1, <3>2
  <2>2. frames'[c] = << >> /\ sevid'[c] = Health!NoEvidence
    BY <1>2 DEF Health!Unregister
  <2>3. \A d \in Sockets \ {c} : frames'[d] = frames[d] /\ sevid'[d] = sevid[d]
    BY <1>2 DEF Health!Unregister
  <2>4. \A d \in Sockets : Fits(frames'[d], sevid'[d], clock)
    BY <2>2, <2>3, NothingFits
  <2>. QED
    BY <1>2, <2>1, <2>4 DEF Health!Unregister
<1>3. ASSUME NEW c \in Sockets, Health!Metrics(c) PROVE HealthInv'
  <2> DEFINE f == [kind |-> "metrics", time |-> clock]
  <2>1. f \in Frames
    BY DEF Frames
  <2>2. frames'[c] = Append(frames[c], f) /\ sevid'[c] = Health!NoteMetrics(sevid[c])
    BY <1>3 DEF Health!Metrics, Health!Logged
  <2>3. sevid' \in [Sockets -> Health!Evidence] /\ frames' \in [Sockets -> Seq(Frames)]
    BY <1>3, <2>1, EvidenceTypes DEF Health!Metrics, Health!Logged
  <2>4. \A d \in Sockets \ {c} : frames'[d] = frames[d] /\ sevid'[d] = sevid[d]
    BY <1>3 DEF Health!Metrics, Health!Logged
  <2>5. Fits(frames'[c], sevid'[c], clock)
    BY <2>2, MetricsFits
  <2>6. \A d \in Sockets : Fits(frames'[d], sevid'[d], clock)
    BY <2>4, <2>5
  <2>. QED
    BY <1>3, <2>3, <2>6 DEF Health!Metrics
<1>4. ASSUME NEW c \in Sockets, NEW r \in SHAs, NEW x \in SHAs, Health!Report(c, r, x)
      PROVE  HealthInv'
  <2> DEFINE f == [kind |-> "report", time |-> clock, gen |-> hgen, running |-> r,
                   expected |-> x]
  <2>1. f \in Frames
    BY DEF Frames
  <2>2. /\ frames'[c] = Append(frames[c], f)
        /\ sevid'[c] = Health!ObserveCandidateReport(sevid[c], hgen, r, x)
    BY <1>4 DEF Health!Report, Health!Logged
  <2>3. sevid' \in [Sockets -> Health!Evidence] /\ frames' \in [Sockets -> Seq(Frames)]
    <3>1. Health!ObserveCandidateReport(sevid[c], hgen, r, x) \in Health!Evidence
      BY EvidenceTypes
    <3>2. Append(frames[c], f) \in Seq(Frames)
      BY <2>1
    <3>3. /\ sevid' = [sevid EXCEPT ![c] = Health!ObserveCandidateReport(@, hgen, r, x)]
          /\ frames' = [frames EXCEPT ![c] = Append(@, f)]
      BY <1>4 DEF Health!Report, Health!Logged
    <3>. HIDE DEF f
    <3>. QED
      BY <3>1, <3>2, <3>3
  <2>4. \A d \in Sockets \ {c} : frames'[d] = frames[d] /\ sevid'[d] = sevid[d]
    BY <1>4 DEF Health!Report, Health!Logged
  <2>5. Fits(frames'[c], sevid'[c], clock)
    BY <2>2, ReportFits
  <2>6. \A d \in Sockets : Fits(frames'[d], sevid'[d], clock)
    BY <2>4, <2>5
  <2>. QED
    BY <1>4, <2>3, <2>6 DEF Health!Report
<1>5. ASSUME NEW b \in SHAs, Health!NewGeneration(b) PROVE HealthInv'
  BY <1>5 DEF Health!NewGeneration
<1>6. CASE Health!Elapse
  <2>1. \A c \in Sockets : sevid'[c] = Health!Aged(sevid[c]) /\ frames'[c] = frames[c]
    BY <1>6 DEF Health!Elapse
  <2>2. sevid' \in [Sockets -> Health!Evidence]
    BY <1>6, EvidenceTypes DEF Health!Elapse
  <2>3. \A c \in Sockets : Fits(frames'[c], sevid'[c], clock + 1)
    BY <2>1, AgedFits
  <2>. QED
    BY <1>6, <2>2, <2>3 DEF Health!Elapse
<1>. QED
  BY <1>1, <1>2, <1>3, <1>4, <1>5, <1>6 DEF Health!Next

\* A bounded set of naturals that is not empty has a greatest member.
LEMMA MaxExists ==
    ASSUME NEW S \in SUBSET Nat, NEW b \in Nat, \A t \in S : t <= b, NEW s0 \in S
    PROVE  \E p \in S : \A t \in S : t <= p
<1> DEFINE D == {b - t : t \in S}
           Rel == OpToRel(<, Nat)
<1>1. IsWellFoundedOn(Rel, Nat)
  BY NatLessThanWellFounded
<1>2. D \subseteq Nat /\ b - s0 \in D
  OBVIOUS
<1> HIDE DEF D, Rel
<1>3. PICK x \in D : \A y \in D : ~(<<y, x>> \in Rel)
  BY <1>1, <1>2, WFMin
<1>4. PICK p \in S : x = b - p
  BY DEF D
<1>5. ASSUME NEW t \in S PROVE t <= p
  <2>1. b - t \in D /\ b - t \in Nat /\ x \in Nat
    BY <1>2 DEF D
  <2>2. ~(b - t < x)
    BY <1>3, <2>1 DEF Rel, OpToRel
  <2>. QED
    BY <1>4, <2>1, <2>2
<1>. QED
  BY <1>5

\* A record that fits its log decides what the log says.
LEMMA FitsDecides == HealthInv => DwellIsObserved
<1>. SUFFICES ASSUME HealthInv PROVE Health!Satisfied <=> Health!TrulyHealthy
  BY DEF DwellIsObserved, Health!DwellIsObserved
<1>1. CASE current = NoSocket
  BY <1>1 DEF Health!Satisfied, Health!TrulyHealthy
<1>2. CASE current \in Sockets /\ current # NoSocket
  <2> DEFINE L == frames[current]
             e == sevid[current]
             T == Times(L, hgen, hcand)
             Healthy == \E first, last \in T :
                          /\ last - first >= HealthDwell
                          /\ clock - last <= HealthGap
                          /\ \A t \in T : t <= last
                          /\ \A t \in T : first <= t /\ t < last =>
                               \E u \in T : t < u /\ u - t <= HealthGap
  <2>1. L \in Seq(Frames) /\ e \in Health!Evidence /\ Fits(L, e, clock) /\ clock \in Nat
    BY <1>2 DEF HealthInv, HealthType
  <2>2. T = {f.time : f \in Health!Window(L, hgen, hcand)}
    BY DEF Times, Marks, Health!Window
  <2>3. Health!TrulyHealthy <=> Healthy
    BY <1>2, <2>2 DEF Health!TrulyHealthy
  <2>4. Health!Satisfied <=> Health!DwellSatisfied(e, hgen, hcand)
    BY <1>2 DEF Health!Satisfied
  <2> HIDE DEF L, e
  <2>5. T \in SUBSET Nat
    BY <2>1, TimesType
  <2>6. CASE ~(e.saw /\ e.gen = hgen /\ e.cand = hcand)
    <3>1. T = {}
      BY <2>1, <2>6, NoMarks DEF Fits, Times
    <3>. QED
      BY <2>3, <2>4, <2>6, <3>1 DEF Health!DwellSatisfied
  <2>7. CASE e.saw /\ e.gen = hgen /\ e.cand = hcand /\ T = {}
    BY <2>1, <2>3, <2>4, <2>7 DEF Health!DwellSatisfied, Fits, Dwelt, Spans
  <2>8. CASE e.saw /\ e.gen = hgen /\ e.cand = hcand /\ T # {}
    <3>1. PICK s \in T, l \in T : Run(T, s, l) /\ e.dwell = Health!Capped(l - s, HealthDwell)
      BY <2>1, <2>8 DEF Fits, Dwelt, Spans
    <3>2. PICK m \in Marks(L, hgen, hcand) : TRUE
      BY <2>8 DEF Times
    <3>3. ~None(L, "metrics")
      BY <3>2 DEF None, Marks
    <3>4. PICK k \in DOMAIN L : LastAt(L, "metrics", k)
                                /\ e.quiet = Health!Capped(clock - L[k].time, HealthGap + 1)
      BY <2>1, <3>3 DEF Fits, Quiet
    <3>5. k \in Marks(L, hgen, hcand) /\ \A x \in T : x <= L[k].time
      BY <2>1, <3>2, <3>4, LastMark DEF Fits
    <3>6. L[k].time \in T /\ L[k].time <= clock
      BY <2>1, <3>5 DEF Times, Marks, Fits, InOrder
    <3> HIDE DEF T
    <3>7. s \in Nat /\ l \in Nat /\ s <= l /\ L[k].time = l /\ l <= clock
      <4>1. s \in Nat /\ l \in Nat /\ L[k].time \in Nat
        BY <2>5, <3>6
      <4>2. s <= l /\ L[k].time <= l
        BY <3>1, <3>6 DEF Run
      <4>3. l <= L[k].time
        BY <3>5
      <4>. QED
        BY <2>1, <3>6, <4>1, <4>2, <4>3
    <3>8. e.quiet <= HealthGap <=> clock - l <= HealthGap
      BY <2>1, <3>4, <3>6, <3>7, HealthAssumption DEF Health!Capped
    <3>9. e.dwell # Health!NoDwell /\ (e.dwell >= HealthDwell <=> l - s >= HealthDwell)
      BY <3>1, <3>7, HealthAssumption DEF Health!Capped, Health!NoDwell
    <3>10. Health!Satisfied <=> l - s >= HealthDwell /\ clock - l <= HealthGap
      BY <2>4, <2>8, <3>8, <3>9 DEF Health!DwellSatisfied
    <3>11. ASSUME l - s >= HealthDwell, clock - l <= HealthGap PROVE Healthy
      BY <3>1, <3>11 DEF Run
    <3>12. ASSUME Healthy PROVE l - s >= HealthDwell /\ clock - l <= HealthGap
      <4>1. PICK first \in T, last \in T :
               /\ last - first >= HealthDwell /\ clock - last <= HealthGap
               /\ \A t \in T : t <= last
               /\ \A t \in T : first <= t /\ t < last => \E u \in T : t < u /\ u - t <= HealthGap
        BY <3>12
      <4>2. last = l /\ first \in Nat /\ first <= l
        BY <2>5, <3>1, <3>7, <4>1 DEF Run
      <4>3. s <= first
        <5>1. SUFFICES ASSUME first < s PROVE FALSE
          BY <3>7, <4>2
        <5> DEFINE Before == {t \in T : first <= t /\ t < s}
        <5>2. \E p \in Before : \A t \in Before : t <= p
          <6>1. first \in Before /\ Before \subseteq Nat
            <7>1. first \in T /\ first <= first /\ Before \subseteq T
              BY <4>2
            <7>. QED
              BY <2>5, <5>1, <7>1
          <6>2. \A t \in Before : t <= s
            BY <2>5, <3>7
          <6>. HIDE DEF Before
          <6>. QED
            BY <3>7, <6>1, <6>2, MaxExists
        <5>3. PICK p \in Before : \A t \in Before : t <= p
          BY <5>2
        <5>4. PICK u \in T : p < u /\ u - p <= HealthGap
          BY <2>5, <3>7, <4>1, <4>2, <5>3
        <5>5. u >= s
          BY <2>5, <3>7, <4>2, <5>3, <5>4
        <5>. QED
          BY <2>5, <3>1, <3>7, <5>3, <5>4, <5>5, HealthAssumption DEF Run
      <4>. QED
        BY <3>7, <4>1, <4>2, <4>3, HealthAssumption
    <3>. QED
      BY <2>3, <3>10, <3>11, <3>12
  <2>. QED
    BY <2>6, <2>7, <2>8
<1>. QED
  BY <1>1, <1>2 DEF HealthInv, HealthType

\* For any sockets, builds, dwell and gap: a dwell is satisfied exactly when the
\* frames received on the socket that owns the machine span it without a silence
\* (dwellSatisfied, noteMetrics, observeCandidateReport).
THEOREM EvidenceIsTrue == SumSpec => []DwellIsObserved
<1>1. SumInit => HealthInv
  BY HealthInit DEF SumInit, Init
<1>2. HealthInv /\ [SumNext]_<<part, vars, healthVars>> => HealthInv'
  <2>1. ASSUME HealthInv, UNCHANGED healthVars PROVE HealthInv'
    BY <2>1 DEF HealthInv, HealthType, healthVars
  <2>. QED
    BY <2>1, HealthStep DEF SumNext
<1>. QED
  BY <1>1, <1>2, FitsDecides, PTL DEF SumSpec
==============================================================================
