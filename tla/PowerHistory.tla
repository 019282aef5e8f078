----------------------------- MODULE PowerHistory -----------------------------
(***************************************************************************)
(* Replayable power telemetry: agent/power_history.go (accumulator flags,  *)
(* queue, journal worker, ACK mailbox), agent/power_journal.go (durable    *)
(* journal with reserved sequence numbers) and hub/power_history.go (batch *)
(* commit, declared gaps, retention, dashboard cursor).                    *)
(*                                                                         *)
(* A bucket is one 30 s window.  `w' is the window it was measured in (its *)
(* data), `end' its wall stamp, i.e. w plus the error `skew' of the agent's *)
(* clock, and `gap' its GapBefore flag.  Time, retention and clock errors  *)
(* are counted in windows.  The hub's clock is the true time `now'.        *)
(* Segment files are abstracted to the sequence of their lines; `tail' is  *)
(* a complete line whose write or fsync reported an error.                 *)
(***************************************************************************)
EXTENDS Integers, Sequences, FiniteSets, FiniteSetsExt

CONSTANTS
    Retention,   \* 24 h, in windows
    Horizon,     \* MaxFutureSkewSeconds, in windows
    MaxSeq,      \* powerMaxSeq: reaching it rotates the stream
    Reserve,     \* powerJournalReserve
    MaxRecords,  \* powerJournalMaxRec
    QueueDepth,  \* powerQueueDepth
    MaxBatch,    \* powerhistory.MaxBatchRecords
    PageSize,    \* max_records of a dashboard read
    Skews,       \* the errors the agent's clock may have; 0 among them
    MaxStreams,  \* bound: stream identities
    Budgets      \* bound: how many windows, clock steps, crashes, I/O errors,
                 \* lost connections and dashboard reads a behaviour has

VARIABLES
    now, skew,                                \* true time, agent clock error
    up, gapPending, queue, dropped, writeFailed, \* agent, volatile
    j,                                        \* powerJournal in memory
    snap,                                     \* the published powerSnapshot
    mailbox,                                  \* ackNext
    disk,                                     \* the journal directory
    streams,                                  \* stream identities ever drawn
    batch, ack,                               \* frames on the wire
    inserted, table,                          \* power_history_records, ever and now
    st, gapRows, declared,                    \* stream state, gap table
    issue,                                    \* powerIssue of the last batch
    reader,                                   \* one dashboard client
    budget                                    \* what is left of its Budget

agentVars == <<up, gapPending, queue, dropped, writeFailed, j, snap, mailbox>>
hubVars   == <<inserted, table, st, gapRows, declared, issue>>
vars == <<now, skew, agentVars, disk, streams, batch, ack, hubVars, reader,
          budget>>

\* The errors of a clock are counted in windows, a stream can hold a bucket, and
\* a page shows a row.
ASSUME PowerAssumption ==
    /\ Skews \subseteq Int
    /\ {Retention, Horizon, Reserve, MaxRecords, QueueDepth, MaxBatch} \subseteq Nat
    /\ MaxSeq \in Nat \ {0, 1} /\ PageSize \in Nat \ {0} /\ MaxStreams \in Nat \ {0}

None == [none |-> TRUE]
Stream == 1..MaxStreams
clock == now + skew                  \* the agent's wall clock
Spend(kinds) == /\ \A k \in kinds : budget[k] > 0
                /\ budget' = [k \in DOMAIN budget |-> IF k \in kinds THEN budget[k] - 1
                                                     ELSE budget[k]]

\* The elements of a sequence at the indices of keep, in their order.
Rank(keep, k) == Cardinality({i \in keep : i <= k})
Nth(keep, n) == CHOOSE k \in keep : Rank(keep, k) = n
Select(s, keep) ==
    IF keep = DOMAIN s THEN s ELSE [n \in 1..Cardinality(keep) |-> s[Nth(keep, n)]]

-----------------------------------------------------------------------------
(* Agent: what the journal's operations compute.                           *)

\* powerRecordLive
Live(r) == r.end >= clock - Retention /\ r.end <= clock + Horizon

\* The RAM part of enforce: the live records, the newest MaxRecords of them.
Retained(recs) ==
    LET kept == Select(recs, {i \in DOMAIN recs : Live(recs[i])})
        n == Len(kept)
    IN SubSeq(kept, IF n > MaxRecords THEN n - MaxRecords + 1 ELSE 1, n)

Snapshot(jj) == [stream |-> jj.stream, acked |-> jj.acked,
                 nextSeq |-> jj.nextSeq, recs |-> jj.recs]

\* rotateStream: new state file, then stream.json; the old files go.
FreshJournal(id) == [stream |-> id, acked |-> 0, reserved |-> 0, nextSeq |-> 1,
                     recs |-> <<>>, overCap |-> FALSE]
FreshDisk(id) == [stream |-> id, acked |-> 0, reserved |-> 0, stateOk |-> TRUE,
                  recs |-> <<>>, tail |-> None]

\* enforce: `fails' when a delete or a compaction errors, which needs
\* something to clean.
NeedsCleaning(jj, d) == d.recs # Retained(jj.recs)
Enforced(jj, d, fails) ==
    [j |-> [jj EXCEPT !.recs = Retained(@), !.overCap = fails],
     d |-> IF fails THEN d ELSE [d EXCEPT !.recs = Retained(jj.recs)],
     err |-> fails]

\* writeState, which fails before or after its durable rename.
Reserved(jj, d) ==
    IF jj.nextSeq <= jj.reserved THEN [j |-> jj, d |-> d]
    ELSE [j |-> [jj EXCEPT !.reserved = jj.nextSeq + Reserve],
          d |-> [d EXCEPT !.acked = jj.acked, !.reserved = jj.nextSeq + Reserve]]

\* ensureOpen cuts a file back to its known-good bytes before the write.
CutBack(d) == [d EXCEPT !.tail = None]

\* Write and Sync of one line; a failed one may leave the whole line behind.
Written(jj, d, rec) ==
    [j |-> [jj EXCEPT !.nextSeq = @ + 1, !.recs = Append(@, rec)],
     d |-> [CutBack(d) EXCEPT !.recs = Append(@, rec)]]

\* recover: the longest strictly ascending prefix of the lines on disk.
AscendingPrefix(s) ==
    LET good(n) == \A i, k \in 1..n : i < k => s[i].seq < s[k].seq
    IN SubSeq(s, 1, Max({n \in 0..Len(s) : good(n)}))
Recovered(d) == AscendingPrefix(IF d.tail = None THEN d.recs ELSE Append(d.recs, d.tail))

\* Mutant: the reservation is not consulted.
ResumeSeq_LastRecord(d, recs) ==
    1 + Max({d.acked} \cup {recs[i].seq : i \in DOMAIN recs})

\* openPowerJournal resumes past everything ever reserved.
ResumeSeq(d, recs) ==
    1 + Max({d.acked, d.reserved} \cup {recs[i].seq : i \in DOMAIN recs})

\* The live records that are not acknowledged.
Pending(s) ==
    Select(s.recs, {i \in DOMAIN s.recs : s.recs[i].seq > s.acked /\ Live(s.recs[i])})

\* Mutant: retained_from is left where the acknowledged prefix ends.
PendingBatch_NoGap(s) ==
    LET pending == Pending(s)
    IN [stream |-> s.stream, from |-> s.acked + 1,
        buckets |-> SubSeq(pending, 1, Min({MaxBatch, Len(pending)}))]

\* pendingBatch: the oldest contiguous run of live unacknowledged records, and
\* the oldest seq still replayable.
PendingBatch(s) ==
    LET pending == Pending(s)
        from == IF pending = <<>> THEN s.nextSeq ELSE pending[1].seq
        run == {n \in 0..Min({MaxBatch, Len(pending)}) :
                   \A i \in 1..n : pending[i].seq = from + i - 1}
    IN [stream |-> s.stream, from |-> from, buckets |-> SubSeq(pending, 1, Max(run))]
HasPending(s) == LET b == PendingBatch(s) IN b.buckets # <<>> \/ b.from > s.acked + 1

-----------------------------------------------------------------------------
(* Agent: actions.                                                         *)

\* windowLoop: roll/emit the elapsed window and enqueue its bucket.  A window
\* without a sample, a wall-clock step and a long suspend set gapPending.
Tick(any, newSkew) ==
    LET b == [w |-> now + 1, end |-> now + 1 + skew, gap |-> gapPending \/ dropped]
        room == Len(queue) < QueueDepth
    IN /\ Spend({"tick"} \cup IF newSkew = skew THEN {} ELSE {"step"})
       /\ now' = now + 1
       /\ skew' = newSkew
       /\ IF ~up THEN ~any /\ UNCHANGED agentVars
          ELSE /\ gapPending' = (~any \/ newSkew # skew)
               /\ queue' = IF any /\ room THEN Append(queue, b) ELSE queue
               /\ dropped' = IF any THEN ~room ELSE dropped
               /\ UNCHANGED <<up, writeFailed, j, snap, mailbox>>
       /\ UNCHANGED <<disk, streams, batch, ack, hubVars, reader>>

\* append up to the write: overCap retry, rotation, reservation.
BeforeWrite ==
    LET e == IF j.overCap THEN Enforced(j, disk, FALSE) ELSE [j |-> j, d |-> disk]
        rotate == e.j.nextSeq >= MaxSeq
        r == IF rotate THEN [j |-> FreshJournal(streams + 1), d |-> FreshDisk(streams + 1)]
             ELSE [j |-> e.j, d |-> e.d]
    IN [enforced |-> e, rotate |-> rotate, j |-> r.j, d |-> r.d]

WorkerFrame == UNCHANGED <<now, skew, up, gapPending, dropped, mailbox, batch, ack,
                           hubVars, reader>>

\* Mutant: a bucket lost in the journal is not told by the next one.
Bucket_Unflagged(seq) == LET b == Head(queue) IN
    [seq |-> seq, w |-> b.w, end |-> b.end, gap |-> b.gap]

\* The record appendBucket writes.
Bucket(seq) == LET b == Head(queue) IN
    [seq |-> seq, w |-> b.w, end |-> b.end, gap |-> b.gap \/ writeFailed]

\* appendBucket with a durable record.  A failing enforcement at its end makes
\* append return an error although the record is retained: nothing is
\* published and the next bucket is flagged.  p, s and x are the state before the
\* write, with its reservation, and after it.
AppendBucket ==
    /\ up /\ queue # <<>>
    /\ queue' = Tail(queue)
    /\ \E p \in {BeforeWrite} : \E s \in {Reserved(p.j, p.d)} :
       \E x \in {Written(s.j, s.d, Bucket(s.j.nextSeq))}, fails \in BOOLEAN :
       \E e \in {Enforced(x.j, x.d, fails)} :
       /\ p.rotate => streams < MaxStreams
       /\ streams' = IF p.rotate THEN streams + 1 ELSE streams
       /\ fails => NeedsCleaning(x.j, x.d)
       /\ Spend(IF fails THEN {"fault"} ELSE {})
       /\ j' = e.j /\ disk' = e.d
       /\ writeFailed' = fails
       /\ snap' = IF fails THEN snap ELSE Snapshot(e.j)
    /\ WorkerFrame

\* appendBucket whose append stops early: at the enforcement an overCap journal
\* owes, at the rotation, at the reservation (whose rename may have landed),
\* or at the write (which may have left the whole line).
AppendFails ==
    LET p == BeforeWrite
        s == Reserved(p.j, p.d)
        rec == Bucket(s.j.nextSeq)
    IN /\ up /\ queue # <<>> /\ Spend({"fault"})
       /\ queue' = Tail(queue)
       /\ writeFailed' = TRUE
       /\ UNCHANGED snap
       /\ \/ /\ j.overCap /\ NeedsCleaning(j, disk)
             /\ j' = Enforced(j, disk, TRUE).j
             /\ UNCHANGED <<disk, streams>>
          \/ /\ p.rotate
             /\ j' = p.enforced.j /\ disk' = p.enforced.d
             /\ UNCHANGED streams
          \/ /\ ~p.rotate
             /\ UNCHANGED streams
             /\ j' = p.j
             /\ disk' \in {p.d, s.d}
          \/ /\ p.rotate => streams < MaxStreams
             /\ streams' = IF p.rotate THEN streams + 1 ELSE streams
             /\ j' = s.j
             /\ disk' \in {s.d} \cup {[CutBack(s.d) EXCEPT !.tail = t] : t \in {None, rec}}
       /\ WorkerFrame

\* The worker's retention tick, which publishes the journal whatever it did: also
\* a record whose append returned an error after it was durable.
RetentionTick ==
    /\ up /\ (NeedsCleaning(j, disk) \/ snap # Snapshot(j))
    /\ \E fails \in BOOLEAN :
         LET e == Enforced(j, disk, fails) IN
         /\ fails => NeedsCleaning(j, disk)
         /\ Spend(IF fails THEN {"fault"} ELSE {})
         /\ j' = e.j /\ disk' = e.d /\ snap' = Snapshot(e.j)
    /\ UNCHANGED <<queue, writeFailed, streams>>
    /\ WorkerFrame

\* sendPowerHistory: a batch built from the published snapshot.
SendBatch ==
    /\ up /\ batch = None /\ HasPending(snap)
    /\ batch' = PendingBatch(snap)
    /\ UNCHANGED <<now, skew, agentVars, disk, streams, ack, hubVars, reader,
                   budget>>

\* The read loop's offerAck: the newest ACK wins, another stream's always does.
OfferAck ==
    /\ up /\ ack # None
    /\ mailbox' = IF mailbox = None \/ ack.stream # mailbox.stream
                     \/ ack.through > mailbox.through
                  THEN ack ELSE mailbox
    /\ ack' = None
    /\ UNCHANGED <<now, skew, up, gapPending, queue, dropped, writeFailed, j, snap, disk,
                   streams, batch, hubVars, reader, budget>>

\* Mutant: an ACK of the stream before a rotation is taken for this one's.
AckAccepted_AnyStream(a) == a.through < j.nextSeq /\ a.through > j.acked

\* ack: this stream, not beyond the last durable seq, not a replay.
AckAccepted(a) == a.stream = j.stream /\ a.through < j.nextSeq /\ a.through > j.acked

\* The worker's applyAck: journal.ack persists the cursor, then publishes it.  A
\* writeState that errs, its rename landed or not, leaves memory as it was: the
\* acknowledgement is dropped, and the hub gives it again with the next replay.
ApplyAck ==
    LET written == [disk EXCEPT !.acked = mailbox.through, !.reserved = j.reserved]
    IN /\ up /\ mailbox # None
       /\ mailbox' = None
       /\ \/ /\ ~AckAccepted(mailbox)
             /\ UNCHANGED <<j, disk, snap, budget>>
          \/ /\ AckAccepted(mailbox)
             /\ j' = [j EXCEPT !.acked = mailbox.through]
             /\ disk' = written
             /\ snap' = Snapshot(j')
             /\ UNCHANGED budget
          \/ /\ AckAccepted(mailbox) /\ Spend({"fault"})
             /\ disk' \in {disk, written}
             /\ UNCHANGED <<j, snap>>
       /\ UNCHANGED <<now, skew, up, gapPending, queue, dropped, writeFailed, streams,
                      batch, ack, hubVars, reader>>

\* The process dies.  The journal may lose a tail of its lines, or its state
\* file; a line whose write had failed may turn out to be complete.
Crash ==
    /\ up /\ Spend({"crash"})
    /\ up' = FALSE
    /\ queue' = <<>> /\ mailbox' = None /\ batch' = None /\ ack' = None
    /\ \E n \in 0..Len(disk.recs), ok \in BOOLEAN :
         disk' = [disk EXCEPT !.recs = SubSeq(@, 1, n), !.stateOk = ok,
                              !.tail = IF n = Len(disk.recs) THEN @ ELSE None]
    /\ UNCHANGED <<now, skew, gapPending, dropped, writeFailed, j, snap, streams, hubVars,
                   reader>>

\* openPowerJournal and newPowerHistory after a restart.
Boot ==
    LET recs == Recovered(disk)
        next == ResumeSeq(disk, recs)
        rotate == ~disk.stateOk \/ next >= MaxSeq
        opened == [stream |-> disk.stream, acked |-> disk.acked,
                   reserved |-> disk.reserved, nextSeq |-> next, recs |-> recs,
                   overCap |-> FALSE]
        e == IF rotate THEN [j |-> FreshJournal(streams + 1), d |-> FreshDisk(streams + 1)]
             ELSE Enforced(opened, [disk EXCEPT !.recs = recs, !.tail = None], FALSE)
    IN /\ ~up
       /\ rotate => streams < MaxStreams
       /\ streams' = IF rotate THEN streams + 1 ELSE streams
       /\ up' = TRUE
       /\ j' = e.j /\ disk' = e.d /\ snap' = Snapshot(e.j)
       /\ gapPending' = TRUE /\ dropped' = FALSE /\ writeFailed' = FALSE
       /\ UNCHANGED <<now, skew, queue, mailbox, batch, ack, hubVars, reader,
                      budget>>

\* The socket fails: frames in flight are lost, or a commit's ACK is.
Reconnect ==
    /\ (batch # None \/ ack # None) /\ Spend({"loss"})
    /\ batch' = None /\ ack' = None
    /\ UNCHANGED <<now, skew, agentVars, disk, streams, hubVars, reader>>

-----------------------------------------------------------------------------
(* Hub: commitPowerBatch.  A row's id is its position in `inserted'; table is *)
(* the set of ids that retention has left.                                 *)

Payload(b) == [seq |-> b.seq, w |-> b.w, end |-> b.end, gap |-> b.gap]
RowOf(s, b) == [stream |-> s, seq |-> b.seq, w |-> b.w, end |-> b.end, gap |-> b.gap]
Rows(s) == {i \in table : inserted[i].stream = s}
SeqsIn(s) == {inserted[i].seq : i \in Rows(s)}
Existing(s, b) == {i \in Rows(s) : inserted[i].seq = b.seq}

\* validatePowerBatch refuses the frame over any bucket of the future.
TooFarAhead(b) == \E k \in DOMAIN b.buckets : b.buckets[k].end > now + Horizon
Conflicts(b) == \E k \in DOMAIN b.buckets : \E i \in Existing(b.stream, b.buckets[k]) :
                   Payload(inserted[i]) # Payload(b.buckets[k])

\* Mutant: dedupe by the rows alone.
New_UnlessStored(b, r) == Existing(b.stream, r) = {}

\* Genuinely new: no such row, and not acknowledged before retention took it.
New(b, r) == Existing(b.stream, r) = {} /\ r.seq > st[b.stream].acked
Aged(b) == \E k \in DOMAIN b.buckets :
              New(b, b.buckets[k]) /\ b.buckets[k].end - 1 < now - 2 * Retention

\* declarePowerGapsForMissing: the maximal runs of [lo, hi] outside present.
MissingRuns(lo, hi, present) ==
    {r \in (lo..hi) \X (lo..hi) :
        /\ r[1] <= r[2] /\ (r[1]..r[2]) \cap present = {}
        /\ r[1] = lo \/ r[1] - 1 \in present
        /\ r[2] = hi \/ r[2] + 1 \in present}

\* Mutant: neighbours that merely touch are not merged.
DeclareGap_Overlap(s, run, rows) ==
    LET near == {g \in rows : g.stream = s /\ g.from <= run[2] /\ g.through >= run[1]}
    IN (rows \ near) \cup
       {[stream |-> s, at |-> now,
         from |-> Min({run[1]} \cup {g.from : g \in near}),
         through |-> Max({run[2]} \cup {g.through : g \in near})]}

\* declarePowerGap: one row for the run and every row it overlaps or touches.
DeclareGap(s, run, rows) ==
    LET near == {g \in rows : g.stream = s /\ g.from <= run[2] + 1 /\ g.through >= run[1] - 1}
    IN (rows \ near) \cup
       {[stream |-> s, at |-> now,
         from |-> Min({run[1]} \cup {g.from : g \in near}),
         through |-> Max({run[2]} \cup {g.through : g \in near})]}

\* declarePowerGapsForMissing declares its runs one after the other; where there
\* is one, that is declarePowerGap.
DeclareEach(s, runs, rows) == FoldSet(LAMBDA run, acc : DeclareGap(s, run, acc), rows, runs)
DeclareGaps(s, runs, rows) ==
    IF runs = {} THEN rows
    ELSE IF \E run \in runs : runs = {run} THEN DeclareGap(s, CHOOSE run \in runs : TRUE, rows)
    ELSE DeclareEach(s, runs, rows)

\* powerAckedThrough: how far rows and declared gaps reach without a hole.
AckedThrough(s, present, rows) ==
    LET covered == present \cup UNION {g.from..g.through : g \in {x \in rows : x.stream = s}}
    IN Max({n \in st[s].acked..MaxSeq : (st[s].acked + 1)..n \subseteq covered})

\* Mutant: everything below retained_from is declared, stored or not.
Declares_AllBelow(b) ==
    IF b.from <= st[b.stream].retained \/ b.from <= st[b.stream].acked + 1 THEN {}
    ELSE MissingRuns(1, b.from - 1, {})

\* The lost seqs a batch declares: between the acknowledged prefix and
\* retained_from, whatever the hub holds or the batch brings.
Declares(b) ==
    IF b.from <= st[b.stream].retained \/ b.from <= st[b.stream].acked + 1 THEN {}
    ELSE MissingRuns(st[b.stream].acked + 1, b.from - 1,
                     SeqsIn(b.stream) \cup {b.buckets[k].seq : k \in DOMAIN b.buckets})

HubFrame == UNCHANGED <<now, skew, agentVars, disk, streams, reader, budget>>

\* commitPowerHistoryFrame refuses: nothing durable changes, no ACK.
HubReject ==
    /\ batch # None
    /\ TooFarAhead(batch) \/ Conflicts(batch) \/ Aged(batch)
    /\ issue' = (IF TooFarAhead(batch) THEN "clock"
                ELSE IF Conflicts(batch) THEN "conflict" ELSE "storage")
    /\ batch' = None
    /\ UNCHANGED <<ack, inserted, table, st, gapRows, declared>>
    /\ HubFrame

\* One transaction, then the ACK on the same socket.
HubCommit ==
    LET s == batch.stream
        fresh == Select(batch.buckets,
                        {k \in DOMAIN batch.buckets : New(batch, batch.buckets[k])})
        rows == DeclareGaps(s, Declares(batch), gapRows)
        present == SeqsIn(s) \cup {fresh[k].seq : k \in DOMAIN fresh}
        through == AckedThrough(s, present, rows)
    IN /\ batch # None /\ ack = None
       /\ ~TooFarAhead(batch) /\ ~Conflicts(batch) /\ ~Aged(batch)
       /\ inserted' = inserted \o [k \in DOMAIN fresh |-> RowOf(s, fresh[k])]
       /\ table' = table \cup (Len(inserted) + 1 .. Len(inserted) + Len(fresh))
       /\ gapRows' = rows
       /\ declared' = [declared EXCEPT ![s] = @ \cup UNION {r[1]..r[2] : r \in Declares(batch)}]
       /\ st' = [st EXCEPT ![s] = [acked |-> through, retained |-> Max({@.retained, batch.from})]]
       /\ issue' = "none"
       /\ ack' = [stream |-> s, through |-> through]
       /\ batch' = None
       /\ HubFrame

\* prunePowerHistory: rows out of the window and old gap rows; never st.
HubPrune ==
    LET old == {i \in table : inserted[i].end < now - Retention}
        stale == {g \in gapRows : g.at < now - 2 * Retention}
    IN /\ old # {} \/ stale # {}
       /\ table' = table \ old
       /\ gapRows' = gapRows \ stale
       /\ UNCHANGED <<inserted, st, declared, issue, batch, ack>>
       /\ HubFrame

-----------------------------------------------------------------------------
(* A dashboard client of GET power/history: the high-water is read first,  *)
(* the rows with a second query, in between anything may be ingested.      *)

ReaderFrame == UNCHANGED <<now, skew, agentVars, disk, streams, batch, ack, hubVars,
                           budget>>

ReadHighWater ==
    /\ ~reader.reading /\ Spend({"read"})
    /\ reader' = [reader EXCEPT !.reading = TRUE, !.hw = Len(inserted)]
    /\ UNCHANGED <<now, skew, agentVars, disk, streams, batch, ack, hubVars>>

\* The newest PageSize rows of the window, or the oldest ids after the cursor.
Newest(ids, n) ==
    CHOOSE S \in SUBSET ids : Cardinality(S) = Min({n, Cardinality(ids)})
        /\ \A a \in S, b \in ids \ S :
              \/ inserted[a].end > inserted[b].end
              \/ inserted[a].end = inserted[b].end /\ a > b
Oldest(ids, n) == {i \in ids : Cardinality({k \in ids : k < i}) < n}

ReadInitial ==
    LET page == Newest({i \in table : inserted[i].end >= now - Retention /\ i <= reader.hw},
                       PageSize)
    IN /\ reader.reading /\ ~reader.started
       /\ reader' = [reader EXCEPT !.reading = FALSE, !.started = TRUE, !.cursor = reader.hw,
                        !.got = page, !.excused = (1..reader.hw) \ page]
       /\ ReaderFrame

DeltaPage == Oldest({i \in table : i > reader.cursor /\ i <= reader.hw}, PageSize)
DeltaTo(cursor) ==
    /\ reader.reading /\ reader.started
    /\ reader' = [reader EXCEPT !.reading = FALSE, !.cursor = cursor,
                     !.got = @ \cup DeltaPage,
                     !.excused = @ \cup ((reader.cursor + 1 .. cursor) \ table)]
    /\ ReaderFrame

\* Mutant: the cursor is the high-water read after the rows.
ReadDelta_LateHighWater ==
    DeltaTo(IF Cardinality(DeltaPage) = PageSize THEN Max(DeltaPage) ELSE Len(inserted))

\* A full page resumes after its last row, a short one at the high-water.
ReadDelta ==
    DeltaTo(IF Cardinality(DeltaPage) = PageSize THEN Max(DeltaPage) ELSE reader.hw)

-----------------------------------------------------------------------------
Init ==
    /\ now = 0 /\ skew = 0
    /\ up = TRUE /\ gapPending = TRUE /\ queue = <<>> /\ dropped = FALSE
    /\ writeFailed = FALSE
    /\ j = FreshJournal(1) /\ snap = Snapshot(FreshJournal(1)) /\ disk = FreshDisk(1)
    /\ mailbox = None /\ streams = 1
    /\ batch = None /\ ack = None
    /\ inserted = <<>> /\ table = {}
    /\ st = [s \in Stream |-> [acked |-> 0, retained |-> 0]]
    /\ gapRows = {} /\ declared = [s \in Stream |-> {}] /\ issue = "none"
    /\ reader = [reading |-> FALSE, started |-> FALSE, cursor |-> 0, hw |-> 0,
                 got |-> {}, excused |-> {}]
    /\ budget \in Budgets

Worker == AppendBucket \/ RetentionTick \/ ApplyAck
HubIngest == HubReject \/ HubCommit

Next ==
    \/ \E any \in BOOLEAN, s \in Skews : Tick(any, s)
    \/ Worker \/ AppendFails
    \/ SendBatch \/ OfferAck
    \/ Crash \/ Boot \/ Reconnect
    \/ HubIngest \/ HubPrune
    \/ ReadHighWater \/ ReadInitial \/ ReadDelta

\* The worker's loop, the 30 s upload, the read loops of both ends and the
\* service manager's restart keep running; clocks and failures owe nothing.
Fairness ==
    /\ WF_vars(Worker) /\ WF_vars(SendBatch) /\ WF_vars(OfferAck)
    /\ WF_vars(Boot) /\ WF_vars(HubIngest)

Spec == Init /\ [][Next]_vars
LiveSpec == Spec /\ Fairness

-----------------------------------------------------------------------------
Ids == DOMAIN inserted
InsertedSeqs(s) == {inserted[i].seq : i \in {k \in Ids : inserted[k].stream = s}}

\* No two buckets ever carry the same (stream, seq): whatever a crash tears off
\* the journal, however a write fails, the hub never meets a conflicting replay,
\* which it would refuse until the agent's retention gives the bucket up.
NeverConflicts == issue # "conflict"

\* A retransmission is absorbed even when retention has removed the row: a
\* (stream, seq) becomes a row once.
OneRowPerSeq ==
    \A a, b \in Ids : a # b =>
        inserted[a].stream # inserted[b].stream \/ inserted[a].seq # inserted[b].seq

\* A sequence number stands for one bucket: two buckets never share it and a
\* retransmission never stores it twice (power_journal.go, commitPowerBatch).
OneBucketPerSeq == NeverConflicts /\ OneRowPerSeq

\* A declared gap never covers a bucket the hub stored.
GapsAreReal == \A s \in Stream : declared[s] \cap InsertedSeqs(s) = {}

\* The gap table keeps one row per contiguous run, and covers nothing else.
GapRowsMerged ==
    /\ \A g, h \in gapRows : g # h /\ g.stream = h.stream =>
            g.through + 1 < h.from \/ h.through + 1 < g.from
    /\ \A g \in gapRows : g.from..g.through \subseteq declared[g.stream]

\* Loss is never silent: of two stored buckets with consecutive seqs, either no
\* window lies between them or the later one says GapBefore.
LossIsFlagged ==
    \A a, b \in Ids :
        /\ inserted[a].stream = inserted[b].stream
        /\ inserted[b].seq = inserted[a].seq + 1
        => inserted[b].w = inserted[a].w + 1 \/ inserted[b].gap

\* A missing window is flagged, a declared gap is real and stands in one row
\* (appendBucket, declarePowerGap).
LossIsAccounted == LossIsFlagged /\ GapsAreReal /\ GapRowsMerged

\* A client that follows the cursor has received every row up to it, but those
\* the first view left out or retention removed before the page was read.
DeltaSkipsNothing == 1..reader.cursor \subseteq reader.got \cup reader.excused

\* With the clock right in the end, the backlog drains: everything the journal
\* ever numbered is acknowledged, whatever was lost, torn or refused before.
BacklogDrains ==
    <>[](skew = 0) =>
        <>[](up /\ j.acked = j.nextSeq - 1 /\ st[j.stream].acked = j.acked)

(***************************************************************************)
(* The rows ever inserted, the declared gaps and the acknowledged prefixes *)
(* are the ledger; the agent goes by its journal, or by the directory it   *)
(* will open.                                                              *)
(***************************************************************************)
storedSeqs == [s \in Stream |-> InsertedSeqs(s)]
ackedSeqs == [s \in Stream |-> st[s].acked]
ownStream == IF up THEN j.stream ELSE disk.stream
ownAcked == IF up THEN j.acked ELSE disk.acked

Ledger == INSTANCE PowerLedger
            WITH stored <- storedSeqs, lost <- declared, settled <- ackedSeqs,
                 mine <- ownStream, known <- ownAcked

\* Whatever is torn, lost, repeated or pruned, numbers are settled in order and for
\* good, and no crash makes the agent forget or overtake an acknowledgement
\* (commitPowerBatch, ack, openPowerJournal).
SettlesForGood == Ledger!Spec
=============================================================================
