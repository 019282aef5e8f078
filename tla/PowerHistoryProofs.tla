------------------------- MODULE PowerHistoryProofs -------------------------
(***************************************************************************)
(* The power history, for any retention, horizon, sizes, clock errors and  *)
(* number of streams, and for any sequence of crashes, torn writes, lost   *)
(* frames, refusals and prunings.                                          *)
(*                                                                         *)
(* The agent: a number is given to one bucket, since what any part of the  *)
(* system knows under a stream lies below the next number, which is past   *)
(* what the directory reserved whenever the journal is opened again; and   *)
(* of two consecutive numbers the later bucket either was measured in the  *)
(* next window or says that something was lost.                            *)
(*                                                                         *)
(* The hub: rows and declared numbers make up exactly the acknowledged     *)
(* prefix of a stream, so a batch brings what lies above it and declares   *)
(* at most one run.                                                        *)
(*                                                                         *)
(* The dashboard: a page of the oldest ids is full up to its last, or has  *)
(* them all.                                                               *)
(***************************************************************************)
EXTENDS PowerHistory, FiniteSetTheorems, SequenceTheorems, TLAPS

\* A set of naturals that has a member has a least one.
LEMMA LeastNat ==
  ASSUME NEW S \in SUBSET Nat, S # {}
  PROVE  \E x \in S : \A y \in S : x <= y
<1>1. IsWellFoundedOn(OpToRel(<, Nat), Nat)
  BY NatLessThanWellFounded
<1>2. \E x \in S : \A y \in S : <<y, x>> \notin OpToRel(<, Nat)
  BY <1>1, WFMin, Zenon
<1>3. ASSUME NEW x \in Nat, NEW y \in Nat, <<y, x>> \notin OpToRel(<, Nat)
      PROVE  x <= y
  BY <1>3 DEF OpToRel
<1> QED
  BY <1>2, <1>3

\* Its Min is that one.
LEMMA MinNat ==
  ASSUME NEW S \in SUBSET Nat, S # {}
  PROVE  Min(S) \in S /\ \A y \in S : Min(S) <= y
<1>1. \E x \in S : \A y \in S : x <= y
  BY LeastNat
<1> QED
  BY <1>1, Zenon DEF Min

\* A set of naturals with a bound has a Max.
LEMMA MaxNat ==
  ASSUME NEW S \in SUBSET Nat, S # {}, NEW m \in Nat, \A y \in S : y <= m
  PROVE  Max(S) \in S /\ \A y \in S : y <= Max(S)
<1> DEFINE B == {n \in Nat : \A y \in S : y <= n}
<1>1. B \in SUBSET Nat /\ B # {}
  OBVIOUS
<1> HIDE DEF B
<1>2. PICK n \in B : \A k \in B : n <= k
  BY <1>1, LeastNat
<1>3. n \in Nat /\ \A y \in S : y <= n
  BY DEF B
<1>4. n \in S
  <2>1. SUFFICES ASSUME n \notin S PROVE FALSE
    OBVIOUS
  <2>2. \A y \in S : y <= n - 1
    BY <1>3, <2>1
  <2>3. n - 1 \in Nat
    <3>1. PICK y \in S : TRUE
      OBVIOUS
    <3> QED
      BY <1>3, <2>2, <3>1
  <2>4. n - 1 \in B
    BY <2>2, <2>3 DEF B
  <2> QED
    BY <1>2, <1>3, <2>4
<1>5. \E x \in S : \A y \in S : x >= y
  BY <1>3, <1>4
<1>6. Max(S) \in S /\ \A y \in S : Max(S) >= y
  BY <1>5, Zenon DEF Max
<1> QED
  BY <1>6

-----------------------------------------------------------------------------
\* Indices up to a bound are finitely many naturals.
LEMMA IndexSet ==
  ASSUME NEW top \in Nat, NEW keep \in SUBSET (1 .. top)
  PROVE  /\ IsFiniteSet(keep) /\ Cardinality(keep) \in Nat
         /\ \A k \in keep : k \in Nat /\ k >= 1 /\ k <= top
         /\ \A T \in SUBSET keep : IsFiniteSet(T) /\ Cardinality(T) \in 0 .. Cardinality(keep)
<1>1. 1 \in Int /\ top \in Int
  OBVIOUS
<1>2. IsFiniteSet(1 .. top)
  BY <1>1, FS_Interval, Zenon
<1>3. IsFiniteSet(keep)
  BY <1>2, FS_Subset, Zenon
<1>4. Cardinality(keep) \in Nat
  BY <1>3, FS_CardinalityType, Zenon
<1>5. \A T \in SUBSET keep :
        IsFiniteSet(T) /\ Cardinality(T) <= Cardinality(keep) /\ Cardinality(T) \in Nat
  BY <1>3, FS_Subset, FS_CardinalityType, Zenon
<1>6. \A T \in SUBSET keep : Cardinality(T) \in 0 .. Cardinality(keep)
  BY <1>4, <1>5
<1>7. \A k \in keep : k \in 1 .. top
  OBVIOUS
<1>8. \A k \in keep : k \in Nat /\ k >= 1 /\ k <= top
  BY <1>7
<1> QED
  BY <1>3, <1>4, <1>5, <1>6, <1>8, Zenon

\* How many of the indices of keep are at most k.
LEMMA RankFacts ==
  ASSUME NEW top \in Nat, NEW keep \in SUBSET (1 .. top)
  PROVE  /\ \A k \in Nat : Rank(keep, k) \in 0 .. Cardinality(keep)
         /\ \A k \in keep, m \in Nat : k > m => Rank(keep, k) > Rank(keep, m)
<1> DEFINE Below(k) == {i \in keep : i <= k}
<1>0. IsFiniteSet(keep) /\ \A k \in keep : k \in Nat
  BY IndexSet, Zenon
<1>1. \A k \in Nat : Below(k) \in SUBSET keep
  OBVIOUS
<1>2. \A k \in Nat : IsFiniteSet(Below(k)) /\ Cardinality(Below(k)) <= Cardinality(keep)
  BY <1>0, <1>1, FS_Subset
<1>3. ASSUME NEW k \in keep, NEW m \in Nat, k > m
      PROVE  Cardinality(Below(k)) > Cardinality(Below(m))
  <2> DEFINE M == Below(m)  K == Below(k)
  <2>1. IsFiniteSet(M) /\ IsFiniteSet(K)
    BY <1>2
  <2>2. M \cup {k} \in SUBSET K /\ k \notin M
    <3>1. k \in Nat /\ \A i \in keep : i \in Nat
      BY <1>0
    <3>2. \A i \in M : i \in K
      BY <1>3, <3>1
    <3>3. k \in K /\ k \notin M
      BY <1>3, <3>1
    <3> QED
      BY <3>2, <3>3
  <2> HIDE DEF M, K
  <2>3. IsFiniteSet(M \cup {k}) /\ Cardinality(M \cup {k}) = Cardinality(M) + 1
    BY <2>1, <2>2, FS_AddElement
  <2>4. Cardinality(M \cup {k}) <= Cardinality(K)
    BY <2>1, <2>2, FS_Subset
  <2>5. Cardinality(M) \in Nat /\ Cardinality(K) \in Nat
    BY <2>1, FS_CardinalityType
  <2>6. Cardinality(K) > Cardinality(M)
    BY <2>3, <2>4, <2>5
  <2> QED
    BY <2>6 DEF M, K
<1>4. \A k \in Nat : Cardinality(Below(k)) \in Nat
  BY <1>2, FS_CardinalityType
<1>5. Cardinality(keep) \in Nat
  BY <1>0, FS_CardinalityType
<1> QED
  BY <1>2, <1>3, <1>4, <1>5 DEF Rank

\* Every count up to the whole is the rank of an index.
LEMMA NthExists ==
  ASSUME NEW top \in Nat, NEW keep \in SUBSET (1 .. top), NEW n \in 1 .. Cardinality(keep)
  PROVE  \E k \in keep : Rank(keep, k) = n
<1> DEFINE Enough == {k \in Nat : Rank(keep, k) >= n}
<1>a. IsFiniteSet(keep) /\ \A k \in keep : k \in Nat /\ k >= 1 /\ k <= top
  BY IndexSet, Zenon
<1>0. Cardinality(keep) \in Nat /\ n \in Nat /\ n >= 1 /\ n <= Cardinality(keep)
  BY <1>a, FS_CardinalityType
<1>r. \A k \in Nat : Rank(keep, k) \in 0 .. Cardinality(keep)
  BY RankFacts, Zenon
<1>1. Enough \in SUBSET Nat /\ Enough # {}
  <2>2. {i \in keep : i <= top} = keep
    BY <1>a
  <2>3. Rank(keep, top) = Cardinality(keep)
    BY <2>2 DEF Rank
  <2>4. top \in Enough
    BY <2>3, <1>0
  <2> QED
    BY <2>4
<1>2. PICK k \in Enough : \A i \in Enough : k <= i
  BY <1>1, LeastNat
<1>3. k \in Nat /\ Rank(keep, k) >= n
  BY <1>2
<1>4. k > 0
  <2>1. SUFFICES ASSUME k = 0 PROVE FALSE
    BY <1>3
  <2>2. {i \in keep : i <= 0} = {}
    <3>1. \A i \in keep : ~(i <= 0)
      BY <1>a
    <3> QED
      BY <3>1, Zenon
  <2>3. Rank(keep, 0) = 0
    BY <2>2, FS_EmptySet DEF Rank
  <2> QED
    BY <2>1, <2>3, <1>3, <1>0
<1>5. k - 1 \in Nat /\ ~(Rank(keep, k - 1) >= n)
  <2>1. k - 1 \in Nat
    BY <1>3, <1>4
  <2>2. k - 1 \notin Enough
    BY <1>2, <1>3, <2>1
  <2> QED
    BY <2>1, <2>2
<1> DEFINE M == {i \in keep : i <= k - 1}
<1>6. {i \in keep : i <= k} = IF k \in keep THEN M \cup {k} ELSE M
  <2>1. \A i \in keep : i <= k <=> (i <= k - 1 \/ i = k)
    BY <1>a, <1>3
  <2> QED
    BY <2>1, <1>3
<1>7. IsFiniteSet(M) /\ k \notin M
  <2>1. M \in SUBSET keep
    OBVIOUS
  <2>2. k \notin M
    BY <1>3
  <2> QED
    BY <2>1, <2>2, <1>a, FS_Subset
<1>8. Rank(keep, k - 1) = Cardinality(M)
  BY DEF Rank
<1> HIDE DEF M
<1>9. Rank(keep, k) = IF k \in keep THEN Rank(keep, k - 1) + 1 ELSE Rank(keep, k - 1)
  BY <1>6, <1>7, <1>8, FS_AddElement DEF Rank
<1>10. Rank(keep, k) \in Nat /\ Rank(keep, k - 1) \in Nat
  BY <1>0, <1>3, <1>5, <1>r
<1>11. k \in keep /\ Rank(keep, k) = n
  BY <1>0, <1>3, <1>5, <1>9, <1>10
<1> QED
  BY <1>11

\* Nth finds the index of a count, and the count of an index finds it.
LEMMA NthFacts ==
  ASSUME NEW top \in Nat, NEW keep \in SUBSET (1 .. top)
  PROVE  /\ Cardinality(keep) \in Nat
         /\ \A n \in 1 .. Cardinality(keep) : Nth(keep, n) \in keep /\ Rank(keep, Nth(keep, n)) = n
         /\ \A k \in keep : /\ Rank(keep, k) \in 1 .. Cardinality(keep)
                            /\ Nth(keep, Rank(keep, k)) = k
<1>a. IsFiniteSet(keep) /\ \A k \in keep : k \in Nat /\ k >= 1 /\ k <= top
  BY IndexSet, Zenon
<1>0. Cardinality(keep) \in Nat
  BY <1>a, FS_CardinalityType
<1>1. ASSUME NEW n \in 1 .. Cardinality(keep)
      PROVE  Nth(keep, n) \in keep /\ Rank(keep, Nth(keep, n)) = n
  <2>1. \E k \in keep : Rank(keep, k) = n
    BY NthExists
  <2> QED
    BY <2>1, Zenon DEF Nth
<1>2. ASSUME NEW k \in keep
      PROVE  Rank(keep, k) \in 1 .. Cardinality(keep) /\ Nth(keep, Rank(keep, k)) = k
  <2>1. k \in Nat /\ k > 0 /\ 0 \in Nat
    BY <1>a
  <2>2. Rank(keep, k) > Rank(keep, 0) /\ Rank(keep, 0) \in 0 .. Cardinality(keep)
        /\ Rank(keep, k) \in 0 .. Cardinality(keep)
    BY <2>1, RankFacts
  <2>3. Rank(keep, k) \in 1 .. Cardinality(keep)
    BY <2>2, <1>0
  <2> DEFINE m == Nth(keep, Rank(keep, k))
  <2>4. m \in keep /\ Rank(keep, m) = Rank(keep, k)
    BY <1>1, <2>3
  <2>5. m \in Nat
    BY <2>4, <1>a
  <2> HIDE DEF m
  <2>6. m > k => Rank(keep, m) > Rank(keep, k)
    BY <2>1, <2>4, <2>5, RankFacts
  <2>7. k > m => Rank(keep, k) > Rank(keep, m)
    BY <2>1, <2>4, <2>5, RankFacts
  <2>8. Rank(keep, k) \in Int
    BY <2>3, <1>0
  <2>9. m = k
    BY <2>1, <2>4, <2>5, <2>6, <2>7, <2>8
  <2> QED
    BY <2>3, <2>9 DEF m
<1> QED
  BY <1>0, <1>1, <1>2

\* Select keeps the elements at the indices of keep, each once.
Picks(t, s, keep) ==
  /\ \A n \in 1 .. Len(t) : \E k \in keep : t[n] = s[k]
  /\ \A k \in keep : \E n \in 1 .. Len(t) : t[n] = s[k]
  /\ \E at \in [1 .. Len(t) -> keep] :
       \A m, n \in 1 .. Len(t) : t[m] = s[at[m]] /\ (m # n => at[m] # at[n])

\* Select gives the elements at those indices, each once.
LEMMA SelectPicks ==
  ASSUME NEW T, NEW s \in Seq(T), NEW keep \in SUBSET (1 .. Len(s))
  PROVE  Select(s, keep) \in Seq(T) /\ Picks(Select(s, keep), s, keep)
<1>0. Len(s) \in Nat /\ DOMAIN s = 1 .. Len(s) /\ \A k \in 1 .. Len(s) : s[k] \in T
  OBVIOUS
<1>1. CASE keep = DOMAIN s
  <2>1. Select(s, keep) = s
    BY <1>1 DEF Select
  <2>2. [n \in 1 .. Len(s) |-> n] \in [1 .. Len(s) -> keep]
    BY <1>0, <1>1
  <2>3. Picks(s, s, keep)
    BY <1>0, <1>1, <2>2 DEF Picks
  <2> QED
    BY <2>1, <2>3
<1>2. CASE keep # DOMAIN s
  <2> DEFINE c == Cardinality(keep)
             t == [n \in 1 .. c |-> s[Nth(keep, n)]]
             at == [n \in 1 .. c |-> Nth(keep, n)]
  <2>1. Select(s, keep) = t
    BY <1>2 DEF Select
  <2>2. /\ c \in Nat
        /\ \A n \in 1 .. c : Nth(keep, n) \in keep /\ Rank(keep, Nth(keep, n)) = n
        /\ \A k \in keep : Rank(keep, k) \in 1 .. c /\ Nth(keep, Rank(keep, k)) = k
    BY <1>0, NthFacts
  <2> HIDE DEF c
  <2>3. t \in Seq(T) /\ Len(t) = c
    <3>1. \A n \in 1 .. c : s[Nth(keep, n)] \in T
      BY <1>0, <2>2
    <3> QED
      BY <2>2, <3>1
  <2>4. at \in [1 .. c -> keep]
    BY <2>2
  <2>5. \A m, n \in 1 .. c : t[m] = s[at[m]] /\ (m # n => at[m] # at[n])
    BY <2>2
  <2>6. \A n \in 1 .. c : \E k \in keep : t[n] = s[k]
    BY <2>2
  <2>7. \A k \in keep : \E n \in 1 .. c : t[n] = s[k]
    BY <2>2
  <2> HIDE DEF t, at
  <2>8. Picks(t, s, keep)
    BY <2>3, <2>4, <2>5, <2>6, <2>7 DEF Picks
  <2> QED
    BY <2>1, <2>3, <2>8
<1> QED
  BY <1>1, <1>2

(***************************************************************************)
(* Types.                                                                  *)
(***************************************************************************)
Windows == [w : Nat, end : Int, gap : BOOLEAN]
Buckets == [seq : Nat, w : Nat, end : Int, gap : BOOLEAN]
StoredRows == [stream : Stream, seq : Nat, w : Nat, end : Int, gap : BOOLEAN]
Journals ==
  [stream : Stream, acked : Nat, reserved : Nat, nextSeq : Nat, recs : Seq(Buckets),
   overCap : BOOLEAN]
Snapshots == [stream : Stream, acked : Nat, nextSeq : Nat, recs : Seq(Buckets)]
Disks ==
  [stream : Stream, acked : Nat, reserved : Nat, stateOk : BOOLEAN, recs : Seq(Buckets),
   tail : Buckets \cup {None}]
Acks == [stream : Stream, through : Nat]
Batches == [stream : Stream, from : Nat, buckets : Seq(Buckets)]
Gaps == [stream : Stream, at : Nat, from : Nat, through : Nat]
\* What a page holds plays no part in the type.
Readers ==
  [reading : BOOLEAN, started : BOOLEAN, cursor : Nat, hw : Nat, got : {reader.got},
   excused : {reader.excused}]

AgentTypeOK ==
  /\ now \in Nat /\ skew \in Int
  /\ up \in BOOLEAN /\ gapPending \in BOOLEAN /\ dropped \in BOOLEAN /\ writeFailed \in BOOLEAN
  /\ queue \in Seq(Windows)
  /\ j \in Journals /\ snap \in Snapshots /\ disk \in Disks /\ streams \in Stream
  /\ mailbox \in Acks \cup {None} /\ ack \in Acks \cup {None}
  /\ batch \in Batches \cup {None}

HubTypeOK ==
  /\ inserted \in Seq(StoredRows)
  /\ table \subseteq 1 .. Len(inserted)
  /\ st \in [Stream -> [acked : Nat, retained : Nat]]
  /\ gapRows \subseteq Gaps
  /\ declared \in [Stream -> SUBSET Nat]
  /\ issue \in {"none", "clock", "storage"}

ReaderTypeOK == reader \in Readers

(***************************************************************************)
(* The buckets that are known under a stream: those some part of the       *)
(* system holds.  The tail is not: a line whose write failed may never     *)
(* have been, and becomes known by recovery.                               *)
(***************************************************************************)
Lines(s) == {s[i] : i \in DOMAIN s}
KnownTo(s, b) ==
  \/ s = j.stream /\ b \in Lines(j.recs)
  \/ s = disk.stream /\ b \in Lines(disk.recs)
  \/ s = snap.stream /\ b \in Lines(snap.recs)
  \/ batch # None /\ s = batch.stream /\ b \in Lines(batch.buckets)
  \/ \E i \in DOMAIN inserted : s = inserted[i].stream /\ b = Payload(inserted[i])
KnownIn(s) == {b \in Buckets : KnownTo(s, b)}

\* One bucket has a number.
Agree(K) == \A b, c \in K : b.seq = c.seq => b = c

\* After a lost window comes a bucket that says so.
Follows(b, c) == c.gap \/ c.w = b.w + 1
Flagged(K) == \A b, c \in K : c.seq = b.seq + 1 => Follows(b, c)

\* A bucket that comes after all the others.
Fits(K, c) == \A b \in K : b.seq < c.seq /\ (c.seq = b.seq + 1 => Follows(b, c))

(***************************************************************************)
(* Numbers.  A number is given once: below the next one, which is at most  *)
(* one past what is reserved on disk.                                      *)
(***************************************************************************)
NumbersInv ==
  /\ j.stream <= streams /\ disk.stream <= streams /\ snap.stream <= streams
  /\ batch # None => batch.stream <= streams
  /\ \A s \in Stream : \A b \in KnownIn(s) :
       /\ s <= streams /\ b.seq \in 1 .. MaxSeq - 1
       /\ s = disk.stream => b.seq <= disk.reserved
       /\ up /\ s = j.stream => b.seq < j.nextSeq
  /\ disk.acked <= disk.reserved
  /\ snap.nextSeq \in 1 .. MaxSeq
  /\ up => /\ j.stream = disk.stream /\ j.reserved <= disk.reserved
           /\ j.nextSeq \in 1 .. MaxSeq /\ j.nextSeq <= j.reserved + 1 /\ j.acked < j.nextSeq

TailInv ==
  disk.tail # None =>
    /\ disk.tail.seq \in 1 .. MaxSeq - 1 /\ disk.tail.seq <= disk.reserved
    /\ up => disk.tail.seq <= j.reserved
    /\ Fits(KnownIn(disk.stream), disk.tail)

(***************************************************************************)
(* Loss.  The next bucket follows the last one numbered, or will say that  *)
(* it does not.                                                            *)
(***************************************************************************)
ChainInv ==
  /\ ~up => queue = << >>
  /\ \A i \in 1 .. Len(queue) - 1 : Follows(queue[i], queue[i + 1])
  /\ queue # << >> => gapPending \/ dropped \/ queue[Len(queue)].w = now
  /\ up /\ ~writeFailed =>
       \A b \in KnownIn(j.stream) : j.nextSeq = b.seq + 1 =>
         IF queue = << >> THEN gapPending \/ dropped \/ now = b.w ELSE Follows(b, queue[1])

BucketsInv == \A s \in Stream : Agree(KnownIn(s)) /\ Flagged(KnownIn(s))

BatchInv ==
  batch # None =>
    /\ batch.from \in 1 .. MaxSeq
    /\ \A i \in DOMAIN batch.buckets : batch.buckets[i].seq = batch.from + i - 1

AgentInv == AgentTypeOK /\ NumbersInv /\ TailInv /\ ChainInv /\ BucketsInv /\ BatchInv

(***************************************************************************)
(* The hub: what is stored or declared is what is acknowledged.            *)
(***************************************************************************)
SettledInv ==
  /\ \A i \in DOMAIN inserted : inserted[i].seq <= st[inserted[i].stream].acked
  /\ \A s \in Stream : /\ declared[s] \subseteq 1 .. st[s].acked
                       /\ 1 .. st[s].acked \subseteq InsertedSeqs(s) \cup declared[s]
                       /\ st[s].acked <= MaxSeq /\ st[s].retained <= st[s].acked + 1
  /\ OneRowPerSeq /\ GapsAreReal /\ GapRowsMerged
  /\ \A g \in gapRows : g.from <= g.through

AckInv ==
  /\ ack # None => ack.through <= st[ack.stream].acked
  /\ mailbox # None => mailbox.through <= st[mailbox.stream].acked
  /\ disk.acked <= st[disk.stream].acked
  /\ up => j.acked <= st[j.stream].acked

HubInv == HubTypeOK /\ SettledInv /\ AckInv

ReaderInv ==
  /\ ReaderTypeOK
  /\ reader.hw <= Len(inserted) /\ reader.cursor <= reader.hw
  /\ ~reader.started => reader.cursor = 0
  /\ DeltaSkipsNothing

PowerInv == AgentInv /\ HubInv /\ ReaderInv

-----------------------------------------------------------------------------
\* A part of a sequence has lines of it, in their order.
LEMMA Slice ==
  ASSUME NEW T, NEW s \in Seq(T), NEW m \in Nat \ {0}, NEW n \in Nat, n <= Len(s)
  PROVE  /\ SubSeq(s, m, n) \in Seq(T)
         /\ \A i \in DOMAIN SubSeq(s, m, n) : SubSeq(s, m, n)[i] = s[m + i - 1]
         /\ Lines(SubSeq(s, m, n)) \subseteq Lines(s)
<1>1. \A i \in m .. n : s[i] \in T
  OBVIOUS
<1> DEFINE t == SubSeq(s, m, n)
<1>2. /\ t \in Seq(T)
      /\ Len(t) = IF m <= n THEN n - m + 1 ELSE 0
      /\ \A i \in 1 .. n - m + 1 : t[i] = s[m + i - 1]
  BY <1>1, SubSeqProperties
<1> HIDE DEF t
<1>3. DOMAIN t = 1 .. Len(t) /\ Len(t) \in Nat
  BY <1>2
<1>4. \A i \in DOMAIN t : i \in 1 .. n - m + 1 /\ m + i - 1 \in 1 .. Len(s)
  BY <1>2, <1>3
<1>5. \A i \in DOMAIN t : t[i] = s[m + i - 1]
  BY <1>2, <1>4
<1>6. Lines(t) \subseteq Lines(s)
  BY <1>4, <1>5 DEF Lines
<1> QED
  BY <1>2, <1>5, <1>6 DEF t

\* Select keeps lines of the sequence.
LEMMA SelectLines ==
  ASSUME NEW T, NEW s \in Seq(T), NEW keep \in SUBSET (1 .. Len(s))
  PROVE  Select(s, keep) \in Seq(T) /\ Lines(Select(s, keep)) \subseteq Lines(s)
<1> DEFINE t == Select(s, keep)
<1>1. t \in Seq(T) /\ Picks(t, s, keep)
  BY SelectPicks
<1> HIDE DEF t
<1>2. DOMAIN t = 1 .. Len(t) /\ DOMAIN s = 1 .. Len(s)
  BY <1>1
<1>3. Lines(t) \subseteq Lines(s)
  BY <1>1, <1>2, SMTT(30) DEF Picks, Lines
<1> QED
  BY <1>1, <1>3 DEF t

\* The lines of a journal are elements of its type.
LEMMA LinesIn ==
  ASSUME NEW T, NEW s \in Seq(T)
  PROVE  Lines(s) \subseteq T
BY DEF Lines

\* Appending adds one line.
LEMMA LinesAppend ==
  ASSUME NEW T, NEW s \in Seq(T), NEW x \in T
  PROVE  Append(s, x) \in Seq(T) /\ Lines(Append(s, x)) = Lines(s) \cup {x}
<1> DEFINE t == Append(s, x)
<1>1. /\ t \in Seq(T) /\ Len(t) = Len(s) + 1 /\ Len(s) \in Nat
      /\ DOMAIN t = 1 .. Len(t) /\ DOMAIN s = 1 .. Len(s)
      /\ \A i \in 1 .. Len(s) : t[i] = s[i]
      /\ t[Len(s) + 1] = x
  OBVIOUS
<1> HIDE DEF t
<1>2. DOMAIN t = DOMAIN s \cup {Len(s) + 1}
  BY <1>1
<1>3. \A i \in DOMAIN s : t[i] = s[i]
  BY <1>1
<1>4. Lines(t) = Lines(s) \cup {x}
  <2>1. \A y \in Lines(t) : y \in Lines(s) \cup {x}
    BY <1>1, <1>2, <1>3 DEF Lines
  <2>2. \A y \in Lines(s) : y \in Lines(t)
    BY <1>2, <1>3 DEF Lines
  <2>3. x \in Lines(t)
    BY <1>1, <1>2 DEF Lines
  <2> QED
    BY <2>1, <2>2, <2>3
<1> QED
  BY <1>1, <1>4 DEF t

\* An empty journal has none.
LEMMA LinesEmpty == Lines(<< >>) = {}
BY DEF Lines

\* The live records, the newest of them.
LEMMA RetainedLines ==
  ASSUME NEW T, NEW recs \in Seq(T)
  PROVE  Retained(recs) \in Seq(T) /\ Lines(Retained(recs)) \subseteq Lines(recs)
<1> DEFINE live == {i \in DOMAIN recs : Live(recs[i])}
           kept == Select(recs, live)
           n == Len(kept)
           m == IF n > MaxRecords THEN n - MaxRecords + 1 ELSE 1
<1>0. MaxRecords \in Nat
  BY PowerAssumption
<1>1. live \in SUBSET (1 .. Len(recs))
  OBVIOUS
<1> HIDE DEF live
<1>2. kept \in Seq(T) /\ Lines(kept) \subseteq Lines(recs)
  BY <1>1, SelectLines
<1> HIDE DEF kept
<1>3. n \in Nat /\ n <= Len(kept)
  BY <1>2
<1> HIDE DEF n
<1>4. m \in Nat \ {0}
  BY <1>0, <1>3
<1> HIDE DEF m
<1>5. SubSeq(kept, m, n) \in Seq(T) /\ Lines(SubSeq(kept, m, n)) \subseteq Lines(kept)
  BY <1>2, <1>3, <1>4, Slice
<1>6. Retained(recs) = SubSeq(kept, m, n)
  BY DEF Retained, kept, live, m, n
<1> QED
  BY <1>2, <1>5, <1>6

\* Recovery keeps a prefix.
LEMMA PrefixLines ==
  ASSUME NEW T, NEW s \in Seq(T)
  PROVE  AscendingPrefix(s) \in Seq(T) /\ Lines(AscendingPrefix(s)) \subseteq Lines(s)
<1> DEFINE good(k) == \A i, l \in 1 .. k : i < l => s[i].seq < s[l].seq
           N == {k \in 0 .. Len(s) : good(k)}
           n == Max(N)
<1>1. Len(s) \in Nat
  OBVIOUS
<1>2. N \in SUBSET Nat /\ (\A y \in N : y <= Len(s))
  BY <1>1
<1>3. 0 \in N
  BY <1>1
<1>4. AscendingPrefix(s) = SubSeq(s, 1, n)
  BY DEF AscendingPrefix
<1> HIDE DEF N
<1>5. n \in N
  BY <1>1, <1>2, <1>3, MaxNat
<1> HIDE DEF n
<1>6. n \in Nat /\ n <= Len(s)
  BY <1>2, <1>5
<1> QED
  BY <1>4, <1>6, Slice

(***************************************************************************)
(* What an operation of the journal leaves as it was.                      *)
(***************************************************************************)
JournalKept(jj, kk) ==
  /\ kk \in Journals
  /\ kk.stream = jj.stream /\ kk.acked = jj.acked /\ kk.reserved = jj.reserved
  /\ kk.nextSeq = jj.nextSeq
  /\ Lines(kk.recs) \subseteq Lines(jj.recs)
DiskKept(jj, d, dd) ==
  /\ dd \in Disks
  /\ dd.stream = d.stream /\ dd.acked = d.acked /\ dd.reserved = d.reserved
  /\ dd.tail = d.tail
  /\ Lines(dd.recs) \subseteq Lines(jj.recs) \cup Lines(d.recs)

\* enforce drops lines and nothing else.
LEMMA EnforcedKeeps ==
  ASSUME NEW jj \in Journals, NEW d \in Disks, NEW fails \in BOOLEAN
  PROVE  /\ JournalKept(jj, Enforced(jj, d, fails).j)
         /\ DiskKept(jj, d, Enforced(jj, d, fails).d)
<1> DEFINE r == Retained(jj.recs)
<1>1. jj.recs \in Seq(Buckets)
  BY DEF Journals
<1>2. r \in Seq(Buckets) /\ Lines(r) \subseteq Lines(jj.recs)
  BY <1>1, RetainedLines
<1>3. /\ Enforced(jj, d, fails).j = [jj EXCEPT !.recs = r, !.overCap = fails]
      /\ Enforced(jj, d, fails).d = IF fails THEN d ELSE [d EXCEPT !.recs = r]
  BY DEF Enforced
<1> HIDE DEF r
<1>4. JournalKept(jj, [jj EXCEPT !.recs = r, !.overCap = fails])
  BY <1>2 DEF JournalKept, Journals
<1>5. DiskKept(jj, d, d)
  BY DEF DiskKept
<1>6. DiskKept(jj, d, [d EXCEPT !.recs = r])
  BY <1>2 DEF DiskKept, Disks
<1> QED
  BY <1>3, <1>4, <1>5, <1>6

\* A fresh stream has nothing.
LEMMA FreshFacts ==
  ASSUME NEW id \in Stream
  PROVE  /\ FreshJournal(id) \in Journals /\ FreshDisk(id) \in Disks
         /\ FreshJournal(id).stream = id /\ FreshDisk(id).stream = id
         /\ FreshJournal(id).acked = 0 /\ FreshDisk(id).acked = 0
         /\ FreshJournal(id).reserved = 0 /\ FreshDisk(id).reserved = 0
         /\ FreshJournal(id).nextSeq = 1 /\ FreshDisk(id).tail = None
         /\ Lines(FreshJournal(id).recs) = {} /\ Lines(FreshDisk(id).recs) = {}
BY LinesEmpty DEF FreshJournal, FreshDisk, Journals, Disks

\* append up to the write.
LEMMA BeforeWriteFacts ==
  ASSUME AgentTypeOK
  PROVE  /\ JournalKept(j, BeforeWrite.enforced.j) /\ DiskKept(j, disk, BeforeWrite.enforced.d)
         /\ BeforeWrite.rotate <=> j.nextSeq >= MaxSeq
         /\ BeforeWrite.rotate => /\ BeforeWrite.j = FreshJournal(streams + 1)
                                  /\ BeforeWrite.d = FreshDisk(streams + 1)
         /\ ~BeforeWrite.rotate => /\ BeforeWrite.j = BeforeWrite.enforced.j
                                   /\ BeforeWrite.d = BeforeWrite.enforced.d
<1> DEFINE e == IF j.overCap THEN Enforced(j, disk, FALSE) ELSE [j |-> j, d |-> disk]
<1>0. j \in Journals /\ disk \in Disks
  BY DEF AgentTypeOK
<1>1. JournalKept(j, Enforced(j, disk, FALSE).j) /\ DiskKept(j, disk, Enforced(j, disk, FALSE).d)
  BY <1>0, EnforcedKeeps
<1>2. JournalKept(j, j) /\ DiskKept(j, disk, disk)
  BY <1>0 DEF JournalKept, DiskKept
<1>3. JournalKept(j, e.j) /\ DiskKept(j, disk, e.d)
  BY <1>1, <1>2
<1>4. BeforeWrite = [enforced |-> e, rotate |-> e.j.nextSeq >= MaxSeq,
                     j |-> (IF e.j.nextSeq >= MaxSeq
                            THEN [j |-> FreshJournal(streams + 1), d |-> FreshDisk(streams + 1)]
                            ELSE [j |-> e.j, d |-> e.d]).j,
                     d |-> (IF e.j.nextSeq >= MaxSeq
                            THEN [j |-> FreshJournal(streams + 1), d |-> FreshDisk(streams + 1)]
                            ELSE [j |-> e.j, d |-> e.d]).d]
  BY Zenon DEF BeforeWrite
<1> HIDE DEF e
<1>5. e.j.nextSeq = j.nextSeq
  BY <1>3 DEF JournalKept
<1>6. BeforeWrite.enforced = e /\ (BeforeWrite.rotate <=> e.j.nextSeq >= MaxSeq)
  BY <1>4
<1>7. CASE e.j.nextSeq >= MaxSeq
  BY <1>3, <1>4, <1>5, <1>6, <1>7
<1>8. CASE ~(e.j.nextSeq >= MaxSeq)
  BY <1>3, <1>4, <1>5, <1>6, <1>8
<1> QED
  BY <1>7, <1>8

\* The reservation: a number is covered before it is written.
ReservedFor(jj, d, kk, dd) ==
  /\ kk \in Journals /\ dd \in Disks
  /\ kk.stream = jj.stream /\ kk.acked = jj.acked /\ kk.nextSeq = jj.nextSeq
  /\ kk.recs = jj.recs
  /\ dd.stream = d.stream /\ dd.tail = d.tail /\ dd.recs = d.recs
  /\ kk.nextSeq <= kk.reserved
  /\ \/ kk.reserved = jj.reserved /\ dd.reserved = d.reserved /\ dd.acked = d.acked
     \/ kk.reserved = dd.reserved /\ dd.acked = jj.acked /\ kk.reserved > jj.reserved

\* After writeState the next number is reserved, on disk too.
LEMMA ReservedFacts ==
  ASSUME NEW jj \in Journals, NEW d \in Disks
  PROVE  ReservedFor(jj, d, Reserved(jj, d).j, Reserved(jj, d).d)
<1>0. Reserve \in Nat
  BY PowerAssumption
<1>1. CASE jj.nextSeq <= jj.reserved
  <2>1. Reserved(jj, d) = [j |-> jj, d |-> d]
    BY <1>1 DEF Reserved
  <2> QED
    BY <1>1, <2>1 DEF ReservedFor
<1>2. CASE ~(jj.nextSeq <= jj.reserved)
  <2> DEFINE top == jj.nextSeq + Reserve
  <2>1. Reserved(jj, d).j = [jj EXCEPT !.reserved = top]
        /\ Reserved(jj, d).d = [d EXCEPT !.acked = jj.acked, !.reserved = top]
    BY <1>2 DEF Reserved
  <2>2. jj.nextSeq \in Nat /\ jj.reserved \in Nat /\ jj.acked \in Nat
    BY DEF Journals
  <2>3. top \in Nat /\ top >= jj.nextSeq /\ top > jj.reserved
    BY <1>0, <1>2, <2>2
  <2> HIDE DEF top
  <2>4. ReservedFor(jj, d, [jj EXCEPT !.reserved = top],
                           [d EXCEPT !.acked = jj.acked, !.reserved = top])
    BY <2>2, <2>3 DEF ReservedFor, Journals, Disks
  <2> QED
    BY <2>1, <2>4
<1> QED
  BY <1>1, <1>2

\* The write: one more line, in memory and on disk.
WrittenAs(jj, d, rec, kk, dd) ==
  /\ kk \in Journals /\ dd \in Disks
  /\ kk.stream = jj.stream /\ kk.acked = jj.acked /\ kk.reserved = jj.reserved
  /\ kk.nextSeq = jj.nextSeq + 1
  /\ Lines(kk.recs) = Lines(jj.recs) \cup {rec}
  /\ dd.stream = d.stream /\ dd.acked = d.acked /\ dd.reserved = d.reserved
  /\ dd.tail = None
  /\ Lines(dd.recs) = Lines(d.recs) \cup {rec}

\* A written line is in the journal and on disk, and the tail is gone.
LEMMA WrittenFacts ==
  ASSUME NEW jj \in Journals, NEW d \in Disks, NEW rec \in Buckets
  PROVE  WrittenAs(jj, d, rec, Written(jj, d, rec).j, Written(jj, d, rec).d)
<1> DEFINE a == Append(jj.recs, rec)
           b == Append(d.recs, rec)
<1>1. jj.recs \in Seq(Buckets) /\ d.recs \in Seq(Buckets) /\ jj.nextSeq + 1 \in Nat
  BY DEF Journals, Disks
<1>2. /\ a \in Seq(Buckets) /\ Lines(a) = Lines(jj.recs) \cup {rec}
      /\ b \in Seq(Buckets) /\ Lines(b) = Lines(d.recs) \cup {rec}
  BY <1>1, LinesAppend
<1>3. /\ Written(jj, d, rec).j = [jj EXCEPT !.nextSeq = jj.nextSeq + 1, !.recs = a]
      /\ Written(jj, d, rec).d = [d EXCEPT !.tail = None, !.recs = b]
  BY DEF Written, CutBack, Journals, Disks
<1> HIDE DEF a, b
<1>4. WrittenAs(jj, d, rec, [jj EXCEPT !.nextSeq = jj.nextSeq + 1, !.recs = a],
                            [d EXCEPT !.tail = None, !.recs = b])
  BY <1>1, <1>2 DEF WrittenAs, Journals, Disks
<1> QED
  BY <1>3, <1>4

-----------------------------------------------------------------------------
\* pendingBatch: consecutive numbers from retained_from on, of the snapshot.
LEMMA PendingBatchFacts ==
  ASSUME NEW s \in Snapshots, s.nextSeq \in 1 .. MaxSeq,
         \A b \in Lines(s.recs) : b.seq \in 1 .. MaxSeq - 1
  PROVE  LET p == PendingBatch(s)
         IN  /\ p \in Batches /\ p.stream = s.stream /\ p.from \in 1 .. MaxSeq
             /\ Lines(p.buckets) \subseteq Lines(s.recs)
             /\ \A i \in DOMAIN p.buckets : p.buckets[i].seq = p.from + i - 1
<1> DEFINE keep == {i \in DOMAIN s.recs : s.recs[i].seq > s.acked /\ Live(s.recs[i])}
           pending == Pending(s)
           from == IF pending = <<>> THEN s.nextSeq ELSE pending[1].seq
           most == Min({MaxBatch, Len(pending)})
           run == {n \in 0 .. most : \A i \in 1 .. n : pending[i].seq = from + i - 1}
           n == Max(run)
<1>0. MaxBatch \in Nat /\ MaxSeq \in Nat
  BY PowerAssumption
<1>1. s.recs \in Seq(Buckets) /\ s.stream \in Stream /\ s.nextSeq \in Nat
  BY DEF Snapshots
<1>2. pending \in Seq(Buckets) /\ Lines(pending) \subseteq Lines(s.recs)
  <2>1. keep \in SUBSET (1 .. Len(s.recs))
    BY <1>1
  <2>2. pending = Select(s.recs, keep)
    BY DEF Pending
  <2> HIDE DEF keep, pending
  <2> QED
    BY <1>1, <2>1, <2>2, SelectLines
<1>p. PendingBatch(s) = [stream |-> s.stream, from |-> from, buckets |-> SubSeq(pending, 1, n)]
  BY DEF PendingBatch
<1> HIDE DEF pending
<1>3. from \in 1 .. MaxSeq
  <2>1. CASE pending = << >>
    BY <2>1
  <2>2. CASE pending # << >>
    <3>1. 1 \in DOMAIN pending
      BY <1>2, <2>2
    <3>2. pending[1] \in Lines(s.recs)
      BY <1>2, <3>1 DEF Lines
    <3> QED
      BY <1>0, <2>2, <3>2
  <2> QED
    BY <2>1, <2>2
<1> HIDE DEF from
<1>4. most \in Nat /\ most <= Len(pending)
  <2>1. {MaxBatch, Len(pending)} \in SUBSET Nat /\ {MaxBatch, Len(pending)} # {}
    BY <1>0, <1>2
  <2> QED
    BY <2>1, MinNat
<1> HIDE DEF most
<1>5. run \in SUBSET Nat /\ 0 \in run /\ \A y \in run : y <= most
  BY <1>4
<1>6. n \in run
  <2> HIDE DEF run
  <2> QED
    BY <1>4, <1>5, MaxNat
<1> HIDE DEF n
<1>7. n \in Nat /\ n <= most /\ \A i \in 1 .. n : pending[i].seq = from + i - 1
  BY <1>4, <1>6
<1> HIDE DEF run
<1> DEFINE cut == SubSeq(pending, 1, n)
<1>8. n <= Len(pending)
  BY <1>2, <1>4, <1>7
<1>9. /\ cut \in Seq(Buckets) /\ Lines(cut) \subseteq Lines(pending)
      /\ \A i \in DOMAIN cut : cut[i] = pending[1 + i - 1]
      /\ Len(cut) = n
  <2>1. /\ SubSeq(pending, 1, n) \in Seq(Buckets)
        /\ Lines(SubSeq(pending, 1, n)) \subseteq Lines(pending)
        /\ \A i \in DOMAIN cut : cut[i] = pending[1 + i - 1]
    BY <1>2, <1>7, <1>8, Slice
  <2>2. Len(cut) = n
    BY <1>2, <1>7, <1>8
  <2> QED
    BY <2>1, <2>2
<1> HIDE DEF cut
<1>10. \A i \in DOMAIN cut : i \in 1 .. n /\ 1 + i - 1 = i
  BY <1>7, <1>9
<1>11. \A i \in DOMAIN cut : cut[i].seq = from + i - 1
  BY <1>7, <1>9, <1>10
<1>12. PendingBatch(s) = [stream |-> s.stream, from |-> from, buckets |-> cut]
  BY <1>p DEF cut
<1>13. [stream |-> s.stream, from |-> from, buckets |-> cut] \in Batches
  BY <1>0, <1>1, <1>3, <1>9 DEF Batches
<1> QED
  BY <1>2, <1>3, <1>9, <1>11, <1>12, <1>13

\* Nothing that is not known becomes known.
NoneLearnt == \A s \in Stream : KnownIn(s)' \subseteq KnownIn(s)

\* Steps that leave journal, snapshot and rows alone teach nobody.
LEMMA QuietKnown ==
  ASSUME j' = j, disk' = disk, snap' = snap, inserted' = inserted,
         batch' = batch \/ batch' = None
  PROVE  NoneLearnt
<1>1. ASSUME NEW s \in Stream, NEW b, KnownTo(s, b)'
      PROVE  KnownTo(s, b)
  BY <1>1 DEF KnownTo
<1> QED
  BY <1>1 DEF NoneLearnt, KnownIn

\* Less known, fewer conflicts.
LEMMA FewerConflicts ==
  ASSUME BucketsInv, NoneLearnt
  PROVE  BucketsInv'
BY DEF BucketsInv, NoneLearnt, Agree, Flagged

\* What comes after all the others comes after fewer.
LEMMA FitsFewer ==
  ASSUME NEW s \in Stream, NEW c, Fits(KnownIn(s), c), NoneLearnt
  PROVE  Fits(KnownIn(s)', c)
BY DEF Fits, NoneLearnt

\* A bucket that fits may be learnt.
LEMMA OneLearnt ==
  ASSUME BucketsInv, NEW t \in Stream, NEW c \in Buckets,
         \A s \in Stream : KnownIn(s)' \subseteq KnownIn(s) \cup (IF s = t THEN {c} ELSE {}),
         Fits(KnownIn(t), c)
  PROVE  BucketsInv'
<1>0. \A b \in Buckets : b.seq \in Nat
  BY DEF Buckets
<1>1. ASSUME NEW s \in Stream
      PROVE  Agree(KnownIn(s)') /\ Flagged(KnownIn(s)')
  <2> DEFINE K == KnownIn(s)
  <2>1. K \subseteq Buckets /\ Agree(K) /\ Flagged(K)
    BY DEF BucketsInv, KnownIn
  <2>2. CASE s # t
    <3>1. KnownIn(s)' \subseteq K
      BY <2>2
    <3> HIDE DEF K
    <3> QED
      BY <2>1, <3>1 DEF Agree, Flagged
  <2>3. CASE s = t
    <3>1. KnownIn(s)' \subseteq K \cup {c} /\ Fits(K, c)
      BY <2>3
    <3> HIDE DEF K
    <3>2. Agree(K \cup {c}) /\ Flagged(K \cup {c})
      BY <1>0, <2>1, <3>1 DEF Agree, Flagged, Fits
    <3> QED
      BY <3>1, <3>2 DEF Agree, Flagged
  <2> QED
    BY <2>2, <2>3
<1> QED
  BY <1>1 DEF BucketsInv

\* The invariant, for one stream and bucket.
LEMMA KnownFacts ==
  ASSUME AgentInv, NEW s \in Stream, NEW b \in KnownIn(s)
  PROVE  /\ b \in Buckets /\ b.seq \in Nat /\ s <= streams
         /\ b.seq \in 1 .. MaxSeq - 1
         /\ s = disk.stream => b.seq <= disk.reserved
         /\ up /\ s = j.stream => b.seq < j.nextSeq
BY DEF AgentInv, NumbersInv, KnownIn, Buckets

\* The lines of a part are known under its stream.
LEMMA LinesKnown ==
  ASSUME AgentTypeOK
  PROVE  /\ j.stream \in Stream /\ Lines(j.recs) \subseteq KnownIn(j.stream)
         /\ disk.stream \in Stream /\ Lines(disk.recs) \subseteq KnownIn(disk.stream)
         /\ snap.stream \in Stream /\ Lines(snap.recs) \subseteq KnownIn(snap.stream)
         /\ batch # None => /\ batch.stream \in Stream
                            /\ Lines(batch.buckets) \subseteq KnownIn(batch.stream)
<1>1. j.recs \in Seq(Buckets) /\ disk.recs \in Seq(Buckets) /\ snap.recs \in Seq(Buckets)
      /\ (batch # None => batch.buckets \in Seq(Buckets))
  BY DEF AgentTypeOK, Journals, Disks, Snapshots, Batches
<1>2. /\ Lines(j.recs) \subseteq Buckets /\ Lines(disk.recs) \subseteq Buckets
      /\ Lines(snap.recs) \subseteq Buckets
      /\ batch # None => Lines(batch.buckets) \subseteq Buckets
  BY <1>1, LinesIn
<1>3. j.stream \in Stream /\ disk.stream \in Stream /\ snap.stream \in Stream
      /\ (batch # None => batch.stream \in Stream)
  BY DEF AgentTypeOK, Journals, Disks, Snapshots, Batches
<1> QED
  BY <1>2, <1>3 DEF KnownIn, KnownTo

\* Steps that leave the agent's journal alone and teach nobody a bucket.
LEMMA NothingNew ==
  ASSUME AgentInv, NoneLearnt,
         UNCHANGED <<now, skew, up, gapPending, queue, dropped, writeFailed, j, snap, disk,
                     streams>>,
         batch' = batch \/ batch' = None,
         mailbox' \in Acks \cup {None}, ack' \in Acks \cup {None}
  PROVE  AgentInv'
<1>2. AgentTypeOK'
  BY DEF AgentInv, AgentTypeOK
<1>3. BucketsInv'
  BY FewerConflicts DEF AgentInv
<1>4. BatchInv'
  BY DEF AgentInv, BatchInv
<1>5. NumbersInv'
  BY DEF AgentInv, NumbersInv, NoneLearnt
<1>6. TailInv'
  <2>1. disk.stream \in Stream
    BY DEF AgentInv, AgentTypeOK, Disks
  <2>2. disk.tail # None => Fits(KnownIn(disk.stream)', disk.tail)
    BY <2>1, FitsFewer DEF AgentInv, TailInv
  <2>3. disk.tail # None => Fits(KnownIn(disk.stream), disk.tail)'
    BY <2>2
  <2> QED
    BY <2>3 DEF AgentInv, TailInv
<1>7. ChainInv'
  <2>1. j.stream \in Stream
    BY DEF AgentInv, AgentTypeOK, Journals
  <2>2. KnownIn(j.stream)' \subseteq KnownIn(j.stream)
    BY <2>1 DEF NoneLearnt
  <2> QED
    BY <2>2 DEF AgentInv, ChainInv, Follows
<1> QED
  BY <1>2, <1>3, <1>4, <1>5, <1>6, <1>7 DEF AgentInv

\* Steps that leave the hub's rows alone too.
LEMMA QuietStep ==
  ASSUME AgentInv,
         UNCHANGED <<now, skew, up, gapPending, queue, dropped, writeFailed, j, snap, disk,
                     streams, inserted>>,
         batch' = batch \/ batch' = None,
         mailbox' \in Acks \cup {None}, ack' \in Acks \cup {None}
  PROVE  AgentInv'
<1>1. NoneLearnt
  BY QuietKnown
<1> QED
  BY <1>1, NothingNew

\* A window ends: its bucket follows the last one queued, or will say so.
LEMMA TickStep ==
  ASSUME AgentInv, NEW any \in BOOLEAN, NEW newSkew \in Skews, Tick(any, newSkew)
  PROVE  AgentInv'
<1> DEFINE b == [w |-> now + 1, end |-> now + 1 + skew, gap |-> gapPending \/ dropped]
<1>1. /\ now' = now + 1 /\ skew' = newSkew
      /\ UNCHANGED <<up, writeFailed, j, snap, mailbox, disk, streams, batch, ack, inserted>>
  BY DEF Tick, agentVars, hubVars
<1>2. /\ AgentTypeOK /\ NumbersInv /\ TailInv /\ ChainInv /\ BucketsInv /\ BatchInv
      /\ now \in Nat /\ skew \in Int /\ newSkew \in Int
      /\ gapPending \in BOOLEAN /\ dropped \in BOOLEAN /\ queue \in Seq(Windows)
  BY PowerAssumption DEF AgentInv, AgentTypeOK
<1>3. b \in Windows /\ b.w = now + 1 /\ (b.gap <=> gapPending \/ dropped)
  BY <1>2 DEF Windows
<1>4. \/ /\ ~up /\ UNCHANGED <<gapPending, queue, dropped>>
      \/ /\ up /\ ~any /\ gapPending' = TRUE /\ queue' = queue /\ dropped' = dropped
      \/ /\ up /\ any /\ gapPending' = (newSkew # skew) /\ queue' = queue /\ dropped' = TRUE
      \/ /\ up /\ any /\ gapPending' = (newSkew # skew) /\ queue' = Append(queue, b)
         /\ dropped' = FALSE
  <2>1. CASE ~up
    BY <2>1 DEF Tick, agentVars
  <2>2. CASE up /\ ~any
    BY <2>2 DEF Tick, agentVars
  <2>3. CASE up /\ any /\ Len(queue) < QueueDepth
    BY <2>3 DEF Tick, agentVars
  <2>4. CASE up /\ any /\ ~(Len(queue) < QueueDepth)
    BY <2>4 DEF Tick, agentVars
  <2> QED
    BY <1>2, <2>1, <2>2, <2>3, <2>4
<1> HIDE DEF b
<1>5. NoneLearnt
  BY <1>1, QuietKnown
<1>6. queue' \in Seq(Windows) /\ gapPending' \in BOOLEAN /\ dropped' \in BOOLEAN
  <2>1. queue' \in Seq(Windows)
    BY <1>2, <1>3, <1>4
  <2>2. gapPending' \in BOOLEAN
    BY <1>2, <1>4, Zenon
  <2>3. dropped' \in BOOLEAN
    BY <1>2, <1>4, Zenon
  <2> QED
    BY <2>1, <2>2, <2>3
<1>7. AgentTypeOK'
  BY <1>1, <1>2, <1>6 DEF AgentTypeOK
<1>8. BucketsInv' /\ BatchInv'
  BY <1>1, <1>2, <1>5, FewerConflicts DEF BatchInv
<1>9. NumbersInv'
  BY <1>1, <1>2, <1>5 DEF NumbersInv, NoneLearnt
<1>10. TailInv'
  <2>1. disk.stream \in Stream
    BY <1>2 DEF AgentTypeOK, Disks
  <2>2. disk.tail # None => Fits(KnownIn(disk.stream)', disk.tail)
    BY <1>1, <1>2, <1>5, <2>1, FitsFewer DEF TailInv
  <2>3. disk.tail # None => Fits(KnownIn(disk.stream), disk.tail)'
    BY <1>1, <2>2
  <2> QED
    BY <1>1, <1>2, <2>3 DEF TailInv
<1>11. ChainInv'
  <2>0. j.stream \in Stream /\ KnownIn(j.stream)' \subseteq KnownIn(j.stream)
    BY <1>1, <1>2, <1>5 DEF AgentTypeOK, Journals, NoneLearnt
  <2>1. CASE ~up /\ UNCHANGED <<gapPending, queue, dropped>>
    BY <1>1, <1>2, <2>1 DEF ChainInv
  <2>2. CASE up /\ queue' = queue /\ (gapPending' = TRUE \/ dropped' = TRUE)
    BY <1>1, <1>2, <2>0, <2>2 DEF ChainInv
  <2>3. CASE up /\ queue' = Append(queue, b)
    <3>1. /\ Len(queue) \in Nat /\ Len(queue') = Len(queue) + 1 /\ queue' # << >>
          /\ \A i \in 1 .. Len(queue) : queue'[i] = queue[i]
          /\ queue'[Len(queue) + 1] = b
      BY <1>2, <1>3, <2>3
    <3>2. queue'[Len(queue')].w = now'
      BY <1>1, <1>3, <3>1
    <3>3. ASSUME NEW i \in 1 .. Len(queue') - 1
          PROVE  Follows(queue'[i], queue'[i + 1])
      <4>1. CASE i = Len(queue)
        <5>1. queue # << >> /\ queue'[i] = queue[Len(queue)] /\ queue'[i + 1] = b
          BY <1>2, <3>1, <3>3, <4>1
        <5>2. gapPending \/ dropped \/ queue[Len(queue)].w = now
          BY <1>2, <5>1 DEF ChainInv
        <5> QED
          BY <1>3, <5>1, <5>2 DEF Follows
      <4>2. CASE i # Len(queue)
        <5>1. i \in 1 .. Len(queue) - 1 /\ i + 1 \in 1 .. Len(queue) /\ i \in 1 .. Len(queue)
          BY <3>1, <3>3, <4>2
        <5> QED
          BY <1>2, <3>1, <5>1 DEF ChainInv
      <4> QED
        BY <4>1, <4>2
    <3>4. ASSUME ~writeFailed, NEW c \in KnownIn(j.stream), j.nextSeq = c.seq + 1
          PROVE  Follows(c, queue'[1])
      <4>1. CASE queue = << >>
        <5>1. gapPending \/ dropped \/ now = c.w
          BY <1>2, <2>3, <3>4, <4>1 DEF ChainInv
        <5>2. queue'[1] = b
          BY <3>1, <4>1
        <5> QED
          BY <1>3, <5>1, <5>2 DEF Follows
      <4>2. CASE queue # << >>
        <5>1. queue'[1] = queue[1]
          BY <1>2, <3>1, <4>2
        <5> QED
          BY <1>2, <2>3, <3>4, <4>2, <5>1 DEF ChainInv
      <4> QED
        BY <4>1, <4>2
    <3>5. up' = up /\ writeFailed' = writeFailed /\ j' = j
      BY <1>1
    <3> QED
      BY <2>0, <2>3, <3>1, <3>2, <3>3, <3>4, <3>5 DEF ChainInv
  <2> QED
    BY <1>4, <2>1, <2>2, <2>3
<1> QED
  BY <1>7, <1>8, <1>9, <1>10, <1>11 DEF AgentInv

\* The upload: what is sent is in the published snapshot.
LEMMA SendBatchStep ==
  ASSUME AgentInv, SendBatch
  PROVE  AgentInv'
<1> DEFINE p == PendingBatch(snap)
<1>1. /\ UNCHANGED <<now, skew, up, gapPending, queue, dropped, writeFailed, j, snap, mailbox,
                     disk, streams, ack, inserted>>
      /\ batch' = p
  BY DEF SendBatch, agentVars, hubVars
<1>2. /\ AgentTypeOK /\ NumbersInv /\ TailInv /\ ChainInv /\ BucketsInv
      /\ snap \in Snapshots /\ snap.nextSeq \in 1 .. MaxSeq /\ snap.stream <= streams
      /\ j.stream \in Stream /\ disk.stream \in Stream
  BY DEF AgentInv, AgentTypeOK, NumbersInv, Journals, Disks
<1>3. snap.stream \in Stream /\ Lines(snap.recs) \subseteq KnownIn(snap.stream)
  BY <1>2, LinesKnown
<1>4. \A b \in Lines(snap.recs) : b.seq \in 1 .. MaxSeq - 1
  BY <1>3, KnownFacts
<1>5. /\ p \in Batches /\ p.stream = snap.stream /\ p.from \in 1 .. MaxSeq
      /\ Lines(p.buckets) \subseteq Lines(snap.recs)
      /\ \A i \in DOMAIN p.buckets : p.buckets[i].seq = p.from + i - 1
  BY <1>2, <1>4, PendingBatchFacts
<1> HIDE DEF p
<1>6. NoneLearnt
  <2>1. ASSUME NEW s \in Stream, NEW b, KnownTo(s, b)'
        PROVE  KnownTo(s, b)
    BY <1>1, <1>5, <2>1 DEF KnownTo
  <2> QED
    BY <2>1 DEF NoneLearnt, KnownIn
<1>7. AgentTypeOK'
  BY <1>1, <1>2, <1>5 DEF AgentTypeOK
<1>8. BucketsInv' /\ BatchInv'
  BY <1>1, <1>2, <1>5, <1>6, FewerConflicts DEF BatchInv
<1>9. NumbersInv'
  BY <1>1, <1>2, <1>5, <1>6 DEF NumbersInv, NoneLearnt
<1>10. TailInv'
  <2>2. disk.tail # None => Fits(KnownIn(disk.stream)', disk.tail)
    BY <1>1, <1>2, <1>6, FitsFewer DEF TailInv
  <2>3. disk.tail # None => Fits(KnownIn(disk.stream), disk.tail)'
    BY <1>1, <2>2
  <2> QED
    BY <1>1, <1>2, <2>3 DEF TailInv
<1>11. ChainInv'
  <2>2. KnownIn(j.stream)' \subseteq KnownIn(j.stream)
    BY <1>1, <1>2, <1>6 DEF NoneLearnt
  <2> QED
    BY <1>1, <1>2, <2>2 DEF ChainInv
<1> QED
  BY <1>7, <1>8, <1>9, <1>10, <1>11 DEF AgentInv

\* A queue that loses its first bucket is still a chain.
LEMMA QueueShorter ==
  ASSUME AgentInv, up, up' = up, now' = now, gapPending' = gapPending, dropped' = dropped,
         queue' = queue \/ (queue # << >> /\ queue' = Tail(queue))
  PROVE  /\ queue' \in Seq(Windows)
         /\ \A i \in 1 .. Len(queue') - 1 : Follows(queue'[i], queue'[i + 1])
         /\ queue' # << >> => gapPending' \/ dropped' \/ queue'[Len(queue')].w = now'
<1>1. /\ queue \in Seq(Windows) /\ Len(queue) \in Nat
      /\ \A i \in 1 .. Len(queue) - 1 : Follows(queue[i], queue[i + 1])
      /\ queue # << >> => gapPending \/ dropped \/ queue[Len(queue)].w = now
  BY DEF AgentInv, AgentTypeOK, ChainInv
<1>2. CASE queue' = queue
  BY <1>1, <1>2
<1>3. CASE queue # << >> /\ queue' = Tail(queue)
  <2> DEFINE n == Len(queue')
             m == Len(queue)
             q == queue'
  <2>1. /\ q \in Seq(Windows) /\ n = m - 1 /\ n \in Nat /\ m \in Nat
        /\ \A i \in 1 .. n : q[i] = queue[i + 1]
    BY <1>1, <1>3, HeadTailProperties
  <2>a. q # << >> => n # 0
    <3>1. queue' \in Seq(Windows)
      BY <2>1
    <3> HIDE DEF q
    <3>2. queue' # << >> => Len(queue') # 0
      BY ONLY <3>1
    <3> QED
      BY <3>2 DEF q
  <2> HIDE DEF n, m, q
  <2>2. ASSUME NEW i \in 1 .. n - 1
        PROVE  Follows(q[i], q[i + 1])
    <3>1. i \in 1 .. n /\ i + 1 \in 1 .. n /\ i + 1 \in 1 .. m - 1
      BY <2>1, <2>2
    <3>2. q[i] = queue[i + 1] /\ q[i + 1] = queue[(i + 1) + 1]
      BY <2>1, <3>1
    <3>3. Follows(queue[i + 1], queue[(i + 1) + 1])
      BY <1>1, <3>1 DEF m
    <3> QED
      BY <3>2, <3>3
  <2>3. q # << >> => q[n] = queue[m]
    <3>1. q # << >> => n \in 1 .. n /\ n + 1 = m
      BY <2>1, <2>a
    <3> QED
      BY <2>1, <3>1
  <2>4. q # << >> => gapPending \/ dropped \/ q[n].w = now
    BY <1>1, <1>3, <2>3 DEF m
  <2>5. q \in Seq(Windows)
    BY <2>1
  <2> QED
    BY <2>2, <2>4, <2>5 DEF n, q
<1> QED
  BY <1>2, <1>3

\* The journal in memory and on disk as stream t has them, with what is known.
Ready(t, K, jj, dd) ==
  /\ jj \in Journals /\ dd \in Disks /\ jj.stream = t /\ dd.stream = t
  /\ Lines(jj.recs) \subseteq K /\ Lines(dd.recs) \subseteq K
  /\ jj.nextSeq \in 1 .. MaxSeq /\ jj.nextSeq <= jj.reserved + 1
  /\ jj.reserved <= dd.reserved /\ dd.acked <= dd.reserved /\ jj.acked < jj.nextSeq
  /\ \A b \in K : b.seq \in 1 .. MaxSeq - 1 /\ b.seq < jj.nextSeq
  /\ dd.tail # None => /\ dd.tail.seq \in 1 .. MaxSeq - 1 /\ dd.tail.seq <= jj.reserved
                       /\ Fits(K, dd.tail)

\* The journal moves on in stream t, and the buckets of C are learnt.
JournalMoves(t, C) ==
  /\ up' = TRUE /\ now' = now /\ skew' = skew /\ batch' = batch /\ inserted' = inserted
  /\ ack' = ack /\ mailbox' \in Acks \cup {None}
  /\ writeFailed' \in BOOLEAN /\ gapPending' \in BOOLEAN /\ dropped' \in BOOLEAN
  /\ streams' \in Stream /\ streams <= streams' /\ t <= streams'
  /\ C = {} \/ \E c \in Buckets : C = {c} /\ Fits(KnownIn(t), c)
  /\ Ready(t, KnownIn(t) \cup C, j', disk')
  /\ snap' = snap \/ snap' = Snapshot(j')
  /\ queue' \in Seq(Windows)
  /\ \A i \in 1 .. Len(queue') - 1 : Follows(queue'[i], queue'[i + 1])
  /\ queue' # << >> => gapPending' \/ dropped' \/ queue'[Len(queue')].w = now
  /\ ~writeFailed' =>
       \A b \in KnownIn(t) \cup C : j'.nextSeq = b.seq + 1 =>
         IF queue' = << >> THEN gapPending' \/ dropped' \/ now = b.w ELSE Follows(b, queue'[1])

\* A step of the worker in which the buckets C are learnt under stream t.
LEMMA JournalStep ==
  ASSUME AgentInv, NEW t \in Stream, NEW C \in SUBSET Buckets, JournalMoves(t, C)
  PROVE  AgentInv'
<1> USE DEF JournalMoves, Ready
<1>0. /\ AgentTypeOK /\ NumbersInv /\ TailInv /\ ChainInv /\ BucketsInv /\ BatchInv
      /\ MaxSeq \in Nat /\ streams \in Nat /\ streams' \in Nat
      /\ j'.nextSeq \in Nat /\ j'.reserved \in Nat /\ disk'.reserved \in Nat
  <2>1. AgentTypeOK /\ NumbersInv /\ TailInv /\ ChainInv /\ BucketsInv /\ BatchInv
    BY DEF AgentInv
  <2>2. MaxSeq \in Nat /\ streams \in Nat /\ streams' \in Nat
    BY <2>1, PowerAssumption DEF AgentTypeOK, Stream
  <2>3. j'.nextSeq \in Nat /\ j'.reserved \in Nat /\ disk'.reserved \in Nat
    BY DEF Journals, Disks
  <2> QED
    BY <2>1, <2>2, <2>3
<1>1. snap' \in Snapshots /\ snap'.nextSeq \in 1 .. MaxSeq
      /\ snap'.stream <= streams'
  <2>1. CASE snap' = snap
    BY <1>0, <2>1 DEF AgentTypeOK, NumbersInv, Snapshots, Stream
  <2>2. CASE snap' = Snapshot(j')
    BY <2>2 DEF Snapshot, Snapshots, Journals
  <2> QED
    BY <2>1, <2>2
<1>2. \A s \in Stream : KnownIn(s)' \subseteq KnownIn(s) \cup (IF s = t THEN C ELSE {})
  <2>1. ASSUME NEW s \in Stream, NEW b \in Buckets, KnownTo(s, b)'
        PROVE  b \in KnownIn(s) \cup (IF s = t THEN C ELSE {})
    <3>1. CASE s = t /\ (b \in Lines(j'.recs) \/ b \in Lines(disk'.recs))
      BY <3>1
    <3>2. CASE s = snap'.stream /\ b \in Lines(snap'.recs)
      <4>1. CASE snap' = snap
        BY <3>2, <4>1 DEF KnownIn, KnownTo
      <4>2. CASE snap' = Snapshot(j')
        BY <3>2, <4>2 DEF Snapshot
      <4> QED
        BY <4>1, <4>2
    <3>3. CASE \/ batch' # None /\ s = batch'.stream /\ b \in Lines(batch'.buckets)
               \/ \E i \in DOMAIN inserted' : s = inserted'[i].stream /\ b = Payload(inserted'[i])
      BY <3>3 DEF KnownIn, KnownTo
    <3> QED
      BY <2>1, <3>1, <3>2, <3>3 DEF KnownTo
  <2> QED
    BY <2>1 DEF KnownIn
<1>3. BucketsInv'
  <2>1. CASE C = {}
    <3>1. NoneLearnt
      BY <1>2, <2>1 DEF NoneLearnt
    <3> QED
      BY <1>0, <3>1, FewerConflicts
  <2>2. CASE \E c \in Buckets : C = {c} /\ Fits(KnownIn(t), c)
    <3>1. PICK c \in Buckets : C = {c} /\ Fits(KnownIn(t), c)
      BY <2>2
    <3>2. \A s \in Stream : KnownIn(s)' \subseteq KnownIn(s) \cup (IF s = t THEN {c} ELSE {})
      BY <1>2, <3>1
    <3> QED
      BY <1>0, <3>1, <3>2, OneLearnt
  <2> QED
    BY <2>1, <2>2
<1>4. AgentTypeOK'
  BY <1>0, <1>1 DEF AgentTypeOK
<1>5. NumbersInv'
  <2>1. ASSUME NEW s \in Stream, NEW b \in KnownIn(s)'
        PROVE  /\ s <= streams' /\ b.seq \in 1 .. MaxSeq - 1
               /\ s = t => b.seq < j'.nextSeq /\ b.seq <= disk'.reserved
    <3>1. CASE b \in KnownIn(s)
      <4>1. s <= streams /\ b.seq \in 1 .. MaxSeq - 1 /\ b.seq \in Nat
        BY <3>1, KnownFacts
      <4>2. s \in Nat
        BY PowerAssumption DEF Stream
      <4>3. s <= streams'
        BY <1>0, <4>1, <4>2
      <4> QED
        BY <1>0, <3>1, <4>1, <4>3
    <3>2. CASE s = t /\ b \in C
      <4>1. b.seq \in 1 .. MaxSeq - 1 /\ b.seq < j'.nextSeq /\ b.seq \in Nat
        BY <1>0, <3>2
      <4> QED
        BY <1>0, <3>2, <4>1
    <3> QED
      BY <1>2, <2>1, <3>1, <3>2
  <2>2. batch # None => batch.stream <= streams'
    <3>1. batch # None => batch.stream \in Nat /\ batch.stream <= streams
      BY <1>0 DEF NumbersInv, AgentTypeOK, Batches, Stream
    <3> QED
      BY <1>0, <3>1
  <2> QED
    BY <1>0, <1>1, <2>1, <2>2 DEF NumbersInv
<1>6. TailInv'
  <2>1. KnownIn(t)' \subseteq KnownIn(t) \cup C
    BY <1>2
  <2>2. disk'.tail # None => Fits(KnownIn(t)', disk'.tail)
    BY <2>1 DEF Fits
  <2>3. disk'.tail # None => disk'.tail.seq \in Nat
    BY <1>0
  <2>4. disk'.tail # None => disk'.tail.seq <= disk'.reserved
    BY <1>0, <2>3
  <2> QED
    BY <2>2, <2>4 DEF TailInv
<1>7. ChainInv'
  <2>1. KnownIn(t)' \subseteq KnownIn(t) \cup C
    BY <1>2
  <2> QED
    BY <2>1 DEF ChainInv
<1>8. BatchInv'
  BY <1>0 DEF BatchInv
<1> QED
  BY <1>3, <1>4, <1>5, <1>6, <1>7, <1>8 DEF AgentInv

\* What a step of the journal worker leaves alone.
WorkerQuiet ==
  /\ up /\ up' = up /\ now' = now /\ skew' = skew /\ gapPending' = gapPending
  /\ dropped' = dropped /\ batch' = batch /\ inserted' = inserted /\ ack' = ack
  /\ mailbox' \in Acks \cup {None} /\ writeFailed' \in BOOLEAN
  /\ streams' \in Stream /\ streams <= streams'

\* A step of the journal worker: in stream t, with the buckets of C learnt.
WorkerMoves(t, C) ==
  /\ WorkerQuiet /\ t <= streams'
  /\ C = {} \/ \E c \in Buckets : C = {c} /\ Fits(KnownIn(t), c)
  /\ Ready(t, KnownIn(t) \cup C, j', disk')
  /\ snap' = snap \/ snap' = Snapshot(j')
  /\ queue' = queue \/ (queue # << >> /\ queue' = Tail(queue))
  /\ ~writeFailed' =>
       \A b \in KnownIn(t) \cup C : j'.nextSeq = b.seq + 1 =>
         IF queue' = << >> THEN gapPending \/ dropped \/ now = b.w ELSE Follows(b, queue'[1])

\* The same, with what the worker leaves alone.
LEMMA WorkerStep ==
  ASSUME AgentInv, NEW t \in Stream, NEW C \in SUBSET Buckets, WorkerMoves(t, C)
  PROVE  AgentInv'
<1>1. /\ up /\ up' = up /\ now' = now /\ gapPending' = gapPending /\ dropped' = dropped
      /\ queue' = queue \/ (queue # << >> /\ queue' = Tail(queue))
  BY DEF WorkerMoves, WorkerQuiet
<1>2. /\ queue' \in Seq(Windows)
      /\ \A i \in 1 .. Len(queue') - 1 : Follows(queue'[i], queue'[i + 1])
      /\ queue' # << >> => gapPending' \/ dropped' \/ queue'[Len(queue')].w = now'
  BY <1>1, QueueShorter
<1>3. up' = TRUE /\ gapPending' \in BOOLEAN /\ dropped' \in BOOLEAN
  BY <1>1 DEF AgentInv, AgentTypeOK
<1>4. JournalMoves(t, C)
  BY <1>1, <1>2, <1>3 DEF WorkerMoves, WorkerQuiet, JournalMoves
<1> QED
  BY <1>4, JournalStep

\* A running agent's journal is ready, under its stream.
LEMMA JournalReady ==
  ASSUME AgentInv, up
  PROVE  j.stream \in Stream /\ Ready(j.stream, KnownIn(j.stream), j, disk)
<1>1. /\ AgentTypeOK /\ j \in Journals /\ disk \in Disks /\ j.stream = disk.stream
      /\ j.stream \in Stream
      /\ j.nextSeq \in 1 .. MaxSeq /\ j.nextSeq <= j.reserved + 1
      /\ j.reserved <= disk.reserved /\ disk.acked <= disk.reserved /\ j.acked < j.nextSeq
  BY DEF AgentInv, AgentTypeOK, NumbersInv, Journals
<1>2. Lines(j.recs) \subseteq KnownIn(j.stream) /\ Lines(disk.recs) \subseteq KnownIn(disk.stream)
  BY <1>1, LinesKnown
<1>3. \A b \in KnownIn(j.stream) : b.seq \in 1 .. MaxSeq - 1 /\ b.seq < j.nextSeq
  BY <1>1 DEF AgentInv, NumbersInv
<1>4. disk.tail # None => /\ disk.tail.seq \in 1 .. MaxSeq - 1 /\ disk.tail.seq <= j.reserved
                          /\ Fits(KnownIn(j.stream), disk.tail)
  BY <1>1 DEF AgentInv, TailInv
<1> QED
  BY <1>1, <1>2, <1>3, <1>4 DEF Ready

\* Enforcing the limits, and reserving, keep it ready.
LEMMA KeptReady ==
  ASSUME NEW t \in Stream, NEW K, NEW jj, NEW dd, Ready(t, K, jj, dd),
         NEW kk, NEW ee, JournalKept(jj, kk), DiskKept(jj, dd, ee)
  PROVE  Ready(t, K, kk, ee)
BY DEF Ready, JournalKept, DiskKept

\* Cleaning keeps a journal ready.
LEMMA EnforcedReady ==
  ASSUME NEW t \in Stream, NEW K, NEW jj, NEW dd, Ready(t, K, jj, dd), NEW fails \in BOOLEAN
  PROVE  /\ Ready(t, K, Enforced(jj, dd, fails).j, Enforced(jj, dd, fails).d)
         /\ Ready(t, K, Enforced(jj, dd, fails).j, dd)
         /\ Enforced(jj, dd, fails).j.nextSeq = jj.nextSeq
<1>1. jj \in Journals /\ dd \in Disks
  BY DEF Ready
<1>2. JournalKept(jj, Enforced(jj, dd, fails).j) /\ DiskKept(jj, dd, Enforced(jj, dd, fails).d)
  BY <1>1, EnforcedKeeps
<1>3. DiskKept(jj, dd, dd)
  BY <1>1 DEF DiskKept
<1>4. Enforced(jj, dd, fails).j.nextSeq = jj.nextSeq
  BY <1>2 DEF JournalKept
<1> QED
  BY <1>2, <1>3, <1>4, KeptReady

\* Reserving keeps a journal ready, and its next number reserved.
LEMMA ReservedReady ==
  ASSUME NEW t \in Stream, NEW K, NEW jj, NEW dd, Ready(t, K, jj, dd)
  PROVE  /\ Ready(t, K, Reserved(jj, dd).j, Reserved(jj, dd).d)
         /\ Ready(t, K, jj, Reserved(jj, dd).d)
         /\ Reserved(jj, dd).j.nextSeq = jj.nextSeq
         /\ jj.nextSeq <= Reserved(jj, dd).j.reserved
<1> DEFINE kk == Reserved(jj, dd).j
           ee == Reserved(jj, dd).d
<1>1. jj \in Journals /\ dd \in Disks
  BY DEF Ready
<1>2. ReservedFor(jj, dd, kk, ee)
  BY <1>1, ReservedFacts
<1> HIDE DEF kk, ee
<1>3. kk \in Journals /\ ee \in Disks
  BY <1>2 DEF ReservedFor
<1>4. /\ jj.acked \in Nat /\ jj.reserved \in Nat /\ jj.nextSeq \in Nat
      /\ kk.acked \in Nat /\ kk.reserved \in Nat /\ kk.nextSeq \in Nat
      /\ dd.acked \in Nat /\ dd.reserved \in Nat /\ ee.acked \in Nat /\ ee.reserved \in Nat
      /\ MaxSeq \in Nat
  BY <1>1, <1>3, PowerAssumption DEF Journals, Disks
<1>5. /\ kk.nextSeq <= kk.reserved + 1 /\ jj.reserved <= ee.reserved /\ kk.reserved <= ee.reserved
      /\ ee.acked <= ee.reserved /\ kk.acked < kk.nextSeq /\ jj.reserved <= kk.reserved
  BY <1>2, <1>4 DEF ReservedFor, Ready
<1>6. ee.tail # None => /\ ee.tail.seq \in 1 .. MaxSeq - 1 /\ ee.tail.seq <= jj.reserved
                        /\ Fits(K, ee.tail) /\ ee.tail.seq <= kk.reserved
  <2>1. ee.tail = dd.tail
    BY <1>2 DEF ReservedFor
  <2>2. dd.tail # None => /\ dd.tail.seq \in 1 .. MaxSeq - 1 /\ dd.tail.seq <= jj.reserved
                          /\ Fits(K, dd.tail)
    BY DEF Ready
  <2>3. dd.tail # None => dd.tail.seq <= kk.reserved
    BY <1>4, <1>5, <2>2
  <2> QED
    BY <2>1, <2>2, <2>3
<1>7. Ready(t, K, kk, ee)
  BY <1>2, <1>3, <1>5, <1>6 DEF Ready, ReservedFor
<1>8. Ready(t, K, jj, ee)
  BY <1>2, <1>3, <1>5, <1>6 DEF Ready, ReservedFor
<1>9. kk.nextSeq = jj.nextSeq /\ jj.nextSeq <= kk.reserved
  BY <1>2 DEF ReservedFor
<1> QED
  BY <1>7, <1>8, <1>9 DEF kk, ee

\* A failed write leaves no tail, or the line.
LEMMA TornReady ==
  ASSUME NEW t \in Stream, NEW K, NEW jj, NEW dd, Ready(t, K, jj, dd),
         NEW x \in Buckets \cup {None},
         x # None => /\ x.seq \in 1 .. MaxSeq - 1 /\ x.seq <= jj.reserved /\ Fits(K, x)
  PROVE  Ready(t, K, jj, [CutBack(dd) EXCEPT !.tail = x])
<1>1. dd \in Disks
  BY DEF Ready
<1>2. [CutBack(dd) EXCEPT !.tail = x] = [dd EXCEPT !.tail = x]
  BY <1>1 DEF CutBack, Disks
<1>3. [dd EXCEPT !.tail = x] \in Disks
  BY <1>1 DEF Disks
<1>4. [dd EXCEPT !.tail = x].tail = x
  BY <1>1 DEF Disks
<1>5. Ready(t, K, jj, [dd EXCEPT !.tail = x])
  BY <1>1, <1>3, <1>4 DEF Ready, Disks
<1> QED
  BY <1>2, <1>5

\* Under a stream not drawn yet nothing is known.
LEMMA FreshReady ==
  ASSUME AgentInv, streams < MaxStreams
  PROVE  /\ streams + 1 \in Stream /\ KnownIn(streams + 1) = {}
         /\ Ready(streams + 1, {}, FreshJournal(streams + 1), FreshDisk(streams + 1))
<1>1. streams \in Nat /\ MaxStreams \in Nat /\ MaxSeq \in Nat \ {0, 1} /\ streams + 1 \in Stream
  BY PowerAssumption DEF AgentInv, AgentTypeOK, Stream
<1>2. KnownIn(streams + 1) = {}
  <2>1. ASSUME NEW b \in KnownIn(streams + 1) PROVE FALSE
    <3>1. streams + 1 <= streams
      BY <1>1, KnownFacts
    <3> QED
      BY <1>1, <3>1
  <2> QED
    BY <2>1
<1> DEFINE id == streams + 1
<1>3. id \in Stream
  BY <1>1
<1> HIDE DEF id
<1>4. Ready(id, {}, FreshJournal(id), FreshDisk(id))
  <2> DEFINE fj == FreshJournal(id)
             fd == FreshDisk(id)
  <2>1. /\ fj \in Journals /\ fd \in Disks /\ fj.stream = id /\ fd.stream = id
        /\ fj.acked = 0 /\ fd.acked = 0 /\ fj.reserved = 0 /\ fd.reserved = 0
        /\ fj.nextSeq = 1 /\ fd.tail = None /\ Lines(fj.recs) = {} /\ Lines(fd.recs) = {}
    BY <1>3, FreshFacts
  <2> HIDE DEF fj, fd
  <2>2. fj.nextSeq \in 1 .. MaxSeq /\ fj.nextSeq <= fj.reserved + 1
        /\ fj.reserved <= fd.reserved /\ fd.acked <= fd.reserved /\ fj.acked < fj.nextSeq
    BY <1>1, <2>1
  <2>3. Ready(id, {}, fj, fd)
    BY <2>1, <2>2 DEF Ready
  <2> QED
    BY <2>3 DEF fj, fd
<1> QED
  BY <1>1, <1>2, <1>4 DEF id

\* A step that leaves the journal ready and learns nothing.
LEMMA WorkerIdles ==
  ASSUME AgentInv, WorkerQuiet, NEW t \in Stream, t <= streams',
         Ready(t, KnownIn(t), j', disk'),
         snap' = snap \/ snap' = Snapshot(j'),
         \/ writeFailed' = TRUE /\ (queue' = queue \/ (queue # << >> /\ queue' = Tail(queue)))
         \/ /\ writeFailed' = writeFailed /\ queue' = queue
            /\ t = j.stream /\ j'.nextSeq = j.nextSeq
  PROVE  AgentInv'
<1> DEFINE C == {}
<1>1. KnownIn(t) \cup C = KnownIn(t) /\ C \in SUBSET Buckets
  OBVIOUS
<1>2. C = {} \/ \E c \in Buckets : C = {c} /\ Fits(KnownIn(t), c)
  OBVIOUS
<1> HIDE DEF C
<1>3. ~writeFailed' =>
        \A b \in KnownIn(t) \cup C : j'.nextSeq = b.seq + 1 =>
          IF queue' = << >> THEN gapPending \/ dropped \/ now = b.w ELSE Follows(b, queue'[1])
  BY <1>1 DEF AgentInv, ChainInv, WorkerQuiet
<1>4. Ready(t, KnownIn(t) \cup C, j', disk')
  BY <1>1
<1>5. queue' = queue \/ (queue # << >> /\ queue' = Tail(queue))
  OBVIOUS
<1>6. WorkerMoves(t, C)
  BY <1>2, <1>3, <1>4, <1>5 DEF WorkerMoves
<1> QED
  BY <1>1, <1>6, WorkerStep

\* The worker takes an acknowledgement of its stream.
LEMMA ApplyAckStep ==
  ASSUME AgentInv, ApplyAck
  PROVE  AgentInv'
<1>1. CASE mailbox' = None /\ UNCHANGED <<j, disk, snap>>
  <2>1. UNCHANGED <<now, skew, up, gapPending, queue, dropped, writeFailed, j, snap, disk,
                    streams, inserted, batch, ack>>
    BY <1>1 DEF ApplyAck, hubVars
  <2> QED
    BY <1>1, <2>1, QuietStep DEF AgentInv, AgentTypeOK
<1>2. CASE /\ AckAccepted(mailbox)
           /\ disk' = [disk EXCEPT !.acked = mailbox.through, !.reserved = j.reserved]
           /\ \/ j' = [j EXCEPT !.acked = mailbox.through] /\ snap' = Snapshot(j')
              \/ j' = j /\ snap' = snap
  <2> DEFINE a == mailbox.through
  <2>1. /\ up /\ mailbox # None /\ mailbox' = None
        /\ disk' = [disk EXCEPT !.acked = a, !.reserved = j.reserved]
        /\ j' = [j EXCEPT !.acked = a] \/ j' = j
        /\ snap' = snap \/ snap' = Snapshot(j')
        /\ UNCHANGED <<now, skew, up, gapPending, queue, dropped, writeFailed, streams, batch,
                       ack, inserted>>
    BY <1>2 DEF ApplyAck, hubVars
  <2>2. PICK t \in Stream : t = j.stream
    BY <2>1, JournalReady
  <2>3. Ready(t, KnownIn(t), j, disk)
    BY <2>1, <2>2, JournalReady
  <2>4. /\ AgentTypeOK /\ j \in Journals /\ disk \in Disks /\ t <= streams /\ streams \in Stream
        /\ writeFailed \in BOOLEAN
    BY <2>2 DEF AgentInv, AgentTypeOK, NumbersInv
  <2>5. a \in Nat /\ a < j.nextSeq /\ j.nextSeq <= j.reserved + 1 /\ j.nextSeq \in Nat
        /\ j.reserved \in Nat
    BY <1>2, <2>1, <2>3, <2>4 DEF AckAccepted, AgentTypeOK, Acks, Ready, Journals
  <2> HIDE DEF a
  <2>6. /\ j' \in Journals /\ j'.stream = j.stream /\ j'.nextSeq = j.nextSeq
        /\ j'.acked = a \/ j'.acked = j.acked
        /\ j'.reserved = j.reserved /\ j'.recs = j.recs
    BY <2>1, <2>4, <2>5 DEF Journals
  <2>7. /\ disk' \in Disks /\ disk'.stream = disk.stream /\ disk'.acked = a
        /\ disk'.reserved = j.reserved /\ disk'.recs = disk.recs /\ disk'.tail = disk.tail
    BY <2>1, <2>4, <2>5 DEF Disks
  <2>8. Ready(t, KnownIn(t), j', disk')
    BY <2>3, <2>5, <2>6, <2>7 DEF Ready
  <2>9. streams' \in Stream /\ streams <= streams' /\ t <= streams'
    BY <2>1, <2>4, PowerAssumption DEF Stream
  <2>10. WorkerQuiet
    BY <2>1, <2>4, <2>9 DEF WorkerQuiet
  <2> QED
    BY <2>1, <2>2, <2>6, <2>8, <2>9, <2>10, WorkerIdles
<1>3. \/ mailbox' = None /\ UNCHANGED <<j, disk, snap>>
      \/ /\ AckAccepted(mailbox)
         /\ disk' = [disk EXCEPT !.acked = mailbox.through, !.reserved = j.reserved]
         /\ \/ j' = [j EXCEPT !.acked = mailbox.through] /\ snap' = Snapshot(j')
            \/ j' = j /\ snap' = snap
  BY DEF ApplyAck
<1> QED
  BY <1>1, <1>2, <1>3

\* The retention tick.
LEMMA RetentionTickStep ==
  ASSUME AgentInv, RetentionTick
  PROVE  AgentInv'
<1>1. PICK fails \in BOOLEAN : /\ j' = Enforced(j, disk, fails).j
                               /\ disk' = Enforced(j, disk, fails).d
                               /\ snap' = Snapshot(Enforced(j, disk, fails).j)
  BY DEF RetentionTick
<1>2. up /\ UNCHANGED <<queue, writeFailed, streams, now, skew, up, gapPending, dropped, mailbox,
                        batch, ack, inserted>>
  BY DEF RetentionTick, WorkerFrame, hubVars
<1>3. PICK t \in Stream : t = j.stream
  BY <1>2, JournalReady
<1>4. Ready(t, KnownIn(t), j, disk)
  BY <1>2, <1>3, JournalReady
<1>5. Ready(t, KnownIn(t), j', disk') /\ j'.nextSeq = j.nextSeq
  BY <1>1, <1>4, EnforcedReady
<1>6. /\ AgentTypeOK /\ t <= streams /\ streams \in Stream /\ writeFailed \in BOOLEAN
      /\ mailbox \in Acks \cup {None}
  BY <1>3 DEF AgentInv, AgentTypeOK, NumbersInv
<1>7. streams' \in Stream /\ streams <= streams' /\ t <= streams'
  BY <1>2, <1>6, PowerAssumption DEF Stream
<1>8. WorkerQuiet
  BY <1>2, <1>6, <1>7 DEF WorkerQuiet
<1> QED
  BY <1>1, <1>2, <1>3, <1>5, <1>7, <1>8, WorkerIdles

-----------------------------------------------------------------------------
\* The record of an append.
LEMMA BucketFacts ==
  ASSUME AgentTypeOK, queue # << >>, NEW n \in Nat
  PROVE  /\ Bucket(n) \in Buckets /\ Bucket(n).seq = n /\ Bucket(n).w = queue[1].w
         /\ Bucket(n).gap <=> queue[1].gap \/ writeFailed
<1> DEFINE b == queue[1]
<1>1. b \in Windows /\ Head(queue) = b /\ writeFailed \in BOOLEAN
  BY DEF AgentTypeOK
<1>2. Bucket(n) = [seq |-> n, w |-> b.w, end |-> b.end, gap |-> b.gap \/ writeFailed]
  BY <1>1 DEF Bucket
<1> HIDE DEF b
<1>3. b.w \in Nat /\ b.end \in Int /\ b.gap \in BOOLEAN
  BY <1>1 DEF Windows
<1>4. PICK g \in BOOLEAN : g <=> b.gap \/ writeFailed
  BY <1>1, <1>3
<1>5. Bucket(n) = [seq |-> n, w |-> b.w, end |-> b.end, gap |-> g]
  BY <1>1, <1>2, <1>3, <1>4
<1>6. Bucket(n) \in Buckets /\ Bucket(n).seq = n /\ Bucket(n).w = b.w /\ Bucket(n).gap = g
  BY <1>3, <1>5 DEF Buckets
<1> QED
  BY <1>4, <1>6 DEF b

\* Where an append starts: the stream it will write to, ready, with room for a
\* number; in the old one the bucket waiting follows the last one numbered.
LEMMA AppendBase ==
  ASSUME AgentInv, up, BeforeWrite.rotate => streams < MaxStreams
  PROVE  \E t \in Stream :
           /\ t = IF BeforeWrite.rotate THEN streams + 1 ELSE j.stream
           /\ t <= IF BeforeWrite.rotate THEN streams + 1 ELSE streams
           /\ Ready(t, KnownIn(t), BeforeWrite.j, BeforeWrite.d)
           /\ BeforeWrite.j.nextSeq \in 1 .. MaxSeq - 1
           /\ BeforeWrite.rotate => KnownIn(t) = {}
           /\ ~BeforeWrite.rotate => BeforeWrite.j.nextSeq = j.nextSeq
<1>0. AgentTypeOK /\ MaxSeq \in Nat \ {0, 1} /\ streams \in Nat
  BY PowerAssumption DEF AgentInv, AgentTypeOK, Stream
<1>1. /\ JournalKept(j, BeforeWrite.enforced.j) /\ DiskKept(j, disk, BeforeWrite.enforced.d)
      /\ BeforeWrite.rotate <=> j.nextSeq >= MaxSeq
      /\ BeforeWrite.rotate => /\ BeforeWrite.j = FreshJournal(streams + 1)
                               /\ BeforeWrite.d = FreshDisk(streams + 1)
      /\ ~BeforeWrite.rotate => /\ BeforeWrite.j = BeforeWrite.enforced.j
                                /\ BeforeWrite.d = BeforeWrite.enforced.d
  BY <1>0, BeforeWriteFacts
<1>2. CASE BeforeWrite.rotate
  <2>1. PICK t \in Stream : t = streams + 1 /\ KnownIn(t) = {}
                            /\ Ready(t, {}, FreshJournal(t), FreshDisk(t))
    BY <1>2, FreshReady
  <2>2. BeforeWrite.j = FreshJournal(t) /\ BeforeWrite.d = FreshDisk(t)
    BY <1>1, <1>2, <2>1
  <2>3. Ready(t, KnownIn(t), BeforeWrite.j, BeforeWrite.d)
    BY <2>1, <2>2
  <2>4. BeforeWrite.j.nextSeq \in 1 .. MaxSeq - 1
    BY <1>0, <2>2, FreshFacts
  <2>5. t <= streams + 1
    BY <1>0, <2>1
  <2> QED
    BY <1>2, <2>1, <2>3, <2>4, <2>5
<1>3. CASE ~BeforeWrite.rotate
  <2>1. PICK t \in Stream : t = j.stream
    BY JournalReady
  <2>2. Ready(t, KnownIn(t), j, disk) /\ t <= streams
    BY <2>1, JournalReady DEF AgentInv, NumbersInv
  <2>3. JournalKept(j, BeforeWrite.j) /\ DiskKept(j, disk, BeforeWrite.d)
    BY <1>1, <1>3
  <2>4. Ready(t, KnownIn(t), BeforeWrite.j, BeforeWrite.d)
    BY <2>2, <2>3, KeptReady
  <2>5. BeforeWrite.j.nextSeq = j.nextSeq
    BY <2>3 DEF JournalKept
  <2>6. j.nextSeq \in 1 .. MaxSeq - 1
    BY <1>0, <1>1, <1>3, <2>2 DEF Ready
  <2> QED
    BY <1>3, <2>1, <2>2, <2>4, <2>5, <2>6
<1> QED
  BY <1>2, <1>3

\* The bucket an append numbers comes after all that is known in its stream.
LEMMA BucketFits ==
  ASSUME AgentInv, up, queue # << >>, NEW t \in Stream, NEW n \in Nat,
         \A b \in KnownIn(t) : b.seq < n,
         KnownIn(t) = {} \/ (t = j.stream /\ n = j.nextSeq)
  PROVE  Fits(KnownIn(t), Bucket(n))
<1>1. /\ AgentTypeOK /\ writeFailed \in BOOLEAN
      /\ Bucket(n).seq = n /\ Bucket(n).w = queue[1].w
      /\ Bucket(n).gap <=> queue[1].gap \/ writeFailed
  BY BucketFacts DEF AgentInv, AgentTypeOK
<1>2. ASSUME NEW b \in KnownIn(t), n = b.seq + 1
      PROVE  Follows(b, Bucket(n))
  <2>1. t = j.stream /\ n = j.nextSeq
    BY <1>2
  <2>2. ~writeFailed => Follows(b, queue[1])
    BY <1>2, <2>1 DEF AgentInv, ChainInv
  <2> QED
    BY <1>1, <2>2 DEF Follows
<1> QED
  BY <1>1, <1>2 DEF Fits

\* Writing the next number keeps a journal ready.
LEMMA WrittenReady ==
  ASSUME NEW t \in Stream, NEW K, NEW jj, NEW dd, Ready(t, K, jj, dd),
         NEW rec \in Buckets, rec.seq = jj.nextSeq, jj.nextSeq \in 1 .. MaxSeq - 1,
         jj.nextSeq <= jj.reserved
  PROVE  /\ Ready(t, K \cup {rec}, Written(jj, dd, rec).j, Written(jj, dd, rec).d)
         /\ Written(jj, dd, rec).j.nextSeq = jj.nextSeq + 1
<1> DEFINE kk == Written(jj, dd, rec).j
           ee == Written(jj, dd, rec).d
<1>1. jj \in Journals /\ dd \in Disks
  BY DEF Ready
<1>2. WrittenAs(jj, dd, rec, kk, ee)
  BY <1>1, WrittenFacts
<1> HIDE DEF kk, ee
<1>3. /\ kk \in Journals /\ ee \in Disks /\ kk.stream = t /\ ee.stream = t
      /\ kk.acked = jj.acked /\ kk.reserved = jj.reserved /\ kk.nextSeq = jj.nextSeq + 1
      /\ ee.acked = dd.acked /\ ee.reserved = dd.reserved /\ ee.tail = None
  BY <1>2 DEF WrittenAs, Ready
<1>4. Lines(kk.recs) \subseteq K \cup {rec} /\ Lines(ee.recs) \subseteq K \cup {rec}
  BY <1>2 DEF WrittenAs, Ready
<1>5. /\ jj.acked \in Nat /\ jj.nextSeq \in Nat /\ jj.reserved \in Nat
      /\ MaxSeq \in Nat
  BY <1>1, PowerAssumption DEF Journals
<1>6. /\ kk.nextSeq \in 1 .. MaxSeq /\ kk.nextSeq <= kk.reserved + 1
      /\ kk.reserved <= ee.reserved /\ ee.acked <= ee.reserved /\ kk.acked < kk.nextSeq
  BY <1>3, <1>5 DEF Ready
<1>7. ASSUME NEW b \in K \cup {rec}
      PROVE  b.seq \in 1 .. MaxSeq - 1 /\ b.seq < kk.nextSeq
  <2>1. CASE b \in K
    <3>1. b.seq \in 1 .. MaxSeq - 1 /\ b.seq < jj.nextSeq
      BY <2>1 DEF Ready
    <3> QED
      BY <1>3, <1>5, <3>1
  <2>2. CASE b = rec
    BY <1>3, <1>5, <2>2
  <2> QED
    BY <1>7, <2>1, <2>2
<1>8. Ready(t, K \cup {rec}, kk, ee)
  BY <1>3, <1>4, <1>6, <1>7 DEF Ready
<1> QED
  BY <1>3, <1>8 DEF kk, ee

\* What follows the bucket that leaves the queue.
LEMMA NextInQueue ==
  ASSUME AgentInv, queue # << >>, NEW b, b.w = queue[1].w
  PROVE  IF Tail(queue) = << >> THEN gapPending \/ dropped \/ now = b.w
                                ELSE Follows(b, Tail(queue)[1])
<1> DEFINE n == Len(queue)
           q == Tail(queue)
<1>1. /\ queue \in Seq(Windows) /\ n \in Nat \ {0}
      /\ \A i \in 1 .. n - 1 : Follows(queue[i], queue[i + 1])
      /\ gapPending \/ dropped \/ queue[n].w = now
  BY EmptySeq DEF AgentInv, AgentTypeOK, ChainInv
<1>2. /\ q \in Seq(Windows) /\ Len(q) = n - 1
      /\ \A i \in 1 .. Len(q) : q[i] = queue[i + 1]
  BY <1>1, HeadTailProperties
<1> HIDE DEF n, q
<1>3. CASE q = << >>
  <2>1. Len(q) = 0
    BY <1>3, EmptySeq
  <2>2. n = 1
    BY <1>1, <1>2, <2>1
  <2> QED
    BY <1>1, <1>3, <2>2 DEF q
<1>4. CASE q # << >>
  <2>1. Len(q) \in Nat \ {0}
    BY <1>2, <1>4, EmptySeq
  <2>2. 1 \in 1 .. Len(q) /\ 1 \in 1 .. n - 1
    BY <1>1, <1>2, <2>1
  <2>3. q[1] = queue[1 + 1] /\ Follows(queue[1], queue[1 + 1])
    BY <1>1, <1>2, <2>2
  <2>4. Follows(b, q[1])
    BY <2>3 DEF Follows
  <2> QED
    BY <1>4, <2>4 DEF q
<1> QED
  BY <1>3, <1>4

\* appendBucket with a durable record.
LEMMA AppendBucketStep ==
  ASSUME AgentInv, AppendBucket
  PROVE  AgentInv'
<1> DEFINE p == BeforeWrite
           s == Reserved(p.j, p.d)
           n == s.j.nextSeq
           rec == Bucket(n)
           x == Written(s.j, s.d, rec)
<1>1. PICK fails \in BOOLEAN :
        /\ up /\ queue # << >> /\ queue' = Tail(queue)
        /\ p.rotate => streams < MaxStreams
        /\ streams' = IF p.rotate THEN streams + 1 ELSE streams
        /\ j' = Enforced(x.j, x.d, fails).j /\ disk' = Enforced(x.j, x.d, fails).d
        /\ writeFailed' = fails
        /\ snap' = IF fails THEN snap ELSE Snapshot(Enforced(x.j, x.d, fails).j)
        /\ WorkerFrame
  BY ZenonT(60) DEF AppendBucket
<1>2. PICK t \in Stream :
        /\ t = IF p.rotate THEN streams + 1 ELSE j.stream
        /\ t <= IF p.rotate THEN streams + 1 ELSE streams
        /\ Ready(t, KnownIn(t), p.j, p.d)
        /\ p.j.nextSeq \in 1 .. MaxSeq - 1
        /\ p.rotate => KnownIn(t) = {}
        /\ ~p.rotate => p.j.nextSeq = j.nextSeq
  BY <1>1, AppendBase
<1> HIDE DEF p
<1>3. /\ Ready(t, KnownIn(t), s.j, s.d) /\ n = p.j.nextSeq /\ n <= s.j.reserved
  <2>1. Ready(t, KnownIn(t), p.j, p.d)
    BY <1>2
  <2> DEFINE pj == p.j
             pd == p.d
  <2>2. Ready(t, KnownIn(t), pj, pd)
    BY <2>1
  <2> HIDE DEF pj, pd
  <2>3. /\ Ready(t, KnownIn(t), Reserved(pj, pd).j, Reserved(pj, pd).d)
        /\ Ready(t, KnownIn(t), pj, Reserved(pj, pd).d)
        /\ Reserved(pj, pd).j.nextSeq = pj.nextSeq
        /\ pj.nextSeq <= Reserved(pj, pd).j.reserved
    BY <2>2, ReservedReady
  <2> QED
    BY <2>3 DEF pj, pd
<1> HIDE DEF s
<1>4. n \in 1 .. MaxSeq - 1 /\ n \in Nat /\ MaxSeq \in Nat
  BY <1>2, <1>3, PowerAssumption
<1> HIDE DEF n
<1>5. /\ AgentTypeOK /\ rec \in Buckets /\ rec.seq = n /\ rec.w = queue[1].w
  BY <1>1, <1>4, BucketFacts DEF AgentInv
<1>6. Fits(KnownIn(t), rec)
  <2>1. \A b \in KnownIn(t) : b.seq < n
    BY <1>3 DEF Ready, n
  <2>2. KnownIn(t) = {} \/ (t = j.stream /\ n = j.nextSeq)
    BY <1>2, <1>3
  <2> QED
    BY <1>1, <1>4, <2>1, <2>2, BucketFits
<1> HIDE DEF rec
<1>7. Ready(t, KnownIn(t) \cup {rec}, x.j, x.d) /\ x.j.nextSeq = n + 1
  <2>1. rec.seq = s.j.nextSeq /\ s.j.nextSeq \in 1 .. MaxSeq - 1 /\ s.j.nextSeq <= s.j.reserved
    BY <1>3, <1>4, <1>5 DEF n
  <2>2. Ready(t, KnownIn(t), s.j, s.d) /\ rec \in Buckets
    BY <1>3, <1>5
  <2>3. Ready(t, KnownIn(t) \cup {rec}, x.j, x.d) /\ x.j.nextSeq = s.j.nextSeq + 1
    BY <2>1, <2>2, WrittenReady
  <2> QED
    BY <2>3 DEF n
<1> HIDE DEF x
<1>8. Ready(t, KnownIn(t) \cup {rec}, j', disk') /\ j'.nextSeq = n + 1
  BY <1>1, <1>7, EnforcedReady
<1>9. /\ streams' \in Stream /\ streams <= streams' /\ t <= streams'
  <2>1. streams \in Stream /\ streams \in Nat /\ MaxStreams \in Nat
    BY <1>5, PowerAssumption DEF AgentTypeOK, Stream
  <2>2. t \in Nat
    BY PowerAssumption DEF Stream
  <2> QED
    BY <1>1, <1>2, <2>1, <2>2 DEF Stream
<1>10. WorkerQuiet
  BY <1>1, <1>5, <1>9 DEF WorkerQuiet, WorkerFrame, hubVars, AgentTypeOK
<1> DEFINE C == {rec}
<1>11. C \in SUBSET Buckets /\ \E c \in Buckets : C = {c} /\ Fits(KnownIn(t), c)
  BY <1>5, <1>6
<1>12. ASSUME NEW b \in KnownIn(t) \cup C, j'.nextSeq = b.seq + 1
       PROVE  IF queue' = << >> THEN gapPending \/ dropped \/ now = b.w ELSE Follows(b, queue'[1])
  <2>1. b \in KnownIn(t) => b.seq \in Nat /\ b.seq < n
    BY KnownFacts, <1>6, <1>5 DEF Fits
  <2>2. b = rec
    BY <1>4, <1>8, <1>12, <2>1
  <2>3. b.w = queue[1].w
    BY <1>5, <2>2
  <2> QED
    BY <1>1, <2>3, NextInQueue
<1>13. Ready(t, KnownIn(t) \cup C, j', disk')
  BY <1>8
<1>14. snap' = snap \/ snap' = Snapshot(j')
  BY <1>1
<1> HIDE DEF C
<1>15. WorkerMoves(t, C)
  BY <1>1, <1>9, <1>10, <1>11, <1>12, <1>13, <1>14 DEF WorkerMoves
<1> QED
  BY <1>11, <1>15, WorkerStep

\* appendBucket that stops early.
LEMMA AppendFailsStep ==
  ASSUME AgentInv, AppendFails
  PROVE  AgentInv'
<1> DEFINE p == BeforeWrite
           s == Reserved(p.j, p.d)
           n == s.j.nextSeq
           rec == Bucket(n)
<1>1. /\ up /\ queue # << >> /\ queue' = Tail(queue) /\ writeFailed' = TRUE /\ snap' = snap
      /\ WorkerFrame
      /\ \/ /\ j' = Enforced(j, disk, TRUE).j /\ disk' = disk /\ streams' = streams
         \/ /\ p.rotate /\ j' = p.enforced.j /\ disk' = p.enforced.d /\ streams' = streams
         \/ /\ ~p.rotate /\ streams' = streams /\ j' = p.j /\ disk' \in {p.d, s.d}
         \/ /\ p.rotate => streams < MaxStreams
            /\ streams' = IF p.rotate THEN streams + 1 ELSE streams
            /\ j' = s.j
            /\ disk' \in {s.d} \cup {[CutBack(s.d) EXCEPT !.tail = x] : x \in {None, rec}}
  BY DEF AppendFails
<1>2. /\ AgentTypeOK /\ streams \in Stream /\ streams \in Nat /\ MaxStreams \in Nat
      /\ MaxSeq \in Nat
  BY PowerAssumption DEF AgentInv, AgentTypeOK, Stream
<1>3. streams' \in Stream /\ streams <= streams'
  <2>1. streams' = streams \/ (streams' = streams + 1 /\ streams < MaxStreams)
    BY <1>1
  <2> QED
    BY <1>2, <2>1 DEF Stream
<1>4. WorkerQuiet
  BY <1>1, <1>2, <1>3 DEF WorkerQuiet, WorkerFrame, hubVars, AgentTypeOK
<1>5. ASSUME NEW t \in Stream, t <= streams', Ready(t, KnownIn(t), j', disk')
      PROVE  AgentInv'
  BY <1>1, <1>4, <1>5, WorkerIdles
<1>6. PICK u \in Stream : u = j.stream /\ u <= streams /\ Ready(u, KnownIn(u), j, disk)
  BY <1>1, JournalReady DEF AgentInv, NumbersInv
<1>7. CASE j' = Enforced(j, disk, TRUE).j /\ disk' = disk /\ streams' = streams
  <2>1. Ready(u, KnownIn(u), j', disk')
    BY <1>6, <1>7, EnforcedReady
  <2> QED
    BY <1>5, <1>6, <1>7, <2>1
<1>8. CASE p.rotate /\ j' = p.enforced.j /\ disk' = p.enforced.d /\ streams' = streams
  <2>1. JournalKept(j, j') /\ DiskKept(j, disk, disk')
    BY <1>2, <1>8, BeforeWriteFacts
  <2>2. Ready(u, KnownIn(u), j', disk')
    BY <1>6, <2>1, KeptReady
  <2> QED
    BY <1>5, <1>6, <1>8, <2>2
<1>9. ASSUME p.rotate => streams < MaxStreams
      PROVE  \E t \in Stream :
               /\ t <= IF p.rotate THEN streams + 1 ELSE streams
               /\ Ready(t, KnownIn(t), p.j, s.d) /\ Ready(t, KnownIn(t), p.j, p.d)
               /\ Ready(t, KnownIn(t), s.j, s.d)
               /\ \A x \in {None, rec} :
                    Ready(t, KnownIn(t), s.j, [CutBack(s.d) EXCEPT !.tail = x])
  <2>2. PICK t \in Stream :
          /\ t = IF p.rotate THEN streams + 1 ELSE j.stream
          /\ t <= IF p.rotate THEN streams + 1 ELSE streams
          /\ Ready(t, KnownIn(t), p.j, p.d)
          /\ p.j.nextSeq \in 1 .. MaxSeq - 1
          /\ p.rotate => KnownIn(t) = {}
          /\ ~p.rotate => p.j.nextSeq = j.nextSeq
    BY <1>1, <1>9, AppendBase
  <2> HIDE DEF p
  <2>3. /\ Ready(t, KnownIn(t), s.j, s.d) /\ Ready(t, KnownIn(t), p.j, s.d)
        /\ n = p.j.nextSeq /\ n <= s.j.reserved
    <3>1. Ready(t, KnownIn(t), p.j, p.d)
      BY <2>2
    <3> DEFINE pj == p.j
               pd == p.d
    <3>2. Ready(t, KnownIn(t), pj, pd)
      BY <3>1
    <3> HIDE DEF pj, pd
    <3>3. /\ Ready(t, KnownIn(t), Reserved(pj, pd).j, Reserved(pj, pd).d)
          /\ Ready(t, KnownIn(t), pj, Reserved(pj, pd).d)
          /\ Reserved(pj, pd).j.nextSeq = pj.nextSeq
          /\ pj.nextSeq <= Reserved(pj, pd).j.reserved
      BY <3>2, ReservedReady
    <3> QED
      BY <3>3 DEF pj, pd
  <2> HIDE DEF s
  <2>4. n \in 1 .. MaxSeq - 1 /\ n \in Nat
    BY <1>2, <2>2, <2>3
  <2>a. \A b \in KnownIn(t) : b.seq < n
    BY <2>3 DEF Ready
  <2> HIDE DEF n
  <2>5. rec \in Buckets /\ rec.seq = n
    BY <1>1, <1>2, <2>4, BucketFacts
  <2>6. Fits(KnownIn(t), rec)
    <3>2. KnownIn(t) = {} \/ (t = j.stream /\ n = j.nextSeq)
      BY <2>2, <2>3
    <3> QED
      BY <1>1, <2>4, <2>a, <3>2, BucketFits
  <2> HIDE DEF rec
  <2>7. ASSUME NEW x \in {None, rec}
        PROVE  Ready(t, KnownIn(t), s.j, [CutBack(s.d) EXCEPT !.tail = x])
    <3>1. x \in Buckets \cup {None}
      BY <2>5
    <3>2. x # None => /\ x.seq \in 1 .. MaxSeq - 1 /\ x.seq <= s.j.reserved
                      /\ Fits(KnownIn(t), x)
      BY <2>3, <2>4, <2>5, <2>6
    <3> QED
      BY <2>3, <3>1, <3>2, TornReady
  <2> QED
    BY <2>2, <2>3, <2>7
<1>10. CASE ~p.rotate /\ streams' = streams /\ j' = p.j /\ disk' \in {p.d, s.d}
  <2>1. PICK t \in Stream :
          /\ t <= streams
          /\ Ready(t, KnownIn(t), p.j, s.d) /\ Ready(t, KnownIn(t), p.j, p.d)
    BY <1>9, <1>10
  <2>2. Ready(t, KnownIn(t), j', disk')
    BY <1>10, <2>1
  <2> QED
    BY <1>5, <1>10, <2>1, <2>2
<1>11. CASE /\ p.rotate => streams < MaxStreams
            /\ streams' = IF p.rotate THEN streams + 1 ELSE streams
            /\ j' = s.j
            /\ disk' \in {s.d} \cup {[CutBack(s.d) EXCEPT !.tail = x] : x \in {None, rec}}
  <2>1. PICK t \in Stream :
          /\ t <= IF p.rotate THEN streams + 1 ELSE streams
          /\ Ready(t, KnownIn(t), s.j, s.d)
          /\ \A x \in {None, rec} : Ready(t, KnownIn(t), s.j, [CutBack(s.d) EXCEPT !.tail = x])
    BY <1>9, <1>11
  <2> HIDE DEF p, s, rec
  <2>2. Ready(t, KnownIn(t), j', disk')
    BY <1>11, <2>1
  <2>3. t <= streams'
    BY <1>11, <2>1
  <2> QED
    BY <1>5, <2>2, <2>3
<1> QED
  BY <1>1, <1>7, <1>8, <1>10, <1>11

\* The lines a restart finds, and the number it resumes at.
LEMMA RecoveredFacts ==
  ASSUME AgentInv
  PROVE  LET C == IF disk.tail = None THEN {} ELSE {disk.tail}
             K == KnownIn(disk.stream) \cup C
         IN  /\ C \in SUBSET Buckets
             /\ C = {} \/ \E c \in Buckets : C = {c} /\ Fits(KnownIn(disk.stream), c)
             /\ Recovered(disk) \in Seq(Buckets) /\ Lines(Recovered(disk)) \subseteq K
             /\ \A b \in K : b.seq \in 1 .. MaxSeq - 1 /\ b.seq <= disk.reserved
             /\ ResumeSeq(disk, Recovered(disk)) = disk.reserved + 1
<1> DEFINE C == IF disk.tail = None THEN {} ELSE {disk.tail}
           K == KnownIn(disk.stream) \cup C
           lines == IF disk.tail = None THEN disk.recs ELSE Append(disk.recs, disk.tail)
           recs == Recovered(disk)
<1>1. /\ AgentTypeOK /\ disk \in Disks /\ disk.recs \in Seq(Buckets) /\ disk.stream \in Stream
      /\ disk.acked \in Nat /\ disk.reserved \in Nat /\ disk.acked <= disk.reserved
      /\ disk.tail # None => disk.tail \in Buckets
  BY DEF AgentInv, AgentTypeOK, Disks, NumbersInv
<1>2. C \in SUBSET Buckets
  BY <1>1
<1>3. C = {} \/ \E c \in Buckets : C = {c} /\ Fits(KnownIn(disk.stream), c)
  BY <1>1 DEF AgentInv, TailInv
<1>4. lines \in Seq(Buckets) /\ Lines(lines) \subseteq K
  <2>1. Lines(disk.recs) \subseteq KnownIn(disk.stream)
    BY <1>1, LinesKnown
  <2>2. CASE disk.tail = None
    BY <1>1, <2>1, <2>2
  <2>3. CASE disk.tail # None
    <3>1. Append(disk.recs, disk.tail) \in Seq(Buckets)
          /\ Lines(Append(disk.recs, disk.tail)) = Lines(disk.recs) \cup {disk.tail}
      BY <1>1, <2>3, LinesAppend
    <3> QED
      BY <2>1, <2>3, <3>1
  <2> QED
    BY <2>2, <2>3
<1>5. recs = AscendingPrefix(lines)
  BY DEF Recovered
<1> HIDE DEF lines, recs
<1>6. recs \in Seq(Buckets) /\ Lines(recs) \subseteq K
  BY <1>4, <1>5, PrefixLines
<1>7. \A b \in K : b.seq \in 1 .. MaxSeq - 1 /\ b.seq <= disk.reserved
  <2>1. \A b \in KnownIn(disk.stream) : b.seq \in 1 .. MaxSeq - 1 /\ b.seq <= disk.reserved
    BY <1>1, KnownFacts
  <2>2. \A b \in C : b.seq \in 1 .. MaxSeq - 1 /\ b.seq <= disk.reserved
    BY <1>1 DEF AgentInv, TailInv
  <2> QED
    BY <2>1, <2>2
<1> HIDE DEF K, C
<1>8. ResumeSeq(disk, recs) = disk.reserved + 1
  <2> DEFINE N == {disk.acked, disk.reserved} \cup {recs[i].seq : i \in DOMAIN recs}
             m == Max(N)
  <2>1. \A i \in DOMAIN recs : recs[i].seq \in Nat /\ recs[i].seq <= disk.reserved
    <3>1. \A i \in DOMAIN recs : recs[i] \in K
      BY <1>6 DEF Lines
    <3>2. MaxSeq \in Nat
      BY PowerAssumption
    <3> QED
      BY <1>7, <3>1, <3>2
  <2>2. N \in SUBSET Nat /\ disk.reserved \in N /\ \A y \in N : y <= disk.reserved
    BY <1>1, <2>1
  <2>3. ResumeSeq(disk, recs) = 1 + m
    BY DEF ResumeSeq
  <2> HIDE DEF N
  <2>4. m \in N /\ \A y \in N : y <= m
    BY <1>1, <2>2, MaxNat
  <2> HIDE DEF m
  <2>5. m \in Nat /\ m <= disk.reserved /\ disk.reserved <= m
    BY <2>2, <2>4
  <2> QED
    BY <1>1, <2>3, <2>5
<1> QED
  BY <1>2, <1>3, <1>6, <1>7, <1>8 DEF K, C, recs

\* openPowerJournal and newPowerHistory after a restart.
LEMMA BootStep ==
  ASSUME AgentInv, Boot
  PROVE  AgentInv'
<1> DEFINE recs == Recovered(disk)
           next == ResumeSeq(disk, recs)
           rotate == ~disk.stateOk \/ next >= MaxSeq
           opened == [stream |-> disk.stream, acked |-> disk.acked, reserved |-> disk.reserved,
                      nextSeq |-> next, recs |-> recs, overCap |-> FALSE]
           read == [disk EXCEPT !.recs = recs, !.tail = None]
           C == IF disk.tail = None THEN {} ELSE {disk.tail}
<1>1. /\ AgentTypeOK /\ NumbersInv /\ disk \in Disks /\ ~up /\ queue = << >>
      /\ mailbox \in Acks \cup {None} /\ streams \in Stream /\ streams \in Nat
      /\ disk.stream \in Stream /\ disk.stream <= streams /\ MaxSeq \in Nat
      /\ MaxStreams \in Nat
  BY PowerAssumption DEF Boot, AgentInv, AgentTypeOK, NumbersInv, Disks, ChainInv, Stream
<1>2. /\ up' = TRUE /\ gapPending' = TRUE /\ dropped' = FALSE /\ writeFailed' = FALSE
      /\ UNCHANGED <<now, skew, queue, mailbox, batch, ack, inserted>>
      /\ snap' = Snapshot(j')
      /\ rotate => /\ streams < MaxStreams /\ streams' = streams + 1
                   /\ j' = FreshJournal(streams + 1) /\ disk' = FreshDisk(streams + 1)
      /\ ~rotate => /\ streams' = streams
                    /\ j' = Enforced(opened, read, FALSE).j
                    /\ disk' = Enforced(opened, read, FALSE).d
  <2>1. CASE rotate
    BY <2>1, Zenon DEF Boot, hubVars
  <2>2. CASE ~rotate
    BY <2>2, Zenon DEF Boot, hubVars
  <2> QED
    BY <2>1, <2>2
<1>3. queue' = << >> /\ queue' \in Seq(Windows) /\ Len(queue') = 0
  BY <1>1, <1>2
<1>a. /\ \A i \in 1 .. Len(queue') - 1 : Follows(queue'[i], queue'[i + 1])
      /\ queue' # << >> => gapPending' \/ dropped' \/ queue'[Len(queue')].w = now
      /\ writeFailed' \in BOOLEAN /\ gapPending' \in BOOLEAN /\ dropped' \in BOOLEAN
  <2>1. ASSUME NEW i \in 1 .. Len(queue') - 1 PROVE FALSE
    <3>1. Len(queue') = 0
      BY <1>3
    <3> QED
      BY <2>1, <3>1
  <2>2. queue' = << >> /\ up' = TRUE /\ gapPending' = TRUE /\ dropped' = FALSE
        /\ writeFailed' = FALSE
    BY <1>2, <1>3
  <2> QED
    BY <2>1, <2>2, Zenon
<1>b. ASSUME NEW b
      PROVE  IF queue' = << >> THEN gapPending' \/ dropped' \/ now = b.w ELSE Follows(b, queue'[1])
  BY <1>2, <1>3
<1>c. /\ up' = TRUE /\ now' = now /\ skew' = skew /\ batch' = batch /\ inserted' = inserted
      /\ ack' = ack /\ mailbox' \in Acks \cup {None}
      /\ snap' = snap \/ snap' = Snapshot(j')
      /\ queue' \in Seq(Windows)
  BY <1>1, <1>2, <1>3
<1>4. CASE rotate
  <2>1. PICK t \in Stream : t = streams + 1 /\ KnownIn(t) = {}
                            /\ Ready(t, {}, FreshJournal(t), FreshDisk(t))
    BY <1>2, <1>4, FreshReady
  <2>2. streams' \in Stream /\ streams <= streams' /\ t <= streams'
    BY <1>1, <1>2, <1>4, <2>1 DEF Stream
  <2>3. j' = FreshJournal(t) /\ disk' = FreshDisk(t)
    BY <1>2, <1>4, <2>1
  <2> DEFINE E == {}
  <2>4. Ready(t, KnownIn(t) \cup E, j', disk')
    BY <2>1, <2>3
  <2>5. E \in SUBSET Buckets /\ (E = {} \/ \E c \in Buckets : E = {c} /\ Fits(KnownIn(t), c))
    OBVIOUS
  <2> HIDE DEF E, rotate
  <2>6. JournalMoves(t, E)
    BY <1>a, <1>b, <1>c, <2>2, <2>4, <2>5 DEF JournalMoves
  <2> QED
    BY <2>5, <2>6, JournalStep
<1>5. CASE ~rotate
  <2>1. PICK t \in Stream : t = disk.stream
    BY <1>1
  <2>2. /\ C \in SUBSET Buckets
        /\ C = {} \/ \E c \in Buckets : C = {c} /\ Fits(KnownIn(t), c)
        /\ recs \in Seq(Buckets) /\ Lines(recs) \subseteq KnownIn(t) \cup C
        /\ \A b \in KnownIn(t) \cup C : b.seq \in 1 .. MaxSeq - 1 /\ b.seq <= disk.reserved
        /\ next = disk.reserved + 1
    BY <2>1, RecoveredFacts
  <2>3. ~(next >= MaxSeq)
    BY <1>5
  <2> HIDE DEF C, recs, next, rotate
  <2>4. disk.acked \in Nat /\ disk.reserved \in Nat /\ disk.acked <= disk.reserved
    BY <1>1 DEF Disks, NumbersInv
  <2>5. next \in Nat /\ next \in 1 .. MaxSeq
    BY <1>1, <2>2, <2>3, <2>4
  <2>6. opened \in Journals
    BY <1>1, <2>2, <2>4, <2>5 DEF Journals
  <2>7. read \in Disks /\ read.stream = t /\ read.recs = recs /\ read.tail = None
        /\ read.acked = disk.acked /\ read.reserved = disk.reserved
    BY <1>1, <2>1, <2>2 DEF Disks
  <2>8. opened.stream = t /\ opened.acked = disk.acked /\ opened.reserved = disk.reserved
        /\ opened.nextSeq = next /\ opened.recs = recs
    BY <2>1
  <2> HIDE DEF opened, read
  <2>9. Ready(t, KnownIn(t) \cup C, opened, read)
    <3>1. \A b \in KnownIn(t) \cup C : b.seq \in 1 .. MaxSeq - 1 /\ b.seq < next
      BY <1>1, <2>2, <2>4
    <3>2. /\ opened.nextSeq <= opened.reserved + 1 /\ opened.reserved <= read.reserved
          /\ read.acked <= read.reserved /\ opened.acked < opened.nextSeq
      BY <2>2, <2>4, <2>7, <2>8
    <3> QED
      BY <2>2, <2>5, <2>6, <2>7, <2>8, <3>1, <3>2 DEF Ready
  <2>10. Ready(t, KnownIn(t) \cup C, j', disk')
    <3>1. FALSE \in BOOLEAN
      OBVIOUS
    <3>2. Ready(t, KnownIn(t) \cup C, Enforced(opened, read, FALSE).j,
                                      Enforced(opened, read, FALSE).d)
      BY <2>9, <3>1, EnforcedReady
    <3> QED
      BY <1>2, <1>5, <3>2
  <2>11. streams' \in Stream /\ streams <= streams' /\ t <= streams'
    BY <1>1, <1>2, <1>5, <2>1
  <2>12. JournalMoves(t, C)
    BY <1>a, <1>b, <1>c, <2>2, <2>10, <2>11 DEF JournalMoves
  <2> QED
    BY <2>2, <2>12, JournalStep
<1> QED
  BY <1>4, <1>5

\* The process dies: the journal loses a tail of its lines, never its numbers.
LEMMA CrashStep ==
  ASSUME AgentInv, Crash
  PROVE  AgentInv'
<1>1. PICK n \in 0 .. Len(disk.recs), ok \in BOOLEAN :
        disk' = [disk EXCEPT !.recs = SubSeq(@, 1, n), !.stateOk = ok,
                             !.tail = IF n = Len(disk.recs) THEN @ ELSE None]
  BY DEF Crash
<1>2. /\ up' = FALSE /\ queue' = <<>> /\ mailbox' = None /\ batch' = None /\ ack' = None
      /\ UNCHANGED <<now, skew, gapPending, dropped, writeFailed, j, snap, streams, inserted>>
  BY DEF Crash, hubVars
<1>3. /\ AgentTypeOK /\ NumbersInv /\ TailInv /\ BucketsInv /\ disk \in Disks
      /\ disk.recs \in Seq(Buckets)
  BY DEF AgentInv, AgentTypeOK, Disks
<1> DEFINE cut == SubSeq(disk.recs, 1, n)
           x == IF n = Len(disk.recs) THEN disk.tail ELSE None
<1>4. cut \in Seq(Buckets) /\ Lines(cut) \subseteq Lines(disk.recs)
  <2>1. n \in Nat /\ n <= Len(disk.recs) /\ 1 \in Nat \ {0}
    BY <1>3
  <2> QED
    BY <1>3, <2>1, Slice
<1>5. x \in Buckets \cup {None} /\ (x = None \/ x = disk.tail)
  BY <1>3 DEF Disks
<1>6. disk' = [disk EXCEPT !.recs = cut, !.stateOk = ok, !.tail = x]
  BY <1>1
<1> HIDE DEF cut, x
<1>7. /\ disk' \in Disks /\ disk'.stream = disk.stream /\ disk'.acked = disk.acked
      /\ disk'.reserved = disk.reserved /\ disk'.recs = cut /\ disk'.tail = x
  BY <1>3, <1>4, <1>5, <1>6 DEF Disks
<1>8. NoneLearnt
  <2>1. ASSUME NEW s \in Stream, NEW b, KnownTo(s, b)'
        PROVE  KnownTo(s, b)
    BY <1>2, <1>4, <1>7, <2>1 DEF KnownTo
  <2> QED
    BY <2>1 DEF NoneLearnt, KnownIn
<1>9. AgentTypeOK'
  <2>1. up' \in BOOLEAN /\ queue' \in Seq(Windows) /\ mailbox' \in Acks \cup {None}
        /\ ack' \in Acks \cup {None} /\ batch' \in Batches \cup {None}
    BY <1>2, EmptySeq
  <2>2. /\ now' \in Nat /\ skew' \in Int /\ gapPending' \in BOOLEAN /\ dropped' \in BOOLEAN
        /\ writeFailed' \in BOOLEAN /\ j' \in Journals /\ snap' \in Snapshots
        /\ streams' \in Stream
    BY <1>2, <1>3 DEF AgentTypeOK
  <2> QED
    BY <1>7, <2>1, <2>2 DEF AgentTypeOK
<1>10. BucketsInv' /\ BatchInv'
  BY <1>2, <1>3, <1>8, FewerConflicts DEF BatchInv
<1>11. NumbersInv'
  BY <1>2, <1>3, <1>7, <1>8 DEF NumbersInv, NoneLearnt
<1>12. TailInv'
  <2>1. disk.stream \in Stream
    BY <1>3 DEF Disks
  <2>2. disk.tail # None => Fits(KnownIn(disk.stream)', disk.tail)
    BY <1>3, <1>7, <1>8, <2>1, FitsFewer DEF TailInv
  <2>3. disk'.tail # None => disk.tail # None /\ disk'.tail = disk.tail
    BY <1>5, <1>7
  <2>4. disk'.tail # None => Fits(KnownIn(disk.stream), disk.tail)'
    BY <1>7, <2>2, <2>3
  <2> QED
    BY <1>2, <1>3, <1>7, <2>3, <2>4 DEF TailInv
<1>13. ChainInv'
  BY <1>2 DEF ChainInv
<1> QED
  BY <1>9, <1>10, <1>11, <1>12, <1>13 DEF AgentInv

\* The buckets of a batch that become rows.
Fresh(b) == Select(b.buckets, {k \in DOMAIN b.buckets : New(b, b.buckets[k])})

\* They are those above the acknowledged prefix, each once.
FreshAbove(b, f, a) ==
  /\ f \in Seq(Buckets) /\ Lines(f) \subseteq Lines(b.buckets)
  /\ \A k \in DOMAIN f : f[k].seq > a /\ f[k].seq >= b.from /\ f[k].seq <= MaxSeq
  /\ \A k, l \in DOMAIN f : k # l => f[k].seq # f[l].seq
  /\ \A k \in DOMAIN f : \A n \in Nat : (n >= b.from /\ n <= f[k].seq /\ n > a) =>
       \E l \in DOMAIN f : f[l].seq = n

\* The buckets of a batch that are new are those above the acknowledged prefix.
LEMMA NewBuckets ==
  ASSUME AgentInv, HubInv, batch # None
  PROVE  FreshAbove(batch, Fresh(batch), st[batch.stream].acked)
<1> DEFINE s == batch.stream
           bs == batch.buckets
           a == st[s].acked
           from == batch.from
           keep == {k \in DOMAIN bs : New(batch, bs[k])}
           f == Fresh(batch)
<1>1. /\ batch \in Batches /\ s \in Stream /\ bs \in Seq(Buckets) /\ from \in Nat
      /\ a \in Nat
      /\ \A i \in DOMAIN bs : bs[i].seq = from + i - 1
      /\ \A i \in DOMAIN inserted : inserted[i].stream = s => inserted[i].seq <= a
      /\ inserted \in Seq(StoredRows) /\ table \subseteq 1 .. Len(inserted)
  BY DEF AgentInv, HubInv, AgentTypeOK, HubTypeOK, BatchInv, SettledInv, Batches
<1>2. /\ DOMAIN bs = 1 .. Len(bs) /\ Len(bs) \in Nat
      /\ \A i \in DOMAIN bs : bs[i] \in Buckets /\ bs[i].seq \in Nat /\ i \in Nat /\ i >= 1
      /\ \A i \in DOMAIN inserted : inserted[i].seq \in Nat
  <2>1. DOMAIN bs = 1 .. Len(bs) /\ Len(bs) \in Nat /\ \A i \in DOMAIN bs : bs[i] \in Buckets
    BY <1>1
  <2>2. \A i \in DOMAIN inserted : inserted[i] \in StoredRows
    BY <1>1
  <2> QED
    BY <2>1, <2>2 DEF Buckets, StoredRows
<1>3. \A i \in DOMAIN bs : New(batch, bs[i]) <=> bs[i].seq > a
  <2>1. ASSUME NEW i \in DOMAIN bs, bs[i].seq > a
        PROVE  Existing(s, bs[i]) = {}
    <3>1. ASSUME NEW k \in table, inserted[k].stream = s, inserted[k].seq = bs[i].seq
          PROVE  FALSE
      <4>1. k \in DOMAIN inserted
        BY <1>1
      <4> QED
        BY <1>1, <1>2, <2>1, <3>1, <4>1
    <3> QED
      BY <3>1 DEF Existing, Rows
  <2> QED
    BY <2>1 DEF New
<1>4. \A i \in DOMAIN bs : bs[i].seq \in 1 .. MaxSeq - 1 /\ bs[i].seq <= MaxSeq
  <2>1. \A i \in DOMAIN bs : bs[i] \in KnownIn(s)
    <3>1. Lines(bs) \subseteq KnownIn(s)
      BY LinesKnown DEF AgentInv
    <3> QED
      BY <3>1 DEF Lines
  <2>2. MaxSeq \in Nat
    BY PowerAssumption
  <2> QED
    BY <1>1, <2>1, <2>2, KnownFacts
<1>5. keep \in SUBSET (1 .. Len(bs)) /\ \A k \in DOMAIN bs : k \in keep <=> bs[k].seq > a
  BY <1>2, <1>3
<1>6. f = Select(bs, keep)
  BY DEF Fresh
<1> HIDE DEF keep, f
<1>7. f \in Seq(Buckets) /\ Picks(f, bs, keep)
  BY <1>1, <1>5, <1>6, SelectPicks
<1>8. DOMAIN f = 1 .. Len(f)
  BY <1>7
<1>9. Lines(f) \subseteq Lines(bs)
  BY <1>1, <1>5, <1>6, SelectLines
<1> HIDE DEF a, s, bs, from
<1>10. ASSUME NEW k \in DOMAIN f
       PROVE  f[k].seq > a /\ f[k].seq >= from /\ f[k].seq <= MaxSeq
  <2>1. PICK i \in keep : f[k] = bs[i]
    BY <1>7, <1>8 DEF Picks
  <2>2. i \in DOMAIN bs
    BY <1>2, <1>5
  <2>3. bs[i].seq > a /\ bs[i].seq = from + i - 1 /\ i >= 1 /\ i \in Nat
    BY <1>1, <1>2, <1>5, <2>2
  <2>4. bs[i].seq >= from
    BY <1>1, <2>3
  <2> QED
    BY <1>4, <2>1, <2>2, <2>3, <2>4
<1>11. ASSUME NEW k \in DOMAIN f, NEW l \in DOMAIN f, k # l
       PROVE  f[k].seq # f[l].seq
  <2>1. PICK at \in [1 .. Len(f) -> keep] :
          \A m, n \in 1 .. Len(f) : f[m] = bs[at[m]] /\ (m # n => at[m] # at[n])
    BY <1>7 DEF Picks
  <2>2. at[k] \in keep /\ at[l] \in keep /\ at[k] # at[l] /\ f[k] = bs[at[k]] /\ f[l] = bs[at[l]]
    BY <1>8, <1>11, <2>1
  <2> DEFINE x == at[k]
             y == at[l]
  <2>3. x \in DOMAIN bs /\ y \in DOMAIN bs /\ x # y
    BY <1>2, <1>5, <2>2
  <2>4. f[k] = bs[x] /\ f[l] = bs[y]
    BY <2>2
  <2> HIDE DEF x, y
  <2>5. bs[x].seq = from + x - 1 /\ bs[y].seq = from + y - 1 /\ x \in Nat /\ y \in Nat
    BY <1>1, <1>2, <2>3
  <2>6. from + x - 1 # from + y - 1
    BY <1>1, <2>3, <2>5
  <2> QED
    BY <2>4, <2>5, <2>6
<1>12. ASSUME NEW k \in DOMAIN f, NEW n \in Nat, n >= from, n <= f[k].seq, n > a
       PROVE  \E l \in DOMAIN f : f[l].seq = n
  <2>1. PICK i \in keep : f[k] = bs[i]
    BY <1>7, <1>8 DEF Picks
  <2>2. i \in DOMAIN bs
    BY <1>2, <1>5
  <2>3. f[k].seq = from + i - 1 /\ i >= 1 /\ i \in Nat
    BY <1>1, <1>2, <2>1, <2>2
  <2> DEFINE h == n - from + 1
  <2>4. h \in Nat /\ h >= 1 /\ h <= i /\ from + h - 1 = n
    BY <1>1, <1>12, <2>3
  <2> HIDE DEF h
  <2>5. h \in DOMAIN bs
    BY <1>2, <2>2, <2>4
  <2>6. bs[h].seq = n
    BY <1>1, <2>4, <2>5
  <2>7. h \in keep
    BY <1>5, <1>12, <2>5, <2>6
  <2>8. PICK l \in 1 .. Len(f) : f[l] = bs[h]
    BY <1>7, <2>7 DEF Picks
  <2> QED
    BY <1>8, <2>6, <2>8
<1>13. FreshAbove(batch, f, a)
  BY <1>7, <1>9, <1>10, <1>11, <1>12 DEF FreshAbove, bs, from
<1> QED
  BY <1>13 DEF f, a, s

\* A batch declares lost what lies between the acknowledged prefix and its
\* first number: one run, for the hub has nothing there.
LEMMA OneRunLost ==
  ASSUME AgentInv, HubInv, batch # None
  PROVE  Declares(batch) = IF batch.from <= st[batch.stream].acked + 1 THEN {}
                           ELSE {<<st[batch.stream].acked + 1, batch.from - 1>>}
<1> DEFINE s == batch.stream
           a == st[s].acked
           from == batch.from
           lo == a + 1
           hi == from - 1
           present == SeqsIn(s) \cup {batch.buckets[k].seq : k \in DOMAIN batch.buckets}
<1>1. /\ batch \in Batches /\ s \in Stream /\ from \in Nat /\ a \in Nat
      /\ \A i \in DOMAIN batch.buckets : batch.buckets[i].seq = from + i - 1
      /\ \A i \in DOMAIN inserted : inserted[i].stream = s => inserted[i].seq <= a
      /\ inserted \in Seq(StoredRows) /\ table \subseteq 1 .. Len(inserted)
      /\ st[s].retained \in Nat /\ st[s].retained <= a + 1
      /\ batch.buckets \in Seq(Buckets)
  BY DEF AgentInv, HubInv, AgentTypeOK, HubTypeOK, BatchInv, SettledInv, Batches
<1>2. CASE from <= lo
  <2>1. Declares(batch) = {}
    BY <1>2 DEF Declares
  <2> QED
    BY <1>2, <2>1
<1>3. CASE ~(from <= lo)
  <2>1. ~(from <= st[s].retained)
    BY <1>1, <1>3
  <2>2. Declares(batch) = MissingRuns(lo, hi, present)
    BY <1>3, <2>1 DEF Declares
  <2>3. \A n \in present : n \in Int /\ (n <= a \/ n >= from)
    <3>1. ASSUME NEW n \in SeqsIn(s) PROVE n \in Int /\ n <= a
      <4>1. PICK i \in table : inserted[i].stream = s /\ n = inserted[i].seq
        BY <3>1 DEF SeqsIn, Rows
      <4>2. i \in DOMAIN inserted /\ inserted[i] \in StoredRows
        BY <1>1
      <4>3. inserted[i].seq \in Nat
        BY <4>2 DEF StoredRows
      <4>4. inserted[i].seq <= a
        BY <1>1, <4>1, <4>2
      <4> QED
        BY <4>1, <4>3, <4>4
    <3>2. ASSUME NEW k \in DOMAIN batch.buckets
          PROVE  batch.buckets[k].seq \in Int /\ batch.buckets[k].seq >= from
      <4>1. k \in Nat /\ k >= 1 /\ batch.buckets[k].seq = from + k - 1
        BY <1>1
      <4> QED
        BY <1>1, <4>1
    <3> QED
      BY <3>1, <3>2
  <2> HIDE DEF present
  <2>4. lo \in Nat /\ hi \in Int /\ lo <= hi /\ hi + 1 = from /\ lo - 1 = a
    BY <1>1, <1>3, SMTT(30)
  <2>5. \A n \in lo .. hi : n \notin present
    BY <1>1, <2>3, <2>4
  <2> HIDE DEF lo, hi, a, from
  <2>6. ASSUME NEW r \in (lo .. hi) \X (lo .. hi), r \in MissingRuns(lo, hi, present)
        PROVE  r = <<lo, hi>>
    <3>1. /\ r[1] \in lo .. hi /\ r[2] \in lo .. hi /\ r = <<r[1], r[2]>>
      OBVIOUS
    <3>2. (r[1] = lo \/ r[1] - 1 \in present) /\ (r[2] = hi \/ r[2] + 1 \in present)
      BY <2>6 DEF MissingRuns
    <3> DEFINE x == r[1]
               y == r[2]
    <3>3. x \in lo .. hi /\ y \in lo .. hi
      BY <3>1
    <3>4. (x = lo \/ x - 1 \in present) /\ (y = hi \/ y + 1 \in present)
      BY <3>2
    <3> HIDE DEF x, y
    <3>5. x # lo => x - 1 \in lo .. hi
      BY <2>4, <3>3
    <3>6. y # hi => y + 1 \in lo .. hi
      BY <2>4, <3>3
    <3>7. x = lo /\ y = hi
      BY <2>5, <3>4, <3>5, <3>6
    <3> QED
      BY <3>1, <3>7 DEF x, y
  <2>7. <<lo, hi>> \in MissingRuns(lo, hi, present)
    <3>1. (lo .. hi) \cap present = {}
      BY <2>5
    <3>2. lo \in lo .. hi /\ hi \in lo .. hi
      BY <2>4
    <3> QED
      BY <2>4, <3>1, <3>2 DEF MissingRuns
  <2>8. MissingRuns(lo, hi, present) \subseteq (lo .. hi) \X (lo .. hi)
    BY DEF MissingRuns
  <2>9. MissingRuns(lo, hi, present) = {<<lo, hi>>}
    BY <2>6, <2>7, <2>8
  <2> QED
    BY <1>3, <2>2, <2>9 DEF lo, hi, a, from, s
<1> QED
  BY <1>2, <1>3

\* The gap table: real runs, one row each, of what is declared.
GapsOK(rows, decl) ==
  /\ rows \subseteq Gaps
  /\ \A g \in rows : g.from <= g.through
  /\ \A g, h \in rows : g # h /\ g.stream = h.stream =>
       g.through + 1 < h.from \/ h.through + 1 < g.from
  /\ \A g \in rows : \A n \in g.from .. g.through : n \in decl[g.stream]

\* Declaring a run after everything declared so far keeps the table so.
LEMMA GapDeclared ==
  ASSUME NEW rows, NEW decl, GapsOK(rows, decl), NEW s \in Stream, NEW lo \in Nat, NEW hi \in Nat,
         lo >= 1, lo <= hi, \A n \in decl[s] : n \in Nat /\ n < lo, now \in Nat,
         NEW new, \A x \in Stream : \A n \in decl[x] : n \in new[x],
         \A n \in lo .. hi : n \in new[s]
  PROVE  /\ GapsOK(DeclareGap(s, <<lo, hi>>, rows), new)
         /\ \E g \in DeclareGap(s, <<lo, hi>>, rows) :
              g.stream = s /\ g.from <= lo /\ hi <= g.through
<1> DEFINE near == {g \in rows : g.stream = s /\ g.from <= hi + 1 /\ g.through >= lo - 1}
           F == {lo} \cup {g.from : g \in near}
           T == {hi} \cup {g.through : g \in near}
           from == Min(F)
           through == Max(T)
           g0 == [stream |-> s, at |-> now, from |-> from, through |-> through]
           out == (rows \ near) \cup {g0}
<1>1. \A g \in rows : /\ g \in Gaps /\ g.from \in Nat /\ g.through \in Nat /\ g.stream \in Stream
                      /\ g.from <= g.through
  BY DEF GapsOK, Gaps
<1>2. \A g \in rows : g.stream = s => g.through < lo
  <2>1. ASSUME NEW g \in rows, g.stream = s PROVE g.through < lo
    <3>1. g.through \in g.from .. g.through
      BY <1>1
    <3>2. g.through \in decl[s]
      BY <2>1, <3>1 DEF GapsOK
    <3> QED
      BY <3>2
  <2> QED
    BY <2>1
<1>3. DeclareGap(s, <<lo, hi>>, rows) = out
  BY DEF DeclareGap
<1>4. near \subseteq rows /\ (\A g \in near : g.stream = s /\ g.through = lo - 1)
      /\ (\A g \in rows : g.stream = s /\ g \notin near => g.through < lo - 1)
  <2>1. \A g \in near : g.stream = s /\ g.through = lo - 1
    BY <1>1, <1>2
  <2>2. ASSUME NEW g \in rows, g.stream = s, g \notin near PROVE g.through < lo - 1
    <3>1. g.from <= hi + 1
      BY <1>1, <1>2, <2>2
    <3> QED
      BY <1>1, <2>2, <3>1
  <2> QED
    BY <2>1, <2>2
<1> HIDE DEF near
<1>5. F \in SUBSET Nat /\ lo \in F
  BY <1>1, <1>4
<1>6. T \in SUBSET Nat /\ hi \in T /\ \A n \in T : n <= hi
  <2>1. \A g \in near : g.through \in Nat /\ g.through <= hi
    BY <1>1, <1>4
  <2> QED
    BY <2>1
<1>7. \A n \in F : n = lo \/ \E g \in near : n = g.from
  OBVIOUS
<1> HIDE DEF F, T
<1>8. from \in F /\ \A n \in F : from <= n
  BY <1>5, MinNat
<1>9. through \in T /\ \A n \in T : n <= through
  BY <1>6, MaxNat
<1> HIDE DEF from, through
<1>10. from \in Nat /\ from <= lo /\ through = hi
  BY <1>5, <1>6, <1>8, <1>9
<1>11. g0 \in Gaps /\ g0.stream = s /\ g0.from = from /\ g0.through = hi
  BY <1>10 DEF Gaps
<1> HIDE DEF g0
<1>12. \A n \in from .. hi : n \in new[s]
  <2>1. CASE from = lo
    BY <2>1
  <2>2. ASSUME NEW g \in near, from = g.from
        PROVE  \A n \in from .. hi : n \in new[s]
    <3>1. g \in rows /\ g.stream = s /\ g.through = lo - 1 /\ g.from \in Nat
      BY <1>1, <1>4, <2>2
    <3>2. \A n \in g.from .. g.through : n \in new[s]
      BY <3>1 DEF GapsOK
    <3>3. ASSUME NEW n \in from .. hi PROVE n \in new[s]
      <4>1. CASE n >= lo
        <5>1. n \in lo .. hi
          BY <4>1, <1>10
        <5> QED
          BY <5>1
      <4>2. CASE n < lo
        <5>1. n \in g.from .. g.through
          BY <2>2, <3>1, <4>2, <1>10
        <5> QED
          BY <3>2, <5>1
      <4> QED
        BY <4>1, <4>2, <1>10
    <3> QED
      BY <3>3
  <2> QED
    BY <1>7, <1>8, <2>1, <2>2
<1>13. ASSUME NEW h \in rows, h \notin near, h.stream = s
       PROVE  h.through + 1 < from
  <2>1. h.through < lo - 1 /\ h.through \in Nat /\ h.from \in Nat
    BY <1>1, <1>4, <1>13
  <2>2. CASE from = lo
    BY <2>1, <2>2
  <2>3. ASSUME NEW g \in near, from = g.from
        PROVE  h.through + 1 < from
    <3>1. /\ g \in rows /\ g.stream = s /\ g.through = lo - 1 /\ g.from \in Nat /\ g # h
          /\ h.from <= h.through
      BY <1>1, <1>4, <1>13, <2>3
    <3>2. g.through + 1 < h.from \/ h.through + 1 < g.from
      BY <1>13, <3>1 DEF GapsOK
    <3> QED
      BY <2>1, <2>3, <3>1, <3>2
  <2> QED
    BY <1>7, <1>8, <2>2, <2>3
<1>14. out \subseteq Gaps /\ \A g \in out : g.from <= g.through
  BY <1>1, <1>10, <1>11
<1>15. \A g, h \in out : g # h /\ g.stream = h.stream =>
         g.through + 1 < h.from \/ h.through + 1 < g.from
  <2>1. ASSUME NEW g \in out, NEW h \in out, g # h, g.stream = h.stream
        PROVE  g.through + 1 < h.from \/ h.through + 1 < g.from
    <3>1. CASE g \in rows /\ h \in rows
      BY <2>1, <3>1 DEF GapsOK
    <3>2. CASE g = g0 /\ h \in rows \ near
      BY <1>11, <1>13, <2>1, <3>2
    <3>3. CASE h = g0 /\ g \in rows \ near
      BY <1>11, <1>13, <2>1, <3>3
    <3> QED
      BY <2>1, <3>1, <3>2, <3>3
  <2> QED
    BY <2>1
<1>16. \A g \in out : \A n \in g.from .. g.through : n \in new[g.stream]
  <2>1. \A g \in rows : \A n \in g.from .. g.through : n \in new[g.stream]
    BY <1>1 DEF GapsOK
  <2> QED
    BY <1>11, <1>12, <2>1
<1>17. GapsOK(out, new)
  BY <1>14, <1>15, <1>16 DEF GapsOK
<1>18. g0 \in out /\ g0.stream = s /\ g0.from <= lo /\ hi <= g0.through
  BY <1>10, <1>11
<1> QED
  BY <1>3, <1>17, <1>18

\* The rows of a commit: those there were, then one for each new bucket.
RowsAdded(old, rows, s, f) ==
  /\ rows \in Seq(StoredRows) /\ Len(rows) = Len(old) + Len(f)
  /\ DOMAIN rows = 1 .. Len(rows) /\ DOMAIN old = 1 .. Len(old) /\ DOMAIN f = 1 .. Len(f)
  /\ Len(old) \in Nat /\ Len(f) \in Nat
  /\ \A i \in DOMAIN old : i \in DOMAIN rows /\ rows[i] = old[i]
  /\ \A k \in DOMAIN f : Len(old) + k \in DOMAIN rows /\ rows[Len(old) + k] = RowOf(s, f[k])
  /\ \A i \in DOMAIN rows : i \in DOMAIN old \/ \E k \in DOMAIN f : i = Len(old) + k

\* The rows a commit inserts.
LEMMA RowsAppended ==
  ASSUME NEW old \in Seq(StoredRows), NEW s \in Stream, NEW f \in Seq(Buckets)
  PROVE  RowsAdded(old, old \o [k \in DOMAIN f |-> RowOf(s, f[k])], s, f)
<1> DEFINE g == [k \in DOMAIN f |-> RowOf(s, f[k])]
           rows == old \o g
<1>1. /\ Len(f) \in Nat /\ DOMAIN f = 1 .. Len(f) /\ Len(old) \in Nat /\ DOMAIN old = 1 .. Len(old)
      /\ \A k \in DOMAIN f : f[k] \in Buckets
  OBVIOUS
<1>2. \A k \in DOMAIN f : RowOf(s, f[k]) \in StoredRows
  BY <1>1 DEF RowOf, StoredRows, Buckets
<1>3. g \in Seq(StoredRows) /\ Len(g) = Len(f) /\ \A k \in DOMAIN f : g[k] = RowOf(s, f[k])
  BY <1>1, <1>2
<1> HIDE DEF g
<1>4. /\ rows \in Seq(StoredRows) /\ Len(rows) = Len(old) + Len(g)
      /\ \A i \in 1 .. Len(rows) : rows[i] = IF i <= Len(old) THEN old[i] ELSE g[i - Len(old)]
  BY <1>3, ConcatProperties
<1> HIDE DEF rows
<1>5. DOMAIN rows = 1 .. Len(rows)
  BY <1>4
<1>6. \A i \in DOMAIN old : i \in DOMAIN rows /\ rows[i] = old[i]
  BY <1>1, <1>3, <1>4, <1>5
<1>7. \A k \in DOMAIN f : Len(old) + k \in DOMAIN rows /\ rows[Len(old) + k] = RowOf(s, f[k])
  <2>1. ASSUME NEW k \in DOMAIN f
        PROVE  Len(old) + k \in DOMAIN rows /\ rows[Len(old) + k] = g[k]
    <3>1. k \in Nat /\ k >= 1 /\ k <= Len(f)
      BY <1>1
    <3> DEFINE i == Len(old) + k
    <3>2. i \in 1 .. Len(rows) /\ ~(i <= Len(old)) /\ i - Len(old) = k
      BY <1>1, <1>3, <1>4, <3>1
    <3> HIDE DEF i
    <3>3. rows[i] = g[k]
      BY <1>4, <3>2
    <3> QED
      BY <1>5, <3>2, <3>3 DEF i
  <2> QED
    BY <1>3, <2>1
<1>8. \A i \in DOMAIN rows : i \in DOMAIN old \/ \E k \in DOMAIN f : i = Len(old) + k
  <2>1. ASSUME NEW i \in DOMAIN rows, i \notin DOMAIN old
        PROVE  \E k \in DOMAIN f : i = Len(old) + k
    <3>1. i \in Nat /\ i >= 1 /\ i <= Len(old) + Len(f) /\ ~(i <= Len(old))
      BY <1>1, <1>3, <1>4, <1>5, <2>1
    <3>2. i - Len(old) \in DOMAIN f /\ i = Len(old) + (i - Len(old))
      BY <1>1, <3>1
    <3> QED
      BY <3>2
  <2> QED
    BY <2>1
<1>9. Len(rows) = Len(old) + Len(f)
  BY <1>3, <1>4
<1>10. RowsAdded(old, rows, s, f)
  BY <1>1, <1>4, <1>5, <1>6, <1>7, <1>8, <1>9 DEF RowsAdded
<1> QED
  BY <1>10 DEF rows, g

\* A row says what its bucket said.
LEMMA RowPayload ==
  ASSUME NEW s, NEW b \in Buckets
  PROVE  /\ Payload(RowOf(s, b)) = b /\ RowOf(s, b).stream = s /\ RowOf(s, b).seq = b.seq
BY DEF Payload, RowOf, Buckets

\* A commit teaches the hub what the batch said.
LEMMA CommitLearns ==
  ASSUME AgentInv, batch # None, inserted \in Seq(StoredRows), NEW f \in Seq(Buckets),
         Lines(f) \subseteq Lines(batch.buckets), RowsAdded(inserted, inserted', batch.stream, f),
         j' = j, disk' = disk, snap' = snap, batch' = None
  PROVE  NoneLearnt
<1>1. ASSUME NEW s \in Stream, NEW b, KnownTo(s, b)'
      PROVE  KnownTo(s, b)
  <2>1. CASE \E i \in DOMAIN inserted' : s = inserted'[i].stream /\ b = Payload(inserted'[i])
    <3>1. PICK i \in DOMAIN inserted' : s = inserted'[i].stream /\ b = Payload(inserted'[i])
      BY <2>1
    <3>2. CASE i \in DOMAIN inserted
      <4>1. inserted'[i] = inserted[i]
        BY <3>2 DEF RowsAdded
      <4> QED
        BY <3>1, <3>2, <4>1 DEF KnownTo
    <3>3. CASE \E k \in DOMAIN f : i = Len(inserted) + k
      <4>1. PICK k \in DOMAIN f : i = Len(inserted) + k
        BY <3>3
      <4>2. inserted'[i] = RowOf(batch.stream, f[k])
        BY <4>1 DEF RowsAdded
      <4>3. f[k] \in Buckets /\ f[k] \in Lines(f)
        BY DEF Lines
      <4>4. s = batch.stream /\ b = f[k]
        BY <3>1, <4>2, <4>3, RowPayload
      <4> QED
        BY <4>3, <4>4 DEF KnownTo
    <3> QED
      BY <3>2, <3>3 DEF RowsAdded
  <2>2. CASE ~(\E i \in DOMAIN inserted' : s = inserted'[i].stream /\ b = Payload(inserted'[i]))
    <3>1. \/ s = j.stream /\ b \in Lines(j.recs)
          \/ s = disk.stream /\ b \in Lines(disk.recs)
          \/ s = snap.stream /\ b \in Lines(snap.recs)
      BY <1>1, <2>2 DEF KnownTo
    <3> QED
      BY <3>1 DEF KnownTo
  <2> QED
    BY <2>1, <2>2
<1>2. \A s \in Stream : KnownIn(s)' = {b \in Buckets : KnownTo(s, b)'}
  BY DEF KnownIn
<1> QED
  BY <1>1, <1>2 DEF NoneLearnt, KnownIn

\* The numbers a batch declares lost, the gap table and the declarations after it.
Lost(b) == IF b.from <= st[b.stream].acked + 1 THEN {} ELSE st[b.stream].acked + 1 .. b.from - 1
RowsAfter(b) == DeclareGaps(b.stream, Declares(b), gapRows)
DeclaredAfter(b) ==
  [declared EXCEPT ![b.stream] = @ \cup UNION {r[1] .. r[2] : r \in Declares(b)}]

\* A batch declares what it lost, in its stream.
LEMMA LostDeclared ==
  ASSUME AgentInv, HubInv, batch # None
  PROVE  /\ DeclaredAfter(batch) \in [Stream -> SUBSET Nat]
         /\ DeclaredAfter(batch)[batch.stream] = declared[batch.stream] \cup Lost(batch)
         /\ \A x \in Stream : x # batch.stream => DeclaredAfter(batch)[x] = declared[x]
<1> DEFINE s == batch.stream
           a == st[s].acked
           from == batch.from
           U == UNION {r[1] .. r[2] : r \in Declares(batch)}
<1>1. /\ s \in Stream /\ from \in Nat /\ a \in Nat /\ declared \in [Stream -> SUBSET Nat]
  BY DEF AgentInv, HubInv, AgentTypeOK, HubTypeOK, Batches
<1>2. U = Lost(batch)
  <2>1. CASE from <= a + 1
    <3>1. Declares(batch) = {}
      BY <2>1, OneRunLost
    <3> QED
      BY <2>1, <3>1 DEF Lost
  <2>2. CASE ~(from <= a + 1)
    <3>1. Declares(batch) = {<<a + 1, from - 1>>}
      BY <2>2, OneRunLost
    <3> HIDE DEF a, from
    <3>2. UNION {r[1] .. r[2] : r \in {<<a + 1, from - 1>>}} = a + 1 .. from - 1
      OBVIOUS
    <3>3. U = a + 1 .. from - 1
      BY <3>1, <3>2
    <3> QED
      BY <2>2, <3>3 DEF Lost, a, from
  <2> QED
    BY <2>1, <2>2
<1>3. DeclaredAfter(batch) = [declared EXCEPT ![s] = @ \cup U]
  BY DEF DeclaredAfter
<1>4. U \in SUBSET Nat
  BY <1>1, <1>2 DEF Lost
<1> HIDE DEF U
<1> QED
  BY <1>1, <1>2, <1>3, <1>4

\* The table after a batch covers what it declares, and nothing else that was
\* not declared before.
LEMMA GapsAfter ==
  ASSUME AgentInv, HubInv, batch # None
  PROVE  /\ GapsOK(RowsAfter(batch), DeclaredAfter(batch))
         /\ batch.from > st[batch.stream].acked + 1 =>
              \E g \in RowsAfter(batch) :
                /\ g.stream = batch.stream /\ g.from <= st[batch.stream].acked + 1
                /\ batch.from - 1 <= g.through
<1> DEFINE s == batch.stream
           a == st[s].acked
           from == batch.from
           new == DeclaredAfter(batch)
<1>1. /\ s \in Stream /\ from \in Nat /\ a \in Nat /\ now \in Nat
      /\ declared \in [Stream -> SUBSET Nat]
      /\ declared[s] \subseteq 1 .. a
  BY DEF AgentInv, HubInv, AgentTypeOK, HubTypeOK, Batches, SettledInv
<1>2. GapsOK(gapRows, declared)
  BY DEF HubInv, HubTypeOK, SettledInv, GapRowsMerged, GapsOK
<1>3. /\ new[s] = declared[s] \cup Lost(batch)
      /\ \A x \in Stream : x # s => new[x] = declared[x]
  BY LostDeclared
<1> HIDE DEF new
<1>4. \A x \in Stream : \A n \in declared[x] : n \in new[x]
  BY <1>3
<1>5. CASE from <= a + 1
  <2>1. RowsAfter(batch) = gapRows
    <3>1. Declares(batch) = {}
      BY <1>5, OneRunLost
    <3> QED
      BY <3>1 DEF RowsAfter, DeclareGaps
  <2>2. GapsOK(gapRows, new)
    <3>1. \A g \in gapRows : g.stream \in Stream
      BY <1>2 DEF GapsOK, Gaps
    <3> QED
      BY <1>2, <1>4, <3>1 DEF GapsOK
  <2> QED
    BY <1>1, <1>5, <2>1, <2>2 DEF new
<1>6. CASE ~(from <= a + 1)
  <2> DEFINE lo == a + 1
             hi == from - 1
  <2>1. RowsAfter(batch) = DeclareGap(s, <<lo, hi>>, gapRows)
    <3>1. Declares(batch) = {<<lo, hi>>}
      BY <1>6, OneRunLost
    <3> HIDE DEF lo, hi
    <3>2. {<<lo, hi>>} # {} /\ (\E run \in {<<lo, hi>>} : {<<lo, hi>>} = {run})
          /\ (CHOOSE run \in {<<lo, hi>>} : TRUE) = <<lo, hi>>
      OBVIOUS
    <3> QED
      BY <3>1, <3>2 DEF RowsAfter, DeclareGaps
  <2>2. Lost(batch) = lo .. hi
    BY <1>6 DEF Lost
  <2>3. lo \in Nat /\ hi \in Nat /\ lo >= 1 /\ lo <= hi /\ hi = from - 1 /\ lo = a + 1
    BY <1>1, <1>6
  <2>4. \A n \in declared[s] : n \in Nat /\ n < lo
    BY <1>1
  <2> HIDE DEF lo, hi
  <2>5. \A n \in lo .. hi : n \in new[s]
    BY <1>3, <2>2
  <2>6. /\ GapsOK(DeclareGap(s, <<lo, hi>>, gapRows), new)
        /\ \E g \in DeclareGap(s, <<lo, hi>>, gapRows) :
             g.stream = s /\ g.from <= lo /\ hi <= g.through
    <3>1. lo \in Nat /\ hi \in Nat /\ lo >= 1 /\ lo <= hi
      BY <2>3
    <3>2. s \in Stream /\ now \in Nat
      BY <1>1
    <3> HIDE DEF s
    <3> QED
      BY <1>2, <1>4, <2>4, <2>5, <3>1, <3>2, GapDeclared
  <2> QED
    BY <2>1, <2>3, <2>6 DEF new, s, a, from
<1> QED
  BY <1>5, <1>6

\* How far the hub can acknowledge a batch: past its buckets and past what it
\* declared, over stored and declared numbers only.
Reaches(t, s, a, from, f, decl) ==
  /\ t \in Nat /\ t >= a /\ t <= MaxSeq /\ from <= t + 1
  /\ \A k \in DOMAIN f : f[k].seq <= t
  /\ \A n \in a + 1 .. t : n \in decl[s] \/ \E k \in DOMAIN f : n = f[k].seq

\* powerAckedThrough reaches over the batch and what it declared, and no further.
LEMMA AckedFacts ==
  ASSUME NEW s \in Stream, NEW from \in Nat, NEW f \in Seq(Buckets), NEW rows, NEW decl,
         NEW present, NEW b,
         st[s].acked \in Nat, st[s].acked <= MaxSeq, from <= MaxSeq, b.from = from,
         \A n \in present : n \in Nat /\ (n <= st[s].acked \/ \E k \in DOMAIN f : n = f[k].seq),
         \A k \in DOMAIN f : f[k].seq \in present,
         FreshAbove(b, f, st[s].acked), GapsOK(rows, decl),
         from > st[s].acked + 1 =>
           \E g \in rows : g.stream = s /\ g.from <= st[s].acked + 1 /\ from - 1 <= g.through
  PROVE  Reaches(AckedThrough(s, present, rows), s, st[s].acked, from, f, decl)
<1> DEFINE a == st[s].acked
           covered == present \cup UNION {g.from .. g.through : g \in {x \in rows : x.stream = s}}
           N == {n \in a .. MaxSeq : (a + 1) .. n \subseteq covered}
           t == Max(N)
<1>1. AckedThrough(s, present, rows) = t
  BY DEF AckedThrough
<1>2. MaxSeq \in Nat /\ a \in Nat /\ a <= MaxSeq
  BY PowerAssumption
<1>3. \A k \in DOMAIN f : f[k] \in Buckets /\ f[k].seq \in Nat
  <2>1. \A k \in DOMAIN f : f[k] \in Buckets
    OBVIOUS
  <2> QED
    BY <2>1 DEF Buckets
<1>4. \A g \in rows : g.from \in Nat /\ g.through \in Nat /\ g.from <= g.through
  BY DEF GapsOK, Gaps
<1>5. \A n \in covered : n \in present \/ \E g \in rows : g.stream = s /\ n \in g.from .. g.through
  OBVIOUS
<1>6. /\ \A n \in present : n \in covered
      /\ \A g \in rows : g.stream = s => \A n \in g.from .. g.through : n \in covered
  OBVIOUS
<1> HIDE DEF covered
<1>7. N \in SUBSET Nat /\ \A n \in N : n <= MaxSeq
  BY <1>2
<1>8. a \in N
  BY <1>2
<1>9. \A n \in N : n \in a .. MaxSeq /\ \A m \in (a + 1) .. n : m \in covered
  OBVIOUS
<1>10. \A n \in a .. MaxSeq : (\A m \in (a + 1) .. n : m \in covered) => n \in N
  OBVIOUS
<1> HIDE DEF N
<1>11. t \in N /\ \A n \in N : n <= t
  BY <1>2, <1>7, <1>8, MaxNat
<1> HIDE DEF t
<1>12. t \in Nat /\ t >= a /\ t <= MaxSeq
  BY <1>2, <1>9, <1>11
<1> HIDE DEF a
<1>13. ASSUME NEW m \in Nat, m < from, m > a
       PROVE  m \in covered
  <2>1. PICK g \in rows : g.stream = s /\ g.from <= a + 1 /\ from - 1 <= g.through
    BY <1>2, <1>13 DEF a
  <2>2. m \in g.from .. g.through
    BY <1>2, <1>4, <1>13, <2>1
  <2> QED
    BY <1>6, <2>1, <2>2
<1>14. from <= t + 1
  <2>1. CASE from <= a + 1
    BY <1>2, <1>12, <2>1
  <2>2. CASE from > a + 1
    <3>1. from - 1 \in a .. MaxSeq
      BY <1>2, <2>2
    <3>2. \A m \in (a + 1) .. (from - 1) : m \in covered
      BY <1>2, <1>13
    <3>3. from - 1 \in N
      BY <1>10, <3>1, <3>2
    <3> QED
      BY <1>11, <1>12, <3>1, <3>3
  <2> QED
    BY <1>2, <2>1, <2>2
<1>15. ASSUME NEW k \in DOMAIN f
       PROVE  f[k].seq <= t
  <2> DEFINE q == f[k].seq
  <2>1. /\ q \in Nat /\ q > a /\ q >= from /\ q <= MaxSeq
        /\ \A n \in Nat : (n >= from /\ n <= q /\ n > a) => \E l \in DOMAIN f : f[l].seq = n
    BY <1>3 DEF FreshAbove, a
  <2> HIDE DEF q
  <2>2. ASSUME NEW m \in (a + 1) .. q PROVE m \in covered
    <3>1. m \in Nat /\ m > a /\ m <= q
      BY <1>2, <2>1
    <3>2. CASE m < from
      BY <1>13, <3>1, <3>2
    <3>3. CASE m >= from
      <4>1. PICK l \in DOMAIN f : f[l].seq = m
        BY <2>1, <3>1, <3>3
      <4> QED
        BY <1>6, <4>1
    <3> QED
      BY <3>1, <3>2, <3>3
  <2>3. q \in a .. MaxSeq
    BY <1>2, <2>1
  <2>4. q \in N
    BY <1>10, <2>2, <2>3
  <2>5. q <= t
    BY <1>11, <2>4
  <2> QED
    BY <2>5 DEF q
<1>16. ASSUME NEW n \in a + 1 .. t
       PROVE  n \in decl[s] \/ \E k \in DOMAIN f : n = f[k].seq
  <2>1. n \in covered /\ n > a /\ n \in Nat
    BY <1>2, <1>9, <1>11, <1>12
  <2>2. CASE n \in present
    BY <1>2, <2>1, <2>2 DEF a
  <2>3. ASSUME NEW g \in rows, g.stream = s, n \in g.from .. g.through
        PROVE  n \in decl[s]
    BY <2>3 DEF GapsOK
  <2> QED
    BY <1>5, <2>1, <2>2, <2>3
<1>17. Reaches(t, s, a, from, f, decl)
  BY <1>12, <1>14, <1>15, <1>16 DEF Reaches
<1> QED
  BY <1>1, <1>17 DEF a

\* What a commit does: the new buckets of the batch become rows, the numbers
\* before it that nobody has are declared, and the stream is acknowledged up to t.
Committed(s, f, t) ==
  /\ s = batch.stream
  /\ RowsAdded(inserted, inserted', s, f)
  /\ FreshAbove(batch, f, st[s].acked)
  /\ Reaches(t, s, st[s].acked, batch.from, f, declared')
  /\ GapsOK(gapRows', declared')
  /\ declared' = DeclaredAfter(batch)
  /\ st' \in [Stream -> [acked : Nat, retained : Nat]]
  /\ st'[s].acked = t /\ st'[s].retained <= t + 1
  /\ \A x \in Stream : x # s => st'[x] = st[x]
  /\ table' = table \cup (Len(inserted) + 1 .. Len(inserted) + Len(f))
  /\ ack' = [stream |-> s, through |-> t]

\* A commit in these terms.
LEMMA CommitFacts ==
  ASSUME AgentInv, HubInv, HubCommit
  PROVE  \E s \in Stream, f \in Seq(Buckets), t \in Nat : Committed(s, f, t)
<1> DEFINE s == batch.stream
           f == Fresh(batch)
           rows == RowsAfter(batch)
           decl == DeclaredAfter(batch)
           present == SeqsIn(s) \cup {f[k].seq : k \in DOMAIN f}
           t == AckedThrough(s, present, rows)
           from == batch.from
           kept == Max({st[s].retained, from})
<1>1. /\ batch # None
      /\ inserted' = inserted \o [k \in DOMAIN f |-> RowOf(s, f[k])]
      /\ table' = table \cup (Len(inserted) + 1 .. Len(inserted) + Len(f))
      /\ gapRows' = rows
      /\ declared' = decl
      /\ st' = [st EXCEPT ![s] = [acked |-> t, retained |-> Max({st[s].retained, from})]]
      /\ ack' = [stream |-> s, through |-> t]
  BY DEF HubCommit, Fresh, RowsAfter, DeclaredAfter
<1>2. /\ s \in Stream /\ from \in Nat /\ from <= MaxSeq
      /\ st \in [Stream -> [acked : Nat, retained : Nat]]
      /\ inserted \in Seq(StoredRows) /\ table \subseteq 1 .. Len(inserted)
      /\ st[s].acked <= MaxSeq /\ st[s].retained <= st[s].acked + 1
      /\ \A i \in DOMAIN inserted : inserted[i].stream = s => inserted[i].seq <= st[s].acked
  <2>1. from \in 1 .. MaxSeq /\ MaxSeq \in Nat
    BY <1>1, PowerAssumption DEF AgentInv, BatchInv
  <2> QED
    BY <1>1, <2>1 DEF AgentInv, HubInv, AgentTypeOK, HubTypeOK, SettledInv, Batches
<1>3. st[s].acked \in Nat /\ st[s].retained \in Nat
  BY <1>2
<1>4. FreshAbove(batch, f, st[s].acked)
  BY <1>1, NewBuckets
<1>5. f \in Seq(Buckets)
  BY <1>4 DEF FreshAbove
<1>6. /\ GapsOK(rows, decl)
      /\ from > st[s].acked + 1 =>
           \E g \in rows : g.stream = s /\ g.from <= st[s].acked + 1 /\ from - 1 <= g.through
  BY <1>1, GapsAfter
<1>7. \A n \in present : n \in Nat /\ (n <= st[s].acked \/ \E k \in DOMAIN f : n = f[k].seq)
  <2>1. ASSUME NEW n \in SeqsIn(s) PROVE n \in Nat /\ n <= st[s].acked
    <3>1. PICK i \in table : inserted[i].stream = s /\ n = inserted[i].seq
      BY <2>1 DEF SeqsIn, Rows
    <3>2. i \in DOMAIN inserted /\ inserted[i] \in StoredRows
      BY <1>2
    <3>3. inserted[i].seq \in Nat
      BY <3>2 DEF StoredRows
    <3> QED
      BY <1>2, <3>1, <3>2, <3>3
  <2>2. ASSUME NEW k \in DOMAIN f PROVE f[k].seq \in Nat
    <3>1. f[k] \in Buckets
      BY <1>5
    <3> QED
      BY <3>1 DEF Buckets
  <2> QED
    BY <2>1, <2>2
<1>8. \A k \in DOMAIN f : f[k].seq \in present
  OBVIOUS
<1>9. RowsAdded(inserted, inserted', s, f)
  <2> HIDE DEF f, s
  <2> QED
    BY <1>1, <1>2, <1>5, RowsAppended
<1> HIDE DEF f, rows, decl, present, s, from
<1>10. Reaches(t, s, st[s].acked, from, f, decl)
  <2>1. batch.from = from
    BY DEF from
  <2> QED
    BY <1>2, <1>3, <1>4, <1>5, <1>6, <1>7, <1>8, <2>1, AckedFacts
<1> HIDE DEF t
<1>11. kept \in Nat /\ kept <= t + 1
  <2> DEFINE r == st[s].retained
             R == {r, from}
  <2>1. r \in Nat /\ from \in Nat /\ R \in SUBSET Nat /\ R # {} /\ r + from \in Nat
        /\ (\A y \in R : y <= r + from) /\ \A y \in R : y = r \/ y = from
    BY <1>2, <1>3
  <2>2. kept = Max(R)
    OBVIOUS
  <2> HIDE DEF R, kept
  <2>3. kept \in R
    BY <2>1, <2>2, MaxNat
  <2>4. r <= t + 1 /\ from <= t + 1
    BY <1>2, <1>3, <1>10 DEF Reaches
  <2> HIDE DEF r
  <2> QED
    BY <2>1, <2>3, <2>4
<1>12. t \in Nat
  BY <1>10 DEF Reaches
<1>13. st' = [st EXCEPT ![s] = [acked |-> t, retained |-> kept]]
  BY <1>1
<1> HIDE DEF kept
<1>14. /\ st' \in [Stream -> [acked : Nat, retained : Nat]]
       /\ st'[s].acked = t /\ st'[s].retained = kept
       /\ \A x \in Stream : x # s => st'[x] = st[x]
  BY <1>2, <1>11, <1>12, <1>13
<1>15. s = batch.stream /\ batch.from = from
  BY DEF s, from
<1>16. Reaches(t, s, st[s].acked, batch.from, f, declared')
  BY <1>1, <1>10, <1>15
<1>17. GapsOK(gapRows', declared')
  BY <1>1, <1>6
<1>18. declared' = DeclaredAfter(batch)
  BY <1>1 DEF decl
<1>19. Committed(s, f, t)
  BY <1>1, <1>4, <1>9, <1>11, <1>14, <1>15, <1>16, <1>17, <1>18 DEF Committed
<1> QED
  BY <1>2, <1>5, <1>12, <1>19

\* The numbers stored after a commit.
LEMMA SeqsAdded ==
  ASSUME NEW s \in Stream, NEW f \in Seq(Buckets), RowsAdded(inserted, inserted', s, f)
  PROVE  /\ InsertedSeqs(s)' = InsertedSeqs(s) \cup {f[k].seq : k \in DOMAIN f}
         /\ \A x \in Stream : x # s => InsertedSeqs(x)' = InsertedSeqs(x)
<1> DEFINE new == inserted'
<1>1. \A i \in DOMAIN inserted : i \in DOMAIN new /\ new[i] = inserted[i]
  BY DEF RowsAdded
<1>2. \A k \in DOMAIN f : /\ Len(inserted) + k \in DOMAIN new
                          /\ new[Len(inserted) + k].stream = s
                          /\ new[Len(inserted) + k].seq = f[k].seq
  <2>1. \A k \in DOMAIN f : /\ Len(inserted) + k \in DOMAIN new
                            /\ new[Len(inserted) + k] = RowOf(s, f[k])
    BY DEF RowsAdded
  <2>2. \A k \in DOMAIN f : f[k] \in Buckets
    OBVIOUS
  <2> HIDE DEF new
  <2>3. \A k \in DOMAIN f : RowOf(s, f[k]).stream = s /\ RowOf(s, f[k]).seq = f[k].seq
    BY <2>2, RowPayload
  <2> QED
    BY <2>1, <2>3
<1>3. \A i \in DOMAIN new : i \in DOMAIN inserted \/ \E k \in DOMAIN f : i = Len(inserted) + k
  BY DEF RowsAdded
<1>4. \A x : InsertedSeqs(x)' = {new[i].seq : i \in {k \in DOMAIN new : new[k].stream = x}}
  BY DEF InsertedSeqs, Ids
<1>5. \A x : InsertedSeqs(x) = {inserted[i].seq : i \in {k \in DOMAIN inserted : inserted[k].stream = x}}
  BY DEF InsertedSeqs, Ids
<1> HIDE DEF new
<1>6. ASSUME NEW x, NEW n \in InsertedSeqs(x)
      PROVE  n \in InsertedSeqs(x)'
  <2>1. PICK i \in DOMAIN inserted : inserted[i].stream = x /\ n = inserted[i].seq
    BY <1>5, <1>6
  <2> QED
    BY <1>1, <1>4, <2>1
<1>7. ASSUME NEW k \in DOMAIN f
      PROVE  f[k].seq \in InsertedSeqs(s)'
  BY <1>2, <1>4
<1>8. ASSUME NEW x, NEW n \in InsertedSeqs(x)'
      PROVE  n \in InsertedSeqs(x) \/ (x = s /\ \E k \in DOMAIN f : n = f[k].seq)
  <2>1. PICK i \in DOMAIN new : new[i].stream = x /\ n = new[i].seq
    BY <1>4, <1>8
  <2>2. CASE i \in DOMAIN inserted
    BY <1>1, <1>5, <2>1, <2>2
  <2>3. CASE \E k \in DOMAIN f : i = Len(inserted) + k
    BY <1>2, <2>1, <2>3
  <2> QED
    BY <1>3, <2>2, <2>3
<1>9. InsertedSeqs(s)' = InsertedSeqs(s) \cup {f[k].seq : k \in DOMAIN f}
  BY <1>6, <1>7, <1>8
<1>10. \A x \in Stream : x # s => InsertedSeqs(x)' = InsertedSeqs(x)
  BY <1>6, <1>8
<1> QED
  BY <1>9, <1>10

\* The rows of a stream are acknowledged.
LEMMA InsertedBelow ==
  ASSUME HubInv, NEW s \in Stream, NEW n \in InsertedSeqs(s)
  PROVE  n \in Nat /\ n <= st[s].acked
<1>1. PICK i \in DOMAIN inserted : inserted[i].stream = s /\ n = inserted[i].seq
  BY DEF InsertedSeqs, Ids
<1>2. inserted[i] \in StoredRows
  BY DEF HubInv, HubTypeOK
<1>3. inserted[i].seq \in Nat
  BY <1>2 DEF StoredRows
<1> QED
  BY <1>1, <1>3 DEF HubInv, SettledInv

\* After a commit what is stored or declared is again what is acknowledged.
LEMMA CommitSettles ==
  ASSUME AgentInv, HubInv, batch # None, NEW s \in Stream, NEW f \in Seq(Buckets), NEW t \in Nat,
         Committed(s, f, t)
  PROVE  SettledInv'
<1> DEFINE a == st[s].acked
           from == batch.from
<1>1. /\ st \in [Stream -> [acked : Nat, retained : Nat]]
      /\ st' \in [Stream -> [acked : Nat, retained : Nat]]
      /\ a \in Nat /\ from \in Nat /\ MaxSeq \in Nat
      /\ \A x \in Stream : st[x].acked \in Nat /\ st'[x].acked \in Nat
  BY PowerAssumption DEF Committed, HubInv, HubTypeOK, AgentInv, AgentTypeOK, Batches
<1>2. /\ t >= a /\ t <= MaxSeq /\ from <= t + 1
      /\ \A k \in DOMAIN f : f[k].seq <= t
      /\ \A n \in a + 1 .. t : n \in declared'[s] \/ \E k \in DOMAIN f : n = f[k].seq
  BY DEF Committed, Reaches
<1>3. /\ st'[s].acked = t /\ st'[s].retained <= t + 1
      /\ \A x \in Stream : x # s => st'[x] = st[x]
  BY DEF Committed
<1>4. /\ InsertedSeqs(s)' = InsertedSeqs(s) \cup {f[k].seq : k \in DOMAIN f}
      /\ \A x \in Stream : x # s => InsertedSeqs(x)' = InsertedSeqs(x)
  BY SeqsAdded DEF Committed
<1>5. /\ declared'[s] = declared[s] \cup Lost(batch)
      /\ \A x \in Stream : x # s => declared'[x] = declared[x]
  BY LostDeclared DEF Committed
<1>6. /\ \A k \in DOMAIN f : f[k].seq > a /\ f[k].seq >= from
      /\ \A k, l \in DOMAIN f : k # l => f[k].seq # f[l].seq
  BY DEF Committed, FreshAbove
<1>7. \A k \in DOMAIN f : f[k].seq \in Nat
  <2>1. \A k \in DOMAIN f : f[k] \in Buckets
    OBVIOUS
  <2> QED
    BY <2>1 DEF Buckets
<1>8. \A n \in Lost(batch) : n \in Nat /\ n > a /\ n < from
  <2>1. batch.stream = s
    BY DEF Committed
  <2> QED
    BY <1>1, <2>1 DEF Lost
<1>9. RowsAdded(inserted, inserted', s, f)
  BY DEF Committed
<1>10. /\ \A i \in DOMAIN inserted : inserted[i].seq <= st[inserted[i].stream].acked
       /\ \A x \in Stream : /\ declared[x] \subseteq 1 .. st[x].acked
                            /\ 1 .. st[x].acked \subseteq InsertedSeqs(x) \cup declared[x]
                            /\ st[x].acked <= MaxSeq /\ st[x].retained <= st[x].acked + 1
       /\ OneRowPerSeq /\ GapsAreReal
       /\ \A i \in DOMAIN inserted : inserted[i] \in StoredRows
  BY DEF HubInv, SettledInv, HubTypeOK
<1>11. \A i \in DOMAIN inserted : inserted[i].stream \in Stream /\ inserted[i].seq \in Nat
  BY <1>10 DEF StoredRows
<1>12. /\ \A i \in DOMAIN inserted : i \in DOMAIN inserted' /\ inserted'[i] = inserted[i]
       /\ \A i \in DOMAIN inserted' : \/ i \in DOMAIN inserted
                                      \/ \E k \in DOMAIN f : i = Len(inserted) + k
       /\ \A k \in DOMAIN f : /\ inserted'[Len(inserted) + k].stream = s
                              /\ inserted'[Len(inserted) + k].seq = f[k].seq
  <2>1. /\ \A i \in DOMAIN inserted : i \in DOMAIN inserted' /\ inserted'[i] = inserted[i]
        /\ \A i \in DOMAIN inserted' : \/ i \in DOMAIN inserted
                                       \/ \E k \in DOMAIN f : i = Len(inserted) + k
        /\ \A k \in DOMAIN f : inserted'[Len(inserted) + k] = RowOf(s, f[k])
    BY <1>9 DEF RowsAdded
  <2>2. \A k \in DOMAIN f : RowOf(s, f[k]).stream = s /\ RowOf(s, f[k]).seq = f[k].seq
    <3>1. \A k \in DOMAIN f : f[k] \in Buckets
      OBVIOUS
    <3> QED
      BY <3>1, RowPayload
  <2> QED
    BY <2>1, <2>2
<1> HIDE DEF a, from
<1>13. ASSUME NEW x \in Stream PROVE st[x].acked <= st'[x].acked
  <2>1. CASE x = s
    <3>1. st[s].acked <= t
      BY <1>1, <1>2 DEF a
    <3> QED
      BY <1>3, <2>1, <3>1
  <2>2. CASE x # s
    <3>1. st'[x] = st[x] /\ st[x].acked \in Nat
      BY <1>1, <1>3, <2>2
    <3> QED
      BY <3>1
  <2> QED
    BY <2>1, <2>2
<1>14. \A i \in DOMAIN inserted' : inserted'[i].seq <= st'[inserted'[i].stream].acked
  <2>1. ASSUME NEW i \in DOMAIN inserted
        PROVE  inserted'[i].seq <= st'[inserted'[i].stream].acked
    <3> DEFINE x == inserted[i].stream
    <3>1. x \in Stream /\ inserted[i].seq \in Nat /\ inserted[i].seq <= st[x].acked
      BY <1>10, <1>11
    <3>2. inserted'[i] = inserted[i]
      BY <1>12
    <3> HIDE DEF x
    <3>3. inserted[i].seq <= st'[x].acked
      BY <1>1, <1>13, <3>1
    <3> QED
      BY <3>2, <3>3 DEF x
  <2>2. ASSUME NEW k \in DOMAIN f, NEW i, i = Len(inserted) + k
        PROVE  inserted'[i].seq <= st'[inserted'[i].stream].acked
    BY <1>2, <1>3, <1>12, <2>2
  <2> QED
    BY <1>12, <2>1, <2>2
<1>15. ASSUME NEW x \in Stream
       PROVE  /\ declared'[x] \subseteq 1 .. st'[x].acked
              /\ 1 .. st'[x].acked \subseteq InsertedSeqs(x)' \cup declared'[x]
              /\ st'[x].acked <= MaxSeq /\ st'[x].retained <= st'[x].acked + 1
              /\ declared'[x] \cap InsertedSeqs(x)' = {}
  <2>1. CASE x # s
    BY <1>3, <1>4, <1>5, <1>10, <2>1 DEF GapsAreReal
  <2>2. CASE x = s
    <3>1. declared[s] \subseteq 1 .. a /\ 1 .. a \subseteq InsertedSeqs(s) \cup declared[s]
          /\ declared[s] \cap InsertedSeqs(s) = {}
      BY <1>10 DEF a, GapsAreReal
    <3>2. declared'[s] \subseteq 1 .. t
      BY <1>1, <1>2, <1>5, <1>8, <3>1
    <3>3. ASSUME NEW n \in 1 .. t PROVE n \in InsertedSeqs(s)' \/ n \in declared'[s]
      <4>1. CASE n <= a
        <5>1. n \in 1 .. a
          BY <1>1, <4>1
        <5> QED
          BY <1>4, <1>5, <3>1, <5>1
      <4>2. CASE n > a
        <5>1. n \in a + 1 .. t
          BY <1>1, <4>2
        <5> QED
          BY <1>2, <1>4, <5>1
      <4> QED
        BY <1>1, <4>1, <4>2
    <3>4. ASSUME NEW n \in declared'[s], n \in InsertedSeqs(s)' PROVE FALSE
      <4>1. n \in InsertedSeqs(s) => n \in Nat /\ n <= a
        BY InsertedBelow DEF a
      <4>2. n \in declared[s] => n \in Nat /\ n <= a
        BY <1>1, <3>1
      <4>3. n \in declared[s] \/ n \in Lost(batch)
        BY <1>5
      <4>4. n \in InsertedSeqs(s) \/ \E k \in DOMAIN f : n = f[k].seq
        BY <1>4, <3>4
      <4>5. CASE n \in InsertedSeqs(s)
        BY <1>1, <1>8, <3>1, <4>1, <4>3, <4>5
      <4>6. CASE \E k \in DOMAIN f : n = f[k].seq
        BY <1>1, <1>6, <1>7, <1>8, <4>2, <4>3, <4>6
      <4> QED
        BY <4>4, <4>5, <4>6
    <3> QED
      BY <1>2, <1>3, <2>2, <3>2, <3>3, <3>4
  <2> QED
    BY <2>1, <2>2
<1>16. ASSUME NEW i \in DOMAIN inserted', NEW l \in DOMAIN inserted', i # l,
              inserted'[i].stream = inserted'[l].stream, inserted'[i].seq = inserted'[l].seq
       PROVE  FALSE
  <2>1. CASE i \in DOMAIN inserted /\ l \in DOMAIN inserted
    BY <1>10, <1>12, <1>16, <2>1 DEF OneRowPerSeq, Ids
  <2>2. ASSUME NEW k \in DOMAIN f, NEW y \in DOMAIN inserted,
               inserted[y].stream = s, inserted[y].seq = f[k].seq
        PROVE  FALSE
    <3>1. inserted[y].seq <= a
      BY <1>10, <2>2 DEF a
    <3> QED
      BY <1>1, <1>6, <1>7, <2>2, <3>1
  <2>3. ASSUME NEW k \in DOMAIN f, NEW m \in DOMAIN f,
               i = Len(inserted) + k, l = Len(inserted) + m
        PROVE  FALSE
    <3>1. k # m
      BY <1>16, <2>3
    <3> QED
      BY <1>6, <1>12, <1>16, <2>3, <3>1
  <2> QED
    BY <1>12, <1>16, <2>1, <2>2, <2>3
<1>17. OneRowPerSeq'
  BY <1>16 DEF OneRowPerSeq, Ids
<1>18. GapRowsMerged' /\ \A g \in gapRows' : g.from <= g.through
  <2>1. GapsOK(gapRows', declared')
    BY DEF Committed
  <2>2. \A g \in gapRows' : g.from .. g.through \subseteq declared'[g.stream]
    BY <2>1 DEF GapsOK
  <2> QED
    BY <2>1, <2>2 DEF GapsOK, GapRowsMerged
<1>19. GapsAreReal'
  BY <1>15 DEF GapsAreReal
<1>20. \A x \in Stream : /\ declared'[x] \subseteq 1 .. st'[x].acked
                         /\ 1 .. st'[x].acked \subseteq InsertedSeqs(x)' \cup declared'[x]
                         /\ st'[x].acked <= MaxSeq /\ st'[x].retained <= st'[x].acked + 1
  BY <1>15
<1> QED
  BY <1>14, <1>17, <1>18, <1>19, <1>20 DEF SettledInv

\* Rows and gaps may be pruned; what is settled stays so.
LEMMA HubKept ==
  ASSUME HubTypeOK, SettledInv, UNCHANGED <<inserted, st, declared>>,
         table' \subseteq table, gapRows' \subseteq gapRows, issue' \in {"none", "clock", "storage"}
  PROVE  HubTypeOK' /\ SettledInv'
<1>1. HubTypeOK'
  BY DEF HubTypeOK
<1>2. \A s : InsertedSeqs(s)' = InsertedSeqs(s)
  BY DEF InsertedSeqs, Ids
<1>3. OneRowPerSeq' /\ GapsAreReal'
  BY <1>2 DEF SettledInv, OneRowPerSeq, Ids, GapsAreReal
<1>4. GapRowsMerged'
  BY DEF SettledInv, GapRowsMerged
<1> QED
  BY <1>1, <1>2, <1>3, <1>4 DEF SettledInv

\* A bucket that is resent is the bucket that was stored.
LEMMA NoConflict ==
  ASSUME AgentInv, HubInv, batch # None
  PROVE  ~Conflicts(batch)
<1> DEFINE s == batch.stream
<1>0. /\ inserted \in Seq(StoredRows) /\ table \subseteq 1 .. Len(inserted)
      /\ s \in Stream /\ batch.buckets \in Seq(Buckets)
  BY DEF HubInv, HubTypeOK, AgentInv, AgentTypeOK, Batches
<1>1. ASSUME NEW k \in DOMAIN batch.buckets, NEW i \in Existing(s, batch.buckets[k])
      PROVE  Payload(inserted[i]) = batch.buckets[k]
  <2> DEFINE b == batch.buckets[k]
             c == Payload(inserted[i])
  <2>1. i \in table /\ inserted[i].stream = s /\ inserted[i].seq = b.seq
    BY DEF Existing, Rows
  <2>2. i \in DOMAIN inserted
    BY <1>0, <2>1
  <2>3. inserted[i] \in StoredRows
    BY <1>0, <2>2
  <2>4. c \in Buckets /\ c.seq = inserted[i].seq
    BY <2>3 DEF Payload, StoredRows, Buckets
  <2>5. KnownTo(s, c)
    BY <2>1, <2>2 DEF KnownTo
  <2>6. c \in KnownIn(s)
    BY <2>4, <2>5 DEF KnownIn
  <2>7. b \in KnownIn(s)
    <3>1. Lines(batch.buckets) \subseteq KnownIn(s)
      BY LinesKnown DEF AgentInv
    <3> QED
      BY <3>1 DEF Lines
  <2> QED
    BY <1>0, <2>1, <2>4, <2>6, <2>7 DEF AgentInv, BucketsInv, Agree
<1>2. \A b \in Buckets : Payload(b) = b
  BY DEF Payload, Buckets
<1>3. \A k \in DOMAIN batch.buckets : Payload(batch.buckets[k]) = batch.buckets[k]
  BY <1>0, <1>2
<1> QED
  BY <1>1, <1>3 DEF Conflicts

\* A refused batch leaves the invariant; it was never for a conflict.
LEMMA HubRejectStep ==
  ASSUME PowerInv, HubReject
  PROVE  AgentInv' /\ HubInv'
<1>1. /\ AgentInv /\ HubInv /\ batch # None /\ ~Conflicts(batch)
  BY NoConflict DEF PowerInv, HubReject
<1>2. /\ UNCHANGED <<now, skew, up, gapPending, queue, dropped, writeFailed, j, snap, disk, mailbox,
                     streams, inserted, ack, table, st, gapRows, declared>>
      /\ batch' = None /\ issue' \in {"none", "clock", "storage"}
  BY <1>1 DEF HubReject, HubFrame, agentVars
<1>3. AgentInv'
  BY <1>1, <1>2, QuietStep DEF AgentInv, AgentTypeOK
<1>4. HubTypeOK' /\ SettledInv'
  BY <1>1, <1>2, HubKept DEF HubInv
<1>5. AckInv'
  BY <1>1, <1>2 DEF HubInv, AckInv
<1> QED
  BY <1>3, <1>4, <1>5 DEF HubInv

\* Pruning leaves the invariant.
LEMMA HubPruneStep ==
  ASSUME PowerInv, HubPrune
  PROVE  AgentInv' /\ HubInv'
<1>1. AgentInv /\ HubInv
  BY DEF PowerInv
<1>2. /\ UNCHANGED <<now, skew, up, gapPending, queue, dropped, writeFailed, j, snap, disk, mailbox,
                     streams, inserted, batch, ack, st, declared, issue>>
      /\ table' \subseteq table /\ gapRows' \subseteq gapRows
  BY DEF HubPrune, HubFrame, agentVars
<1>3. AgentInv'
  BY <1>1, <1>2, QuietStep DEF AgentInv, AgentTypeOK
<1>4. HubTypeOK' /\ SettledInv'
  BY <1>1, <1>2, HubKept DEF HubInv, HubTypeOK
<1>5. AckInv'
  BY <1>1, <1>2 DEF HubInv, AckInv
<1> QED
  BY <1>3, <1>4, <1>5 DEF HubInv

\* A commit leaves the invariant.
LEMMA HubCommitStep ==
  ASSUME PowerInv, HubCommit
  PROVE  AgentInv' /\ HubInv'
<1>1. /\ AgentInv /\ HubInv /\ batch # None
  BY DEF PowerInv, HubCommit
<1>2. /\ UNCHANGED <<now, skew, up, gapPending, queue, dropped, writeFailed, j, snap, disk, mailbox,
                     streams>>
      /\ batch' = None /\ issue' = "none"
  BY DEF HubCommit, HubFrame, agentVars
<1>3. PICK s \in Stream, f \in Seq(Buckets), t \in Nat : Committed(s, f, t)
  BY <1>1, CommitFacts
<1>4. /\ RowsAdded(inserted, inserted', s, f) /\ s = batch.stream
      /\ Lines(f) \subseteq Lines(batch.buckets)
      /\ ack' = [stream |-> s, through |-> t]
  BY <1>3 DEF Committed, FreshAbove
<1>5. AgentInv'
  <2>1. inserted \in Seq(StoredRows)
    BY <1>1 DEF HubInv, HubTypeOK
  <2>2. RowsAdded(inserted, inserted', batch.stream, f)
    BY <1>4
  <2>3. NoneLearnt
    BY <1>1, <1>2, <1>4, <2>1, <2>2, CommitLearns
  <2>4. ack' \in Acks
    BY <1>4 DEF Acks
  <2>5. mailbox' \in Acks \cup {None}
    BY <1>1, <1>2 DEF AgentInv, AgentTypeOK
  <2> QED
    BY <1>1, <1>2, <2>3, <2>4, <2>5, NothingNew
<1>6. SettledInv'
  BY <1>1, <1>3, CommitSettles
<1>7. HubTypeOK'
  <2>1. inserted' \in Seq(StoredRows) /\ table' \subseteq 1 .. Len(inserted')
    <3>1. /\ inserted' \in Seq(StoredRows) /\ Len(inserted') = Len(inserted) + Len(f)
          /\ Len(inserted) \in Nat /\ Len(f) \in Nat
      BY <1>4 DEF RowsAdded
    <3>2. table' = table \cup (Len(inserted) + 1 .. Len(inserted) + Len(f))
      BY <1>3 DEF Committed
    <3>3. table \subseteq 1 .. Len(inserted)
      BY <1>1 DEF HubInv, HubTypeOK
    <3> DEFINE m == Len(inserted)
               n == Len(f)
    <3>4. Len(inserted') = m + n /\ m \in Nat /\ n \in Nat
      BY <3>1
    <3>5. table' = table \cup (m + 1 .. m + n) /\ table \subseteq 1 .. m
      BY <3>2, <3>3
    <3> HIDE DEF m, n
    <3>6. table' \subseteq 1 .. m + n
      BY <3>4, <3>5
    <3> QED
      BY <3>1, <3>4, <3>6
  <2>2. gapRows' \subseteq Gaps /\ st' \in [Stream -> [acked : Nat, retained : Nat]]
    BY <1>3 DEF Committed, GapsOK
  <2>3. declared' \in [Stream -> SUBSET Nat]
    BY <1>1, <1>3, LostDeclared DEF Committed
  <2> QED
    BY <1>2, <2>1, <2>2, <2>3 DEF HubTypeOK
<1>8. AckInv'
  <2>1. \A x \in Stream : st[x].acked \in Nat /\ st'[x].acked \in Nat
    BY <1>1, <1>3 DEF HubInv, HubTypeOK, Committed
  <2>2. \A x \in Stream : st[x].acked <= st'[x].acked
    BY <1>3, <2>1 DEF Committed, Reaches
  <2>3. /\ j.stream \in Stream /\ disk.stream \in Stream /\ (mailbox # None => mailbox.stream \in Stream)
        /\ j.acked \in Nat /\ disk.acked \in Nat /\ (mailbox # None => mailbox.through \in Nat)
    BY <1>1 DEF AgentInv, AgentTypeOK, Journals, Disks, Acks
  <2>4. ack'.through <= st'[ack'.stream].acked
    BY <1>3, <1>4 DEF Committed
  <2>5. mailbox' # None => mailbox'.through <= st'[mailbox'.stream].acked
    BY <1>1, <1>2, <2>1, <2>2, <2>3 DEF HubInv, AckInv
  <2>6. disk'.acked <= st'[disk'.stream].acked
    BY <1>1, <1>2, <2>1, <2>2, <2>3 DEF HubInv, AckInv
  <2>7. up' => j'.acked <= st'[j'.stream].acked
    BY <1>1, <1>2, <2>1, <2>2, <2>3 DEF HubInv, AckInv
  <2> QED
    BY <2>4, <2>5, <2>6, <2>7 DEF AckInv
<1> QED
  BY <1>5, <1>6, <1>7, <1>8 DEF HubInv

\* A journal and its directory believe no more acknowledged than the hub does.
Credited(jj, dd) ==
  /\ jj.stream = dd.stream
  /\ jj.acked <= st[jj.stream].acked /\ dd.acked <= st[dd.stream].acked

\* Cleaning keeps the credit.
LEMMA EnforcedCredited ==
  ASSUME NEW jj \in Journals, NEW dd \in Disks, Credited(jj, dd), NEW fails \in BOOLEAN
  PROVE  /\ Enforced(jj, dd, fails).j \in Journals /\ Enforced(jj, dd, fails).d \in Disks
         /\ Credited(Enforced(jj, dd, fails).j, Enforced(jj, dd, fails).d)
         /\ Credited(Enforced(jj, dd, fails).j, dd)
<1>1. JournalKept(jj, Enforced(jj, dd, fails).j) /\ DiskKept(jj, dd, Enforced(jj, dd, fails).d)
  BY EnforcedKeeps
<1> QED
  BY <1>1 DEF JournalKept, DiskKept, Credited

\* Reserving keeps it.
LEMMA ReservedCredited ==
  ASSUME NEW jj \in Journals, NEW dd \in Disks, Credited(jj, dd)
  PROVE  /\ Reserved(jj, dd).j \in Journals /\ Reserved(jj, dd).d \in Disks
         /\ Credited(Reserved(jj, dd).j, Reserved(jj, dd).d)
         /\ Credited(jj, Reserved(jj, dd).d)
<1>1. ReservedFor(jj, dd, Reserved(jj, dd).j, Reserved(jj, dd).d)
  BY ReservedFacts
<1> QED
  BY <1>1 DEF ReservedFor, Credited

\* Writing keeps it.
LEMMA WrittenCredited ==
  ASSUME NEW jj \in Journals, NEW dd \in Disks, Credited(jj, dd), NEW rec \in Buckets
  PROVE  /\ Written(jj, dd, rec).j \in Journals /\ Written(jj, dd, rec).d \in Disks
         /\ Credited(Written(jj, dd, rec).j, Written(jj, dd, rec).d)
<1>1. WrittenAs(jj, dd, rec, Written(jj, dd, rec).j, Written(jj, dd, rec).d)
  BY WrittenFacts
<1> QED
  BY <1>1 DEF WrittenAs, Credited

\* A torn line keeps it.
LEMMA TornCredited ==
  ASSUME NEW jj \in Journals, NEW dd \in Disks, Credited(jj, dd), NEW x
  PROVE  Credited(jj, [CutBack(dd) EXCEPT !.tail = x])
BY DEF CutBack, Credited, Disks

\* A fresh stream claims nothing.
LEMMA FreshCredited ==
  ASSUME HubTypeOK, NEW id \in Stream
  PROVE  /\ FreshJournal(id) \in Journals /\ FreshDisk(id) \in Disks
         /\ Credited(FreshJournal(id), FreshDisk(id))
<1>1. st[id].acked \in Nat
  BY DEF HubTypeOK
<1>2. /\ FreshJournal(id) \in Journals /\ FreshDisk(id) \in Disks
      /\ FreshJournal(id).stream = id /\ FreshDisk(id).stream = id
      /\ FreshJournal(id).acked = 0 /\ FreshDisk(id).acked = 0
  BY FreshFacts
<1> QED
  BY <1>1, <1>2 DEF Credited

\* Steps of the agent leave the hub alone.
LEMMA AgentActs ==
  ASSUME HubInv, UNCHANGED hubVars,
         ack' = ack \/ ack' = None,
         mailbox' = mailbox \/ mailbox' = None \/ mailbox' = ack,
         disk'.acked <= st[disk'.stream].acked,
         up' => j'.acked <= st[j'.stream].acked
  PROVE  HubInv'
<1>1. UNCHANGED <<inserted, table, st, gapRows, declared, issue>>
  BY DEF hubVars
<1>2. HubTypeOK' /\ SettledInv'
  BY <1>1, HubKept DEF HubInv, HubTypeOK
<1>3. AckInv'
  BY <1>1 DEF HubInv, AckInv
<1> QED
  BY <1>2, <1>3 DEF HubInv

\* The running agent's journal is credited.
LEMMA CreditedNow ==
  ASSUME PowerInv, up
  PROVE  j \in Journals /\ disk \in Disks /\ Credited(j, disk)
BY DEF PowerInv, AgentInv, AgentTypeOK, NumbersInv, HubInv, AckInv, Credited

\* append up to the write keeps the credit.
LEMMA BeforeCredited ==
  ASSUME PowerInv, up, BeforeWrite.rotate => streams < MaxStreams
  PROVE  /\ BeforeWrite.j \in Journals /\ BeforeWrite.d \in Disks
         /\ Credited(BeforeWrite.j, BeforeWrite.d)
<1>1. j \in Journals /\ disk \in Disks /\ Credited(j, disk) /\ AgentTypeOK /\ HubTypeOK
  BY CreditedNow DEF PowerInv, AgentInv, HubInv
<1>2. CASE BeforeWrite.rotate
  <2>1. streams + 1 \in Stream
    BY <1>1, <1>2, PowerAssumption DEF AgentTypeOK, Stream
  <2>2. BeforeWrite.j = FreshJournal(streams + 1) /\ BeforeWrite.d = FreshDisk(streams + 1)
    BY <1>1, <1>2, BeforeWriteFacts
  <2> QED
    BY <1>1, <2>1, <2>2, FreshCredited
<1>3. CASE ~BeforeWrite.rotate
  <2>1. /\ JournalKept(j, BeforeWrite.enforced.j) /\ DiskKept(j, disk, BeforeWrite.enforced.d)
        /\ BeforeWrite.j = BeforeWrite.enforced.j /\ BeforeWrite.d = BeforeWrite.enforced.d
    BY <1>1, <1>3, BeforeWriteFacts
  <2> QED
    BY <1>1, <2>1 DEF JournalKept, DiskKept, Credited
<1> QED
  BY <1>2, <1>3

\* The hub across each step of the agent.
LEMMA TickHub ==
  ASSUME PowerInv, NEW any \in BOOLEAN, NEW s \in Skews, Tick(any, s)
  PROVE  HubInv'
<1>1. UNCHANGED <<up, j, disk, mailbox, ack>> /\ UNCHANGED hubVars
  BY DEF Tick, agentVars
<1>2. UNCHANGED st
  BY <1>1 DEF hubVars
<1>3. disk'.acked <= st[disk'.stream].acked /\ (up' => j'.acked <= st[j'.stream].acked)
  BY <1>1 DEF PowerInv, HubInv, AckInv
<1> QED
  BY <1>1, <1>3, AgentActs DEF PowerInv

\* Sending, receiving and a lost connection move no acknowledgement.
LEMMA WireHub ==
  ASSUME PowerInv, SendBatch \/ OfferAck \/ Reconnect
  PROVE  HubInv'
<1>1. /\ UNCHANGED <<up, j, disk>> /\ UNCHANGED hubVars
      /\ ack' = ack \/ ack' = None
      /\ mailbox' = mailbox \/ mailbox' = ack
  BY DEF SendBatch, OfferAck, Reconnect, agentVars
<1>2. disk'.acked <= st[disk'.stream].acked /\ (up' => j'.acked <= st[j'.stream].acked)
  BY <1>1 DEF PowerInv, HubInv, AckInv
<1> QED
  BY <1>1, <1>2, AgentActs DEF PowerInv

\* The retention tick acknowledges nothing.
LEMMA RetentionTickHub ==
  ASSUME PowerInv, RetentionTick
  PROVE  HubInv'
<1>1. PICK fails \in BOOLEAN : /\ j' = Enforced(j, disk, fails).j
                               /\ disk' = Enforced(j, disk, fails).d
  BY DEF RetentionTick
<1>2. up /\ UNCHANGED <<mailbox, ack>> /\ UNCHANGED hubVars
  BY DEF RetentionTick, WorkerFrame
<1>3. Credited(j', disk')
  BY <1>1, <1>2, CreditedNow, EnforcedCredited
<1> QED
  BY <1>2, <1>3, AgentActs DEF PowerInv, Credited

\* An append acknowledges nothing.
LEMMA AppendBucketHub ==
  ASSUME PowerInv, AppendBucket
  PROVE  HubInv'
<1> DEFINE p == BeforeWrite
           s == Reserved(p.j, p.d)
           rec == Bucket(s.j.nextSeq)
           x == Written(s.j, s.d, rec)
<1>1. PICK fails \in BOOLEAN :
        /\ p.rotate => streams < MaxStreams
        /\ j' = Enforced(x.j, x.d, fails).j /\ disk' = Enforced(x.j, x.d, fails).d
  BY ZenonT(60) DEF AppendBucket
<1>2. up /\ queue # << >> /\ UNCHANGED <<mailbox, ack>> /\ UNCHANGED hubVars
  BY DEF AppendBucket, WorkerFrame
<1>3. p.j \in Journals /\ p.d \in Disks /\ Credited(p.j, p.d)
  BY <1>1, <1>2, BeforeCredited
<1> HIDE DEF p
<1>4. s.j \in Journals /\ s.d \in Disks /\ Credited(s.j, s.d)
  BY <1>3, ReservedCredited
<1> HIDE DEF s
<1>5. s.j.nextSeq \in Nat
  BY <1>4 DEF Journals
<1>6. rec \in Buckets
  BY <1>2, <1>5, BucketFacts DEF PowerInv, AgentInv
<1> HIDE DEF rec
<1>7. x.j \in Journals /\ x.d \in Disks /\ Credited(x.j, x.d)
  BY <1>4, <1>6, WrittenCredited
<1> HIDE DEF x
<1>8. Credited(j', disk')
  BY <1>1, <1>7, EnforcedCredited
<1> QED
  BY <1>2, <1>8, AgentActs DEF PowerInv, Credited

\* Nor does one that fails, wherever it stops.
LEMMA AppendFailsHub ==
  ASSUME PowerInv, AppendFails
  PROVE  HubInv'
<1> DEFINE p == BeforeWrite
           s == Reserved(p.j, p.d)
           rec == Bucket(s.j.nextSeq)
<1>1. up /\ UNCHANGED <<mailbox, ack>> /\ UNCHANGED hubVars
  BY DEF AppendFails, WorkerFrame
<1>2. \/ j' = Enforced(j, disk, TRUE).j /\ disk' = disk
      \/ /\ p.rotate
         /\ j' = p.enforced.j /\ disk' = p.enforced.d
      \/ /\ ~p.rotate
         /\ j' = p.j /\ disk' \in {p.d, s.d}
      \/ /\ p.rotate => streams < MaxStreams
         /\ j' = s.j
         /\ disk' \in {s.d} \cup {[CutBack(s.d) EXCEPT !.tail = t] : t \in {None, rec}}
  BY DEF AppendFails
<1>3. j \in Journals /\ disk \in Disks /\ Credited(j, disk) /\ AgentTypeOK
  BY <1>1, CreditedNow DEF PowerInv, AgentInv
<1>4. JournalKept(j, p.enforced.j) /\ DiskKept(j, disk, p.enforced.d)
  BY <1>3, BeforeWriteFacts
<1>5. (p.rotate => streams < MaxStreams) =>
        p.j \in Journals /\ p.d \in Disks /\ Credited(p.j, p.d)
  BY <1>1, BeforeCredited
<1> HIDE DEF p
<1>6. (p.rotate => streams < MaxStreams) =>
        /\ s.j \in Journals /\ s.d \in Disks /\ Credited(s.j, s.d)
        /\ Credited(p.j, s.d)
  BY <1>5, ReservedCredited
<1> HIDE DEF s, rec
<1>7. CASE j' = Enforced(j, disk, TRUE).j /\ disk' = disk
  <2>1. Credited(Enforced(j, disk, TRUE).j, disk)
    BY <1>3, EnforcedCredited
  <2> QED
    BY <1>1, <1>7, <2>1, AgentActs DEF PowerInv, Credited
<1>8. CASE p.rotate /\ j' = p.enforced.j /\ disk' = p.enforced.d
  <2>1. Credited(p.enforced.j, p.enforced.d)
    BY <1>3, <1>4 DEF Credited, JournalKept, DiskKept
  <2> QED
    BY <1>1, <1>8, <2>1, AgentActs DEF PowerInv, Credited
<1>9. CASE ~p.rotate /\ j' = p.j /\ disk' \in {p.d, s.d}
  <2>1. Credited(p.j, disk')
    BY <1>5, <1>6, <1>9
  <2>2. j' = p.j
    BY <1>9
  <2> QED
    BY <1>1, <2>1, <2>2, AgentActs DEF PowerInv, Credited
<1>10. CASE /\ p.rotate => streams < MaxStreams
            /\ j' = s.j
            /\ disk' \in {s.d} \cup {[CutBack(s.d) EXCEPT !.tail = t] : t \in {None, rec}}
  <2>1. s.j \in Journals /\ s.d \in Disks /\ Credited(s.j, s.d)
    BY <1>6, <1>10
  <2>2. \A t \in {None, rec} : Credited(s.j, [CutBack(s.d) EXCEPT !.tail = t])
    BY <2>1, TornCredited
  <2>3. Credited(s.j, disk') /\ j' = s.j
    BY <1>10, <2>1, <2>2
  <2> QED
    BY <1>1, <2>3, AgentActs DEF PowerInv, Credited
<1> QED
  BY <1>2, <1>7, <1>8, <1>9, <1>10

\* An applied acknowledgement is one the hub gave, for this stream.
LEMMA ApplyAckHub ==
  ASSUME PowerInv, ApplyAck
  PROVE  HubInv'
<1>1. up /\ up' = up /\ mailbox # None /\ mailbox' = None /\ ack' = ack /\ UNCHANGED hubVars
  BY DEF ApplyAck
<1>2. j \in Journals /\ disk \in Disks /\ Credited(j, disk) /\ mailbox.through <= st[mailbox.stream].acked
  BY <1>1, CreditedNow DEF PowerInv, HubInv, AckInv
<1>3. CASE j' = j /\ disk' = disk
  BY <1>1, <1>2, <1>3, AgentActs DEF PowerInv, Credited
<1>4. CASE /\ AckAccepted(mailbox)
           /\ disk' = [disk EXCEPT !.acked = mailbox.through, !.reserved = j.reserved]
           /\ j' = [j EXCEPT !.acked = mailbox.through] \/ j' = j
  <2> DEFINE n == mailbox.through
  <2>1. mailbox.stream = j.stream /\ j.stream = disk.stream
    BY <1>2, <1>4 DEF AckAccepted, Credited
  <2>2. /\ disk'.acked = n /\ disk'.stream = disk.stream /\ j'.stream = j.stream
        /\ j'.acked = n \/ j'.acked = j.acked
    BY <1>2, <1>4 DEF Journals, Disks
  <2>3. n <= st[j.stream].acked /\ j.acked <= st[j.stream].acked
    BY <1>2, <2>1 DEF Credited
  <2> QED
    BY <1>1, <2>1, <2>2, <2>3, AgentActs DEF PowerInv
<1>5. \/ j' = j /\ disk' = disk
      \/ /\ AckAccepted(mailbox)
         /\ disk' = [disk EXCEPT !.acked = mailbox.through, !.reserved = j.reserved]
         /\ j' = [j EXCEPT !.acked = mailbox.through] \/ j' = j
  BY DEF ApplyAck
<1> QED
  BY <1>3, <1>4, <1>5

\* A crash loses lines, never the acknowledged cursor.
LEMMA CrashHub ==
  ASSUME PowerInv, Crash
  PROVE  HubInv'
<1>1. up' = FALSE /\ mailbox' = None /\ ack' = None /\ UNCHANGED hubVars
  BY DEF Crash
<1>2. PICK n \in 0 .. Len(disk.recs), ok \in BOOLEAN :
        disk' = [disk EXCEPT !.recs = SubSeq(@, 1, n), !.stateOk = ok,
                             !.tail = IF n = Len(disk.recs) THEN @ ELSE None]
  BY DEF Crash
<1>3. disk'.acked = disk.acked /\ disk'.stream = disk.stream
  BY <1>2 DEF PowerInv, AgentInv, AgentTypeOK, Disks
<1> QED
  BY <1>1, <1>3, AgentActs DEF PowerInv, HubInv, AckInv

\* A restart believes what the directory says, or begins a stream.
LEMMA BootHub ==
  ASSUME PowerInv, Boot
  PROVE  HubInv'
<1> DEFINE recs == Recovered(disk)
           next == ResumeSeq(disk, recs)
           rotate == ~disk.stateOk \/ next >= MaxSeq
           opened == [stream |-> disk.stream, acked |-> disk.acked, reserved |-> disk.reserved,
                      nextSeq |-> next, recs |-> recs, overCap |-> FALSE]
           read == [disk EXCEPT !.recs = recs, !.tail = None]
<1>1. /\ ~up /\ (rotate => streams < MaxStreams)
      /\ rotate => j' = FreshJournal(streams + 1) /\ disk' = FreshDisk(streams + 1)
      /\ ~rotate => /\ j' = Enforced(opened, read, FALSE).j
                    /\ disk' = Enforced(opened, read, FALSE).d
      /\ UNCHANGED <<mailbox, ack>> /\ UNCHANGED hubVars
  BY DEF Boot
<1>2. AgentInv /\ HubInv /\ AgentTypeOK /\ HubTypeOK /\ disk \in Disks /\ streams \in Stream
  BY DEF PowerInv, AgentInv, HubInv, AgentTypeOK
<1>3. recs \in Seq(Buckets) /\ next = disk.reserved + 1
  BY <1>2, RecoveredFacts
<1>4. disk.reserved \in Nat /\ disk.acked \in Nat /\ disk.stream \in Stream
  BY <1>2 DEF Disks
<1>5. disk.acked <= st[disk.stream].acked
  BY <1>2 DEF HubInv, AckInv
<1> HIDE DEF recs, next
<1>6. opened \in Journals /\ read \in Disks /\ Credited(opened, read)
  <2>1. next \in Nat
    BY <1>3, <1>4
  <2>2. opened \in Journals /\ opened.stream = disk.stream /\ opened.acked = disk.acked
    BY <1>3, <1>4, <2>1 DEF Journals
  <2>3. read \in Disks /\ read.stream = disk.stream /\ read.acked = disk.acked
    BY <1>2, <1>3 DEF Disks
  <2> HIDE DEF opened, read
  <2> QED
    BY <1>5, <2>2, <2>3 DEF Credited
<1> HIDE DEF rotate, opened, read
<1>7. CASE rotate
  <2>1. streams + 1 \in Stream
    BY <1>1, <1>2, <1>7, PowerAssumption DEF Stream
  <2>2. Credited(j', disk')
    BY <1>1, <1>2, <1>7, <2>1, FreshCredited
  <2> QED
    BY <1>1, <1>2, <2>2, AgentActs DEF Credited
<1>8. CASE ~rotate
  <2>1. Credited(Enforced(opened, read, FALSE).j, Enforced(opened, read, FALSE).d)
    BY <1>6, EnforcedCredited
  <2>2. Credited(j', disk')
    BY <1>1, <1>8, <2>1
  <2> QED
    BY <1>1, <1>2, <2>2, AgentActs DEF Credited
<1> QED
  BY <1>7, <1>8

\* A page of the oldest ids: a short one has them all, and a full one has all
\* up to its last.
LEMMA OldestPage ==
  ASSUME NEW top \in Nat, NEW ids \in SUBSET (1 .. top), NEW n \in Nat \ {0}
  PROVE  LET page == Oldest(ids, n)
         IN  /\ page \subseteq ids
             /\ Cardinality(page) # n => page = ids
             /\ Cardinality(page) = n => /\ Max(page) \in page
                                         /\ \A i \in ids : i <= Max(page) => i \in page
<1> DEFINE page == Oldest(ids, n)
           Below(i) == {k \in ids : k < i}
<1>1. \A i \in ids : i \in Nat /\ i >= 1 /\ i <= top
  OBVIOUS
<1>2. /\ IsFiniteSet(ids) /\ Cardinality(ids) \in Nat
      /\ \A T \in SUBSET ids : IsFiniteSet(T) /\ Cardinality(T) \in 0 .. Cardinality(ids)
  BY IndexSet, Zenon
<1>3. page = {i \in ids : Cardinality(Below(i)) < n}
  BY DEF Oldest
<1>4. page \in SUBSET ids
  BY <1>3
<1>5. ASSUME NEW i \in ids PROVE Below(i) = {k \in ids : k <= i - 1}
  <2>1. \A k \in ids : k < i <=> k <= i - 1
    BY <1>1
  <2> QED
    BY <2>1
<1>6. \A i \in ids : Cardinality(Below(i)) = Rank(ids, i - 1) /\ i - 1 \in Nat
  BY <1>1, <1>5 DEF Rank
<1> HIDE DEF Below
<1>7. /\ \A k \in Nat : Rank(ids, k) \in 0 .. Cardinality(ids)
      /\ \A k \in ids, m \in Nat : k > m => Rank(ids, k) > Rank(ids, m)
  BY RankFacts, Zenon
<1>8. \A i \in ids : i \in page <=> Rank(ids, i - 1) < n
  BY <1>3, <1>6
<1> HIDE DEF page
\* Fewer below a smaller id.
<1>9. ASSUME NEW i \in ids, NEW m \in ids, i <= m, m \in page
      PROVE  i \in page
  <2>1. i = m \/ i - 1 < m - 1
    BY <1>1, <1>9
  <2>2. CASE i - 1 < m - 1
    <3>1. i <= m - 1 /\ i - 1 \in Nat /\ m - 1 \in Nat
      BY <1>1, <1>9, <2>2
    <3>2. {k \in ids : k <= i - 1} \in SUBSET {k \in ids : k <= m - 1}
      <4>1. \A k \in ids : k <= i - 1 => k <= m - 1
        BY <1>1, <3>1
      <4> QED
        BY <4>1
    <3>3. {k \in ids : k <= m - 1} \in SUBSET ids
      OBVIOUS
    <3>4. Rank(ids, i - 1) <= Rank(ids, m - 1)
      <4>1. IsFiniteSet({k \in ids : k <= m - 1})
        BY <1>2, <3>3
      <4> QED
        BY <3>2, <4>1, FS_Subset DEF Rank
    <3> QED
      BY <1>7, <1>8, <1>9, <3>1, <3>4
  <2> QED
    BY <1>9, <2>1, <2>2
<1>10. CASE Cardinality(page) = n
  <2>1. page # {}
    BY <1>10, FS_EmptySet
  <2>2. page \in SUBSET Nat /\ \A i \in page : i <= top
    BY <1>1, <1>4
  <2> DEFINE m == Max(page)
  <2>3. m \in page
    BY <2>1, <2>2, MaxNat
  <2> HIDE DEF m
  <2>4. \A i \in ids : i <= m => i \in page
    BY <1>4, <1>9, <2>3
  <2> QED
    BY <1>4, <1>10, <2>3, <2>4 DEF m, page
<1>11. CASE Cardinality(page) # n
  <2>1. ASSUME NEW j0 \in ids, j0 \notin page PROVE FALSE
    <3>1. Rank(ids, j0 - 1) >= n /\ j0 - 1 \in Nat
      BY <1>6, <1>7, <1>8, <2>1
    <3>2. n \in 1 .. Cardinality(ids)
      BY <1>2, <1>7, <3>1
    <3>3. PICK k0 \in ids : Rank(ids, k0) = n
      BY <3>2, NthExists
    <3>4. k0 \in Nat /\ k0 - 1 \in Nat
      BY <1>1
    <3>5. ASSUME NEW i \in ids, i <= k0 PROVE i \in page
      <4>1. Rank(ids, k0 - 1) < n
        <5>1. k0 > k0 - 1
          BY <3>4
        <5>2. Rank(ids, k0) > Rank(ids, k0 - 1)
          BY <1>7, <3>4, <5>1
        <5>3. Rank(ids, k0 - 1) \in Nat
          BY <1>7, <3>4
        <5> QED
          BY <3>3, <5>2, <5>3
      <4>2. k0 \in page
        BY <1>8, <4>1
      <4> QED
        BY <1>9, <3>5, <4>2
    <3>6. ASSUME NEW i \in ids, i > k0 PROVE i \notin page
      <4>1. i - 1 \in Nat /\ k0 <= i - 1
        BY <1>1, <3>4, <3>6
      <4>2. {k \in ids : k <= k0} \in SUBSET {k \in ids : k <= i - 1}
        <5>1. \A k \in ids : k <= k0 => k <= i - 1
          BY <1>1, <3>4, <4>1
        <5> QED
          BY <5>1
      <4>3. {k \in ids : k <= i - 1} \in SUBSET ids
        OBVIOUS
      <4>4. IsFiniteSet({k \in ids : k <= i - 1})
        BY <1>2, <4>3
      <4>5. Rank(ids, k0) <= Rank(ids, i - 1)
        BY <4>2, <4>4, FS_Subset DEF Rank
      <4> QED
        BY <1>7, <1>8, <3>3, <3>4, <4>1, <4>5
    <3>7. page = {i \in ids : i <= k0}
      <4>1. \A i \in ids : i <= k0 \/ i > k0
        BY <1>1, <3>4
      <4>2. \A i \in ids : i \in page <=> i <= k0
        BY <1>1, <3>4, <3>5, <3>6, <4>1
      <4> QED
        BY <1>4, <4>2
    <3> QED
      BY <1>11, <3>3, <3>7 DEF Rank
  <2>2. page = ids
    BY <1>4, <2>1
  <2> QED
    BY <1>11, <2>2 DEF page
<1> QED
  BY <1>10, <1>11

\* A page of a dashboard leaves out no row between its cursors.
LEMMA ReadDeltaStep ==
  ASSUME PowerInv, ReadDelta
  PROVE  ReaderInv'
<1> DEFINE page == DeltaPage
           c == IF Cardinality(page) = PageSize THEN Max(page) ELSE reader.hw
           ids == {i \in table : i > reader.cursor /\ i <= reader.hw}
           top == Len(inserted)
<1>1. /\ reader.started
      /\ reader' = [reader EXCEPT !.reading = FALSE, !.cursor = c, !.got = @ \cup page,
                       !.excused = @ \cup ((reader.cursor + 1 .. c) \ table)]
      /\ inserted' = inserted
  BY DEF ReadDelta, DeltaTo, ReaderFrame, hubVars
<1>2. /\ reader \in Readers /\ reader.cursor \in Nat /\ reader.hw \in Nat
      /\ reader.hw <= top /\ reader.cursor <= reader.hw
      /\ 1 .. reader.cursor \subseteq reader.got \cup reader.excused
      /\ table \subseteq 1 .. top /\ top \in Nat /\ PageSize \in Nat \ {0}
  BY PowerAssumption
     DEF PowerInv, ReaderInv, ReaderTypeOK, Readers, DeltaSkipsNothing, HubInv, HubTypeOK
<1>3. page = Oldest(ids, PageSize)
  BY DEF DeltaPage
<1>4. ids \in SUBSET (1 .. top) /\ \A i \in ids : i <= reader.hw
  BY <1>2
<1>5. \A i \in table : i > reader.cursor /\ i <= reader.hw => i \in ids
  OBVIOUS
<1> HIDE DEF ids, top
<1>6. /\ page \subseteq ids
      /\ Cardinality(page) # PageSize => page = ids
      /\ Cardinality(page) = PageSize => /\ Max(page) \in page
                                         /\ \A i \in ids : i <= Max(page) => i \in page
  BY <1>2, <1>3, <1>4, OldestPage
<1> HIDE DEF page
<1>7. c \in Nat /\ c <= reader.hw /\ \A i \in ids : i <= c => i \in page
  <2>1. CASE Cardinality(page) = PageSize
    <3>1. c \in ids
      BY <1>6, <2>1
    <3>2. \A i \in ids : c = i => c \in Nat /\ c <= reader.hw
      <4>1. \A i \in ids : i \in Nat
        BY <1>2, <1>4
      <4> HIDE DEF c
      <4> QED
        BY <1>4, <4>1
    <3>4. c \in Nat /\ c <= reader.hw
      BY <3>1, <3>2
    <3> QED
      BY <1>6, <2>1, <3>4
  <2>2. CASE Cardinality(page) # PageSize
    BY <1>2, <1>6, <2>2
  <2> QED
    BY <2>1, <2>2
<1> HIDE DEF c
<1>8. /\ reader' \in [reading : BOOLEAN, started : BOOLEAN, cursor : Nat, hw : Nat,
                      got : {reader'.got}, excused : {reader'.excused}]
      /\ reader'.cursor = c /\ reader'.hw = reader.hw /\ reader'.started
      /\ reader'.got = reader.got \cup page
      /\ reader'.excused = reader.excused \cup ((reader.cursor + 1 .. c) \ table)
  BY <1>1, <1>2, <1>7 DEF Readers
<1>9. ASSUME NEW n \in 1 .. c PROVE n \in reader'.got \cup reader'.excused
  <2>1. CASE n <= reader.cursor
    <3>1. n \in 1 .. reader.cursor
      BY <1>2, <1>7, <2>1
    <3> QED
      BY <1>2, <1>8, <3>1
  <2>2. CASE n > reader.cursor
    <3>1. n \in reader.cursor + 1 .. c /\ n <= reader.hw
      BY <1>2, <1>7, <2>2
    <3>2. CASE n \notin table
      BY <1>8, <3>1, <3>2
    <3>3. CASE n \in table
      <4>1. n \in ids /\ n <= c
        BY <1>5, <1>7, <2>2, <3>1, <3>3
      <4> QED
        BY <1>7, <1>8, <4>1
    <3> QED
      BY <3>2, <3>3
  <2> QED
    BY <1>2, <1>7, <2>1, <2>2
<1> QED
  BY <1>1, <1>2, <1>7, <1>8, <1>9 DEF ReaderInv, ReaderTypeOK, Readers, DeltaSkipsNothing, top

\* The high-water is a row that exists.
LEMMA ReadHighWaterStep ==
  ASSUME PowerInv, ReadHighWater
  PROVE  ReaderInv'
<1>1. /\ reader' = [reader EXCEPT !.reading = TRUE, !.hw = Len(inserted)]
      /\ inserted' = inserted
  BY DEF ReadHighWater, hubVars
<1>2. /\ reader \in Readers /\ reader.cursor \in Nat /\ reader.hw \in Nat
      /\ reader.hw <= Len(inserted) /\ reader.cursor <= reader.hw
      /\ ~reader.started => reader.cursor = 0
      /\ 1 .. reader.cursor \subseteq reader.got \cup reader.excused
      /\ Len(inserted) \in Nat
  BY DEF PowerInv, ReaderInv, ReaderTypeOK, Readers, DeltaSkipsNothing, HubInv, HubTypeOK
<1>3. /\ reader' \in [reading : BOOLEAN, started : BOOLEAN, cursor : Nat, hw : Nat,
                      got : {reader'.got}, excused : {reader'.excused}]
      /\ reader'.cursor = reader.cursor /\ reader'.hw = Len(inserted)
      /\ reader'.started = reader.started
      /\ reader'.got = reader.got /\ reader'.excused = reader.excused
  BY <1>1, <1>2 DEF Readers
<1> QED
  BY <1>1, <1>2, <1>3 DEF ReaderInv, ReaderTypeOK, Readers, DeltaSkipsNothing

\* The first page sets the cursor, and the rest of the view aside.
LEMMA ReadInitialStep ==
  ASSUME PowerInv, ReadInitial
  PROVE  ReaderInv'
<1>1. PICK page :
        /\ reader' = [reader EXCEPT !.reading = FALSE, !.started = TRUE, !.cursor = reader.hw,
                         !.got = page, !.excused = (1 .. reader.hw) \ page]
        /\ inserted' = inserted
  BY DEF ReadInitial, ReaderFrame, hubVars
<1>2. /\ reader \in Readers /\ reader.hw \in Nat /\ reader.hw <= Len(inserted)
  BY DEF PowerInv, ReaderInv, ReaderTypeOK, Readers
<1>3. /\ reader' \in [reading : BOOLEAN, started : BOOLEAN, cursor : Nat, hw : Nat,
                      got : {reader'.got}, excused : {reader'.excused}]
      /\ reader'.cursor = reader.hw /\ reader'.hw = reader.hw
      /\ reader'.started = TRUE
      /\ reader'.got = page /\ reader'.excused = (1 .. reader.hw) \ page
  BY <1>1, <1>2 DEF Readers
<1>4. 1 .. reader'.cursor \subseteq reader'.got \cup reader'.excused
  BY <1>3
<1> QED
  BY <1>1, <1>2, <1>3, <1>4 DEF ReaderInv, ReaderTypeOK, Readers, DeltaSkipsNothing

\* The other steps only add rows.
LEMMA ReaderRests ==
  ASSUME PowerInv, reader' = reader, Len(inserted') \in Nat, Len(inserted') >= Len(inserted)
  PROVE  ReaderInv'
<1>1. /\ reader \in Readers /\ reader.hw \in Nat /\ reader.hw <= Len(inserted)
      /\ Len(inserted) \in Nat
  BY DEF PowerInv, ReaderInv, ReaderTypeOK, Readers, HubInv, HubTypeOK
<1> QED
  BY <1>1 DEF PowerInv, ReaderInv, ReaderTypeOK, Readers, DeltaSkipsNothing

\* The invariant holds at the start.
LEMMA PowerInit == Init => PowerInv
<1> SUFFICES ASSUME Init PROVE PowerInv
  OBVIOUS
<1>1. /\ now = 0 /\ skew = 0 /\ up = TRUE /\ gapPending = TRUE /\ queue = << >> /\ dropped = FALSE
      /\ writeFailed = FALSE /\ j = FreshJournal(1) /\ snap = Snapshot(FreshJournal(1))
      /\ disk = FreshDisk(1) /\ mailbox = None /\ streams = 1 /\ batch = None /\ ack = None
      /\ inserted = << >> /\ table = {} /\ st = [s \in Stream |-> [acked |-> 0, retained |-> 0]]
      /\ gapRows = {} /\ declared = [s \in Stream |-> {}] /\ issue = "none"
      /\ reader = [reading |-> FALSE, started |-> FALSE, cursor |-> 0, hw |-> 0,
                   got |-> {}, excused |-> {}]
  BY DEF Init
<1>2. 1 \in Stream /\ MaxSeq \in Nat /\ 1 <= MaxSeq
  BY PowerAssumption DEF Stream
<1>3. /\ j \in Journals /\ disk \in Disks /\ j.stream = 1 /\ disk.stream = 1
      /\ j.acked = 0 /\ disk.acked = 0 /\ j.reserved = 0 /\ disk.reserved = 0
      /\ j.nextSeq = 1 /\ disk.tail = None /\ Lines(j.recs) = {} /\ Lines(disk.recs) = {}
  BY <1>1, <1>2, FreshFacts
<1>4. snap \in Snapshots /\ snap.stream = 1 /\ snap.nextSeq = 1 /\ Lines(snap.recs) = {}
  BY <1>1, <1>2, LinesEmpty DEF Snapshot, FreshJournal, Snapshots
<1>5. DOMAIN inserted = {} /\ Len(inserted) = 0 /\ inserted \in Seq(StoredRows)
  <2>1. DOMAIN << >> = {} /\ Len(<< >>) = 0 /\ << >> \in Seq(StoredRows)
    OBVIOUS
  <2> QED
    BY <1>1, <2>1
<1>6. \A s \in Stream : KnownIn(s) = {}
  BY <1>1, <1>3, <1>4, <1>5 DEF KnownIn, KnownTo
<1>7. AgentTypeOK
  <2>1. now \in Nat /\ skew \in Int /\ queue \in Seq(Windows)
    BY <1>1
  <2> QED
    BY <1>1, <1>2, <1>3, <1>4, <2>1 DEF AgentTypeOK
<1>8. NumbersInv
  <2>1. \A s \in Stream : \A b \in KnownIn(s) : FALSE
    BY <1>6
  <2>2. 1 \in 1 .. MaxSeq
    BY <1>2
  <2>3. j.stream = disk.stream /\ j.reserved <= disk.reserved /\ j.nextSeq \in 1 .. MaxSeq
        /\ j.nextSeq <= j.reserved + 1 /\ j.acked < j.nextSeq /\ disk.acked <= disk.reserved
        /\ snap.nextSeq \in 1 .. MaxSeq
    BY <1>3, <1>4, <2>2
  <2>4. j.stream <= streams /\ disk.stream <= streams /\ snap.stream <= streams
    BY <1>1, <1>3, <1>4
  <2> QED
    BY <1>1, <2>1, <2>3, <2>4 DEF NumbersInv
<1>9. TailInv /\ BatchInv
  BY <1>1, <1>3 DEF TailInv, BatchInv
<1>10. ChainInv
  <2>1. \A b \in KnownIn(j.stream) : FALSE
    BY <1>2, <1>3, <1>6
  <2>2. queue = << >> /\ Len(queue) = 0
    BY <1>1
  <2> QED
    BY <2>1, <2>2 DEF ChainInv
<1>11. BucketsInv
  BY <1>6 DEF BucketsInv, Agree, Flagged
<1>12. HubTypeOK
  BY <1>1, <1>5 DEF HubTypeOK
<1>13. SettledInv
  <2>1. \A s \in Stream : st[s].acked = 0 /\ st[s].retained = 0 /\ declared[s] = {}
    BY <1>1
  <2>2. 1 .. 0 = {} /\ 0 <= MaxSeq
    BY <1>2
  <2>3. \A s \in Stream : 1 .. st[s].acked = {} /\ st[s].acked <= MaxSeq
                          /\ st[s].retained <= st[s].acked + 1
    BY <2>1, <2>2
  <2>4. OneRowPerSeq /\ GapsAreReal /\ GapRowsMerged
    BY <1>1, <1>5, <2>1 DEF OneRowPerSeq, Ids, GapsAreReal, GapRowsMerged
  <2> QED
    BY <1>1, <1>5, <2>1, <2>3, <2>4 DEF SettledInv
<1>14. AckInv
  BY <1>1, <1>2, <1>3 DEF AckInv
<1>15. ReaderInv
  <2>1. reader \in Readers
    BY <1>1 DEF Readers
  <2> QED
    BY <1>1, <1>5, <2>1 DEF ReaderInv, ReaderTypeOK, DeltaSkipsNothing
<1> QED
  BY <1>7, <1>8, <1>9, <1>10, <1>11, <1>12, <1>13, <1>14, <1>15
     DEF PowerInv, AgentInv, HubInv

\* A step that touches neither side.
LEMMA NeitherSide ==
  ASSUME PowerInv,
         UNCHANGED <<now, skew, up, gapPending, queue, dropped, writeFailed, j, snap, mailbox,
                     disk, streams, batch, ack, inserted, table, st, gapRows, declared, issue>>
  PROVE  AgentInv' /\ HubInv'
<1>1. AgentInv'
  BY QuietStep DEF PowerInv, AgentInv, AgentTypeOK
<1>2. HubTypeOK' /\ SettledInv'
  BY HubKept DEF PowerInv, HubInv, HubTypeOK
<1>3. AckInv'
  BY DEF PowerInv, HubInv, AckInv
<1> QED
  BY <1>1, <1>2, <1>3 DEF HubInv

\* The agent's and the hub's side across the steps that leave the reader alone.
LEMMA SidesStep ==
  ASSUME PowerInv,
         \/ \E any \in BOOLEAN, s \in Skews : Tick(any, s)
         \/ Worker \/ AppendFails \/ SendBatch \/ OfferAck \/ Crash \/ Boot \/ Reconnect
         \/ HubIngest \/ HubPrune
  PROVE  AgentInv' /\ HubInv' /\ reader' = reader /\ Len(inserted') \in Nat
         /\ Len(inserted') >= Len(inserted)
<1>0. AgentInv /\ HubInv /\ Len(inserted) \in Nat
  BY DEF PowerInv, HubInv, HubTypeOK
<1>1. ASSUME inserted' = inserted PROVE Len(inserted') \in Nat /\ Len(inserted') >= Len(inserted)
  BY <1>0, <1>1
<1>2. ASSUME NEW any \in BOOLEAN, NEW s \in Skews, Tick(any, s)
      PROVE  AgentInv' /\ HubInv' /\ reader' = reader /\ inserted' = inserted
  BY <1>0, <1>2, TickStep, TickHub DEF Tick, hubVars
<1>3. CASE AppendBucket
  BY <1>0, <1>1, <1>3, AppendBucketStep, AppendBucketHub DEF AppendBucket, WorkerFrame, hubVars
<1>4. CASE RetentionTick
  BY <1>0, <1>1, <1>4, RetentionTickStep, RetentionTickHub DEF RetentionTick, WorkerFrame,
            hubVars
<1>5. CASE ApplyAck
  BY <1>0, <1>1, <1>5, ApplyAckStep, ApplyAckHub DEF ApplyAck, hubVars
<1>6. CASE AppendFails
  BY <1>0, <1>1, <1>6, AppendFailsStep, AppendFailsHub DEF AppendFails, WorkerFrame, hubVars
<1>7. CASE SendBatch
  BY <1>0, <1>1, <1>7, SendBatchStep, WireHub DEF SendBatch, hubVars
<1>8. CASE OfferAck
  <2>1. AgentInv'
    <3>1. /\ UNCHANGED <<now, skew, up, gapPending, queue, dropped, writeFailed, j, snap, disk,
                         streams, inserted, batch>>
          /\ ack' = None /\ (mailbox' = mailbox \/ mailbox' = ack)
      BY <1>8 DEF OfferAck, hubVars
    <3> QED
      BY <1>0, <3>1, QuietStep DEF AgentInv, AgentTypeOK
  <2> QED
    BY <1>1, <1>8, <2>1, WireHub DEF OfferAck, hubVars
<1>9. CASE Crash
  BY <1>0, <1>1, <1>9, CrashStep, CrashHub DEF Crash, hubVars
<1>10. CASE Boot
  BY <1>0, <1>1, <1>10, BootStep, BootHub DEF Boot, hubVars
<1>11. CASE Reconnect
  <2>1. AgentInv'
    <3>1. /\ UNCHANGED <<now, skew, up, gapPending, queue, dropped, writeFailed, j, snap, disk,
                         streams, inserted, mailbox>>
          /\ ack' = None /\ batch' = None
      BY <1>11 DEF Reconnect, hubVars, agentVars
    <3> QED
      BY <1>0, <3>1, QuietStep DEF AgentInv, AgentTypeOK
  <2> QED
    BY <1>1, <1>11, <2>1, WireHub DEF Reconnect, hubVars
<1>12. CASE HubReject
  BY <1>1, <1>12, HubRejectStep DEF HubReject, HubFrame
<1>13. CASE HubPrune
  BY <1>1, <1>13, HubPruneStep DEF HubPrune, HubFrame
<1>14. CASE HubCommit
  <2>1. AgentInv' /\ HubInv' /\ reader' = reader
    BY <1>14, HubCommitStep DEF HubCommit, HubFrame
  <2>2. PICK s \in Stream, f \in Seq(Buckets), t \in Nat : Committed(s, f, t)
    BY <1>0, <1>14, CommitFacts
  <2>3. Len(inserted') = Len(inserted) + Len(f) /\ Len(f) \in Nat
    BY <2>2 DEF Committed, RowsAdded
  <2> QED
    BY <1>0, <2>1, <2>3
<1> QED
  BY <1>1, <1>2, <1>3, <1>4, <1>5, <1>6, <1>7, <1>8, <1>9, <1>10, <1>11, <1>12, <1>13, <1>14
     DEF Worker, HubIngest

\* Every step keeps the invariant.
LEMMA PowerNext == PowerInv /\ [Next]_vars => PowerInv'
<1> SUFFICES ASSUME PowerInv, [Next]_vars PROVE PowerInv'
  OBVIOUS
<1>1. CASE \/ \E any \in BOOLEAN, s \in Skews : Tick(any, s)
           \/ Worker \/ AppendFails \/ SendBatch \/ OfferAck \/ Crash \/ Boot \/ Reconnect
           \/ HubIngest \/ HubPrune
  BY <1>1, SidesStep, ReaderRests DEF PowerInv
<1>2. CASE ReadHighWater
  BY <1>2, NeitherSide, ReadHighWaterStep DEF PowerInv, ReadHighWater, agentVars, hubVars
<1>3. CASE ReadInitial
  BY <1>3, NeitherSide, ReadInitialStep DEF PowerInv, ReadInitial, ReaderFrame, agentVars,
                                            hubVars
<1>4. CASE ReadDelta
  BY <1>4, NeitherSide, ReadDeltaStep
     DEF PowerInv, ReadDelta, DeltaTo, ReaderFrame, agentVars, hubVars
<1>5. CASE UNCHANGED vars
  <2>1. Len(inserted) \in Nat
    BY DEF PowerInv, HubInv, HubTypeOK
  <2>2. UNCHANGED <<now, skew, up, gapPending, queue, dropped, writeFailed, j, snap, mailbox,
                    disk, streams, batch, ack, inserted, table, st, gapRows, declared, issue,
                    reader>>
    BY <1>5 DEF vars, agentVars, hubVars
  <2>3. ReaderInv'
    BY <2>1, <2>2, ReaderRests
  <2> QED
    BY <2>2, <2>3, NeitherSide DEF PowerInv
<1> QED
  BY <1>1, <1>2, <1>3, <1>4, <1>5 DEF Next

\* The inductive invariant holds of every behaviour.
THEOREM PowerIsSound == Spec => []PowerInv
BY PowerInit, PowerNext, PTL DEF Spec

\* Two stored buckets with consecutive numbers are known buckets.
LEMMA StoredFollow == PowerInv => LossIsFlagged
<1> SUFFICES ASSUME PowerInv, NEW a \in Ids, NEW b \in Ids,
                    inserted[a].stream = inserted[b].stream,
                    inserted[b].seq = inserted[a].seq + 1
             PROVE  inserted[b].w = inserted[a].w + 1 \/ inserted[b].gap
  BY DEF LossIsFlagged
<1> DEFINE x == Payload(inserted[a])
           y == Payload(inserted[b])
           s == inserted[a].stream
<1>1. a \in DOMAIN inserted /\ b \in DOMAIN inserted
  BY DEF Ids
<1>2. inserted[a] \in StoredRows /\ inserted[b] \in StoredRows
  BY <1>1 DEF PowerInv, HubInv, HubTypeOK
<1>3. /\ s \in Stream /\ x \in Buckets /\ y \in Buckets
      /\ x.seq = inserted[a].seq /\ y.seq = inserted[b].seq
      /\ x.w = inserted[a].w /\ y.w = inserted[b].w /\ y.gap = inserted[b].gap
  BY <1>2 DEF StoredRows, Payload, Buckets
<1>4. KnownTo(s, x) /\ KnownTo(s, y)
  BY <1>1 DEF KnownTo
<1>5. x \in KnownIn(s) /\ y \in KnownIn(s)
  BY <1>3, <1>4 DEF KnownIn
<1>6. Follows(x, y)
  BY <1>3, <1>5 DEF PowerInv, AgentInv, BucketsInv, Flagged
<1> QED
  BY <1>3, <1>6 DEF Follows

\* A number stands for one bucket (OneBucketPerSeq): the hub never meets a
\* conflicting replay, whatever was torn off the journal, and stores none twice.
THEOREM SeqsAreUnique == Spec => []OneBucketPerSeq
<1>1. PowerInv => OneBucketPerSeq
  BY DEF PowerInv, HubInv, HubTypeOK, SettledInv, OneBucketPerSeq, NeverConflicts
<1> QED
  BY <1>1, PowerIsSound, PTL

\* Every loss is told: by a flag between stored windows, or by a declared gap
\* that is real and stands in one row (LossIsAccounted).
THEOREM LossIsTold == Spec => []LossIsAccounted
<1>1. PowerInv => LossIsAccounted
  BY StoredFollow DEF PowerInv, HubInv, SettledInv, LossIsAccounted
<1> QED
  BY <1>1, PowerIsSound, PTL

\* A dashboard that follows the cursor misses no row (DeltaSkipsNothing).
THEOREM CursorSkipsNothing == Spec => []DeltaSkipsNothing
<1>1. PowerInv => DeltaSkipsNothing
  BY DEF PowerInv, ReaderInv
<1> QED
  BY <1>1, PowerIsSound, PTL

(***************************************************************************)
(* The ledger.  What the agent goes by is in its directory, which a failed  *)
(* write of an acknowledgement may have left ahead of its memory, and a     *)
(* stream not drawn yet has nothing settled.                               *)
(***************************************************************************)
LedgerInv ==
  /\ up => j.acked <= disk.acked
  /\ \A s \in Stream : s > streams => st[s].acked = 0

\* A journal goes by the acknowledgement n of the stream t, which is on disk.
Carries(jj, dd, t, n) ==
  /\ jj \in Journals /\ dd \in Disks
  /\ jj.stream = t /\ dd.stream = t /\ jj.acked = n /\ n <= dd.acked

\* Cleaning, reserving, writing and a torn line leave it so.
LEMMA EnforcedCarries ==
  ASSUME NEW jj, NEW dd, NEW t, NEW n, Carries(jj, dd, t, n), NEW fails \in BOOLEAN
  PROVE  /\ Carries(Enforced(jj, dd, fails).j, Enforced(jj, dd, fails).d, t, n)
         /\ Carries(Enforced(jj, dd, fails).j, dd, t, n)
<1>1. jj \in Journals /\ dd \in Disks
  BY DEF Carries
<1>2. JournalKept(jj, Enforced(jj, dd, fails).j) /\ DiskKept(jj, dd, Enforced(jj, dd, fails).d)
  BY <1>1, EnforcedKeeps
<1> QED
  BY <1>2 DEF JournalKept, DiskKept, Carries

\* Reserving a number.
LEMMA ReservedCarries ==
  ASSUME NEW jj, NEW dd, NEW t, NEW n, Carries(jj, dd, t, n)
  PROVE  /\ Carries(Reserved(jj, dd).j, Reserved(jj, dd).d, t, n)
         /\ Carries(jj, Reserved(jj, dd).d, t, n)
<1>1. jj \in Journals /\ dd \in Disks
  BY DEF Carries
<1>2. ReservedFor(jj, dd, Reserved(jj, dd).j, Reserved(jj, dd).d)
  BY <1>1, ReservedFacts
<1>3. n \in Nat
  BY DEF Carries, Journals
<1> QED
  BY <1>2, <1>3 DEF ReservedFor, Carries

\* Writing a line.
LEMMA WrittenCarries ==
  ASSUME NEW jj, NEW dd, NEW t, NEW n, Carries(jj, dd, t, n), NEW rec \in Buckets
  PROVE  Carries(Written(jj, dd, rec).j, Written(jj, dd, rec).d, t, n)
<1>1. jj \in Journals /\ dd \in Disks
  BY DEF Carries
<1>2. WrittenAs(jj, dd, rec, Written(jj, dd, rec).j, Written(jj, dd, rec).d)
  BY <1>1, WrittenFacts
<1> QED
  BY <1>2 DEF WrittenAs, Carries

\* A torn line.
LEMMA TornCarries ==
  ASSUME NEW jj, NEW dd, NEW t, NEW n, Carries(jj, dd, t, n), NEW x \in Buckets \cup {None}
  PROVE  Carries(jj, [CutBack(dd) EXCEPT !.tail = x], t, n)
BY DEF CutBack, Carries, Disks

\* A fresh stream goes by nothing.
LEMMA FreshCarries ==
  ASSUME NEW id \in Stream
  PROVE  Carries(FreshJournal(id), FreshDisk(id), id, 0)
BY FreshFacts DEF Carries

(***************************************************************************)
(* A step of the agent keeps its stream and what it goes by, learns more of *)
(* what the hub settled, or draws a stream and goes by nothing.            *)
(***************************************************************************)
Keeps == ownStream' = ownStream /\ ownAcked' = ownAcked /\ streams' = streams
Learns ==
  /\ ownStream' = ownStream /\ streams' = streams
  /\ ownAcked' \in ownAcked + 1 .. st[ownStream].acked
Draws ==
  /\ streams' = streams + 1 /\ streams' \in Stream
  /\ ownStream' = streams' /\ ownAcked' = 0
Agrees == up' => j'.acked <= disk'.acked

\* What the agent goes by is in its directory, and settled.
LEMMA OwnIsOnDisk ==
  ASSUME PowerInv, LedgerInv
  PROVE  /\ ownStream = disk.stream /\ ownStream \in Stream /\ ownStream <= streams
         /\ ownAcked \in Nat /\ disk.acked \in Nat /\ st[ownStream].acked \in Nat
         /\ ownAcked <= disk.acked /\ disk.acked <= st[ownStream].acked
         /\ streams \in Nat /\ MaxStreams \in Nat
         /\ up => Carries(j, disk, ownStream, ownAcked)
         /\ ~up => ownAcked = disk.acked
<1>1. /\ j \in Journals /\ disk \in Disks /\ disk.stream <= streams
      /\ streams \in Stream /\ up \in BOOLEAN
      /\ up => j.stream = disk.stream
  BY DEF PowerInv, AgentInv, AgentTypeOK, NumbersInv
<1>2. streams \in Nat /\ MaxStreams \in Nat
  BY <1>1, PowerAssumption DEF Stream
<1>3. disk.stream \in Stream /\ disk.acked \in Nat /\ j.acked \in Nat
  BY <1>1 DEF Disks, Journals
<1>4. /\ ownStream = disk.stream /\ ownAcked \in Nat /\ ownAcked <= disk.acked
      /\ up => ownAcked = j.acked
      /\ ~up => ownAcked = disk.acked
  BY <1>1, <1>3 DEF LedgerInv, ownStream, ownAcked
<1>5. disk.acked <= st[disk.stream].acked /\ st[disk.stream].acked \in Nat
  BY <1>3 DEF PowerInv, HubInv, AckInv, HubTypeOK
<1> QED
  BY <1>1, <1>2, <1>3, <1>4, <1>5 DEF Carries

\* A step of a running agent that ends with what a journal and its directory carry.
LEMMA CarriedOn ==
  ASSUME PowerInv, LedgerInv, up, up' = up, NEW rotates \in BOOLEAN,
         rotates => streams + 1 \in Stream /\ streams' = streams + 1
                    /\ Carries(j', disk', streams + 1, 0),
         ~rotates => streams' = streams /\ Carries(j', disk', ownStream, ownAcked)
  PROVE  (Keeps \/ Draws) /\ Agrees
<1>1. CASE rotates
  <2>1. ownStream' = streams + 1 /\ ownAcked' = 0
    BY <1>1 DEF Carries, ownStream, ownAcked
  <2> QED
    BY <1>1, <2>1 DEF Draws, Agrees, Carries
<1>2. CASE ~rotates
  <2>1. ownStream' = ownStream /\ ownAcked' = ownAcked
    <3>1. j'.stream = ownStream /\ j'.acked = ownAcked
      BY <1>2 DEF Carries
    <3>2. ownStream' = j'.stream /\ ownAcked' = j'.acked
      BY DEF ownStream, ownAcked
    <3> QED
      BY <3>1, <3>2
  <2> QED
    BY <1>2, <2>1 DEF Keeps, Agrees, Carries
<1> QED
  BY <1>1, <1>2

\* append up to the write: the stream and its acknowledgement, or a fresh stream.
LEMMA BeforeCarries ==
  ASSUME PowerInv, LedgerInv, up, BeforeWrite.rotate => streams < MaxStreams
  PROVE  /\ BeforeWrite.rotate =>
              streams + 1 \in Stream /\ Carries(BeforeWrite.j, BeforeWrite.d, streams + 1, 0)
         /\ ~BeforeWrite.rotate => Carries(BeforeWrite.j, BeforeWrite.d, ownStream, ownAcked)
<1>1. AgentTypeOK /\ Carries(j, disk, ownStream, ownAcked) /\ streams \in Nat /\ MaxStreams \in Nat
  BY OwnIsOnDisk DEF PowerInv, AgentInv
<1>2. CASE BeforeWrite.rotate
  <2>1. streams + 1 \in Stream
    BY <1>1, <1>2 DEF Stream
  <2>2. BeforeWrite.j = FreshJournal(streams + 1) /\ BeforeWrite.d = FreshDisk(streams + 1)
    BY <1>1, <1>2, BeforeWriteFacts
  <2>3. Carries(FreshJournal(streams + 1), FreshDisk(streams + 1), streams + 1, 0)
    BY <2>1, FreshCarries
  <2> QED
    BY <1>2, <2>1, <2>2, <2>3
<1>3. CASE ~BeforeWrite.rotate
  <2>1. /\ JournalKept(j, BeforeWrite.enforced.j) /\ DiskKept(j, disk, BeforeWrite.enforced.d)
        /\ BeforeWrite.j = BeforeWrite.enforced.j /\ BeforeWrite.d = BeforeWrite.enforced.d
    BY <1>1, <1>3, BeforeWriteFacts
  <2>2. Carries(BeforeWrite.j, BeforeWrite.d, ownStream, ownAcked)
    BY <1>1, <2>1 DEF JournalKept, DiskKept, Carries
  <2> QED
    BY <1>3, <2>2
<1> QED
  BY <1>2, <1>3

\* An append keeps the stream, or rotates.
LEMMA AppendBucketLedger ==
  ASSUME PowerInv, LedgerInv, AppendBucket
  PROVE  (Keeps \/ Draws) /\ Agrees
<1> DEFINE p == BeforeWrite
           s == Reserved(p.j, p.d)
           rec == Bucket(s.j.nextSeq)
           x == Written(s.j, s.d, rec)
<1>1. PICK fails \in BOOLEAN :
        /\ p.rotate => streams < MaxStreams
        /\ streams' = IF p.rotate THEN streams + 1 ELSE streams
        /\ j' = Enforced(x.j, x.d, fails).j /\ disk' = Enforced(x.j, x.d, fails).d
  BY ZenonT(60) DEF AppendBucket
<1>2. up /\ up' = up /\ queue # << >>
  BY DEF AppendBucket, WorkerFrame
<1>3. PICK rotates \in BOOLEAN : rotates <=> p.rotate
  OBVIOUS
<1>4. PICK t, n : /\ t = IF rotates THEN streams + 1 ELSE ownStream
                  /\ n = IF rotates THEN 0 ELSE ownAcked
  OBVIOUS
<1>5. Carries(p.j, p.d, t, n) /\ (rotates => streams + 1 \in Stream)
  BY <1>1, <1>2, <1>3, <1>4, BeforeCarries
<1>6. streams' = IF rotates THEN streams + 1 ELSE streams
  BY <1>1, <1>3
<1> HIDE DEF p
<1>7. Carries(s.j, s.d, t, n)
  BY <1>5, ReservedCarries
<1> HIDE DEF s
<1>8. rec \in Buckets
  <2>1. s.j.nextSeq \in Nat
    BY <1>7 DEF Carries, Journals
  <2> QED
    BY <1>2, <2>1, BucketFacts DEF PowerInv, AgentInv
<1> HIDE DEF rec
<1>9. Carries(x.j, x.d, t, n)
  BY <1>7, <1>8, WrittenCarries
<1> HIDE DEF x
<1>10. Carries(j', disk', t, n)
  BY <1>1, <1>9, EnforcedCarries
<1> QED
  BY <1>2, <1>4, <1>5, <1>6, <1>10, CarriedOn

\* So does one that fails, wherever it stops.
LEMMA AppendFailsLedger ==
  ASSUME PowerInv, LedgerInv, AppendFails
  PROVE  (Keeps \/ Draws) /\ Agrees
<1> DEFINE p == BeforeWrite
           s == Reserved(p.j, p.d)
           rec == Bucket(s.j.nextSeq)
<1>1. up /\ up' = up /\ queue # << >>
  BY DEF AppendFails, WorkerFrame
<1>2. \/ j' = Enforced(j, disk, TRUE).j /\ disk' = disk /\ streams' = streams
      \/ /\ p.rotate
         /\ j' = p.enforced.j /\ disk' = p.enforced.d /\ streams' = streams
      \/ /\ ~p.rotate /\ streams' = streams
         /\ j' = p.j /\ disk' \in {p.d, s.d}
      \/ /\ p.rotate => streams < MaxStreams
         /\ streams' = IF p.rotate THEN streams + 1 ELSE streams
         /\ j' = s.j
         /\ disk' \in {s.d} \cup {[CutBack(s.d) EXCEPT !.tail = t] : t \in {None, rec}}
  BY DEF AppendFails
<1>3. /\ AgentTypeOK /\ j \in Journals /\ disk \in Disks /\ up \in BOOLEAN
      /\ Carries(j, disk, ownStream, ownAcked)
  BY <1>1, OwnIsOnDisk DEF PowerInv, AgentInv, AgentTypeOK
<1>4. JournalKept(j, p.enforced.j) /\ DiskKept(j, disk, p.enforced.d)
  BY <1>3, BeforeWriteFacts
<1>5. (p.rotate => streams < MaxStreams) =>
        /\ p.rotate => streams + 1 \in Stream /\ Carries(p.j, p.d, streams + 1, 0)
        /\ ~p.rotate => Carries(p.j, p.d, ownStream, ownAcked)
  BY <1>1, BeforeCarries
<1>r. PICK rotates \in BOOLEAN : rotates <=> p.rotate
  OBVIOUS
<1> HIDE DEF p
<1>6. CASE j' = Enforced(j, disk, TRUE).j /\ disk' = disk /\ streams' = streams
  <2>1. Carries(j', disk', ownStream, ownAcked)
    BY <1>3, <1>6, EnforcedCarries
  <2> QED
    BY <1>1, <1>6, <2>1, CarriedOn
<1>7. CASE p.rotate /\ j' = p.enforced.j /\ disk' = p.enforced.d /\ streams' = streams
  <2>1. Carries(j', disk', ownStream, ownAcked)
    BY <1>3, <1>4, <1>7 DEF Carries, JournalKept, DiskKept
  <2> QED
    BY <1>1, <1>7, <2>1, CarriedOn
<1>8. CASE ~p.rotate /\ streams' = streams /\ j' = p.j /\ disk' \in {p.d, s.d}
  <2>1. Carries(p.j, p.d, ownStream, ownAcked)
    BY <1>5, <1>8
  <2>2. Carries(p.j, s.d, ownStream, ownAcked)
    BY <2>1, ReservedCarries
  <2> HIDE DEF s
  <2>3. Carries(j', disk', ownStream, ownAcked)
    BY <1>8, <2>1, <2>2
  <2> QED
    BY <1>1, <1>8, <2>3, CarriedOn
<1>9. CASE /\ p.rotate => streams < MaxStreams
           /\ streams' = IF p.rotate THEN streams + 1 ELSE streams
           /\ j' = s.j
           /\ disk' \in {s.d} \cup {[CutBack(s.d) EXCEPT !.tail = t] : t \in {None, rec}}
  <2>1. PICK t, n : /\ t = IF rotates THEN streams + 1 ELSE ownStream
                    /\ n = IF rotates THEN 0 ELSE ownAcked
    OBVIOUS
  <2>2. Carries(p.j, p.d, t, n) /\ (rotates => streams + 1 \in Stream)
    BY <1>5, <1>9, <1>r, <2>1
  <2>3. Carries(s.j, s.d, t, n)
    BY <2>2, ReservedCarries
  <2> HIDE DEF s
  <2>4. rec \in Buckets
    <3>1. s.j.nextSeq \in Nat
      BY <2>3 DEF Carries, Journals
    <3> QED
      BY <1>1, <1>3, <3>1, BucketFacts
  <2> HIDE DEF rec
  <2>5. \A y \in {None, rec} : Carries(s.j, [CutBack(s.d) EXCEPT !.tail = y], t, n)
    BY <2>3, <2>4, TornCarries
  <2>6. Carries(j', disk', t, n)
    BY <1>9, <2>3, <2>5
  <2>7. streams' = IF rotates THEN streams + 1 ELSE streams
    BY <1>9, <1>r
  <2> QED
    BY <1>1, <2>1, <2>2, <2>6, <2>7, CarriedOn
<1> QED
  BY <1>2, <1>6, <1>7, <1>8, <1>9

\* The retention tick keeps it.
LEMMA RetentionTickLedger ==
  ASSUME PowerInv, LedgerInv, RetentionTick
  PROVE  Keeps /\ Agrees
<1>1. PICK fails \in BOOLEAN : /\ j' = Enforced(j, disk, fails).j
                               /\ disk' = Enforced(j, disk, fails).d
  BY DEF RetentionTick
<1>2. up /\ up' = up /\ streams' = streams
  BY DEF RetentionTick, WorkerFrame
<1>3. Carries(j', disk', ownStream, ownAcked)
  BY <1>1, <1>2, OwnIsOnDisk, EnforcedCarries
<1>4. ownStream' = j'.stream /\ ownAcked' = j'.acked
  BY <1>2 DEF ownStream, ownAcked
<1> QED
  BY <1>2, <1>3, <1>4 DEF Keeps, Agrees, Carries

\* An acknowledgement of its stream is all the agent learns, and what the hub settled;
\* one whose write fails leaves it where it was.
LEMMA ApplyAckLedger ==
  ASSUME PowerInv, LedgerInv, ApplyAck
  PROVE  (Keeps \/ Learns) /\ Agrees
<1>1. up /\ up' = up /\ streams' = streams /\ mailbox # None
  BY DEF ApplyAck
<1>2. /\ Carries(j, disk, ownStream, ownAcked) /\ ownAcked \in Nat /\ ownStream \in Stream
      /\ j.stream = ownStream /\ j.acked = ownAcked /\ j.acked <= disk.acked
  BY <1>1, OwnIsOnDisk DEF Carries
<1>3. /\ mailbox.through <= st[mailbox.stream].acked /\ mailbox.through \in Nat
      /\ \A s \in Stream : st[s].acked \in Nat
  BY <1>1 DEF PowerInv, HubInv, AckInv, HubTypeOK, AgentInv, AgentTypeOK, Acks
<1>4. ownStream' = j'.stream /\ ownAcked' = j'.acked
  BY <1>1 DEF ownStream, ownAcked
<1>5. CASE j' = j /\ disk' = disk
  BY <1>1, <1>2, <1>4, <1>5 DEF Keeps, Agrees
<1>6. CASE /\ AckAccepted(mailbox)
           /\ disk' = [disk EXCEPT !.acked = mailbox.through, !.reserved = j.reserved]
           /\ j' = [j EXCEPT !.acked = mailbox.through] \/ j' = j
  <2> DEFINE n == mailbox.through
  <2>1. mailbox.stream = ownStream /\ n > ownAcked /\ n \in Nat
    BY <1>2, <1>3, <1>6 DEF AckAccepted
  <2>2. /\ disk'.acked = n /\ j'.stream = ownStream
        /\ j'.acked = n \/ j'.acked = ownAcked
    BY <1>2, <1>6 DEF Journals, Disks, Carries
  <2>3. n \in ownAcked + 1 .. st[ownStream].acked
    BY <1>2, <1>3, <2>1
  <2>4. Agrees
    BY <1>2, <2>1, <2>2 DEF Agrees
  <2> QED
    BY <1>1, <1>4, <2>2, <2>3, <2>4 DEF Keeps, Learns
<1>7. \/ j' = j /\ disk' = disk
      \/ /\ AckAccepted(mailbox)
         /\ disk' = [disk EXCEPT !.acked = mailbox.through, !.reserved = j.reserved]
         /\ j' = [j EXCEPT !.acked = mailbox.through] \/ j' = j
  BY DEF ApplyAck
<1> QED
  BY <1>5, <1>6, <1>7

\* A crash forgets no acknowledgement, and may bring out one that is only on disk.
LEMMA CrashLedger ==
  ASSUME PowerInv, LedgerInv, Crash
  PROVE  (Keeps \/ Learns) /\ Agrees
<1>1. ~up' /\ streams' = streams
  BY DEF Crash
<1>2. PICK n \in 0 .. Len(disk.recs), ok \in BOOLEAN :
        disk' = [disk EXCEPT !.recs = SubSeq(@, 1, n), !.stateOk = ok,
                             !.tail = IF n = Len(disk.recs) THEN @ ELSE None]
  BY DEF Crash
<1>3. disk'.acked = disk.acked /\ disk'.stream = disk.stream
  BY <1>2 DEF PowerInv, AgentInv, AgentTypeOK, Disks
<1>4. ownStream' = disk.stream /\ ownAcked' = disk.acked
  BY <1>1, <1>3 DEF ownStream, ownAcked
<1>5. /\ ownStream = disk.stream /\ ownAcked \in Nat /\ disk.acked \in Nat
      /\ st[ownStream].acked \in Nat
      /\ ownAcked <= disk.acked /\ disk.acked <= st[ownStream].acked
  BY OwnIsOnDisk
<1>6. disk.acked = ownAcked \/ disk.acked \in ownAcked + 1 .. st[ownStream].acked
  BY <1>5
<1> QED
  BY <1>1, <1>4, <1>5, <1>6 DEF Keeps, Learns, Agrees

\* A restart goes on with the stream of the directory, or draws one.
LEMMA BootLedger ==
  ASSUME PowerInv, LedgerInv, Boot
  PROVE  (Keeps \/ Draws) /\ Agrees
<1> DEFINE recs == Recovered(disk)
           next == ResumeSeq(disk, recs)
           rotate == ~disk.stateOk \/ next >= MaxSeq
           opened == [stream |-> disk.stream, acked |-> disk.acked, reserved |-> disk.reserved,
                      nextSeq |-> next, recs |-> recs, overCap |-> FALSE]
           read == [disk EXCEPT !.recs = recs, !.tail = None]
<1>1. /\ ~up /\ up' = TRUE /\ (rotate => streams < MaxStreams)
      /\ rotate => j' = FreshJournal(streams + 1) /\ disk' = FreshDisk(streams + 1)
      /\ ~rotate => /\ j' = Enforced(opened, read, FALSE).j
                    /\ disk' = Enforced(opened, read, FALSE).d
      /\ streams' = IF rotate THEN streams + 1 ELSE streams
  BY DEF Boot
<1>2. AgentInv /\ disk \in Disks
  BY DEF PowerInv, AgentInv, AgentTypeOK
<1>3. recs \in Seq(Buckets) /\ next = disk.reserved + 1
  BY <1>2, RecoveredFacts
<1>4. disk.reserved \in Nat /\ disk.acked \in Nat /\ disk.stream \in Stream
  BY <1>2 DEF Disks
<1>5. /\ ownStream = disk.stream /\ ownAcked = disk.acked
      /\ streams \in Nat /\ MaxStreams \in Nat
  BY <1>1, OwnIsOnDisk
<1> HIDE DEF recs, next
<1>6. Carries(opened, read, ownStream, ownAcked)
  <2>1. next \in Nat
    BY <1>3, <1>4
  <2>2. opened \in Journals /\ opened.stream = disk.stream /\ opened.acked = disk.acked
    BY <1>3, <1>4, <2>1 DEF Journals
  <2>3. read \in Disks /\ read.stream = disk.stream /\ read.acked = disk.acked
    BY <1>2, <1>3 DEF Disks
  <2> HIDE DEF opened, read
  <2> QED
    BY <1>4, <1>5, <2>2, <2>3 DEF Carries
<1>r. rotate \in BOOLEAN
  BY <1>2 DEF Disks
<1> HIDE DEF rotate, opened, read
<1>7. ownStream' = j'.stream /\ ownAcked' = j'.acked
  BY <1>1 DEF ownStream, ownAcked
<1>8. CASE rotate
  <2>1. streams + 1 \in Stream
    BY <1>1, <1>5, <1>8 DEF Stream
  <2>2. Carries(j', disk', streams + 1, 0)
    BY <1>1, <1>8, <2>1, FreshCarries
  <2> QED
    BY <1>1, <1>7, <1>8, <2>1, <2>2 DEF Draws, Agrees, Carries
<1>9. CASE ~rotate
  <2>1. Carries(j', disk', ownStream, ownAcked)
    BY <1>1, <1>6, <1>9, EnforcedCarries
  <2> QED
    BY <1>1, <1>7, <1>9, <2>1 DEF Keeps, Agrees, Carries
<1> QED
  BY <1>8, <1>9

-----------------------------------------------------------------------------
\* Where no row, declaration or acknowledgement moves, neither does the hub's ledger.
HubStill == storedSeqs' = storedSeqs /\ declared' = declared /\ ackedSeqs' = ackedSeqs

\* Rows and the stream state are all it reads.
LEMMA HubRests ==
  ASSUME UNCHANGED <<inserted, st, declared>>
  PROVE  HubStill
<1>1. \A s : InsertedSeqs(s)' = InsertedSeqs(s)
  BY DEF InsertedSeqs, Ids
<1>2. storedSeqs' = storedSeqs
  BY <1>1 DEF storedSeqs
<1>3. ackedSeqs' = ackedSeqs
  BY DEF ackedSeqs
<1> QED
  BY <1>2, <1>3 DEF HubStill

\* Steps of the agent that begin no stream and learn nothing stutter in the
\* ledger; one that learns is its Learn, and one that begins a stream its Rotate.
LEMMA AgentSteps ==
  ASSUME PowerInv, LedgerInv, Keeps \/ Learns \/ Draws, Agrees,
         UNCHANGED <<inserted, st, declared>>
  PROVE  LedgerInv' /\ [Ledger!Next]_(Ledger!vars)
<1>1. HubStill
  BY HubRests
<1>2. /\ ownStream \in Stream /\ ownStream <= streams /\ streams \in Nat /\ MaxStreams \in Nat
  BY OwnIsOnDisk
<1>3. CASE Keeps
  <2>1. LedgerInv'
    BY <1>3 DEF Keeps, Agrees, LedgerInv
  <2>2. UNCHANGED Ledger!vars
    BY <1>1, <1>3 DEF HubStill, Keeps, Ledger!vars
  <2> QED
    BY <2>1, <2>2
<1>4. CASE Draws
  <2>1. streams' = streams + 1 /\ streams' \in Stream /\ ownStream' = streams' /\ ownAcked' = 0
    BY <1>4 DEF Draws
  <2>2. LedgerInv'
    <3>1. \A s \in Stream : s > streams + 1 => s > streams
      BY <1>2 DEF Stream
    <3> QED
      BY <2>1, <3>1 DEF Agrees, LedgerInv
  <2>3. streams' > ownStream /\ ackedSeqs[streams'] = 0
    <3>1. st[streams'].acked = 0
      BY <1>2, <2>1 DEF LedgerInv
    <3>2. streams' > ownStream
      BY <1>2, <2>1 DEF Stream
    <3> QED
      BY <2>1, <3>1, <3>2 DEF ackedSeqs
  <2>4. Ledger!Rotate
    BY <1>1, <2>1, <2>3 DEF HubStill, Ledger!Rotate, Ledger!Streams, Stream
  <2> QED
    BY <2>2, <2>4 DEF Ledger!Next
<1>5. CASE Learns
  <2>1. ackedSeqs[ownStream] = st[ownStream].acked
    BY <1>2 DEF ackedSeqs
  <2>2. Ledger!Learn
    BY <1>1, <1>5, <2>1 DEF HubStill, Learns, Ledger!Learn
  <2>3. LedgerInv'
    BY <1>5 DEF Learns, Agrees, LedgerInv
  <2> QED
    BY <2>2, <2>3 DEF Ledger!Next
<1> QED
  BY <1>3, <1>4, <1>5

\* Where the stored part of a batch begins.
KeptFrom(b) == IF b.from <= st[b.stream].acked + 1 THEN st[b.stream].acked + 1 ELSE b.from

\* A commit loses what lies before that, and stores what lies between it and the
\* acknowledgement: the ledger's Settle.
LEMMA CommitSteps ==
  ASSUME PowerInv, LedgerInv, HubCommit
  PROVE  LedgerInv' /\ [Ledger!Next]_(Ledger!vars)
<1>1. PICK s \in Stream, f \in Seq(Buckets), t \in Nat : Committed(s, f, t)
  BY CommitFacts DEF PowerInv
<1> DEFINE a == st[s].acked
           from == batch.from
           kept == KeptFrom(batch)
<1>2. batch # None /\ UNCHANGED <<up, j, disk, streams>>
  BY DEF HubCommit, HubFrame, agentVars
<1>3. /\ s = batch.stream /\ s <= streams /\ from \in 1 .. MaxSeq /\ MaxSeq \in Nat
      /\ st \in [Stream -> [acked : Nat, retained : Nat]] /\ a \in Nat /\ a <= MaxSeq
      /\ declared \in [Stream -> SUBSET Nat] /\ declared[s] \subseteq 1 .. a
      /\ streams \in Stream
  <2>1. s = batch.stream
    BY <1>1 DEF Committed
  <2>2. s <= streams /\ from \in 1 .. MaxSeq /\ MaxSeq \in Nat /\ streams \in Stream
    BY <1>2, <2>1, PowerAssumption
       DEF PowerInv, AgentInv, NumbersInv, BatchInv, AgentTypeOK
  <2>3. /\ st \in [Stream -> [acked : Nat, retained : Nat]] /\ a <= MaxSeq
        /\ declared \in [Stream -> SUBSET Nat] /\ declared[s] \subseteq 1 .. a
    BY DEF PowerInv, HubInv, HubTypeOK, SettledInv
  <2> QED
    BY <2>1, <2>2, <2>3
<1>4. /\ t >= a /\ t <= MaxSeq /\ from <= t + 1
      /\ \A k \in DOMAIN f : f[k].seq <= t
      /\ \A n \in a + 1 .. t : n \in declared'[s] \/ \E k \in DOMAIN f : n = f[k].seq
  BY <1>1 DEF Committed, Reaches
<1>5. \A k \in DOMAIN f : f[k].seq \in Nat /\ f[k].seq > a /\ f[k].seq >= from
  <2>1. \A k \in DOMAIN f : f[k] \in Buckets
    OBVIOUS
  <2>2. \A k \in DOMAIN f : f[k].seq \in Nat
    BY <2>1 DEF Buckets
  <2> QED
    BY <1>1, <2>2 DEF Committed, FreshAbove
<1>6. /\ declared' \in [Stream -> SUBSET Nat]
      /\ declared'[s] = declared[s] \cup Lost(batch)
      /\ \A x \in Stream : x # s => declared'[x] = declared[x]
  <2>1. declared' = DeclaredAfter(batch)
    BY <1>1 DEF Committed
  <2> QED
    BY <1>2, <1>3, <2>1, LostDeclared DEF PowerInv
<1>7. /\ InsertedSeqs(s)' = InsertedSeqs(s) \cup {f[k].seq : k \in DOMAIN f}
      /\ \A x \in Stream : x # s => InsertedSeqs(x)' = InsertedSeqs(x)
  BY <1>1, SeqsAdded DEF Committed
<1>8. st'[s].acked = t /\ \A x \in Stream : x # s => st'[x] = st[x]
  BY <1>1 DEF Committed
<1>9. /\ kept \in Nat /\ kept > a /\ kept - 1 <= t
      /\ kept \in 1 .. MaxSeq + 1 /\ t \in 0 .. MaxSeq
      /\ Lost(batch) = a + 1 .. kept - 1
      /\ kept = a + 1 \/ kept = from
  <2>1. kept = (IF from <= a + 1 THEN a + 1 ELSE from)
    BY <1>3 DEF KeptFrom
  <2>2. Lost(batch) = IF from <= a + 1 THEN {} ELSE a + 1 .. from - 1
    BY <1>3 DEF Lost
  <2> HIDE DEF a, from, kept
  <2> QED
    BY <1>3, <1>4, <2>1, <2>2
<1> HIDE DEF a, from, kept
<1>10. {f[k].seq : k \in DOMAIN f} = kept .. t
  <2>1. ASSUME NEW k \in DOMAIN f PROVE f[k].seq \in kept .. t
    BY <1>3, <1>4, <1>5, <1>9
  <2>2. ASSUME NEW n \in kept .. t PROVE \E k \in DOMAIN f : n = f[k].seq
    <3>1. n \in Nat /\ n > a /\ n >= kept /\ n \in a + 1 .. t
      BY <1>3, <1>9
    <3>2. n \notin declared[s]
      BY <1>3, <3>1
    <3>3. n \notin Lost(batch)
      BY <1>9, <3>1
    <3> QED
      BY <1>4, <1>6, <3>1, <3>2, <3>3
  <2> QED
    BY <2>1, <2>2
<1>11. LedgerInv'
  <2>1. ASSUME NEW x \in Stream, x > streams PROVE st'[x].acked = 0
    <3>1. x # s
      BY <1>3, <2>1 DEF Stream
    <3> QED
      BY <1>8, <2>1, <3>1 DEF LedgerInv
  <2> QED
    BY <1>2, <2>1 DEF LedgerInv
<1>12. ownStream' = ownStream /\ ownAcked' = ownAcked
  BY <1>2 DEF ownStream, ownAcked
<1>13. storedSeqs' = [storedSeqs EXCEPT ![s] = @ \cup kept .. t]
  BY <1>7, <1>10 DEF storedSeqs
<1>14. ackedSeqs' = [ackedSeqs EXCEPT ![s] = t]
  BY <1>8 DEF ackedSeqs
<1>15. ackedSeqs[s] = a
  BY DEF ackedSeqs, a
<1>16. declared' = [declared EXCEPT ![s] = @ \cup ackedSeqs[s] + 1 .. kept - 1]
  BY <1>3, <1>6, <1>9, <1>15
<1>17. Ledger!Settle(s, kept, t)
  BY <1>9, <1>12, <1>13, <1>14, <1>15, <1>16 DEF Ledger!Settle
<1>18. s \in Ledger!Streams
  BY DEF Ledger!Streams, Stream
<1> QED
  BY <1>9, <1>11, <1>17, <1>18 DEF Ledger!Next

\* Every step is a step of the ledger or none.
LEMMA LedgerNext ==
  ASSUME PowerInv, LedgerInv, [Next]_vars
  PROVE  LedgerInv' /\ [Ledger!Next]_(Ledger!vars)
<1>1. ASSUME UNCHANGED <<up, j, disk, streams, inserted, st, declared>>
      PROVE  LedgerInv' /\ [Ledger!Next]_(Ledger!vars)
  <2>1. Keeps /\ Agrees
    BY <1>1 DEF Keeps, Agrees, LedgerInv, ownStream, ownAcked
  <2> QED
    BY <1>1, <2>1, AgentSteps
<1>2. CASE \E any \in BOOLEAN, s \in Skews : Tick(any, s)
  BY <1>1, <1>2 DEF Tick, agentVars, hubVars
<1>3. CASE AppendBucket
  BY <1>3, AppendBucketLedger, AgentSteps DEF AppendBucket, WorkerFrame, hubVars
<1>4. CASE RetentionTick
  BY <1>4, RetentionTickLedger, AgentSteps DEF RetentionTick, WorkerFrame, hubVars
<1>5. CASE ApplyAck
  BY <1>5, ApplyAckLedger, AgentSteps DEF ApplyAck, hubVars
<1>6. CASE AppendFails
  BY <1>6, AppendFailsLedger, AgentSteps DEF AppendFails, WorkerFrame, hubVars
<1>7. CASE SendBatch \/ OfferAck \/ Reconnect
  BY <1>1, <1>7 DEF SendBatch, OfferAck, Reconnect, agentVars, hubVars
<1>8. CASE Crash
  BY <1>8, CrashLedger, AgentSteps DEF Crash, hubVars
<1>9. CASE Boot
  BY <1>9, BootLedger, AgentSteps DEF Boot, hubVars
<1>10. CASE HubReject
  BY <1>1, <1>10 DEF HubReject, HubFrame, agentVars
<1>11. CASE HubCommit
  BY <1>11, CommitSteps
<1>12. CASE HubPrune
  BY <1>1, <1>12 DEF HubPrune, HubFrame, agentVars
<1>13. CASE ReadHighWater \/ ReadInitial \/ ReadDelta
  BY <1>1, <1>13
     DEF ReadHighWater, ReadInitial, ReadDelta, DeltaTo, ReaderFrame, agentVars, hubVars
<1>14. CASE UNCHANGED vars
  BY <1>1, <1>14 DEF vars, agentVars, hubVars
<1> QED
  BY <1>2, <1>3, <1>4, <1>5, <1>6, <1>7, <1>8, <1>9, <1>10, <1>11, <1>12, <1>13, <1>14
     DEF Next, Worker, HubIngest

\* The ledger is empty at the start.
LEMMA LedgerInit == Init => LedgerInv /\ Ledger!Init
<1> SUFFICES ASSUME Init PROVE LedgerInv /\ Ledger!Init
  OBVIOUS
<1>1. /\ j = FreshJournal(1) /\ disk = FreshDisk(1) /\ up = TRUE /\ streams = 1
      /\ inserted = << >> /\ st = [s \in Stream |-> [acked |-> 0, retained |-> 0]]
      /\ declared = [s \in Stream |-> {}] /\ 1 \in Stream
  BY PowerAssumption DEF Init, Stream
<1>2. j.stream = 1 /\ j.acked = 0 /\ disk.acked = 0
  BY <1>1, FreshFacts
<1>3. \A s \in Stream : InsertedSeqs(s) = {} /\ st[s].acked = 0
  BY <1>1 DEF InsertedSeqs, Ids
<1>4. LedgerInv
  BY <1>2, <1>3 DEF LedgerInv
<1>5. storedSeqs = [s \in Stream |-> {}] /\ ackedSeqs = [s \in Stream |-> 0]
  BY <1>3 DEF storedSeqs, ackedSeqs
<1>6. ownStream = 1 /\ ownAcked = 0
  BY <1>1, <1>2 DEF ownStream, ownAcked
<1> QED
  BY <1>1, <1>4, <1>5, <1>6 DEF Ledger!Init, Ledger!Streams, Stream

\* The journal, the wire and the tables implement the ledger (SettlesForGood).
THEOREM LedgerRefined == Spec => SettlesForGood
<1>1. Init => PowerInv /\ LedgerInv /\ Ledger!Init
  BY PowerInit, LedgerInit
<1>2. PowerInv /\ LedgerInv /\ [Next]_vars =>
        (PowerInv /\ LedgerInv)' /\ [Ledger!Next]_(Ledger!vars)
  BY PowerNext, LedgerNext
<1> QED
  BY <1>1, <1>2, PTL DEF Spec, SettlesForGood, Ledger!Spec

-----------------------------------------------------------------------------
\* What the ledger keeps of itself, whoever implements it.
BooksOK ==
  /\ ackedSeqs \in [Stream -> Nat]
  /\ storedSeqs \in [Stream -> SUBSET Nat] /\ declared \in [Stream -> SUBSET Nat]
  /\ ownStream \in Stream /\ ownAcked \in Nat
  /\ Ledger!Accounted

\* A batch appends to what is settled of its stream, and changes no outcome.
LEMMA SettleKeepsBooks ==
  ASSUME BooksOK, NEW s \in Stream, NEW kept \in 1 .. MaxSeq + 1, NEW t \in 0 .. MaxSeq,
         Ledger!Settle(s, kept, t)
  PROVE  /\ BooksOK'
         /\ \A x \in Stream : /\ storedSeqs[x] = storedSeqs'[x] \cap 1 .. ackedSeqs[x]
                             /\ declared[x] = declared'[x] \cap 1 .. ackedSeqs[x]
<1> DEFINE a == ackedSeqs[s]
<1>1. /\ ackedSeqs \in [Stream -> Nat]
      /\ storedSeqs \in [Stream -> SUBSET Nat] /\ declared \in [Stream -> SUBSET Nat]
      /\ ownStream \in Stream /\ ownAcked \in Nat /\ a \in Nat
      /\ kept \in Nat /\ t \in Nat /\ MaxSeq \in Nat
  BY PowerAssumption DEF BooksOK
<1>2. /\ \A x \in Stream : /\ storedSeqs[x] \cup declared[x] = 1 .. ackedSeqs[x]
                          /\ storedSeqs[x] \cap declared[x] = {}
      /\ ownAcked <= ackedSeqs[ownStream]
  BY DEF BooksOK, Ledger!Accounted, Ledger!Streams, Stream
<1>3. /\ kept > a /\ kept - 1 <= t
      /\ declared' = [declared EXCEPT ![s] = @ \cup a + 1 .. kept - 1]
      /\ storedSeqs' = [storedSeqs EXCEPT ![s] = @ \cup kept .. t]
      /\ ackedSeqs' = [ackedSeqs EXCEPT ![s] = t]
      /\ ownStream' = ownStream /\ ownAcked' = ownAcked
  BY DEF Ledger!Settle
<1>4. /\ declared'[s] = declared[s] \cup a + 1 .. kept - 1
      /\ storedSeqs'[s] = storedSeqs[s] \cup kept .. t
      /\ ackedSeqs'[s] = t
      /\ \A x \in Stream : x # s => /\ declared'[x] = declared[x]
                                    /\ storedSeqs'[x] = storedSeqs[x]
                                    /\ ackedSeqs'[x] = ackedSeqs[x]
      /\ ackedSeqs' \in [Stream -> Nat]
      /\ storedSeqs' \in [Stream -> SUBSET Nat] /\ declared' \in [Stream -> SUBSET Nat]
  BY <1>1, <1>3
<1>5. storedSeqs[s] \cup declared[s] = 1 .. a /\ storedSeqs[s] \cap declared[s] = {}
  BY <1>2
<1> HIDE DEF a
<1>6. /\ storedSeqs'[s] \cup declared'[s] = 1 .. t
      /\ storedSeqs'[s] \cap declared'[s] = {}
      /\ storedSeqs[s] = storedSeqs'[s] \cap 1 .. a
      /\ declared[s] = declared'[s] \cap 1 .. a
  <2>1. 1 .. t = 1 .. a \cup a + 1 .. kept - 1 \cup kept .. t
    BY <1>1, <1>3
  <2>2. /\ \A n \in a + 1 .. kept - 1 : n \notin 1 .. a /\ n \notin kept .. t
        /\ \A n \in kept .. t : n \notin 1 .. a
    BY <1>1, <1>3
  <2> QED
    BY <1>4, <1>5, <2>1, <2>2, Zenon
<1>7. \A x \in Stream : /\ storedSeqs'[x] \cup declared'[x] = 1 .. ackedSeqs'[x]
                        /\ storedSeqs'[x] \cap declared'[x] = {}
                        /\ storedSeqs[x] = storedSeqs'[x] \cap 1 .. ackedSeqs[x]
                        /\ declared[x] = declared'[x] \cap 1 .. ackedSeqs[x]
  <2>1. ASSUME NEW x \in Stream, x # s
        PROVE  /\ storedSeqs'[x] \cup declared'[x] = 1 .. ackedSeqs'[x]
               /\ storedSeqs'[x] \cap declared'[x] = {}
               /\ storedSeqs[x] = storedSeqs'[x] \cap 1 .. ackedSeqs[x]
               /\ declared[x] = declared'[x] \cap 1 .. ackedSeqs[x]
    <3>1. storedSeqs[x] \cup declared[x] = 1 .. ackedSeqs[x] /\ storedSeqs[x] \cap declared[x] = {}
      BY <1>2
    <3> QED
      BY <1>4, <2>1, <3>1, Zenon
  <2> QED
    BY <1>4, <1>6, <2>1 DEF a
<1>8. ownAcked' <= ackedSeqs'[ownStream']
  <2>1. a <= t
    BY <1>1, <1>3
  <2>2. CASE ownStream = s
    BY <1>1, <1>2, <1>3, <1>4, <2>1, <2>2 DEF a
  <2>3. CASE ownStream # s
    BY <1>1, <1>2, <1>3, <1>4, <2>3
  <2> QED
    BY <2>2, <2>3
<1>9. BooksOK'
  BY <1>1, <1>3, <1>4, <1>7, <1>8 DEF BooksOK, Ledger!Accounted, Ledger!Streams, Stream
<1> QED
  BY <1>7, <1>9

\* No step of the ledger disturbs it.
LEMMA BooksNext ==
  ASSUME BooksOK, [Ledger!Next]_(Ledger!vars)
  PROVE  BooksOK' /\ Ledger!Unaltered
<1>0. Ledger!Streams = Stream
  BY DEF Ledger!Streams, Stream
<1>1. ASSUME HubStill
      PROVE  Ledger!Unaltered
  <2>1. \A x \in Stream : storedSeqs[x] \cup declared[x] = 1 .. ackedSeqs[x]
    BY <1>0 DEF BooksOK, Ledger!Accounted
  <2> QED
    BY <1>0, <1>1, <2>1, Zenon DEF HubStill, Ledger!Unaltered
<1>2. CASE \E s \in Ledger!Streams, kept \in 1 .. MaxSeq + 1, t \in 0 .. MaxSeq :
             Ledger!Settle(s, kept, t)
  BY <1>0, <1>2, SettleKeepsBooks DEF Ledger!Unaltered
<1>3. CASE Ledger!Learn
  <2>1. HubStill /\ ownStream' = ownStream /\ ownAcked' \in ownAcked + 1 .. ackedSeqs[ownStream]
    BY <1>3 DEF Ledger!Learn, HubStill
  <2>2. ownAcked' \in Nat /\ ownAcked' <= ackedSeqs[ownStream]
    BY <2>1 DEF BooksOK
  <2>3. BooksOK'
    BY <2>1, <2>2 DEF BooksOK, HubStill, Ledger!Accounted
  <2> QED
    BY <1>0, <1>1, <2>1, <2>3
<1>4. CASE Ledger!Rotate
  <2>1. HubStill /\ ownStream' \in Stream /\ ownAcked' = 0
    BY <1>0, <1>4 DEF Ledger!Rotate, HubStill
  <2>2. ackedSeqs[ownStream'] \in Nat
    BY <2>1 DEF BooksOK
  <2>3. BooksOK'
    BY <2>1, <2>2 DEF BooksOK, HubStill, Ledger!Accounted
  <2> QED
    BY <1>0, <1>1, <2>1, <2>3
<1>5. CASE UNCHANGED Ledger!vars
  <2>1. HubStill /\ ownStream' = ownStream /\ ownAcked' = ownAcked
    BY <1>5 DEF Ledger!vars, HubStill
  <2>2. BooksOK'
    BY <2>1 DEF BooksOK, HubStill, Ledger!Accounted
  <2> QED
    BY <1>0, <1>1, <2>1, <2>2
<1> QED
  BY <1>2, <1>3, <1>4, <1>5 DEF Ledger!Next

\* Whatever implements the ledger keeps the books, and never changes an outcome.
LEMMA LedgerIsFinal == SettlesForGood => []Ledger!Accounted /\ Ledger!Final
<1>1. Ledger!Init => BooksOK
  <2> SUFFICES ASSUME Ledger!Init PROVE BooksOK
    OBVIOUS
  <2>1. /\ storedSeqs = [s \in Stream |-> {}] /\ declared = [s \in Stream |-> {}]
        /\ ackedSeqs = [s \in Stream |-> 0] /\ ownStream = 1 /\ ownAcked = 0
    BY DEF Ledger!Init, Ledger!Streams, Stream
  <2>2. 1 \in Stream
    BY PowerAssumption DEF Stream
  <2> QED
    BY <2>1, <2>2 DEF BooksOK, Ledger!Accounted, Ledger!Streams, Stream
<1>2. BooksOK /\ [Ledger!Next]_(Ledger!vars) =>
        BooksOK' /\ [Ledger!Unaltered]_(Ledger!vars)
  BY BooksNext
<1>3. BooksOK => Ledger!Accounted
  BY DEF BooksOK
<1> QED
  BY <1>1, <1>2, <1>3, PTL DEF SettlesForGood, Ledger!Spec, Ledger!Final

\* Every settled number of power history has one outcome and no other number has
\* any, the agent goes by no more than that, and an outcome never changes
\* (commitPowerBatch, ack).
THEOREM HistoryIsFinal == Spec => []Ledger!Accounted /\ Ledger!Final
BY LedgerRefined, LedgerIsFinal, PTL

==============================================================================
