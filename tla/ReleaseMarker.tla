---------------------------- MODULE ReleaseMarker ----------------------------
(***************************************************************************)
(* The scan for the one release marker of an agent binary, of              *)
(* proto/updatesigning/release.go: the file is read in chunks, and the end *)
(* of a chunk is carried over so that a marker across the boundary is seen *)
(* once.  The digits of the sequence are one symbol.                       *)
(***************************************************************************)
EXTENDS Integers, Sequences, FiniteSets

CONSTANTS
    Prefix,     \* the marker's prefix, a sequence of symbols
    Numbers,    \* digits that read as a release
    Stop,       \* the terminator
    Chunk,      \* symbols read at a time
    Streams     \* the files

\* Verdicts: a release, unnumbered, refused, still scanning.
CONSTANTS Unnumbered, Refused, Reading

VARIABLES stream, pos, buf, found, verdict
vars == <<stream, pos, buf, found, verdict>>

\* releaseMarkerLen
MarkerLen == Len(Prefix) + 2

\* bytes.Index, repeated from one past the last hit: where the prefix begins.
Hits(s) == {i \in 1 .. Len(s) - Len(Prefix) + 1 : SubSeq(s, i, i + Len(Prefix) - 1) = Prefix}

\* The hits whose whole body is in s.
Whole(s) == {i \in Hits(s) : i + MarkerLen - 1 <= Len(s)}

Body(s, i) == SubSeq(s, i + Len(Prefix), i + MarkerLen - 1)

\* parseMarkerBody, with the refusal of sequence zero.
WellFormed(body) == body[1] \in Numbers /\ body[2] = Stop

\* Mutant: one symbol too many is carried over.
Keep_WholeMarker == MarkerLen

\* What is carried over to the next chunk.
Keep == MarkerLen - 1

Carry(s) == IF Len(s) > Keep THEN SubSeq(s, Len(s) - Keep + 1, Len(s)) ELSE s

\* One round of the loop of ExtractReleaseReader.
ReadChunk ==
    LET rest == SubSeq(stream, pos + 1, Len(stream))
        eof  == Len(rest) < Chunk
        b    == buf \o IF eof THEN rest ELSE SubSeq(rest, 1, Chunk)
        hits == Whole(b)
        bad  == \E i \in hits : ~WellFormed(Body(b, i))
        all  == Cardinality(hits) + (IF found = Unnumbered THEN 0 ELSE 1)
    IN  /\ verdict = Reading
        /\ pos' = pos + (IF eof THEN Len(rest) ELSE Chunk)
        /\ \/ /\ bad \/ all > 1 \/ (eof /\ Hits(b) # hits)
              /\ verdict' = Refused /\ UNCHANGED <<buf, found>>
           \/ /\ ~bad /\ all <= 1 /\ ~(eof /\ Hits(b) # hits)
              /\ found' = IF hits = {} THEN found ELSE Body(b, CHOOSE i \in hits : TRUE)[1]
              /\ buf' = Carry(b)
              /\ verdict' = IF eof THEN found' ELSE Reading
        /\ UNCHANGED stream

Init ==
    /\ stream \in Streams /\ pos = 0 /\ buf = << >>
    /\ found = Unnumbered /\ verdict = Reading

Next == ReadChunk
Spec == Init /\ [][Next]_vars

-----------------------------------------------------------------------------
\* The contract over the file as a whole, whatever the chunks.
Release(s) ==
    CASE Hits(s) = {} -> Unnumbered
      [] Cardinality(Hits(s)) = 1 /\ Whole(s) = Hits(s)
         /\ \A i \in Whole(s) : WellFormed(Body(s, i)) ->
            Body(s, CHOOSE i \in Hits(s) : TRUE)[1]
      [] OTHER -> Refused

\* Wherever the chunk boundaries fall, the scan returns what the file holds: no
\* marker is missed, none is counted twice, and any doubt is refused.
ScanIsContract == verdict # Reading => verdict = Release(stream)
=============================================================================
