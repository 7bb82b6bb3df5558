--------------------------- MODULE ChunkTimeline ---------------------------
(***************************************************************************)
(* Which seconds of the source an answer of the model means.  A long source *)
(* is analyzed in chunks (pipeline/stages/analyzer.py); the model writes a  *)
(* moment in seconds of the chunk, in seconds of the source, or as MM.SS    *)
(* (7.39 for 7:39), and pipeline/raw_timestamp_recovery.py and              *)
(* pipeline/chunk_timeline_runtime.py decide which it was.                  *)
(*                                                                         *)
(* Times are hundredths of a second.  A window is any record with fields    *)
(* from and to.                                                             *)
(***************************************************************************)
EXTENDS Integers, FiniteSets

CONSTANT Segment    \* length of a chunk: _CHUNK_MAX_MINUTES

ASSUME SegmentAssumption == Segment \in Nat \ {0}

Sec(n) == 100 * n

MinEvent == Sec(5)        \* MIN_EVENT_SEC: shorter answers are fragments
MinClip == Sec(6)         \* _MIN_CLIP_SEC
MinUsable == Sec(4)       \* _MIN_USABLE_EVENT_SEC
Slack == Sec(1)           \* _BOUNDARY_TOLERANCE_SEC
MaxRecovered == Sec(90)   \* _MAX_RECOVERED_EVENT_SEC

Lesser(a, b) == IF a <= b THEN a ELSE b
Greater(a, b) == IF a >= b THEN a ELSE b

Length(w) == w.to - w.from
Overlap(v, w) == Greater(0, Lesser(v.to, w.to) - Greater(v.from, w.from))
Within(v, w) == w.from <= v.from /\ v.to <= w.to

Chunks(length) == (length + Segment - 1) \div Segment

\* Chunk i of n, numbered from 0.
Chunk(length, n, i) ==
    LET from == i * Segment
        long == IF n > 1 THEN Lesser(Segment, Greater(0, length - from)) ELSE length
    IN  [index |-> i, from |-> from, long |-> long, to |-> Lesser(length, from + long)]

\* 7.39 can be 7:39, 7.61 cannot be a time of day.
IsMinuteSecond(w) ==
    w.from >= 0 /\ w.to >= 0 /\ w.from % 100 < 60 /\ w.to % 100 < 60
MinuteSecond(v) == Sec(60 * (v \div 100) + (v % 100))
AsMinuteSecond(w) == [w EXCEPT !.from = MinuteSecond(@), !.to = MinuteSecond(@)]

\* Before fragments are dropped: one that is an event when read as MM.SS is
\* taken for that event, if the source is long enough for it.
Recover(e, length) ==
    LET r == AsMinuteSecond(e)
    IN  IF /\ e.from < e.to /\ Length(e) < MinEvent
           /\ IsMinuteSecond(e)
           /\ MinEvent <= Length(r) /\ Length(r) <= MaxRecovered
           /\ r.to <= length + Sec(1)
        THEN r ELSE e

\* A reading of a window: as plain seconds or not, in seconds of the chunk or not.
Reading(w, plain, local, shift) ==
    [from |-> w.from - shift, to |-> w.to - shift, plain |-> plain, local |-> local]

\* Read in seconds of the chunk, a window starts in the chunk; read in seconds of
\* the source, in the chunk's part of it.
Bases(w, plain, chunk) ==
    {r \in {Reading(w, plain, TRUE, 0)} :
        -Slack <= w.from /\ w.from < chunk.long + Slack} \cup
    {r \in {Reading(w, plain, FALSE, chunk.from)} :
        chunk.from > 0 /\ chunk.from - Slack <= w.from /\ w.from < chunk.to + Slack}

Usable(r, chunk) == Overlap(r, [from |-> 0, to |-> chunk.long])

\* What has most of its time in the chunk, the chunk's own seconds on a tie.
Basis(w, plain, chunk) ==
    {r \in Bases(w, plain, chunk) : \A q \in Bases(w, plain, chunk) :
        \/ Usable(r, chunk) > Usable(q, chunk)
        \/ Usable(r, chunk) = Usable(q, chunk) /\ (r.local \/ ~q.local)}

Readings(w, chunk) ==
    LET r == AsMinuteSecond(w)
        read == /\ IsMinuteSecond(w) /\ r # w
                /\ 0 < Length(r) /\ Length(r) <= MaxRecovered /\ r.to <= chunk.to + Slack
    IN  Basis(w, TRUE, chunk) \cup (IF read THEN Basis(r, FALSE, chunk) ELSE {})

\* The window of the source that an answer about a chunk means, if there is one:
\* plain seconds whenever they are usable, MM.SS otherwise.
Normalize(w, chunk) ==
    LET usable == {r \in Readings(w, chunk) : Usable(r, chunk) >= MinUsable}
        clamped(r) == [w EXCEPT !.from = chunk.from + Greater(0, r.from),
                                !.to = Lesser(chunk.to, chunk.from + Lesser(chunk.long, r.to))]
    IN  {clamped(r) : r \in {r \in usable : w.from < w.to /\ (r.plain \/ \A q \in usable : ~q.plain)}}
=============================================================================
