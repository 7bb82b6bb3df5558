------------------------------- MODULE Tracks -------------------------------
(* The detector's sidecar of one video: what the tracker saw becomes a set   *)
(* of detections, the fragments of an athlete's track get one identity, and  *)
(* an event is bound to the tracks seen in its window.                       *)
(* A detection is [raw, class, index, x1, y1, x2, y2, conf], its box in      *)
(* pixels, its confidence in percent; times are in milliseconds.             *)
EXTENDS Integers, Sequences, FiniteSets, SequencesExt

CONSTANTS Fps,             \* SPORTREEL_ULTRALYTICS_FPS: 30 whatever the video's own rate
          MinConfidence    \* SPORTREEL_PERCEPTION_MIN_CONFIDENCE, in percent

Larger(a, b) == IF a > b THEN a ELSE b
Smaller(a, b) == IF a < b THEN a ELSE b

\* The elements of a set in a strict order of all of them
InOrder(S, Before(_, _)) ==
    SortSeq(FoldSet(LAMBDA x, s : Append(s, x), <<>>, S), Before)

-----------------------------------------------------------------------------
(* Boxes                                                                     *)

Area(b) == (b.x2 - b.x1) * (b.y2 - b.y1)

\* Area of what two boxes share
Shared(a, b) ==
    LET w == Smaller(a.x2, b.x2) - Larger(a.x1, b.x1)
        h == Smaller(a.y2, b.y2) - Larger(a.y1, b.y1)
    IN  IF w > 0 /\ h > 0 THEN w * h ELSE 0
Union(a, b) == Area(a) + Area(b) - Shared(a, b)

\* Twice the distance of two centres, squared
Apart2(a, b) ==
    LET dx == (a.x1 + a.x2) - (b.x1 + b.x2)
        dy == (a.y1 + a.y2) - (b.y1 + b.y2)
    IN  dx*dx + dy*dy

Diagonal2(frame) == frame.w*frame.w + frame.h*frame.h

\* The part of a box inside the frame is at least pct percent of it
Visible(b, frame, pct) ==
    LET whole == [x1 |-> 0, y1 |-> 0, x2 |-> frame.w, y2 |-> frame.h]
    IN  Area(b) > 0 /\ 100 * Shared(b, whole) >= pct * Area(b)

-----------------------------------------------------------------------------
(* From tracker results to detections                                        *)

\* A valid detection: an ordered box, confident enough
Normal(d) ==
    /\ d.x1 <= d.x2 /\ d.y1 <= d.y2
    /\ d.conf >= MinConfidence

TimeOf(index) == (1000 * index) \div Fps

\* What one pass of the tracker over the video leaves
PassOf(seen) == {[t |-> TimeOf(d.index)] @@ d : d \in {e \in seen : Normal(e)}}

\* The first pass, or a finer one when the first confirmed nobody
Detected(video) ==
    IF PassOf(video.coarse) # {} THEN PassOf(video.coarse) ELSE PassOf(video.fine)

-----------------------------------------------------------------------------
(* Fragments of one athlete                                                  *)

Sooner(a, b) == a.t < b.t \/ (a.t = b.t /\ a.raw < b.raw)
Ordered(dets) == InOrder(dets, Sooner)

Segment(dets) ==
    LET s == Ordered(dets)
    IN  [class |-> s[1].class, raws |-> {s[1].raw}, id |-> s[1].raw,
         start |-> s[1].t, end |-> s[Len(s)].t, first |-> s[1], last |-> s[Len(s)]]

Segments(dets) ==
    {Segment({d \in dets : d.class = k[1] /\ d.raw = k[2]}) : k \in {<<d.class, d.raw>> : d \in dets}}

EarlierSegment(a, b) ==
    \/ a.class < b.class
    \/ a.class = b.class /\ a.start < b.start
    \/ a.class = b.class /\ a.start = b.start /\ a.end < b.end
    \/ a.class = b.class /\ a.start = b.start /\ a.end = b.end /\ a.id < b.id

\* Segment s may continue chain c: soon after it, near it and of like size
Continues(frame, c, s) ==
    LET gap == s.start - c.end
        l == c.last
        f == s.first
    IN  /\ c.class = s.class
        /\ gap \in 0..3000
        /\ Area(l) > 0 /\ Area(f) > 0
        /\ \/ 20 * Shared(l, f) >= Union(l, f)
           \/ 625 * Apart2(l, f) <= 36 * Diagonal2(frame)
        /\ 100 * Smaller(Area(l), Area(f)) >= 15 * Larger(Area(l), Area(f))

\* Chain a is the better one to continue with s: nearer, sooner, more overlap
Better(a, b, s) ==
    LET f == s.first
        da == Apart2(a.last, f)
        db == Apart2(b.last, f)
    IN  \/ da < db
        \/ da = db /\ a.end > b.end
        \/ /\ da = db /\ a.end = b.end
           /\ Shared(a.last, f) * Union(b.last, f) > Shared(b.last, f) * Union(a.last, f)

\* Index of the chain a segment continues, the first of equally good ones; 0 for none
ChainFor(frame, chains, s) ==
    LET able == {i \in DOMAIN chains : Continues(frame, chains[i], s)}
        best == {i \in able : \A j \in able : ~Better(chains[j], chains[i], s)}
    IN  IF able = {} THEN 0 ELSE CHOOSE i \in best : \A j \in best : i <= j

AttachTo(chains, i, s) ==
    LET c == chains[i]
    IN  IF i = 0 THEN Append(chains, s)
        ELSE [chains EXCEPT ![i] =
                [c EXCEPT !.raws = @ \cup s.raws,
                          !.end = IF s.end >= c.end THEN s.end ELSE @,
                          !.last = IF s.end >= c.end THEN s.last ELSE @]]
Attach(frame, chains, s) == AttachTo(chains, ChainFor(frame, chains, s), s)

Chains(frame, dets) ==
    FoldLeft(LAMBDA chains, s: Attach(frame, chains, s), <<>>,
             InOrder(Segments(dets), EarlierSegment))

\* Every detection with the identity of the chain its fragment is in
Named(dets, chains) ==
    LET Id(d) == (CHOOSE c \in ToSet(chains) : c.class = d.class /\ d.raw \in c.raws).id
    IN  {[id |-> Id(d)] @@ d : d \in dets}
Stitched(frame, dets) == Named(dets, Chains(frame, dets))

\* The detections of the sidecar the generator writes for a video
SidecarOf(video) == Stitched(video.frame, Detected(video))

-----------------------------------------------------------------------------
(* Binding                                                                   *)

InWindow(dets, event) == {d \in dets : d.t >= event.start /\ d.t <= event.end}
TracksIn(dets, event) == {d.id : d \in InWindow(dets, event)}

\* The detection of a track nearest to the middle of the event, the earlier of two
Primary(dets, event, id) ==
    LET s == Ordered({d \in InWindow(dets, event) : d.id = id})
        far == [i \in DOMAIN s |-> LET x == 2*s[i].t - event.start - event.end
                                   IN  IF x < 0 THEN -x ELSE x]
    IN  s[CHOOSE i \in DOMAIN s : \A j \in DOMAIN s :
            far[i] < far[j] \/ (far[i] = far[j] /\ i <= j)]

\* An event with the evidence of the track it was bound to
Enriched(dets, event, id) ==
    event @@ [track |-> id, visible |-> TracksIn(dets, event), box |-> Primary(dets, event, id)]

\* What no event may reach an edit without: a selected track that is one of
\* those seen.  (With several seen, the featured track is the selected one:
\* the binding has written both.)
HasEvidence(event) == event.track \in event.visible
=============================================================================
