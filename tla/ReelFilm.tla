------------------------------ MODULE ReelFilm ------------------------------
(* How the cut clips of a reel become its film: the order of the events, the *)
(* transitions, what the timeline kept for repairs and the edit decision     *)
(* list say of it, and what a repair asks to be cut again.                   *)
(* An event is [id, src, frame, length, start, end, selected, score, timed,  *)
(* known, slow, out, teaser, track, visible, box]: frame and length are its  *)
(* source's, selected is where the selector had it start, timed that a peak  *)
(* time was told, known that its identity is not in doubt, out the           *)
(* transition asked for after it.  Times are in ms.                          *)
EXTENDS Framing

-----------------------------------------------------------------------------
(* The order of the clips                                                    *)

VisiblePercent(e) ==
    LET whole == [x1 |-> 0, y1 |-> 0, x2 |-> e.frame.w, y2 |-> e.frame.h]
    IN  (100 * Shared(e.box, whole)) \div Area(e.box)

HasQualityEvidence(e) == VisiblePercent(e) >= 35 /\ e.box.conf >= 25 /\ e.known

\* In thousandths; every event has a track and a window that holds
QualityScore(e) ==
    600 * e.score + 16 * VisiblePercent(e) + 10 * e.box.conf + 1000
      + (IF e.timed THEN 600 ELSE 0)
      + (IF e.known THEN 400 ELSE -3000)
      + (IF HasQualityEvidence(e) THEN 0 ELSE -3000)

\* Stable sorts of a sequence of events by a number
SortedUp(s, Key(_)) ==
    LET order == InOrder(DOMAIN s, LAMBDA i, j : Key(s[i]) < Key(s[j]) \/ (Key(s[i]) = Key(s[j]) /\ i < j))
    IN  [i \in DOMAIN s |-> s[order[i]]]
SortedDown(s, Key(_)) == SortedUp(s, LAMBDA e : -Key(e))

Without(s, i) == SubSeq(s, 1, i - 1) \o SubSeq(s, i + 1, Len(s))

\* The first of the best events good enough to end on; 0 for none
ClimaxOf(s) ==
    LET able == {i \in DOMAIN s : HasQualityEvidence(s[i]) /\ QualityScore(s[i]) >= 6500}
        best == {i \in able : \A j \in able : QualityScore(s[j]) <= QualityScore(s[i])}
    IN  IF able = {} THEN 0 ELSE CHOOSE i \in best : \A j \in best : i <= j

\* The second best opens, the rest builds up, the best, at c, ends
BuildUp(s) == <<Head(s)>> \o SortedUp(Tail(s), QualityScore)
OrderEvents(s, c) ==
    CASE Len(s) <= 1 -> s
      [] Len(s) > 1 /\ c = 0 -> SortedUp(s, QualityScore)
      [] OTHER -> BuildUp(SortedDown(Without(s, c), QualityScore)) \o <<s[c]>>

\* The second of two slow clips at i changes places with the next inner one that is not slow
Spread(s, i) ==
    LET others == {k \in (i + 2)..(Len(s) - 1) : ~s[k].slow}
        k == CHOOSE k \in others : \A j \in others : k <= j
    IN  IF s[i].slow /\ s[i + 1].slow /\ others # {}
        THEN [s EXCEPT ![i + 1] = s[k], ![k] = s[i + 1]] ELSE s
BreakSlowmoRuns(s) ==
    LET Pass(r) == FoldLeft(Spread, r, [i \in 1..(Len(s) - 1) |-> i])
    IN  IF Len(s) <= 2 THEN s ELSE FoldLeft(LAMBDA r, n : Pass(r), s, s)

EnforceSingleSlowmo(s) ==
    [i \in DOMAIN s |-> [s[i] EXCEPT !.slow = @ /\ i = Len(s) /\ s[i].score >= 8]]

NoSlowmo(s) == [i \in DOMAIN s |-> [s[i] EXCEPT !.slow = FALSE]]
NarrativeWith(s, c) ==
    IF c = 0 THEN NoSlowmo(OrderEvents(s, c))
    ELSE EnforceSingleSlowmo(BreakSlowmoRuns(OrderEvents(s, c)))
NarrativeOrder(s) == NarrativeWith(s, ClimaxOf(s))

\* Source by source, in the order of their first events, each sorted by a number
BySource(s, Key(_)) ==
    LET FirstOf(v) == CHOOSE i \in DOMAIN s : s[i].src = v /\ \A j \in 1..(i - 1) : s[j].src # v
    IN  SortedUp(SortedUp(s, Key), LAMBDA e : FirstOf(e.src))

\* Two windows of one source that share more than two fifths of the shorter one
SameMoment(e, k) ==
    /\ e.src = k.src
    /\ 10 * (Smaller(e.end, k.end) - Larger(e.start, k.start))
          > 4 * Smaller(e.end - e.start, k.end - k.start)

\* What lies inside its source, of one moment the best; also done again after a repair
Sanitized(s) ==
    LET Trim(e) == [e EXCEPT !.end = Smaller(@, e.length)]
        inside == SelectSeq(s, LAMBDA e : e.start < e.length - 2000
                                          /\ Trim(e).end - e.start >= 4000)
        Keep(kept, e) == IF \E i \in DOMAIN kept : SameMoment(e, kept[i]) THEN kept ELSE Append(kept, e)
    IN  FoldLeft(Keep, <<>>, BySource([i \in DOMAIN inside |-> Trim(inside[i])], LAMBDA e : -e.score))

\* One part with every event: rides in the order of the footage, others the best first
\* (what final_duplicate_guard would drop of the rides is gone already).
Part(s, surf) ==
    IF surf THEN BySource(s, LAMBDA e : e.start) ELSE SortedDown(s, LAMBDA e : e.score)

\* A flash of the climax would open the reel.  It is never cut, yet it has its place in the list.
WithTeaser(s, surf) ==
    IF ~surf /\ Len(s) >= 2 /\ s[Len(s)].end - s[Len(s)].start > 4500
    THEN <<[s[Len(s)] EXCEPT !.teaser = TRUE, !.slow = FALSE, !.out = "cut"]>> \o s ELSE s

ReelOrder(s, surf) == WithTeaser(NarrativeOrder(Part(Sanitized(s), surf)), surf)

-----------------------------------------------------------------------------
(* Transitions                                                               *)

\* Overlap of two clips at a join
OverlapOf(kind) ==
    CASE kind = "cut" -> 120 [] kind = "slide" -> 220 [] kind = "fade" -> 400 [] kind = "zoom" -> 450

\* A zoom only leads to the last clip
Transitions(s) ==
    LET n == Len(s)
        zoom == \E i \in DOMAIN s : s[i].out = "zoom"
    IN  [i \in DOMAIN s |->
            IF i = n - 1 /\ zoom /\ n >= 3 THEN "zoom"
            ELSE IF s[i].out = "zoom" /\ i # n - 1 THEN "slide" ELSE s[i].out]

\* The elements of s at the indices that were cut, in order
Rendered(s, indices) ==
    LET order == InOrder(indices, <)
    IN  [k \in DOMAIN order |-> s[order[k]]]

PairTransitions(transitions) == [i \in 1..(Len(transitions) - 1) |-> OverlapOf(transitions[i])]

\* The start of each clip by the editor's cursor
RenderedOffsets(durations, overlaps) ==
    LET from[i \in DOMAIN durations] ==
            IF i = 1 THEN 0
            ELSE Larger(from[i - 1], from[i - 1] + durations[i - 1] - overlaps[i - 1])
    IN  from

\* The start of each clip in the film: xfade i begins overlaps[i] before the end of what is joined so far
XfadeOffsets(durations, overlaps) ==
    LET joined[i \in DOMAIN durations] ==
            IF i = 1 THEN durations[1] ELSE joined[i - 1] + durations[i] - overlaps[i - 1]
    IN  [i \in DOMAIN durations |-> IF i = 1 THEN 0 ELSE joined[i - 1] - overlaps[i - 1]]

-----------------------------------------------------------------------------
(* The edit decision list, in frames of the film                             *)

Frames(ms) == Round(30 * ms, 1000)

\* A shot ends where the next one begins
Trimmed(shots) ==
    [i \in DOMAIN shots |->
        IF i < Len(shots) /\ shots[i].to > shots[i + 1].from
        THEN [shots[i] EXCEPT !.to = shots[i + 1].from] ELSE shots[i]]

\* One shot per clip of which there is a record, and a note of every other
BuildReelEdl(records, durations, overlaps) ==
    LET starts == RenderedOffsets(durations, overlaps)
        Shot(i) == [from |-> Frames(starts[i]), to |-> Frames(starts[i]) + Frames(durations[i]),
                    record |-> records[i]]
        known == {i \in DOMAIN records : records[i] # {}}
    IN  [shots |-> Trimmed(Rendered([i \in DOMAIN records |-> Shot(i)], known)),
         unrecorded |-> DOMAIN records \ known]

-----------------------------------------------------------------------------
(* Repairs                                                                   *)

\* The clip a defect at this second is charged to: the first whose span holds it; 0 for none
EventIndexForDefect(timeline, at) ==
    LET spans == {i \in DOMAIN timeline : timeline[i].from <= at /\ at <= timeline[i].to}
    IN  IF spans = {} THEN 0 ELSE CHOOSE i \in spans : \A j \in spans : i <= j

\* Three seconds more, in a window of thirty at most that never starts before the selected one
Extended(e) ==
    LET end == e.end + 3000
    IN  [e EXCEPT !.end = end, !.start = Larger(e.selected, end - 30000)]

\* The windows a source allows; a repair that changes none of them is not rendered.
Effective(s) == [i \in DOMAIN s |-> [s[i] EXCEPT !.end = Smaller(@, s[i].length)]]

\* The events of a reel after a critical defect of this kind at this time: the same when nothing is done
ApplyQaFix(s, timeline, kind, at) ==
    LET i == IF kind = "bad_first_clip" THEN 1 ELSE EventIndexForDefect(timeline, at)
    IN  CASE i = 0 -> s
          [] i # 0 /\ kind = "premature_cut" -> [s EXCEPT ![i] = Extended(@)]
          [] i # 0 /\ kind = "unnatural_slowmo" -> [s EXCEPT ![i].slow = FALSE]
          [] OTHER -> IF Len(s) > 1 THEN Without(s, i) ELSE s
=============================================================================
