--------------------------- MODULE EventSelection ---------------------------
(***************************************************************************)
(* What is kept of an answer about a source: the moments that pass the      *)
(* rules of pipeline/stages/analyzer.py and of the policies bootstrap.py     *)
(* wraps around it, cut down to what the tracker saw of their athlete.       *)
(*                                                                         *)
(* An event is a record: who it is about in the answer (the chunk, numbered  *)
(* from 1 and 0 in a source of one chunk, and the label of the athlete), its *)
(* place n in the answer, its window, its score and the flags the rules      *)
(* read.  ev is the evidence about whom it shows, focus the window the model *)
(* proposes when that is not sure, track is 0 until perception has bound the *)
(* event.  Persons whose last event is dropped are not kept as empty rows.   *)
(***************************************************************************)
EXTENDS ChunkTimeline, ActorEvidence

\* s comes before t in the order of tuples of integers.
Precedes(s, t) ==
    \E i \in DOMAIN s : s[i] < t[i] /\ \A j \in 1 .. (i - 1) : s[j] = t[j]

\* Taken one after the other by rank, an event is kept unless it clashes with one kept before.
Greedy(es, Rank(_), Clash(_, _)) ==
    CHOOSE kept \in SUBSET es : \A e \in es :
        e \in kept <=> \A k \in kept : Precedes(Rank(k), Rank(e)) => ~Clash(e, k)

-----------------------------------------------------------------------------
(* One athlete's events in one answer. *)

\* What was said of the wide window does not carry over.
Focused(e, w) == [e EXCEPT !.from = w.from, !.to = w.to, !.ev = FocusedEvidence]

\* It must be clear whom a moment shows, if only in a part of it.
Attributable(es) ==
    LET narrowed(e) == {Focused(e, w) : w \in {v \in e.focus : Length(v) >= MinClip}}
    IN  UNION {IF Reasons(e.ev) # {} THEN narrowed(e) ELSE {e} : e \in es}

\* The evidence about a moment is found by its window, and lost when the window is changed.
Complete(es, length) ==
    {[e EXCEPT !.ev = IF e \in es THEN @ ELSE Unsaid] :
        e \in {r \in {Recover(f, length) : f \in es} : Length(r) >= MinEvent}}

Padded(e) ==
    IF Length(e) < MinClip /\ ~e.precise
    THEN [e EXCEPT !.to = e.from + MinClip, !.ev = Unsaid] ELSE e

ByScore(e) == <<-e.score, e.n>>

\* The good ones; failing that the best two, of somebody who at least did something.
Good(es) ==
    LET good == {e \in es : e.score >= 6}
        better(e) == {k \in es : Precedes(ByScore(k), ByScore(e))}
    IN  IF good # {} THEN good
        ELSE {e \in es : Cardinality(better(e)) < 2 /\ \E k \in es : k.score >= 5}

SameStart(e, k) == -Sec(2) < e.from - k.from /\ e.from - k.from < Sec(2)

\* A surf ride counts whatever its score unless it was never a ride.
Performs(e, surf) == IF surf THEN ~e.failed ELSE e.score >= 6

Selected(es, length, surf) ==
    LET complete == {Padded(e) : e \in Complete(Attributable(es), length)}
    IN  {e \in Greedy(Good(complete), ByScore, SameStart) : Performs(e, surf)}

\* Mutant: the athletes of a chunk keep their labels in the source.
HeardUnnamed(answer, length, i, surf) ==
    LET selected == UNION {Selected({e \in answer : e.who = p}, length, surf) :
                               p \in {e.who : e \in answer}}
    IN  UNION {Normalize(e, Chunk(length, Chunks(length), i)) : e \in selected}

\* What chunk i of a source adds to its events, in time of the source.
Heard(answer, length, i, surf) ==
    LET n == Chunks(length)
        selected == UNION {Selected({e \in answer : e.who = p}, length, surf) :
                               p \in {e.who : e \in answer}}
        own(e) == [e EXCEPT !.who = <<i + 1, e.who[2]>>]
    IN  IF n = 1 THEN selected
        ELSE UNION {Normalize(own(e), Chunk(length, n, i)) : e \in selected}

-----------------------------------------------------------------------------
(* All the events of a source, once a tracker has seen it.  A track is an id, the
   seconds its athlete is in the picture (the detections are many a second) and
   whether its boxes are good enough to crop by. *)

Visible(t, w) == {s \in t.times : w.from <= Sec(s) /\ Sec(s) <= w.to}
InView(e, tracks) == {t \in tracks : Visible(t, e) # {}}

Lost == Sec(1) + 50       \* DEFAULT_LOST_TOLERANCE_SEC

\* The part before the athlete comes into the picture goes, and the part after.
Refined(e, t) ==
    LET near == Visible(t, [from |-> e.from - Sec(1), to |-> e.to + Sec(1)])
        first == Sec(CHOOSE s \in near : \A u \in near : s <= u)
        last == Sec(CHOOSE s \in near : \A u \in near : s >= u)
        from == IF first - e.from > Lost THEN Greater(e.from, first - 50) ELSE e.from
        to == IF e.to - last > Lost THEN Lesser(e.to, last + Sec(1)) ELSE e.to
    IN  IF to - from < MinEvent \/ (from = e.from /\ to = e.to) THEN e
        ELSE [e EXCEPT !.from = from, !.to = to, !.refined = TRUE]

\* seen is every track in the window as the model gave it.
Bound(e, t, tracks) ==
    [Refined(e, t) EXCEPT !.track = t.id, !.seen = {u.id : u \in InView(e, tracks)}]

\* Whichever track in view each event was given: the crop hint and the shape of the
\* tracks decide, and neither is part of the model.
Bindings(es, tracks) ==
    {b \in [{e \in es : InView(e, tracks) # {}} -> tracks] :
        \A e \in DOMAIN b : b[e] \in InView(e, tracks)}

BySession(e) == <<-e.score, -Length(e), e.who[1], e.who[2], e.n>>
SameMoment(e, k) ==
    Overlap(e, k) >= Sec(2) /\ 2 * Overlap(e, k) >= Lesser(Length(e), Length(k))

\* One event per stretch of the source, whoever it is about.
Seen(binding, tracks) ==
    LET bound == {Bound(e, binding[e], tracks) :
                      e \in {f \in DOMAIN binding : binding[f].usable}}
    IN  Greedy(bound, BySession, SameMoment)
=============================================================================
