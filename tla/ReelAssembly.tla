---------------------------- MODULE ReelAssembly ----------------------------
(***************************************************************************)
(* What a reel shows: from the events of an athlete to the windows that are  *)
(* cut.  pipeline/stages/editor.py with surf_ride_segment.py,                *)
(* cut_window_guard.py and final_duplicate_guard.py around it, and for a      *)
(* long video what pipeline/context_qa_long_video.py does before.            *)
(*                                                                         *)
(* Events are those of EventSelection with their clip; tail is the later end  *)
(* a guard found for a surf ride, 0 if none, full whether a gate looks at all  *)
(* of it, and moments the moments of the film an event stems from.  The order  *)
(* of the cuts, the teaser (never cut in production), framing and music are    *)
(* left out.                                                                *)
(***************************************************************************)
EXTENDS EventSelection, Sequences, SequencesExt

End(e) == IF e.tail # 0 THEN e.tail ELSE e.to

ByTime(e) == <<e.from, e.n, e.who[1], e.who[2]>>
InTime(es) == SetToSortSeq(es, LAMBDA e, k : Precedes(ByTime(e), ByTime(k)))

-----------------------------------------------------------------------------
(* Surf rides: fragments of one track less than seven seconds apart are one ride. *)

SameRide(e, k) == e.track = k.track /\ k.from <= End(e) + Sec(7)

Grouped(es) ==
    LET Join(gs, e) ==
            IF gs # <<>> /\ SameRide(Last(Last(gs)), e)
            THEN Append(Front(gs), Append(Last(gs), e))
            ELSE Append(gs, <<e>>)
    IN  FoldLeft(Join, <<>>, InTime(es))

Largest(s) == CHOOSE x \in Range(s) : \A y \in Range(s) : x >= y

Ride(g) ==
    LET to == Largest([i \in DOMAIN g |-> End(g[i])])
        guarded == \E i \in DOMAIN g : g[i].tail # 0
    IN  [g[1] EXCEPT !.to = to, !.tail = IF guarded THEN to ELSE 0, !.full = TRUE,
                     !.score = Largest([i \in DOMAIN g |-> g[i].score]),
                     !.moments = UNION {g[i].moments : i \in DOMAIN g}]

Rides(es) == {Ride(g) : g \in Range(Grouped(es))}

\* A ride whose end nobody reported may go on: the later end counts when it is cut again.
Guarded(e, length) ==
    IF ~e.precise /\ ~e.refined /\ e.tail = 0 /\ e.to < length
    THEN [e EXCEPT !.tail = Lesser(length, e.to + Sec(3))] ELSE e

-----------------------------------------------------------------------------
(* No event past the end of its clip, and none that repeats a better one. *)

ByWorth(e) == <<-e.score, e.from, e.n>>
SameShot(e, k) == 10 * Overlap(e, k) > 4 * Lesser(Length(e), Length(k))

Inside(e, length) ==
    e.from < length - Sec(2) /\ Lesser(e.to, length) - e.from >= MinUsable
\* Mutant: events are clamped to the clip, repeated ones stay.
SanitizedClamped(es, length) ==
    {[e EXCEPT !.to = Lesser(@, length)] : e \in {f \in es : Inside(f, length)}}

Sanitized(es, length) ==
    Greedy({[e EXCEPT !.to = Lesser(@, length)] : e \in {f \in es : Inside(f, length)}},
           ByWorth, SameShot)

Repeats(e, k) ==
    e.clip = k.clip /\ 100 * Overlap(e, k) >= 55 * Lesser(Length(e), Length(k))

\* In one pass: an event that repeats one kept before replaces it if it is better.
WithoutDuplicates(s) ==
    LET Take(kept, e) ==
            LET same == {i \in DOMAIN kept : Repeats(e, kept[i])}
                first == CHOOSE i \in same : \A j \in same : i <= j
            IN  IF same = {} THEN Append(kept, e)
                ELSE IF e.score > kept[first].score THEN [kept EXCEPT ![first] = e] ELSE kept
    IN  FoldLeft(Take, <<>>, s)

\* The events of the one part a reel has: rides in the order of the film, anything else
\* in an order that does not matter here.
Part(es) == Range(WithoutDuplicates(InTime(es)))

\* What is cut from one clip for a reel.
Chosen(es, length, surf) ==
    LET rides == IF surf THEN {Guarded(e, length) : e \in Rides(es)} ELSE es
    IN  Sanitized(rides, length)

\* The window of a cut, at least four seconds of the clip; none past its end.
Cut(e, length) ==
    LET from == Greater(0, Lesser(e.from, length - MinUsable))
        to == Lesser(e.to, length)
    IN  IF e.from >= length - Sec(2) THEN {}
        ELSE {[e EXCEPT !.from = from,
                        !.to = IF to - from < MinUsable THEN Lesser(from + MinUsable, length) ELSE to]}

\* What a reel is cut from again after its quality was judged: without the cuts that
\* show a defect, some others three seconds longer.
Reedited(cuts, dropped, longer) ==
    {IF e \in longer THEN [e EXCEPT !.to = @ + Sec(3), !.full = TRUE] ELSE e : e \in cuts \ dropped}

-----------------------------------------------------------------------------
(* The gates of an event: it must show one athlete who can be followed. *)

\* Only the last eleven seconds are looked at, as if no more were cut, but of a whole ride
\* in a reel and of a cut that was made longer.
Examined(e) ==
    [from |-> IF e.full THEN e.from ELSE Greater(e.from, e.to - Sec(11)), to |-> e.to]

\* The track an event is bound to and those noted in view: the same track counts twice,
\* since its name says in which field it was found.
VisibleIds(e) == {<<"target_track_id", e.track>>} \cup {<<"track_id", s>> : s \in e.seen}

\* An event that shows several by what was noted when it was bound
MultiPersonGate(e) ==
    LET count == Cardinality(VisibleIds(e))
    IN  IF e.social \/ (count <= 1 /\ e.ev.clear # "no") THEN {}
        ELSE ActorDefects(e.ev, count, {})

\* The sidecar says something of an event in which several are seen, or others only.
Gated(e, seen) ==
    seen # {} /\ (Cardinality(seen) >= 2 \/ \A t \in seen : t.id # e.track)

Continuity(e, tracks) ==
    LET seconds(ts) == UNION {Visible(t, Examined(e)) : t \in ts}
    IN  [seen |-> Cardinality(seconds({t \in tracks : t.id = e.track})),
         of |-> Cardinality(seconds(tracks))]

\* An event that shows several, or not its athlete, by the sidecar.  That a narrowed window
\* is looked at again is asked by a flag which no event has kept.
SubjectGate(e, tracks) ==
    LET seen == InView(Examined(e), tracks)
        present == \E t \in seen : t.id = e.track
        told == IF present THEN e.ev
                ELSE [e.ev EXCEPT !.clear = "no", !.faults = @ \cup {"target_lost"}]
    IN  IF ~Gated(e, seen) \/ (e.social /\ present) THEN {}
        ELSE ActorDefects(told, Cardinality(seen), {Continuity(e, tracks)})

\* Mutant: what was noted when an event was bound is not looked at.
GateDefectsSidecarOnly(e, tracks) == SubjectGate(e, tracks)

GateDefects(e, tracks) == SubjectGate(e, tracks) \cup MultiPersonGate(e)
SubjectBlocked(e, tracks) == GateDefects(e, tracks) # {}

-----------------------------------------------------------------------------
(* A long video: events that show several are narrowed or left out. *)

\* The stretches of six seconds in which nobody else is seen.
AloneIn(e, tracks) ==
    LET others == UNION {Visible(t, e) : t \in {u \in tracks : u.id # e.track}}
        starts == {e.from} \cup {Sec(s) + 35 : s \in others}
        ends == {e.to} \cup {Sec(s) - 35 : s \in others}
    IN  {w \in [from : starts, to : ends] :
            /\ Length(w) >= MinClip
            /\ \A s \in others : Sec(s) + 35 <= w.from \/ Sec(s) - 35 >= w.to}

\* Such a stretch cut down to where the athlete is seen, 15 seconds at most.
CleanIn(w, t) ==
    LET times == Visible(t, w)
        from == Greater(w.from, Sec(CHOOSE s \in times : \A u \in times : s <= u) - 20)
        to == Lesser(w.to, Sec(CHOOSE s \in times : \A u \in times : s >= u) + 20)
    IN  IF times = {} THEN {}
        ELSE {c \in {[from |-> from, to |-> Lesser(to, from + Sec(15))]} : Length(c) >= MinClip}

\* A blocked event is narrowed to the longest of them, whose tracks are not noted; its track
\* is known by that name only where the sidecar gave it.
Rescued(e, tracks) ==
    LET clean == UNION {CleanIn(w, t) : w \in AloneIn(e, tracks),
                                        t \in {u \in tracks : u.id = e.track}}
        best == CHOOSE c \in clean : \A d \in clean :
                    Length(c) > Length(d) \/ (Length(c) = Length(d) /\ c.from <= d.from)
    IN  IF ~SubjectBlocked(e, tracks) \/ clean = {} \/ ~Gated(e, InView(Examined(e), tracks)) THEN e
        ELSE [e EXCEPT !.from = best.from, !.to = best.to, !.seen = {}]

ByRender(e) == <<-e.score, -Length(e), e.n>>
SameWindow(e, k) == 100 * Overlap(e, k) > 35 * Lesser(Length(e), Length(k))

Prepared(es, tracks) ==
    Greedy({e \in {Rescued(f, tracks) : f \in es} : ~SubjectBlocked(e, tracks)},
           ByRender, SameWindow)
=============================================================================
