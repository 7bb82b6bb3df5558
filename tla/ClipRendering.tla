---------------------------- MODULE ClipRendering ----------------------------
(* From the analysed sources of a run to the films of its athletes: the      *)
(* tracker's sidecars and their cache, the binding of events to tracks, the  *)
(* clips that are cut side by side, the film they are joined to, its edit    *)
(* decision list and the repair of a film that was judged to have a defect.  *)
(* A run may end anywhere; of what it kept only the cache reaches the next.  *)
EXTENDS ReelFilm

CONSTANTS Scenarios,     \* [runs: <<[media, told]>>, surf, sport, judged, faults, repairs]
          Footage,       \* content of a source |-> [frame, length, coarse, fine]
          MaxEnd         \* no event is made to end later than this: bound of the model

VARIABLES
    scenario,
    run,        \* number of the run
    cache,      \* content of a source |-> the content the sidecar kept for it was made of
    sidecar,    \* source |-> {} or {the content its sidecar was made of}
    lost,       \* sources whose analysis failed
    bound,      \* events with their evidence
    stage,      \* "evidence", "cutting", "joining", "judging", "done"
    athlete,    \* whose reel it is
    ordered,    \* its events in their order, a teaser included
    todo,       \* indices that are not cut yet
    results,    \* index |-> [path, clip, before], for the clips that were cut; before: {} or the
                \* record of an earlier clip that was at the path
    records,    \* clip path |-> what the edit decision list says of the clip there
    probed,     \* clip path |-> the clip it was last measured for and its duration
    timeline,   \* what is kept of the film: its events with where each begins and ends
    film,       \* the reel's file: {} or {[clips, listed]}: its clips, from when on they show, and
                \* whether the list beside it was written after it
    edl,        \* the edit decision list beside it: {} or {[shots, unrecorded]}
    faults,     \* calls that may still fail, clips that may still be judged bad
    repairs     \* repairs that may still be asked for

vars == <<scenario, run, cache, sidecar, lost, bound, stage, athlete, ordered, todo, results,
          records, probed, timeline, film, edl, faults, repairs>>

Media == scenario.runs[run].media
Sources == DOMAIN Media
FilmOf(v) == Footage[Media[v]]
Athletes == {e.who : e \in scenario.runs[run].told}

Fault == faults > 0 /\ faults' = faults - 1
NoFault == UNCHANGED faults

Nothing == [x \in {} |-> x]

FreshRunner(r) ==
    /\ run' = r
    /\ sidecar' = [v \in DOMAIN scenario.runs[r].media |-> {}]
    /\ lost' = {} /\ bound' = {} /\ stage' = "evidence" /\ athlete' = 0
    /\ ordered' = <<>> /\ todo' = {} /\ results' = Nothing
    /\ records' = Nothing /\ probed' = Nothing
    /\ timeline' = <<>> /\ film' = {} /\ edl' = {} /\ repairs' = scenario.repairs

Init ==
    /\ scenario \in Scenarios
    /\ run = 1 /\ cache = Nothing
    /\ sidecar = [v \in DOMAIN scenario.runs[1].media |-> {}]
    /\ lost = {} /\ bound = {} /\ stage = "evidence" /\ athlete = 0
    /\ ordered = <<>> /\ todo = {} /\ results = Nothing
    /\ records = Nothing /\ probed = Nothing
    /\ timeline = <<>> /\ film = {} /\ edl = {}
    /\ faults = scenario.faults /\ repairs = scenario.repairs

-----------------------------------------------------------------------------
(* Evidence                                                                  *)

\* What the generator writes for a content
Sidecars == [c \in DOMAIN Footage |-> SidecarOf(Footage[c])]

ToAnalyse(v) == stage = "evidence" /\ sidecar[v] = {} /\ v \notin lost

\* As code that would ask the cache with the name of the source
KeyByName(v) == v

\* The cache is asked with the content of the source, never with its name.
KeyOf(v) == Media[v]

KeepInCache(v) ==
    \/ cache' = (KeyOf(v) :> Media[v]) @@ cache /\ NoFault
    \/ Fault /\ UNCHANGED cache

EnsureFromCache(v) ==
    /\ ToAnalyse(v) /\ KeyOf(v) \in DOMAIN cache
    /\ sidecar' = [sidecar EXCEPT ![v] = {cache[KeyOf(v)]}]
    /\ NoFault
    /\ UNCHANGED <<scenario, run, cache, lost, bound, stage, athlete, ordered, todo, results,
                   records, probed, timeline, film, edl, repairs>>

\* The tracker runs; a sidecar without a detection is no evidence.
Produce(v) ==
    /\ ToAnalyse(v) /\ KeyOf(v) \notin DOMAIN cache
    /\ \/ /\ Sidecars[Media[v]] = {}
          /\ lost' = lost \cup {v} /\ NoFault /\ UNCHANGED <<sidecar, cache>>
       \/ /\ Sidecars[Media[v]] # {}
          /\ sidecar' = [sidecar EXCEPT ![v] = {Media[v]}] /\ KeepInCache(v) /\ UNCHANGED lost
    /\ UNCHANGED <<scenario, run, bound, stage, athlete, ordered, todo, results,
                   records, probed, timeline, film, edl, repairs>>

\* It fails or takes too long: evidence is required, so the source is given up.
ProducerFails(v) ==
    /\ ToAnalyse(v) /\ KeyOf(v) \notin DOMAIN cache
    /\ Fault
    /\ lost' = lost \cup {v}
    /\ UNCHANGED <<scenario, run, cache, sidecar, bound, stage, athlete, ordered, todo, results,
                   records, probed, timeline, film, edl, repairs>>

DetectionsOf(v) == UNION {Sidecars[c] : c \in sidecar[v]}

\* Every event told of a source gets one of the tracks in its window, or is dropped.
Bind ==
    LET told == {e \in scenario.runs[run].told : e.src \notin lost}
        Tracked(e) == TracksIn(DetectionsOf(e.src), e)
        able == {e \in told : Tracked(e) # {}}
        Bound(e, id) == Enriched(DetectionsOf(e.src), [frame |-> FilmOf(e.src).frame,
                                        length |-> FilmOf(e.src).length] @@ e, id)
    IN  /\ stage = "evidence" /\ \A v \in Sources : ~ToAnalyse(v)
        /\ \E pick \in [able -> UNION {Tracked(e) : e \in able}] :
              /\ \A e \in able : pick[e] \in Tracked(e)
              /\ bound' = {b \in {Bound(e, pick[e]) : e \in able} : HasEvidence(b)}
        /\ stage' = "done"
        /\ UNCHANGED <<scenario, run, cache, sidecar, lost, athlete, ordered, todo, results,
                       records, probed, timeline, film, edl, faults, repairs>>

-----------------------------------------------------------------------------
(* Cutting                                                                   *)

StartCutting(s) ==
    /\ ordered' = s /\ todo' = DOMAIN s /\ results' = Nothing /\ stage' = "cutting"

\* The reel of the next athlete
StartReel ==
    LET who == athlete + 1
        events == ReelOrder(InOrder({e \in bound : e.who = who}, LAMBDA a, b : a.id < b.id), scenario.surf)
    IN  /\ stage = "done" /\ who \in Athletes
        /\ athlete' = who
        /\ IF events = <<>> THEN UNCHANGED <<ordered, todo, results, stage>>
           ELSE StartCutting(events)
        /\ timeline' = <<>> /\ film' = {} /\ edl' = {} /\ repairs' = scenario.repairs
        /\ UNCHANGED <<scenario, run, cache, sidecar, lost, bound, records, probed, faults>>

\* The window of a cut: four seconds at least, inside the source (none is past its end)
Clamp(e) ==
    LET from == AtLeast(0, AtMost(e.length - 4000, e.start))
        to == AtMost(e.length, e.end)
    IN  <<from, IF to - from < 4000 THEN AtMost(e.length, from + 4000) ELSE to>>

\* Clips of all athletes are numbered alike, so the paths of one reel are those of the next.
PathOf(e, i) == <<e.src, i>>

\* A clip: the event it shows, from where in its source, how framed, and whether it was recorded
ClipOf(e, window, noted) ==
    [id |-> e.id, of |-> Media[e.src], event |-> e, from |-> window[1], to |-> window[2],
     framing |-> FramingOf(e.frame, e, scenario.sport, DetectionsOf(e.src)), noted |-> noted]

\* As code that would keep the record of the first clip cut at a path
RecordFirstClip(paths, clip) == records' = records @@ [p \in paths |-> clip]

\* The record of a cut replaces that of an earlier clip at its path.
RecordClip(paths, clip) == records' = [p \in paths |-> clip] @@ records

\* What is recorded at a path, whichever clip it was of
RecordAt(path) == IF path \in DOMAIN records THEN {records[path]} ELSE {}

\* A clip that is judged bad (QA_CROP_CHECK) is cut again under a higher number, at last without being
\* judged; the render of quality_cut_clip takes no notice of what was to be put right.
Rounds == {{0}, {0, 500}, {0, 1000}, {0, 500, 1000}}
CutRounds(i, rounds, clip, noted) ==
    LET paths == {PathOf(ordered[i], i + n) : n \in rounds}
        last == PathOf(ordered[i], i + CHOOSE n \in rounds : \A o \in rounds : o <= n)
    IN  /\ results' = (i :> [path |-> last, clip |-> clip, before |-> RecordAt(last)]) @@ results
        /\ IF noted THEN RecordClip(paths, clip) ELSE UNCHANGED records

\* The record of a clip may fail, which nobody is told of; so may the render.
CutClip(i) ==
    /\ stage = "cutting" /\ i \in todo
    /\ todo' = todo \ {i}
    /\ ~ordered[i].teaser
    /\ \E rounds \in IF scenario.judged THEN Rounds ELSE {{0}}, noted \in BOOLEAN :
          /\ noted \/ rounds = {0}
          /\ CutRounds(i, rounds, ClipOf(ordered[i], Clamp(ordered[i]), noted), noted)
          /\ IF noted /\ rounds = {0} THEN NoFault ELSE Fault
    /\ UNCHANGED <<scenario, run, cache, sidecar, lost, bound, stage, athlete, ordered, probed,
                   timeline, film, edl, repairs>>

RenderFails(i) ==
    /\ stage = "cutting" /\ i \in todo
    /\ todo' = todo \ {i}
    /\ ~ordered[i].teaser
    /\ Fault
    /\ UNCHANGED <<scenario, run, cache, sidecar, lost, bound, stage, athlete, ordered, results,
                   records, probed, timeline, film, edl, repairs>>

\* A teaser is passed over.
PassOver(i) ==
    /\ stage = "cutting" /\ i \in todo
    /\ ordered[i].teaser
    /\ todo' = todo \ {i}
    /\ UNCHANGED <<scenario, run, cache, sidecar, lost, bound, stage, athlete, ordered, results,
                   records, probed, timeline, film, edl, faults, repairs>>

-----------------------------------------------------------------------------
(* Joining                                                                   *)

CutPaths == Rendered([i \in DOMAIN results |-> results[i].path], DOMAIN results)
CutClips == Rendered([i \in DOMAIN results |-> results[i].clip], DOMAIN results)
RecordsBefore == Rendered([i \in DOMAIN results |-> results[i].before], DOMAIN results)

\* A measure is kept for the file it was made of, not for whatever is at its path.
Measured(path, clip) ==
    IF path \in DOMAIN probed /\ probed[path].clip = clip THEN probed[path].duration
    ELSE clip.to - clip.from
Durations == [k \in DOMAIN CutPaths |-> Measured(CutPaths[k], CutClips[k])]

RenderedTransitions == Rendered(Transitions(ordered), DOMAIN results)

EventsWithRenderedTimeline(durations, overlaps) ==
    LET events == Rendered(ordered, DOMAIN results)
        starts == RenderedOffsets(durations, overlaps)
    IN  [k \in DOMAIN events |-> [event |-> events[k], from |-> starts[k], to |-> starts[k] + durations[k]]]

\* What the joined file shows is the clips as they are, joined by their measured durations.
Joined(durations, overlaps) ==
    [k \in DOMAIN durations |-> [clip |-> CutClips[k], before |-> RecordsBefore[k],
                                 at |-> XfadeOffsets(durations, overlaps)[k]]]

\* The list of what was joined, by what is recorded at the paths of its clips
WriteReelEdl(overlaps) ==
    LET recorded == [k \in DOMAIN CutPaths |-> RecordAt(CutPaths[k])]
    IN  edl' = {BuildReelEdl(recorded, Durations, overlaps)}

Measure ==
    probed' = [path \in ToSet(CutPaths) |->
                  LET k == CHOOSE k \in DOMAIN CutPaths : CutPaths[k] = path
                  IN  [clip |-> CutClips[k], duration |-> Durations[k]]] @@ probed

\* Nothing was cut: no reel, or the one there was stays.
NoClips ==
    /\ stage = "cutting" /\ todo = {} /\ results = Nothing
    /\ stage' = "done"
    /\ UNCHANGED <<scenario, run, cache, sidecar, lost, bound, athlete, ordered, todo, results,
                   records, probed, timeline, film, edl, faults, repairs>>

\* The list of an earlier cut of the reel stays when the new one is not written.
CompileReel ==
    LET overlaps == PairTransitions(RenderedTransitions)
    IN  /\ stage = "cutting" /\ todo = {} /\ results # Nothing
        /\ Measure
        /\ timeline' = EventsWithRenderedTimeline(Durations, overlaps)
        /\ \/ /\ film' = {[clips |-> Joined(Durations, overlaps), listed |-> TRUE]}
              /\ WriteReelEdl(overlaps) /\ NoFault
           \/ /\ film' = {[clips |-> Joined(Durations, overlaps), listed |-> FALSE]}
              /\ Fault /\ UNCHANGED edl
        /\ stage' = "judging"
        /\ UNCHANGED <<scenario, run, cache, sidecar, lost, bound, athlete, ordered, todo, results,
                       records, repairs>>

\* ffmpeg writes over the file of the reel: one that was there may be destroyed.
\* What is kept of the earlier cut then stays as it is.
CompileFails ==
    /\ stage = "cutting" /\ todo = {} /\ results # Nothing
    /\ Fault
    /\ Measure
    /\ film' \in {film, {}}
    /\ stage' = "done"
    /\ UNCHANGED <<scenario, run, cache, sidecar, lost, bound, athlete, ordered, todo, results,
                   records, timeline, edl, repairs>>

-----------------------------------------------------------------------------
(* Judging                                                                   *)

Accept ==
    /\ stage = "judging"
    /\ stage' = "done"
    /\ UNCHANGED <<scenario, run, cache, sidecar, lost, bound, athlete, ordered, todo, results,
                   records, probed, timeline, film, edl, faults, repairs>>

Kinds == {"bad_first_clip", "no_visible_action", "premature_cut"}

\* A critical defect at some moment of the film: the events it leaves are cut again.
Repair ==
    \E kind \in Kinds, k \in DOMAIN timeline :
        LET at == (timeline[k].from + timeline[k].to) \div 2
            before == [i \in DOMAIN timeline |-> timeline[i].event]
            after == ApplyQaFix(before, timeline, kind, at)
        IN  /\ stage = "judging" /\ repairs > 0
            /\ Effective(after) # Effective(before)
            /\ \A i \in DOMAIN after : after[i].end <= MaxEnd
            /\ StartCutting(ReelOrder(after, scenario.surf))
            /\ repairs' = repairs - 1
            /\ UNCHANGED <<scenario, run, cache, sidecar, lost, bound, athlete, records, probed,
                           timeline, film, edl, faults>>

-----------------------------------------------------------------------------
(* Runs                                                                      *)

RunIsOver == stage = "done" /\ athlete + 1 \notin Athletes

NextRun ==
    /\ run < Len(scenario.runs) /\ RunIsOver
    /\ FreshRunner(run + 1)
    /\ UNCHANGED <<scenario, cache, faults>>

\* The runner is lost; its run starts again on another.
Crash ==
    /\ ~RunIsOver
    /\ Fault
    /\ FreshRunner(run)
    /\ UNCHANGED <<scenario, cache>>

Finished == run = Len(scenario.runs) /\ RunIsOver /\ UNCHANGED vars

Next ==
    \/ \E v \in Sources : EnsureFromCache(v) \/ Produce(v) \/ ProducerFails(v)
    \/ Bind
    \/ StartReel
    \/ \E i \in DOMAIN ordered : CutClip(i) \/ RenderFails(i) \/ PassOver(i)
    \/ NoClips \/ CompileReel \/ CompileFails
    \/ Accept \/ Repair
    \/ NextRun \/ Crash \/ Finished

Spec == Init /\ [][Next]_vars

-----------------------------------------------------------------------------
(* Properties                                                                *)

Shots == UNION {ToSet(f.clips) : f \in film}

\* What the tracker has of the athlete of a clip while the clip is on
SamplesIn(clip) ==
    {d \in Sidecars[clip.of] :
        /\ d.id = clip.event.track
        /\ d.t \in Larger(clip.from, clip.event.start)..Smaller(clip.to, clip.event.end)}

\* A fixed crop never cuts into the box of its athlete, whichever sample of the whole clip
\* one takes and however far a repair has extended it, though the window that was checked
\* is not the one that is rendered (it is rounded, made even and moved into the frame); a
\* crop that pans keeps the centre in view in nine tenths of the samples one can rely on.
CropHoldsAthlete ==
    \A shot \in Shots :
        LET clip == shot.clip
            f == clip.event.frame
            at(d) == ShownAt(f, clip.framing, d.t)
            relied == {d \in SamplesIn(clip) : Reliable(f, d)}
            centred(d) == /\ BoxCentre(d.x1, d.x2) \in (at(d).x1 - 20)..(at(d).x2 + 20)
                          /\ BoxCentre(d.y1, d.y2) \in (at(d).y1 - 20)..(at(d).y2 + 20)
        IN  /\ clip.framing.mode = "tracked" => \A d \in SamplesIn(clip) :
                   /\ at(d).x1 <= 10 * d.x1 /\ 10 * d.x2 <= at(d).x2
                   /\ at(d).y1 <= 10 * d.y1 /\ 10 * d.y2 <= at(d).y2
            /\ clip.framing.mode = "follow" =>
                   10 * Cardinality({d \in relied : centred(d)}) >= 9 * Cardinality(relied)

\* The timeline by which a defect is charged to an event says what the film shows when,
\* although clips that failed are missing, paths are used again and the film and the
\* timeline are computed apart (a film that could not be joined again included).
TimelineIsFilm ==
    \A f \in film :
        /\ Len(timeline) = Len(f.clips)
        /\ \A k \in DOMAIN timeline :
              LET shot == f.clips[k]
              IN  /\ timeline[k].event = shot.clip.event
                  /\ timeline[k].from = shot.at
                  /\ timeline[k].to = shot.at + shot.clip.to - shot.clip.from

\* What the list can say of a clip of the film: its own record, or, when that failed, the
\* record it found at its path, if there was one
ToldOf(part) == IF part.clip.noted THEN {part.clip} ELSE part.before

\* The edit decision list accounts for every clip of the film.  One that was recorded has its
\* own cut in it, not one of another athlete or another round at its path.  One whose record
\* failed is noted as not recorded, unless an earlier cut of the same source was recorded at
\* its path: it is told as that one, and this is the only way in which the list can be wrong.
\* A shot begins at the frame where its clip does and ends before that is over; there is no
\* other shot, and none overlaps the next.  A list that could not be written says nothing.
EdlIsFilm ==
    \A f \in film, list \in edl : f.listed =>
        /\ \A k \in DOMAIN f.clips :
              LET part == f.clips[k]
                  its == {shot \in ToSet(list.shots) : shot.from = Frames(part.at)}
              IN  /\ {shot.record : shot \in its} = {{clip} : clip \in ToldOf(part)}
                  /\ \A shot \in its :
                        shot.to \in shot.from..(shot.from + Frames(part.clip.to - part.clip.from))
                  /\ \A clip \in ToldOf(part) : clip.of = part.clip.of
                  /\ k \in list.unrecorded <=> ToldOf(part) = {}
        /\ Len(list.shots) + Cardinality(list.unrecorded) = Len(f.clips)
        /\ \A j \in 2..Len(list.shots) : list.shots[j - 1].to <= list.shots[j].from

\* What the note "clip_not_recorded" promises, a shot of a clip or the note that it has none.
\* False: a clip whose record failed is told as the earlier cut at its path, of another
\* athlete or from before a repair.
EdlShowsEachClip ==
    \A f \in film, list \in edl : f.listed =>
        \A k \in DOMAIN f.clips : k \in list.unrecorded \/ f.clips[k].clip.noted

\* Whoever reads what was kept of a render is told of the film that was made: QA by the
\* timeline, an editor by the decision list, but for clips that could not be recorded.
FilmIsTold == TimelineIsFilm /\ EdlIsFilm

\* Whatever runs were lost and whatever name a file had in an earlier one, the evidence of
\* a source was made of its content, and the clip of an event shows that content.
EvidenceIsOfTheVideo ==
    /\ \A v \in Sources : \A c \in sidecar[v] : c = Media[v]
    /\ \A shot \in Shots :
          /\ shot.clip.of = Media[shot.clip.event.src]
          /\ shot.clip.event.box \in Sidecars[shot.clip.of]
=============================================================================
