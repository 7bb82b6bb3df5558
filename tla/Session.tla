------------------------------ MODULE Session ------------------------------
(***************************************************************************)
(* One session, from the films to the reels: pipeline/orchestrator.py calls   *)
(* the model on every chunk of every clip, binds what it found to tracks,     *)
(* groups the persons of the clips into athletes and cuts a reel of each.     *)
(*                                                                         *)
(* The model is honest about what it sees: an answer holds the moments of     *)
(* the chunk, but writes their times in any of four ways and labels the       *)
(* athletes as it likes.  Which track is taken for whom, what it says about   *)
(* identity and which cuts fail is open.                                      *)
(***************************************************************************)
EXTENDS ReelAssembly, AthleteClusters

CONSTANTS
    Films,         \* the sessions: see FilmType for what a film is
    MaxReedits     \* times a reel is judged and cut again: settings.QA_MAX_RETRIES

\* surf or not; one long video or clips; and for each clip its length, the moments in
\* it, its tracks, what its athletes look like and the labels its chunks may give them.
FilmType(film) ==
    /\ film.surf \in BOOLEAN /\ film.long \in BOOLEAN
    /\ film.long => Len(film.clips) = 1
    /\ \A clip \in Range(film.clips) :
        /\ clip.length \in Nat
        /\ \A m \in clip.moments : m.from \in Nat /\ m.to \in Nat /\ Length(m) >= MinEvent
        /\ DOMAIN clip.labels = 0 .. (Chunks(clip.length) - 1)

ASSUME FilmsAssumption ==
    /\ MaxReedits \in Nat
    /\ \A film \in Films : FilmType(film)

VARIABLES
    film,        \* what was shot
    asked,       \* per clip the chunks still to be answered
    events,      \* per clip the events found
    state,       \* per clip "analyse", "done" or "failed"
    entries,     \* the persons with events, once all clips are analysed
    stage,       \* "analyse", "group", "confirm", "cut", "judge", "over"
    clusters,    \* what the stage goes through, one by one
    settled,     \* clusters confirmed, or cut
    reels,       \* what was compiled
    edits        \* how often the last reel was cut again

found == <<film, asked, events, state, entries>>
vars == <<found, stage, clusters, settled, reels, edits>>

Clip(c) == film.clips[c]
AllClips == DOMAIN film.clips
Done == {c \in AllClips : state[c] = "done"}

Init ==
    /\ film \in Films
    /\ asked = [c \in AllClips |-> 0 .. (Chunks(Clip(c).length) - 1)]
    /\ events = [c \in AllClips |-> {}]
    /\ state = [c \in AllClips |-> "analyse"]
    /\ entries = {}
    /\ stage = "analyse"
    /\ clusters = <<>> /\ settled = <<>> /\ reels = {} /\ edits = 0

-----------------------------------------------------------------------------
(* Analysis of a clip. *)

\* 7:39 written as 7.39.
Written(v) == 100 * (v \div Sec(60)) + (v % Sec(60)) \div 100

\* The ways to write a time of a chunk: its own seconds or those of the source, plain
\* or as MM.SS.
Notations == [own : BOOLEAN, plain : BOOLEAN]
WriteTime(v, chunk, notation) ==
    LET seconds == IF notation.own THEN v - chunk.from ELSE v
    IN  IF notation.plain THEN seconds ELSE Written(seconds)

WriteWindow(w, chunk, notation) ==
    [w EXCEPT !.from = WriteTime(@, chunk, notation), !.to = WriteTime(@, chunk, notation)]

\* What an honest answer about a chunk says of moment m.
Told(c, m, chunk, notation, labels) ==
    LET within(w) == [w EXCEPT !.from = Greater(@, chunk.from), !.to = Lesser(@, chunk.to)]
        window == WriteWindow(within([from |-> m.from, to |-> m.to]), chunk, notation)
        usable == {w \in m.focus : Within(w, [from |-> chunk.from, to |-> chunk.to])}
    IN  [clip |-> c, who |-> <<0, labels[m.who]>>, look |-> Clip(c).looks[m.who], n |-> m.from,
         from |-> window.from, to |-> window.to,
         score |-> m.score, precise |-> m.precise, failed |-> m.failed,
         ev |-> m.ev, social |-> m.social, focus |-> {WriteWindow(w, chunk, notation) : w \in usable},
         full |-> FALSE,
         refined |-> FALSE, track |-> 0, seen |-> {}, tail |-> 0, moments |-> {m}]

\* The part of a moment that is in the chunk is told if it is as long as the model was
\* asked for.
Answer(c, i, notation, labels) ==
    LET chunk == Chunk(Clip(c).length, Chunks(Clip(c).length), i)
        told == {m \in Clip(c).moments :
                    Overlap(m, [from |-> chunk.from, to |-> chunk.to]) >= MinEvent}
    IN  {Told(c, m, chunk, notation, labels) : m \in told}

\* A chunk is answered, or its answer is no JSON and counts as empty.
Answers(c, i) ==
    {[read |-> TRUE, told |-> Answer(c, i, notation, labels)] :
        notation \in Notations, labels \in Clip(c).labels[i]} \cup {[read |-> FALSE, told |-> {}]}

Hear(c, i, answer) ==
    /\ stage = "analyse" /\ state[c] = "analyse" /\ i \in asked[c]
    /\ asked' = [asked EXCEPT ![c] = @ \ {i}]
    /\ events' = [events EXCEPT ![c] = @ \cup Heard(answer.told, Clip(c).length, i, film.surf)]
    /\ UNCHANGED <<film, state, entries, stage, clusters, settled, reels, edits>>

Analyse(c, i) == \E answer \in Answers(c, i) : Hear(c, i, answer)

\* The model, the upload or the tracker fails for good: the clip waits for another run.
AnalysisFails(c) ==
    /\ stage = "analyse" /\ state[c] = "analyse"
    /\ state' = [state EXCEPT ![c] = "failed"]
    /\ events' = [events EXCEPT ![c] = {}]
    /\ UNCHANGED <<film, asked, entries, stage, clusters, settled, reels, edits>>

People(es) == {<<e.clip, e.who, e.look>> : e \in es}

\* The events of a clip are bound to tracks; an event without one is dropped, and a clip
\* of such events fails.  Then the thumbnails are made, or none can be.
Enrich(c) ==
    /\ stage = "analyse" /\ state[c] = "analyse" /\ asked[c] = {}
    /\ \E binding \in Bindings(events[c], Clip(c).tracks), thumb \in BOOLEAN :
        /\ DOMAIN binding # {} \/ events[c] = {}
        /\ events' = [events EXCEPT ![c] = Seen(binding, Clip(c).tracks)]
        /\ entries' = entries \cup
            {[clip |-> p[1], who |-> p[2], look |-> p[3], thumb |-> thumb] : p \in People(events'[c])}
    /\ state' = [state EXCEPT ![c] = "done"]
    /\ UNCHANGED <<film, asked, stage, clusters, settled, reels, edits>>

-----------------------------------------------------------------------------
(* Grouping the persons into athletes. *)

AllAnalysed ==
    /\ stage = "analyse" /\ \A c \in AllClips : state[c] # "analyse"
    /\ stage' = IF entries = {} THEN "over" ELSE "group"
    /\ UNCHANGED <<found, clusters, settled, reels, edits>>

\* The answers about identity: up to two groups of any persons, sure or not, each
\* described as one of those in it.
Groups ==
    UNION {[keys : {{<<e.clip, e.who>> : e \in es}}, sure : BOOLEAN, look : {e.look : e \in es}] :
               es \in SUBSET entries \ {{}}}
Groupings == {<<g>> : g \in Groups} \cup {<<g, h>> : g \in Groups, h \in {k \in Groups : k.sure}}

To(next, cs) == stage' = next /\ clusters' = cs

\* A long video, or a single clip, has an athlete for each person.
GroupNobody ==
    /\ stage = "group" /\ Cardinality(Done) = 1
    /\ To("cut", Singles(entries))
    /\ UNCHANGED <<found, settled, reels, edits>>

\* The model is asked, with thumbnails and without.
GroupByModel ==
    /\ stage = "group" /\ Cardinality(Done) > 1
    /\ \E answer \in Groupings :
        To("confirm", BeforeVerifying(Build(answer, entries), entries))
    /\ UNCHANGED <<found, settled, reels, edits>>

\* It fails, and the pictures are compared.
GroupByPictures ==
    /\ stage = "group" /\ Cardinality(Done) > 1
    /\ \E cs \in Pairings(entries) : To("confirm", BeforeVerifying(cs, entries))
    /\ UNCHANGED <<found, settled, reels, edits>>

\* That fails too.
GroupFallback ==
    /\ stage = "group" /\ Cardinality(Done) > 1
    /\ To("cut", Singles(entries))
    /\ UNCHANGED <<found, settled, reels, edits>>

ConfirmCluster ==
    /\ stage = "confirm" /\ clusters # <<>>
    /\ \E wrong \in SUBSET Head(clusters).apps, same \in BOOLEAN :
        settled' = settled \o Confirm(Head(clusters), [wrong |-> wrong, same |-> same])
    /\ To(stage, Tail(clusters))
    /\ UNCHANGED <<found, reels, edits>>

AllConfirmed ==
    /\ stage = "confirm" /\ clusters = <<>>
    /\ To("cut", AfterVerifying(settled))
    /\ settled' = <<>>
    /\ UNCHANGED <<found, reels, edits>>

-----------------------------------------------------------------------------
(* Cutting the reels, one cluster after the other. *)

OfEntry(e) == {k \in events[e.clip] : k.who = e.who}

\* The events a reel is compiled from: those of its cluster, for a long video only
\* the ones that show one athlete who can be followed.
Material(c) ==
    LET es == UNION {OfEntry(e) : e \in c.apps}
    IN  IF film.long THEN Prepared(es, Clip(1).tracks) ELSE es

\* What is cut for a reel from these events; a long video has no guard for rides.
Timeline(es) ==
    LET of(c) == {e \in es : e.clip = c}
        whole(c) == IF film.surf THEN Rides(of(c)) ELSE of(c)
        chosen(c) == IF film.long THEN Sanitized(whole(c), Clip(c).length)
                     ELSE Chosen(of(c), Clip(c).length, film.surf)
        parts == Part(UNION {chosen(c) : c \in AllClips})
    IN  UNION {Cut(e, Clip(e.clip).length) : e \in parts}

\* The file of a reel: of a person of a long video it is set aside at once, otherwise the
\* first clip and the description name it.
FileOf(c, es) ==
    IF film.long THEN <<1, c.apps>>
    ELSE <<Min({e.clip : e \in es}), c.look>>

Reel(c, es, shown) ==
    [file |-> FileOf(c, es), apps |-> c.apps, shown |-> shown, whole |-> shown = Timeline(es),
     gate |-> IdentityGate(c, [e \in c.apps |-> {k.track : k \in OfEntry(e)}])]

\* A reel of which a cut fails the gates is drafted as QA-FLAGGED.
Flagged(r) == \E e \in r.shown : SubjectBlocked(e, Clip(e.clip).tracks)

\* A reel of the same file is lost.
Put(reel) == {r \in reels : r.file # reel.file} \cup {reel}

\* Each cut may fail, and so may putting them together.
Compile ==
    /\ stage = "cut" /\ clusters # <<>>
    /\ settled' = Append(settled, Head(clusters))
    /\ edits' = 0
    /\ \/ \E shown \in SUBSET Timeline(Material(Head(clusters))) \ {{}} :
            /\ reels' = Put(Reel(Head(clusters), Material(Head(clusters)), shown))
            /\ stage' = "judge"
       \/ reels' = reels /\ stage' = "cut"
    /\ clusters' = Tail(clusters)
    /\ UNCHANGED found

Judged == CHOOSE r \in reels : r.apps = Last(settled).apps

\* The reel is good enough, or cannot be made better.
Accept ==
    /\ stage = "judge"
    /\ To("cut", clusters)
    /\ UNCHANGED <<found, settled, reels, edits>>

\* It has defects that can be cut away, or a cut ends early.  A cut that fails now is missing
\* from the reel; if nothing is compiled the one before stays.
Reedit ==
    /\ stage = "judge" /\ edits < MaxReedits
    /\ \E dropped \in SUBSET Judged.shown \ {Judged.shown}, longer \in SUBSET Judged.shown :
        LET again == Reedited(Judged.shown, dropped, longer)
        IN  /\ {[e EXCEPT !.to = Lesser(@, Clip(e.clip).length)] : e \in again} # Judged.shown
            /\ \E shown \in SUBSET Timeline(again) \ {{}} :
                reels' = Put([Reel(Last(settled), again, shown) EXCEPT !.whole = FALSE])
                             \ (IF FileOf(Last(settled), again) = Judged.file THEN {} ELSE {Judged})
    /\ edits' = edits + 1
    /\ UNCHANGED <<found, stage, clusters, settled>>

Finish ==
    /\ stage = "cut" /\ clusters = <<>>
    /\ stage' = "over"
    /\ UNCHANGED <<found, clusters, settled, reels, edits>>

AfterAnswers ==
    \/ \E c \in AllClips : AnalysisFails(c) \/ Enrich(c)
    \/ AllAnalysed
    \/ GroupNobody \/ GroupByModel \/ GroupByPictures \/ GroupFallback
    \/ ConfirmCluster \/ AllConfirmed
    \/ Compile \/ Accept \/ Reedit \/ Finish

Next ==
    \/ \E c \in AllClips : \E i \in asked[c] : Analyse(c, i)
    \/ AfterAnswers

Spec == Init /\ [][Next]_vars

-----------------------------------------------------------------------------
(* Properties. *)

\* Whatever the notation and the labels of the answers, the padding, the cutting down to
\* a track and the chunk it came from, an event lies in the moment of the film it was
\* told of, but for a second at its end, is described as the athlete of that moment, and
\* the events of one person are of one athlete.
AnswersKeepMeaning ==
    \A c \in AllClips : \A e \in events[c] :
        /\ \A m \in e.moments :
            /\ m.from <= e.from /\ e.to <= m.to + Sec(1)
            /\ e.look = Clip(c).looks[m.who]
        /\ \A k \in events[c] : e.who = k.who =>
            \A m \in e.moments, l \in k.moments : m.who = l.who

\* Once the reels are cut every person with events is in exactly one cluster, whatever the
\* model, the verifier and the fallbacks answered, and no cluster has two persons of one
\* clip or two numbers.
OneClusterEach ==
    LET all == settled \o clusters
    IN  stage \in {"cut", "judge"} =>
        /\ Members(all) = entries
        /\ \A i, j \in DOMAIN all : i # j => all[i].apps \cap all[j].apps = {}
        /\ \A i \in DOMAIN all : ~Impossible(all[i].apps)
        /\ UNION {OfEntry(e) : e \in entries} = UNION {events[c] : c \in AllClips}

\* The cuts of a reel lie in their clips, show the athlete's track, and do not repeat one
\* another; and unless a cut failed or was edited out, an event of the athlete that is not
\* shown repeats one that is.
ReelsAreWhole ==
    \A r \in reels :
        /\ \A e \in r.shown :
            /\ 0 <= e.from /\ e.to <= Clip(e.clip).length /\ Length(e) >= MinUsable
            /\ \E t \in InView(e, Clip(e.clip).tracks) : t.id = e.track
            /\ \A k \in r.shown : e.clip = k.clip /\ SameShot(e, k) => e = k
        /\ r.whole => \A e \in Material(r) : \E k \in r.shown :
            e.clip = k.clip /\ (SameShot(e, k) \/ Within(e, k))

\* In a reel that is not flagged each cut either was told with all the evidence that its
\* athlete is the centre, or is of a moment meant to show several, or was checked by the
\* tracker, or shows nobody else from its first second to its last: although one gate reads
\* what was noted before the cut was narrowed or made longer, and the other one only a
\* part of the cut (multi_person_clip_gate.py, subject_gate_policy.py).
AttributedOrAlone ==
    LET attributed(e) ==
            \/ \A t \in InView(e, Clip(e.clip).tracks) : t.id = e.track
            \/ \E m \in e.moments : m.social \/ Centered(m.ev)
            \/ Validated(e.ev, {Continuity(e, Clip(e.clip).tracks)})
    IN  \A r \in reels : (\A e \in r.shown : attributed(e)) \/ Flagged(r)
=============================================================================
