----------------------- MODULE ReelPublicationProofs -----------------------
(***************************************************************************)
(* What holds in every run of ReelPublication, for every job whose people   *)
(* are told apart (Apart, which Spec /\ Apart => ... takes as a hypothesis  *)
(* on the job): different athletes have different descriptions, and an      *)
(* athlete comes once in a compile call.                                    *)
(*                                                                         *)
(* The argument follows a reel.  Its path lies in its athlete's own paths   *)
(* and in no other's (PathsOf), so its part, its draft and the object under *)
(* the draft's name are its own: Own(k) is the part of draft k, the only    *)
(* one its path leads to (SoleOwner).  The file at each of these places is  *)
(* the one the part was graded on (FileFits), and the draft's record, once  *)
(* persisted, says of it what the manifest says (RecordFits).               *)
(*                                                                         *)
(* The workflow job of TrackedRun takes the same steps (JobRuns), so all of *)
(* it holds there too; what the job tells needs an invariant of its own     *)
(* (TellingFits), and what a green job promises one of the steps between    *)
(* the gate and the verification of the tasks (PassFits).                   *)
(***************************************************************************)
EXTENDS TrackedRun, SequenceTheorems, FiniteSetTheorems, TLAPS

----------------------------------------------------------------------------
(* Sequences. *)

IsSeq(s) == s \in Seq(ToSet(s))

LEMMA SeqFacts ==
    ASSUME NEW s, IsSeq(s)
    PROVE  /\ Len(s) \in Nat /\ DOMAIN s = 1..Len(s)
           /\ ToSet(s) = {s[i] : i \in 1..Len(s)}
           /\ s # <<>> => Len(s) > 0
           /\ s = <<>> => ToSet(s) = {}
  BY EmptySeq DEF IsSeq, ToSet

LEMMA SeqFrom ==
    ASSUME NEW S, NEW s \in Seq(S)
    PROVE  IsSeq(s) /\ ToSet(s) \subseteq S
<1>1. Len(s) \in Nat /\ s \in [1..Len(s) -> S] /\ DOMAIN s = 1..Len(s)
  OBVIOUS
<1>2. s \in [1..Len(s) -> ToSet(s)]
  BY <1>1 DEF ToSet
<1>3. s \in Seq(ToSet(s))
  BY <1>1, <1>2, SeqDef
<1> QED
  BY <1>1, <1>3 DEF IsSeq, ToSet

LEMMA FunctionIsSeq ==
    ASSUME NEW n \in Nat, NEW S, NEW f \in [1..n -> S]
    PROVE  f \in Seq(S) /\ Len(f) = n
<1>1. f \in Seq(S)
  BY SeqDef
<1> QED
  BY <1>1, LenProperties

LEMMA AppendFacts ==
    ASSUME NEW s, IsSeq(s), NEW e
    PROVE  LET t == Append(s, e)
           IN  /\ IsSeq(t) /\ Len(t) = Len(s) + 1
               /\ \A i \in 1..Len(s) : t[i] = s[i]
               /\ t[Len(s) + 1] = e
               /\ ToSet(t) = ToSet(s) \cup {e}
<1> DEFINE t == Append(s, e)
           S == ToSet(s) \cup {e}
<1>1. s \in Seq(S) /\ Len(s) \in Nat /\ DOMAIN s = 1..Len(s)
  BY SeqFacts DEF IsSeq
<1>2. t \in Seq(S) /\ Len(t) = Len(s) + 1 /\ t[Len(s) + 1] = e /\ DOMAIN t = 1..(Len(s) + 1)
  BY <1>1
<1>3. \A i \in 1..Len(s) : t[i] = s[i]
  BY <1>1
<1>4. IsSeq(t)
  BY <1>2, SeqFrom
<1>5. ToSet(t) = ToSet(s) \cup {e}
  <2>1. ASSUME NEW x \in ToSet(t) PROVE x \in ToSet(s) \cup {e}
    BY <2>1, <1>2, SeqFrom
  <2>2. ASSUME NEW x \in ToSet(s) PROVE x \in ToSet(t)
    BY <1>1, <1>2, <1>3 DEF ToSet
  <2>3. e \in ToSet(t)
    BY <1>1, <1>2 DEF ToSet
  <2> QED
    BY <2>1, <2>2, <2>3
<1> QED
  BY <1>2, <1>3, <1>4, <1>5

NoRepeats(s) == \A i, j \in 1..Len(s) : s[i] = s[j] => i = j

LEMMA TailFacts ==
    ASSUME NEW s, IsSeq(s), s # <<>>
    PROVE  /\ IsSeq(Tail(s)) /\ Head(s) = s[1] /\ Head(s) \in ToSet(s)
           /\ Len(Tail(s)) = Len(s) - 1
           /\ \A i \in 1..Len(Tail(s)) : Tail(s)[i] = s[i + 1]
           /\ ToSet(Tail(s)) \subseteq ToSet(s)
           /\ NoRepeats(s) => NoRepeats(Tail(s)) /\ Head(s) \notin ToSet(Tail(s))
<1>1. s \in Seq(ToSet(s)) /\ Len(s) \in Nat /\ Len(s) > 0
  BY SeqFacts DEF IsSeq
<1>2. /\ Tail(s) \in Seq(ToSet(s)) /\ Head(s) = s[1] /\ Head(s) \in ToSet(s)
      /\ Len(Tail(s)) = Len(s) - 1
      /\ \A i \in 1..Len(Tail(s)) : Tail(s)[i] = s[i + 1]
  BY <1>1, HeadTailProperties
<1>3. IsSeq(Tail(s)) /\ ToSet(Tail(s)) \subseteq ToSet(s)
  BY <1>2, SeqFrom
<1>4. ToSet(Tail(s)) = {Tail(s)[i] : i \in 1..Len(Tail(s))}
  BY <1>3, SeqFacts
<1>5. ASSUME NoRepeats(s) PROVE NoRepeats(Tail(s)) /\ Head(s) \notin ToSet(Tail(s))
  BY <1>1, <1>2, <1>4, <1>5 DEF NoRepeats
<1> QED
  BY <1>2, <1>3, <1>5

LEMMA RemoveFacts ==
    ASSUME NEW s, IsSeq(s), NEW j \in 1..Len(s)
    PROVE  LET t == RemoveAt(s, j)
           IN  /\ IsSeq(t) /\ ToSet(t) \subseteq ToSet(s)
               /\ NoRepeats(s) => NoRepeats(t) /\ s[j] \notin ToSet(t)
<1> DEFINE S == ToSet(s)
           a == SubSeq(s, 1, j - 1)
           b == SubSeq(s, j + 1, Len(s))
           t == a \o b
<1>1. s \in Seq(S) /\ Len(s) \in Nat /\ \A i \in 1..Len(s) : s[i] \in S
  BY SeqFacts DEF IsSeq
<1>2. a \in Seq(S) /\ Len(a) = j - 1 /\ \A i \in 1..(j - 1) : a[i] = s[i]
  BY <1>1, SubSeqProperties
<1>3. b \in Seq(S) /\ Len(b) = Len(s) - j /\ \A i \in 1..(Len(s) - j) : b[i] = s[j + i]
  BY <1>1, SubSeqProperties
<1>4. /\ t \in Seq(S) /\ Len(t) = Len(s) - 1
      /\ \A i \in 1..(Len(s) - 1) : t[i] = IF i < j THEN s[i] ELSE s[i + 1]
  <2>1. /\ t \in Seq(S) /\ Len(t) = Len(a) + Len(b)
        /\ \A i \in 1..Len(a) + Len(b) : t[i] = IF i <= Len(a) THEN a[i] ELSE b[i - Len(a)]
    BY <1>2, <1>3, ConcatProperties
  <2> HIDE DEF a, b, t
  <2>2. Len(a) + Len(b) = Len(s) - 1
    BY <1>1, <1>2, <1>3
  <2>3. \A i \in 1..(Len(s) - 1) : t[i] = IF i <= j - 1 THEN a[i] ELSE b[i - (j - 1)]
    BY <2>1, <2>2, <1>2
  <2>4. ASSUME NEW i \in 1..(Len(s) - 1), i < j PROVE t[i] = s[i]
    <3>1. i \in 1..(j - 1) /\ i <= j - 1
      BY <2>4, <1>1
    <3> QED
      BY <3>1, <2>3, <1>2
  <2>5. ASSUME NEW i \in 1..(Len(s) - 1), ~(i < j) PROVE t[i] = s[i + 1]
    <3>1. i - (j - 1) \in 1..(Len(s) - j) /\ j + (i - (j - 1)) = i + 1 /\ ~(i <= j - 1)
      BY <2>5, <1>1
    <3> QED
      BY <3>1, <2>3, <1>3
  <2> QED
    BY <2>1, <2>2, <2>4, <2>5
<1> HIDE DEF t
<1>5. IsSeq(t) /\ ToSet(t) \subseteq S
  BY <1>4, SeqFrom
<1>6. ToSet(t) = {t[i] : i \in 1..Len(t)}
  BY <1>5, SeqFacts
<1>7. ASSUME NoRepeats(s) PROVE NoRepeats(t) /\ s[j] \notin ToSet(t)
  <2>1. NoRepeats(t)
    BY <1>1, <1>4, <1>7 DEF NoRepeats
  <2>2. ASSUME NEW i \in 1..Len(t), t[i] = s[j] PROVE FALSE
    BY <1>1, <1>4, <1>7, <2>2 DEF NoRepeats
  <2> QED
    BY <1>6, <2>1, <2>2
<1> QED
  BY <1>5, <1>7 DEF RemoveAt, t

----------------------------------------------------------------------------
(* The inductive invariant. *)

\* People are told apart by their descriptions, calls of a long video by their
\* source, which is the only source such a reel has.
Apart ==
    /\ \A i, j \in People : Person(i).label = Person(j).label => Person(i).id = Person(j).id
    /\ \A i, j \in People :
         i # j /\ Person(i).id = Person(j).id => ~Clips /\ Person(i).src # Person(j).src
    /\ ~Clips => \A i \in People : Person(i).srcs = {Person(i).src}

\* The paths a person's reels may have; where a draft's reel was rendered; the
\* part of a draft.
PathsOf(i) ==
    [dir : {Work}, label : {IF Clips THEN Person(i).label ELSE None},
     src : {Person(i).src} \cup Person(i).srcs, part : Nat, copy : {0}]

Origin(p) == [p EXCEPT !.dir = Work, !.copy = 0]
Own(k) == <<Person(pending[k].who).id, Origin(pending[k].path)>>
\* Parts and drafts are the records they are; who has come past its gate.
IsPart(part) ==
    part = [aliases |-> part.aliases, specs |-> part.specs, recorded |-> part.recorded,
            qa |-> part.qa, uploaded |-> part.uploaded, failed |-> part.failed,
            name |-> part.name, persisted |-> part.persisted, lost |-> part.lost]
IsItem(item) ==
    item = [who |-> item.who, path |-> item.path, name |-> item.name, qaFlag |-> item.qaFlag,
            sub |-> item.sub, phase |-> item.phase, record |-> item.record]
Shapes ==
    /\ job \in Jobs /\ who \in People
    /\ IsSeq(final) /\ IsSeq(todo) /\ IsSeq(pending)
    /\ \A x \in DOMAIN parts : IsPart(parts[x])
    /\ \A k \in 1..Len(pending) : IsItem(pending[k])

Settled(i) == i < who \/ (i = who /\ pc \notin {"render", "gate", "check", "judge"})
\* A file that belongs to a part: it shows the part's athlete, and it is what
\* the part was graded on.
FileFits(f, x) ==
    /\ f.by \in People /\ Person(f.by).id = x[1]
    /\ QaOk(parts[x]) /\ parts[x].specs => f \in passed /\ f.clean

\* Every part is a reel of a person who is past its gate.
PartsAreKnown ==
    /\ \A x \in DOMAIN parts : \E i \in People :
         Settled(i) /\ x = <<Person(i).id, x[2]>> /\ x[2] \in PathsOf(i)
    /\ \A id \in DOMAIN rows : \E i \in People :
         Person(i).id = id /\ rows[id].label = Person(i).label

\* An alias is the copy some draft of this part uploads.
AliasesAreCopies ==
    \A x \in DOMAIN parts : \A a \in parts[x].aliases :
        /\ ~Clips
        /\ a.copy \in 1..Len(pending)
        /\ pending[a.copy].path = a /\ Own(a.copy) = x

\* A draft uploads a reel of its own part.
ItemsAreOwned ==
    \A k \in 1..Len(pending) :
        LET p == pending[k].path
        IN  /\ pending[k].who \in People /\ Settled(pending[k].who)
            /\ Origin(p) \in PathsOf(pending[k].who)
            /\ Own(k) \in DOMAIN parts
            /\ IF Clips THEN p = Origin(p)
                        ELSE /\ p = [Origin(p) EXCEPT !.dir = "staged", !.copy = k]
                             /\ p \in parts[Own(k)].aliases

\* No two drafts share a part or a name.
ItemsDiffer ==
    /\ \A k, l \in 1..Len(pending) :
         k # l => Own(k) # Own(l) /\ pending[k].name # pending[l].name
    /\ \A k \in 1..Len(pending) : pending[k].name \in used
    /\ NoName \notin used /\ IsFiniteSet(used)

\* In the gate, the reels and their files are the person's own.
ReelsAreOwn ==
    pc \in {"gate", "check", "judge"} =>
        /\ NoRepeats(final)
        /\ \A p \in ToSet(final) :
             p \in PathsOf(who) /\ (p \in DOMAIN files => files[p].by = who)

\* A PASS recorded for a path is of the file that is there now, unless that
\* file was left behind out of order.
GradesAreTrue ==
    pc \in {"check", "judge"} =>
        \A p \in DOMAIN graded \cap DOMAIN files :
            graded[p] = "PASS" /\ files[p].clean => files[p] \in passed

\* Reels that wait for a name have parts, which no draft has yet.
NamingFits ==
    pc = "name" =>
        /\ NoRepeats(todo)
        /\ \A p \in ToSet(todo) :
             LET x == <<Person(who).id, p>>
             IN  /\ p \in PathsOf(who)
                 /\ x \in DOMAIN parts
                 /\ \A k \in 1..Len(pending) : Own(k) # x
                 /\ p \in DOMAIN files => FileFits(files[p], x)

\* The file a draft is going to upload, and the object it has uploaded.
WaitingFits ==
    \A k \in 1..Len(pending) :
        pending[k].phase = "wait" /\ pending[k].path \in DOMAIN files =>
            FileFits(files[pending[k].path], Own(k))

ReviewFits ==
    \A k \in 1..Len(pending) :
        pending[k].phase \in {"put", "marked", "saved", "done"} =>
            pending[k].name \in DOMAIN review /\ FileFits(review[pending[k].name], Own(k))

\* A part no draft has been marked on.
Blank(part) == part.name = NoName /\ ~part.persisted /\ ~part.lost

MarkedPhases == {"marked", "saved", "done"}
PartsHaveItems ==
    \A x \in DOMAIN parts :
        Blank(parts[x]) \/ \E k \in 1..Len(pending) : Own(k) = x /\ pending[k].phase \in MarkedPhases

\* The record of a marked draft and its part say the same, as long as the
\* record is on its way and once it is confirmed.
RecordFits(item, x, part, names) ==
    /\ part.name = item.name
    /\ item.record.id = x[1]
    /\ item.record.publishable => QaOk(part) /\ part.specs
    /\ item.phase = "marked" => ~part.persisted /\ ~part.lost
    /\ part.persisted => item.name \in names
    /\ item.phase = "marked" \/ part.persisted =>
         (item.record.publishable <=> IntendedPublishable(part))

RecordsFit ==
    \A k \in 1..Len(pending) : pending[k].phase \in MarkedPhases =>
        RecordFits(pending[k], Own(k), parts[Own(k)], DOMAIN authority)

\* Every authority row is the record of a draft of this run.
AuthorityFits ==
    \A name \in DOMAIN authority : \E k \in 1..Len(pending) :
        /\ pending[k].name = name /\ pending[k].phase \in {"saved", "done"}
        /\ authority[name] = pending[k].record

\* The run ended as its gate says.
OutcomeFits ==
    outcome \in {"complete", "partial"} =>
        /\ pc = "done" /\ GatePasses
        /\ outcome = "complete" <=> ~Gaps

Good ==
    /\ Shapes /\ PartsAreKnown /\ AliasesAreCopies /\ ItemsAreOwned /\ ItemsDiffer
    /\ ReelsAreOwn /\ GradesAreTrue /\ NamingFits /\ WaitingFits /\ ReviewFits
    /\ PartsHaveItems /\ RecordsFit /\ AuthorityFits /\ OutcomeFits

----------------------------------------------------------------------------
(* What an action leaves alone keeps its part of the invariant. *)

LEMMA PeopleFacts ==
    ASSUME Shapes
    PROVE  /\ Len(job.people) \in Nat /\ People = 1..Len(job.people)
           /\ who \in Nat /\ who >= 1 /\ who <= Len(job.people)
           /\ Person(who).parts \in Nat
  BY JobsAssumption DEF Shapes, People, Person

LEMMA PathInPaths ==
    ASSUME NEW i, NEW src \in {Person(i).src} \cup Person(i).srcs, NEW n \in Nat
    PROVE  PathOf(i, src, n) \in PathsOf(i)
  BY DEF PathOf, PathsOf

\* Drafts, parts and the published objects stay as they are.
LEMMA Upstream ==
    ASSUME Good, job' = job, pending' = pending, parts' = parts, rows' = rows, used' = used,
           review' = review, authority' = authority, passed \subseteq passed',
           \A i \in People : Settled(i) => Settled(i)'
    PROVE  /\ PartsAreKnown' /\ AliasesAreCopies' /\ ItemsAreOwned' /\ ItemsDiffer'
           /\ ReviewFits' /\ PartsHaveItems' /\ RecordsFit' /\ AuthorityFits'
<1> USE DEF Good
<1>1. PartsAreKnown'
  BY DEF PartsAreKnown, People, Person, PathsOf, Clips
<1>2. AliasesAreCopies'
  BY DEF AliasesAreCopies, Own, Origin, Person, Clips
<1>3. ItemsAreOwned'
  BY DEF ItemsAreOwned, Own, Origin, Person, Clips, PathsOf, People
<1>4. ItemsDiffer'
  <2>1. \A k \in 1..Len(pending) : Own(k)' = Own(k)
    BY DEF Own, Person
  <2> QED
    BY <2>1 DEF ItemsDiffer
<1>5. ReviewFits'
  BY DEF ReviewFits, Own, Origin, Person, FileFits, People
<1>6. PartsHaveItems'
  BY DEF PartsHaveItems, Own, Origin, Person
<1>7. RecordsFit'
  BY DEF RecordsFit, Own, Origin, Person
<1>8. AuthorityFits'
  BY DEF AuthorityFits
<1> QED
  BY <1>1, <1>2, <1>3, <1>4, <1>5, <1>6, <1>7, <1>8

\* Renders and re-edits of a person write to its own paths.
LEMMA WaitingStays ==
    ASSUME Apart, Good, job' = job, pending' = pending, parts' = parts, passed \subseteq passed',
           pc \in {"render", "gate", "check", "judge"},
           \A p \in DOMAIN files' :
               (p \in DOMAIN files /\ files'[p] = files[p]) \/ p \in PathsOf(who)
    PROVE  WaitingFits'
<1> SUFFICES ASSUME NEW k \in 1..Len(pending), pending[k].phase = "wait",
                    pending[k].path \in DOMAIN files'
             PROVE  FileFits(files[pending[k].path], Own(k))'
  BY DEF WaitingFits
<1> DEFINE p == pending[k].path
           w == pending[k].who
<1>1. /\ w \in People /\ Settled(w) /\ Origin(p) \in PathsOf(w)
      /\ IF Clips THEN p = Origin(p) ELSE p = [Origin(p) EXCEPT !.dir = "staged", !.copy = k]
  BY DEF Good, ItemsAreOwned
<1>2. w # who /\ who \in People
  BY <1>1, PeopleFacts DEF Settled, Good, Shapes
<1>3. p \notin PathsOf(who)
  <2>1. CASE Clips
    <3>1. Person(w).label # Person(who).label
      BY <1>1, <1>2, <2>1 DEF Apart
    <3>2. p.label = Person(w).label
      BY <1>1, <2>1 DEF PathsOf
    <3> QED
      BY <3>1, <3>2, <2>1 DEF PathsOf
  <2>2. CASE ~Clips
    <3>1. p.dir = "staged"
      BY <1>1, <2>2 DEF PathsOf
    <3> QED
      BY <3>1 DEF PathsOf, Work
  <2> QED
    BY <2>1, <2>2
<1>4. p \in DOMAIN files /\ files'[p] = files[p] /\ FileFits(files[p], Own(k))
  BY <1>3 DEF Good, WaitingFits
<1>5. Own(k)' = Own(k)
  BY DEF Own, Person
<1> QED
  BY <1>4, <1>5 DEF FileFits, Person, People

LEMMA OutcomeStays ==
    ASSUME Good, pc # "done", outcome' = outcome \/ outcome' \notin {"complete", "partial"}
    PROVE  OutcomeFits'
  BY DEF Good, OutcomeFits

----------------------------------------------------------------------------
(* Rendering and the QA loop. *)


\* One lemma per action, from the render on.
LEMMA RenderKeeps ==
    ASSUME Apart, Good, Render
    PROVE  Good'
<1> DEFINE count == Person(who).parts
           Path(m) == PathOf(who, Person(who).src, IF count = 1 THEN 0 ELSE m)
<1>0. Shapes /\ pc = "render" /\ pc' = "gate" /\ who' = who /\ job' = job
  BY DEF Good, Render
<1>1. who \in Nat /\ count \in Nat
  BY <1>0, PeopleFacts
<1>2. ASSUME NEW m \in 1..count PROVE Path(m) \in PathsOf(who)
  <2>1. (IF count = 1 THEN 0 ELSE m) \in Nat
    BY <1>1
  <2> QED
    BY <2>1, PathInPaths
<1>3. PICK out \in [1..count -> Renders], n \in 0..count :
      \E made \in [1..n -> 1..count] :
         /\ \A j, l \in 1..n : j < l => made[j] < made[l]
         /\ final' = [j \in 1..n |-> Path(made[j])]
         /\ files' = With(Without(files, {Path(k) : k \in 1..count}),
                [p \in {Path(made[j]) : j \in 1..n} |->
                    [by |-> who, run |-> run, ver |-> ver + PartNumber(p),
                     clean |-> out[PartNumber(p)] = "clean"]])
  BY DEF Render
<1>4. PICK made \in [1..n -> 1..count] :
         /\ \A j, l \in 1..n : j < l => made[j] < made[l]
         /\ final' = [j \in 1..n |-> Path(made[j])]
         /\ files' = With(Without(files, {Path(k) : k \in 1..count}),
                [p \in {Path(made[j]) : j \in 1..n} |->
                    [by |-> who, run |-> run, ver |-> ver + PartNumber(p),
                     clean |-> out[PartNumber(p)] = "clean"]])
  BY <1>3
<1> DEFINE New == {Path(made[j]) : j \in 1..n}
<1>5. New \subseteq PathsOf(who)
  BY <1>2
<1>6. final' \in Seq(New) /\ Len(final') = n
  <2>1. n \in Nat /\ final' \in [1..n -> New]
    BY <1>1, <1>4
  <2> QED
    BY <2>1, FunctionIsSeq
<1>7. IsSeq(final') /\ ToSet(final') \subseteq New
  BY <1>6, SeqFrom
<1>8. Shapes'
  BY <1>0, <1>7 DEF Shapes, Render, People, qaVars, manifest, draftVars
<1>9. \A p \in New : p \in DOMAIN files' /\ files'[p].by = who
  BY <1>4 DEF With
<1>10. NoRepeats(final')
  <2> SUFFICES ASSUME NEW i \in 1..n, NEW j \in 1..n, i < j, final'[i] = final'[j]
               PROVE  FALSE
    BY <1>1, <1>6 DEF NoRepeats
  <2>1. made[i] \in 1..count /\ made[j] \in 1..count /\ made[i] < made[j]
    BY <1>4
  <2>2. count # 1
    BY <2>1, <1>1
  <2>3. Path(made[i]).part = made[i] /\ Path(made[j]).part = made[j]
    BY <2>2 DEF PathOf
  <2>4. Path(made[i]) = Path(made[j])
    BY <1>4
  <2> QED
    BY <2>1, <2>3, <2>4, <1>1
<1>11. ReelsAreOwn'
  BY <1>0, <1>5, <1>7, <1>9, <1>10 DEF ReelsAreOwn, PathsOf, Person, Clips
<1>12. GradesAreTrue' /\ NamingFits'
  BY <1>0 DEF GradesAreTrue, NamingFits
<1>13. \A p \in DOMAIN files' : (p \in DOMAIN files /\ files'[p] = files[p]) \/ p \in PathsOf(who)
  BY <1>4, <1>5 DEF With, Without
<1>14. WaitingFits'
  BY <1>0, <1>13, WaitingStays DEF Render, manifest, draftVars
<1>15. OutcomeFits'
  BY <1>0, OutcomeStays DEF Render
<1>16. /\ PartsAreKnown' /\ AliasesAreCopies' /\ ItemsAreOwned' /\ ItemsDiffer'
       /\ ReviewFits' /\ PartsHaveItems' /\ RecordsFit' /\ AuthorityFits'
  BY <1>0, Upstream DEF Render, manifest, draftVars, published, Settled
<1> QED
  BY <1>8, <1>11, <1>12, <1>14, <1>15, <1>16 DEF Good

\* The run ends where it is.
LEMMA StopKeeps ==
    ASSUME Apart, Good, pc # "done", pc' = "done", outcome' \notin {"complete", "partial"},
           UNCHANGED <<job, run, who, files, ver, scopes, unscoped, qaVars, gateVars, manifest,
                       draftVars, published, passed>>
    PROVE  Good'
<1>1. Shapes'
  BY DEF Good, Shapes, People, qaVars, gateVars, manifest, draftVars
<1>2. ReelsAreOwn' /\ GradesAreTrue' /\ NamingFits'
  BY DEF ReelsAreOwn, GradesAreTrue, NamingFits
<1>3. WaitingFits'
  BY DEF Good, WaitingFits, FileFits, Own, Origin, Person, People, manifest, draftVars
<1>4. OutcomeFits'
  BY OutcomeStays
<1>5. /\ PartsAreKnown' /\ AliasesAreCopies' /\ ItemsAreOwned' /\ ItemsDiffer'
      /\ ReviewFits' /\ PartsHaveItems' /\ RecordsFit' /\ AuthorityFits'
  BY Upstream DEF manifest, draftVars, published, Settled
<1> QED
  BY <1>1, <1>2, <1>3, <1>4, <1>5 DEF Good

LEMMA RenderRaisesKeeps ==
    ASSUME Apart, Good, RenderRaises
    PROVE  Good'
  BY StopKeeps DEF RenderRaises, Abort
\* Nothing but the step the run is at, its flags and its scopes changes.
LEMMA WaitKeeps ==
    ASSUME Apart, Good, {pc, pc'} \subseteq {"gate", "check", "judge"}, graded' = graded \/ graded' = <<>>,
           IsSeq(todo'),
           UNCHANGED <<job, run, who, files, final, manifest, draftVars, published, passed, outcome>>,
           pc = "gate" => graded' = <<>>
    PROVE  Good'
<1>1. Shapes'
  BY DEF Good, Shapes, People, manifest, draftVars
<1>2. ReelsAreOwn'
  BY DEF Good, ReelsAreOwn, PathsOf, Person, Clips
<1>3. GradesAreTrue'
  <2>1. CASE graded' = <<>>
    BY <2>1 DEF GradesAreTrue
  <2>2. CASE graded' # <<>>
    BY <2>2 DEF Good, GradesAreTrue
  <2> QED
    BY <2>1, <2>2
<1>4. NamingFits'
  BY DEF NamingFits
<1>5. WaitingFits'
  BY WaitingStays DEF manifest, draftVars
<1>6. OutcomeFits'
  BY OutcomeStays
<1>7. /\ PartsAreKnown' /\ AliasesAreCopies' /\ ItemsAreOwned' /\ ItemsDiffer'
      /\ ReviewFits' /\ PartsHaveItems' /\ RecordsFit' /\ AuthorityFits'
  BY Upstream DEF manifest, draftVars, published, Settled
<1> QED
  BY <1>1, <1>2, <1>3, <1>4, <1>5, <1>6, <1>7 DEF Good

\* On to the next person, or to the drafts of this call.
LEMMA NextKeeps ==
    ASSUME Apart, Good, pc # "done", NEW raised, NextPerson(raised), IsSeq(todo'),
           pc = "gate" \/ pc = "name",
           UNCHANGED <<job, run, files, final, manifest, draftVars, published, passed>>
    PROVE  Good'
<1>1. /\ pc' \in {"filter", "done", "render"} /\ who' \in People
      /\ outcome' = outcome \/ outcome' \notin {"complete", "partial"}
      /\ \A i \in People : Settled(i) => Settled(i)'
  <2>1. CASE LastOfCall(who)
    BY <2>1, PeopleFacts DEF NextPerson, Abort, Good, Settled, Shapes
  <2>2. CASE ~LastOfCall(who)
    <3>1. who # Len(job.people)
      BY <2>2 DEF LastOfCall
    <3> QED
      BY <2>2, <3>1, PeopleFacts DEF NextPerson, Good, Settled
  <2> QED
    BY <2>1, <2>2
<1>2. Shapes'
  BY <1>1 DEF Good, Shapes, People, manifest, draftVars
<1>3. ReelsAreOwn' /\ GradesAreTrue' /\ NamingFits'
  BY <1>1 DEF ReelsAreOwn, GradesAreTrue, NamingFits
<1>4. WaitingFits'
  BY DEF Good, WaitingFits, FileFits, Own, Origin, Person, People, manifest, draftVars
<1>5. OutcomeFits'
  BY <1>1, OutcomeStays
<1>6. /\ PartsAreKnown' /\ AliasesAreCopies' /\ ItemsAreOwned' /\ ItemsDiffer'
      /\ ReviewFits' /\ PartsHaveItems' /\ RecordsFit' /\ AuthorityFits'
  BY <1>1, Upstream DEF manifest, draftVars, published
<1> QED
  BY <1>2, <1>3, <1>4, <1>5, <1>6 DEF Good

LEMMA ActivateScopeKeeps ==
    ASSUME Apart, Good, ActivateScope
    PROVE  Good'
<1>1. IsSeq(final) /\ IsSeq(todo) /\ IsSeq(<<>>)
  BY EmptySeq DEF Good, Shapes, IsSeq
<1>2. CASE Waiting = {}
  BY <1>1, <1>2, NextKeeps DEF ActivateScope
<1>3. CASE Waiting # {}
  <2>1. IsSeq(todo')
    BY <1>1, <1>3 DEF ActivateScope
  <2>2. /\ pc = "gate" /\ pc' = "check" /\ graded' = <<>>
        /\ UNCHANGED <<job, run, who, files, final, manifest, draftVars, published, passed, outcome>>
    BY <1>3 DEF ActivateScope
  <2> QED
    BY <2>1, <2>2, WaitKeeps
<1> QED
  BY <1>2, <1>3

LEMMA AcceptKeeps ==
    ASSUME Apart, Good, Accept
    PROVE  Good'
<1>1. IsSeq(todo') /\ todo' = todo
  BY DEF Good, Shapes, Accept, qaVars
<1> QED
  BY <1>1, WaitKeeps DEF Accept

LEMMA AllNamedKeeps ==
    ASSUME Apart, Good, AllNamed
    PROVE  Good'
<1>1. IsSeq(todo')
  BY DEF Good, Shapes, AllNamed, qaVars
<1> QED
  BY <1>1, NextKeeps DEF AllNamed, gateVars

LEMMA CheckReelKeeps ==
    ASSUME Apart, Good, CheckReel
    PROVE  Good'
<1> DEFINE p == Head(todo)
<1>0. /\ pc = "check" /\ pc' = "judge" /\ todo # <<>> /\ todo' = Tail(todo)
      /\ UNCHANGED <<job, run, who, files, ver, scopes, unscoped, final, flagged, manifest, draftVars,
                     published, outcome>>
  BY DEF CheckReel
<1>1. PICK v \in Verdicts : Checked(p, files[p], v)
  BY DEF CheckReel
<1>2. IsSeq(todo')
  BY <1>0, TailFacts DEF Good, Shapes
<1>3. Shapes'
  BY <1>0, <1>2 DEF Good, Shapes, People, manifest, draftVars
<1>4. ReelsAreOwn'
  BY <1>0 DEF Good, ReelsAreOwn, PathsOf, Person, Clips
<1>5. passed \subseteq passed'
  BY <1>1 DEF Checked
<1>6. GradesAreTrue'
  <2> SUFFICES ASSUME NEW q \in DOMAIN graded', q \in DOMAIN files, graded'[q] = "PASS",
                      files[q].clean
               PROVE  files[q] \in passed'
    BY <1>0 DEF GradesAreTrue
  <2>1. CASE q = p
    BY <2>1, <1>1 DEF Checked, At
  <2>2. CASE q # p
    BY <2>2, <1>0, <1>1, <1>5 DEF Checked, At, Good, GradesAreTrue
  <2> QED
    BY <2>1, <2>2
<1>7. NamingFits'
  BY <1>0 DEF NamingFits
<1>8. WaitingFits'
  BY <1>0, <1>5, WaitingStays DEF manifest, draftVars
<1>9. OutcomeFits'
  BY <1>0, OutcomeStays
<1>10. /\ PartsAreKnown' /\ AliasesAreCopies' /\ ItemsAreOwned' /\ ItemsDiffer'
       /\ ReviewFits' /\ PartsHaveItems' /\ RecordsFit' /\ AuthorityFits'
  BY <1>0, <1>5, Upstream DEF manifest, draftVars, published, Settled
<1> QED
  BY <1>3, <1>4, <1>6, <1>7, <1>8, <1>9, <1>10 DEF Good

LEMMA ReeditKeeps ==
    ASSUME Apart, Good, Reedit
    PROVE  Good'
<1>0. /\ pc = "judge" /\ pc' = "judge"
      /\ UNCHANGED <<job, run, pc, who, scopes, unscoped, todo, flagged, manifest, draftVars,
                     published, outcome>>
  BY DEF Reedit
<1>1. PICK src \in Person(who).srcs, out \in Renders \ {"rejected"}, v \in Verdicts :
      /\ files' = At(Without(files, {cur}), Reedited(src), File(who, out = "clean"))
      /\ \E j \in DOMAIN final :
           /\ final[j] = cur
           /\ final' = IF Contains(RemoveAt(final, j), Reedited(src)) THEN RemoveAt(final, j)
                       ELSE Append(RemoveAt(final, j), Reedited(src))
      /\ Checked(Reedited(src), File(who, out = "clean"), v)
  BY DEF Reedit
<1> DEFINE new == Reedited(src)
           file == File(who, out = "clean")
<1>2. PICK j \in DOMAIN final :
      /\ final[j] = cur
      /\ final' = IF Contains(RemoveAt(final, j), new) THEN RemoveAt(final, j)
                  ELSE Append(RemoveAt(final, j), new)
  BY <1>1
<1> DEFINE left == RemoveAt(final, j)
<1>3. IsSeq(final) /\ NoRepeats(final) /\ j \in 1..Len(final)
  BY <1>0, SeqFacts DEF Good, Shapes, ReelsAreOwn
<1>4. IsSeq(left) /\ ToSet(left) \subseteq ToSet(final) /\ NoRepeats(left) /\ cur \notin ToSet(left)
  BY <1>2, <1>3, RemoveFacts
<1> HIDE DEF left
<1>5. IsSeq(final') /\ NoRepeats(final') /\ ToSet(final') \subseteq ToSet(left) \cup {new}
  <2>1. CASE Contains(left, new)
    BY <2>1, <1>2, <1>4 DEF left
  <2>2. CASE ~Contains(left, new)
    <3>1. final' = Append(left, new)
      BY <2>2, <1>2 DEF left
    <3>2. /\ IsSeq(final') /\ Len(final') = Len(left) + 1 /\ Len(left) \in Nat
          /\ \A i \in 1..Len(left) : final'[i] = left[i]
          /\ final'[Len(left) + 1] = new
          /\ ToSet(final') = ToSet(left) \cup {new}
      BY <3>1, <1>4, AppendFacts, SeqFacts
    <3>3. \A i \in 1..Len(left) : left[i] # new
      BY <2>2 DEF Contains
    <3>4. NoRepeats(final')
      BY <3>2, <3>3, <1>4 DEF NoRepeats
    <3> QED
      BY <3>2, <3>4
  <2> QED
    BY <2>1, <2>2
<1>6. new \in PathsOf(who)
  BY PathInPaths DEF Reedited
<1>7. Shapes'
  BY <1>0, <1>5 DEF Good, Shapes, People, manifest, draftVars
<1>8. file.by = who /\ files'[new] = file /\ new \in DOMAIN files'
  BY <1>1 DEF At, File
<1>9. \A q \in DOMAIN files' : q # new => q \in DOMAIN files /\ files'[q] = files[q] /\ q # cur
  BY <1>1 DEF At, Without
<1>10. ReelsAreOwn'
  <2>1. ASSUME NEW q \in ToSet(final')
        PROVE  q \in PathsOf(who) /\ (q \in DOMAIN files' => files'[q].by = who)
    <3>1. CASE q = new
      BY <3>1, <1>6, <1>8
    <3>2. CASE q # new
      BY <3>2, <2>1, <1>0, <1>4, <1>5, <1>9 DEF Good, ReelsAreOwn
    <3> QED
      BY <3>1, <3>2
  <2>2. PathsOf(who)' = PathsOf(who)
    BY <1>0 DEF PathsOf, Person, Clips
  <2> QED
    BY <2>1, <2>2, <1>0, <1>5 DEF ReelsAreOwn
<1>11. passed \subseteq passed'
  BY <1>1 DEF Checked
<1>12. GradesAreTrue'
  <2> SUFFICES ASSUME NEW q \in DOMAIN graded', q \in DOMAIN files', graded'[q] = "PASS",
                      files'[q].clean
               PROVE  files'[q] \in passed'
    BY DEF GradesAreTrue
  <2>1. CASE q = new
    BY <2>1, <1>1, <1>8 DEF Checked, At
  <2>2. CASE q # new
    BY <2>2, <1>0, <1>1, <1>9, <1>11 DEF Checked, At, Good, GradesAreTrue
  <2> QED
    BY <2>1, <2>2
<1>13. NamingFits'
  BY <1>0 DEF NamingFits
<1>14. WaitingFits'
  BY <1>0, <1>6, <1>9, <1>11, WaitingStays DEF manifest, draftVars
<1>15. OutcomeFits'
  BY <1>0, OutcomeStays
<1>16. /\ PartsAreKnown' /\ AliasesAreCopies' /\ ItemsAreOwned' /\ ItemsDiffer'
       /\ ReviewFits' /\ PartsHaveItems' /\ RecordsFit' /\ AuthorityFits'
  BY <1>0, <1>11, Upstream DEF manifest, draftVars, published, Settled
<1> QED
  BY <1>7, <1>10, <1>12, <1>13, <1>14, <1>15, <1>16 DEF Good

LEMMA ReeditFailsKeeps ==
    ASSUME Apart, Good, ReeditFails
    PROVE  Good'
<1>0. /\ pc = "judge" /\ pc' = "check"
      /\ UNCHANGED <<job, run, who, scopes, unscoped, qaVars, final, graded, manifest, draftVars,
                     published, passed, outcome>>
  BY DEF ReeditFails
<1>1. PICK src \in Person(who).srcs, left \in {"untouched", "spoilt", "removed"} :
      files' = CASE left = "untouched" -> files
                 [] left = "spoilt" -> At(files, Reedited(src), File(who, FALSE))
                 [] left = "removed" -> Without(files, {Reedited(src)})
  BY DEF ReeditFails
<1>2. Reedited(src) \in PathsOf(who)
  BY PathInPaths DEF Reedited
<1>3. \A q \in DOMAIN files' :
        \/ q \in DOMAIN files /\ files'[q] = files[q]
        \/ q \in PathsOf(who) /\ files'[q].by = who /\ ~files'[q].clean
  BY <1>1, <1>2 DEF At, Without, File
<1>4. Shapes'
  BY <1>0 DEF Good, Shapes, People, qaVars, manifest, draftVars
<1>5. ReelsAreOwn'
  BY <1>0, <1>3 DEF Good, ReelsAreOwn, PathsOf, Person, Clips
<1>6. GradesAreTrue'
  BY <1>0, <1>3 DEF Good, GradesAreTrue
<1>7. NamingFits'
  BY <1>0 DEF NamingFits
<1>8. WaitingFits'
  BY <1>0, <1>3, WaitingStays DEF manifest, draftVars
<1>9. OutcomeFits'
  BY <1>0, OutcomeStays
<1>10. /\ PartsAreKnown' /\ AliasesAreCopies' /\ ItemsAreOwned' /\ ItemsDiffer'
       /\ ReviewFits' /\ PartsHaveItems' /\ RecordsFit' /\ AuthorityFits'
  BY <1>0, Upstream DEF manifest, draftVars, published, Settled
<1> QED
  BY <1>4, <1>5, <1>6, <1>7, <1>8, <1>9, <1>10 DEF Good
----------------------------------------------------------------------------
(* The end of the gate. *)

\* The reels of a person are no parts of its row before they are recorded.
LEMMA ReelsAreNew ==
    ASSUME Apart, Good, pc = "check"
    PROVE  Keys(who, ToSet(final)) \cap DOMAIN parts = {}
<1> SUFFICES ASSUME NEW p \in ToSet(final), <<Person(who).id, p>> \in DOMAIN parts
             PROVE  FALSE
  BY DEF Keys
<1>1. p \in PathsOf(who) /\ who \in People
  BY PeopleFacts DEF Good, ReelsAreOwn, Shapes
<1>2. PICK i \in People : /\ Settled(i) /\ p \in PathsOf(i)
                          /\ <<Person(who).id, p>> = <<Person(i).id, p>>
  BY DEF Good, PartsAreKnown
<1>3. i # who
  BY <1>1, <1>2, PeopleFacts DEF Settled, Good
<1>4. ~Clips /\ Person(i).src # Person(who).src
  BY <1>1, <1>2, <1>3 DEF Apart
<1>5. p.src = Person(who).src /\ p.src = Person(i).src
  BY <1>1, <1>2, <1>4 DEF PathsOf, Apart
<1> QED
  BY <1>4, <1>5

\* What Settle makes of the manifest: the old parts stay, the new ones are
\* blank but for the evidence of this invocation.
LEMMA SettledParts ==
    ASSUME Apart, Good, Settle
    PROVE  LET K == Keys(who, ToSet(final))
           IN  /\ DOMAIN parts' = DOMAIN parts \cup K
               /\ \A x \in DOMAIN parts : parts'[x] = parts[x]
               /\ \A x \in K :
                    /\ IsPart(parts'[x]) /\ Blank(parts'[x]) /\ parts'[x].aliases = {}
                    /\ QaOk(parts'[x]) /\ parts'[x].specs =>
                         /\ x[2] \in DOMAIN files /\ files[x[2]].clean
                         /\ x[2] \in DOMAIN graded /\ graded[x[2]] = "PASS"
<1> DEFINE Reels == ToSet(final)
           K == Keys(who, Reels)
           recorded == RecordOutcome(who, Reels)
<1>0. pc = "check" /\ job' = job /\ who' = who
  BY DEF Settle
<1>1. K \cap DOMAIN parts = {}
  BY <1>0, ReelsAreNew
<1>2. /\ DOMAIN recorded = DOMAIN parts \cup K
      /\ \A x \in DOMAIN parts : recorded[x] = parts[x]
      /\ \A x \in K : recorded[x] = NewPart(Exists(x[2]) /\ files[x[2]].clean)
  BY <1>1 DEF RecordOutcome, Fresh, With
<1>3. rows' = At(rows, Person(who).id, RowOf(who))
  BY DEF Settle
<1>4. ASSUME NEW id \in DOMAIN rows', rows'[id].label = Person(who).label
      PROVE  id = Person(who).id
  <2>1. CASE id \in DOMAIN rows /\ id # Person(who).id
    <3>1. PICK i \in People : Person(i).id = id /\ rows[id].label = Person(i).label
      BY <2>1 DEF Good, PartsAreKnown
    <3>2. who \in People /\ Person(i).label = Person(who).label
      BY <1>3, <1>4, <2>1, <3>1 DEF At, Good, Shapes
    <3> QED
      BY <3>1, <3>2 DEF Apart
  <2> QED
    BY <2>1, <1>3, <1>4 DEF At
<1>5. final = <<>> \/ final # <<>>
  OBVIOUS
<1>6. /\ DOMAIN parts' = DOMAIN recorded
      /\ \A x \in DOMAIN recorded : x \notin K => parts'[x] = recorded[x]
      /\ \A x \in K : parts'[x] = recorded[x] \/ parts'[x] = Evidenced(x[2], recorded[x])
  <2>1. CASE final = <<>>
    BY <2>1 DEF Settle
  <2>2. CASE final # <<>>
    <3>1. ApplyEvidence(recorded, who, Reels)
      BY <2>2 DEF Settle
    <3>2. PICK id \in DOMAIN rows' :
          /\ rows'[id].label = Person(who).label
          /\ parts' = [x \in DOMAIN recorded |-> IF x[1] = id /\ x[2] \in Reels
                                                 THEN Evidenced(x[2], recorded[x]) ELSE recorded[x]]
      BY <3>1 DEF ApplyEvidence
    <3>3. id = Person(who).id
      BY <1>4, <3>2
    <3>4. ASSUME NEW x \in DOMAIN recorded, x[1] = id, x[2] \in Reels PROVE x \in K
      <4>1. CASE x \in DOMAIN parts
        <5>1. x = <<x[1], x[2]>>
          BY <4>1 DEF Good, PartsAreKnown
        <5> QED
          BY <5>1, <3>3, <3>4 DEF Keys
      <4> QED
        BY <4>1, <3>4, <1>2
    <3>5. /\ DOMAIN parts' = DOMAIN recorded
          /\ \A x \in DOMAIN recorded :
               /\ x[1] = id /\ x[2] \in Reels => parts'[x] = Evidenced(x[2], recorded[x])
               /\ ~(x[1] = id /\ x[2] \in Reels) => parts'[x] = recorded[x]
      BY <3>2
    <3> HIDE DEF recorded, Reels
    <3> QED
      BY <3>4, <3>5, <1>2
  <2> QED
    BY <2>1, <2>2
<1>7. ASSUME NEW x \in K
      PROVE  /\ IsPart(parts'[x]) /\ Blank(parts'[x]) /\ parts'[x].aliases = {}
             /\ QaOk(parts'[x]) /\ parts'[x].specs =>
                  /\ x[2] \in DOMAIN files /\ files[x[2]].clean
                  /\ x[2] \in DOMAIN graded /\ graded[x[2]] = "PASS"
  <2> DEFINE fresh == NewPart(Exists(x[2]) /\ files[x[2]].clean)
  <2>1. recorded[x] = fresh
    BY <1>2
  <2>2. CASE parts'[x] = recorded[x]
    BY <2>1, <2>2 DEF NewPart, IsPart, Blank, QaOk
  <2>3. CASE parts'[x] = Evidenced(x[2], recorded[x])
    <3>1. parts'[x] = Evidenced(x[2], fresh)
      BY <2>1, <2>3
    <3> DEFINE qa == IF x[2] \in DOMAIN graded THEN graded[x[2]] ELSE None
               ok == Exists(x[2]) /\ files[x[2]].clean
               there == x[2] \in DOMAIN graded
    <3>2. parts'[x] = [aliases |-> {}, specs |-> ok, recorded |-> there, qa |-> qa,
                       uploaded |-> FALSE, failed |-> FALSE, name |-> NoName,
                       persisted |-> FALSE, lost |-> FALSE]
      BY <3>1 DEF NewPart, Evidenced
    <3>3. ok => Exists(x[2]) /\ files[x[2]].clean
      OBVIOUS
    <3>4. there /\ qa = "PASS" => x[2] \in DOMAIN graded /\ graded[x[2]] = "PASS"
      OBVIOUS
    <3> HIDE DEF qa, ok, there
    <3>5. IsPart(parts'[x]) /\ Blank(parts'[x]) /\ parts'[x].aliases = {}
      BY <3>2 DEF IsPart, Blank
    <3>6. parts'[x].specs = ok /\ parts'[x].recorded = there /\ parts'[x].qa = qa
      BY <3>2
    <3>7. QaOk(parts'[x]) /\ parts'[x].specs => there /\ qa = "PASS" /\ ok
      BY <3>6 DEF QaOk
    <3> QED
      BY <3>3, <3>4, <3>5, <3>7 DEF Exists
  <2> QED
    BY <1>6, <2>2, <2>3
<1> QED
  BY <1>1, <1>2, <1>6, <1>7

LEMMA SettleKeeps ==
    ASSUME Apart, Good, Settle
    PROVE  Good'
<1> DEFINE K == Keys(who, ToSet(final))
<1>0. /\ pc = "check" /\ pc' = "name" /\ todo' = final
      /\ rows' = At(rows, Person(who).id, RowOf(who))
      /\ UNCHANGED <<job, run, who, files, ver, scopes, unscoped, cur, attempt, verdict, final, graded,
                     draftVars, published, passed, outcome>>
  BY DEF Settle
<1>1. /\ DOMAIN parts' = DOMAIN parts \cup K
      /\ \A x \in DOMAIN parts : parts'[x] = parts[x]
      /\ \A x \in K :
           /\ IsPart(parts'[x]) /\ Blank(parts'[x]) /\ parts'[x].aliases = {}
           /\ QaOk(parts'[x]) /\ parts'[x].specs =>
                /\ x[2] \in DOMAIN files /\ files[x[2]].clean
                /\ x[2] \in DOMAIN graded /\ graded[x[2]] = "PASS"
  BY SettledParts
<1>2. K \cap DOMAIN parts = {}
  BY <1>0, ReelsAreNew
<1>3. \A k \in 1..Len(pending) : Own(k)' = Own(k) /\ Own(k) \in DOMAIN parts
  BY <1>0 DEF Own, Person, Good, ItemsAreOwned, draftVars
<1>4. \A i \in People : /\ Settled(i) => Settled(i)'
                        /\ Person(i)' = Person(i) /\ PathsOf(i)' = PathsOf(i)
  BY <1>0 DEF Settled, Person, PathsOf, Clips
<1>5. \A f : \A x \in DOMAIN parts : FileFits(f, x) => FileFits(f, x)'
  BY <1>0, <1>1 DEF FileFits, People, Person
<1>6. who \in People /\ Settled(who)'
  BY <1>0, PeopleFacts DEF Settled, Good, Shapes
<1>7. Shapes'
  BY <1>0, <1>1 DEF Good, Shapes, People, draftVars
<1>8. PartsAreKnown'
  <2>1. ASSUME NEW x \in DOMAIN parts'
        PROVE  \E i \in People : Settled(i)' /\ x = <<Person(i).id, x[2]>> /\ x[2] \in PathsOf(i)
    <3>1. CASE x \in DOMAIN parts
      BY <3>1, <1>4 DEF Good, PartsAreKnown
    <3>2. CASE x \in K
      BY <3>2, <1>0, <1>6 DEF Keys, Good, ReelsAreOwn
    <3> QED
      BY <3>1, <3>2, <1>1
  <2>2. ASSUME NEW id \in DOMAIN rows'
        PROVE  \E i \in People : Person(i).id = id /\ rows'[id].label = Person(i).label
    <3>1. CASE id = Person(who).id
      BY <3>1, <1>0, <1>6 DEF At, RowOf
    <3>2. CASE id # Person(who).id
      BY <3>2, <1>0 DEF At, Good, PartsAreKnown
    <3> QED
      BY <3>1, <3>2
  <2>3. People' = People
    BY <1>0 DEF People
  <2> QED
    BY <2>1, <2>2, <2>3, <1>4 DEF PartsAreKnown
<1>9. AliasesAreCopies'
  BY <1>0, <1>1, <1>3 DEF Good, AliasesAreCopies, Clips, draftVars
<1>10. ItemsAreOwned'
  BY <1>0, <1>1, <1>3, <1>4 DEF Good, ItemsAreOwned, Clips, People, draftVars
<1>11. ItemsDiffer'
  BY <1>0, <1>3 DEF Good, ItemsDiffer, draftVars
<1>12. ReelsAreOwn' /\ GradesAreTrue'
  BY <1>0 DEF ReelsAreOwn, GradesAreTrue
<1>13. NamingFits'
  <2>1. NoRepeats(todo')
    BY <1>0 DEF Good, ReelsAreOwn
  <2>2. ASSUME NEW p \in ToSet(final)
        PROVE  LET x == <<Person(who).id, p>>
               IN  /\ p \in PathsOf(who)
                   /\ x \in DOMAIN parts'
                   /\ \A k \in 1..Len(pending) : Own(k) # x
                   /\ p \in DOMAIN files => FileFits(files[p], x)'
    <3> DEFINE x == <<Person(who).id, p>>
    <3>1. p \in PathsOf(who) /\ (p \in DOMAIN files => files[p].by = who)
      BY <1>0 DEF Good, ReelsAreOwn
    <3>2. x \in K /\ x[1] = Person(who).id /\ x[2] = p
      BY DEF Keys
    <3>3. \A k \in 1..Len(pending) : Own(k) # x
      BY <3>2, <1>2, <1>3
    <3>4. ASSUME p \in DOMAIN files PROVE FileFits(files[p], x)'
      <4>1. QaOk(parts'[x]) /\ parts'[x].specs => files[p] \in passed /\ files[p].clean
        BY <3>2, <3>4, <1>0, <1>1 DEF Good, GradesAreTrue
      <4> QED
        BY <4>1, <3>1, <3>2, <3>4, <1>0, <1>6 DEF FileFits, People, Person
    <3> QED
      BY <3>1, <3>2, <3>3, <3>4, <1>1
  <2> QED
    BY <2>1, <2>2, <1>0, <1>3, <1>4, <1>6 DEF NamingFits, draftVars
<1>14. WaitingFits'
  BY <1>0, <1>3, <1>5 DEF Good, WaitingFits, draftVars
<1>15. ReviewFits'
  BY <1>0, <1>3, <1>5 DEF Good, ReviewFits, draftVars, published
<1>16. PartsHaveItems'
  BY <1>0, <1>1, <1>3 DEF Good, PartsHaveItems, draftVars
<1>17. RecordsFit'
  BY <1>0, <1>1, <1>3 DEF Good, RecordsFit, draftVars, published
<1>18. AuthorityFits'
  BY <1>0 DEF Good, AuthorityFits, draftVars, published
<1>19. OutcomeFits'
  BY <1>0, OutcomeStays
<1> QED
  BY <1>7, <1>8, <1>9, <1>10, <1>11, <1>12, <1>13, <1>14, <1>15, <1>16, <1>17, <1>18, <1>19 DEF Good
----------------------------------------------------------------------------
(* Naming. *)

LEMMA NameIsNew ==
    ASSUME Good, NEW sub, NEW n \in Nat, n > 0, Named(sub, n)
    PROVE  /\ Name(sub, n) # NoName
           /\ \A k \in 1..Len(pending) : pending[k].name # Name(sub, n)
           /\ \A k \in 1..Len(pending) : pending[k].name \in used'
           /\ NoName \notin used' /\ IsFiniteSet(used')
<1>1. Name(sub, n).n = n
  BY DEF Name, DraftName
<1>2. Name(sub, n) # NoName
  BY <1>1 DEF NoName
<1>3. IsFiniteSet(used')
  BY FS_AddElement DEF Named, Good, ItemsDiffer
<1> QED
  BY <1>2, <1>3 DEF Named, Good, ItemsDiffer

LEMMA NamedFacts ==
    ASSUME Good, NEW sub, NEW n, Named(sub, n)
    PROVE  LET x == <<Person(who).id, Reel>>
           IN  /\ pc = "name" /\ who \in People
               /\ Reel \in ToSet(todo) /\ Reel \in PathsOf(who)
               /\ x \in DOMAIN parts
               /\ \A k \in 1..Len(pending) : Own(k) # x
               /\ Reel \in DOMAIN files => FileFits(files[Reel], x)
               /\ IsSeq(todo') /\ NoRepeats(todo') /\ ToSet(todo') \subseteq ToSet(todo)
               /\ Reel \notin ToSet(todo')
<1>1. IsSeq(todo) /\ todo # <<>> /\ todo' = Tail(todo) /\ pc = "name" /\ NoRepeats(todo)
  BY DEF Good, Shapes, Named, NamingFits
<1>2. /\ Reel \in ToSet(todo) /\ Reel \notin ToSet(todo')
      /\ IsSeq(todo') /\ NoRepeats(todo') /\ ToSet(todo') \subseteq ToSet(todo)
  BY <1>1, TailFacts DEF Reel
<1> QED
  BY <1>1, <1>2 DEF Good, NamingFits, Shapes

\* A reel that gets a name and no draft.
LEMMA SkipKeeps ==
    ASSUME Apart, Good, NEW sub, NEW n \in Nat, n > 0, Named(sub, n),
           \/ pc' = pc /\ outcome' = outcome
           \/ pc' = "done" /\ outcome' = "no_single_owner",
           UNCHANGED <<job, who, files, final, graded, manifest, pending, published, passed>>
    PROVE  Good'
<1>1. /\ pc = "name" /\ IsSeq(todo') /\ NoRepeats(todo') /\ ToSet(todo') \subseteq ToSet(todo)
  BY NamedFacts
<1>2. Shapes'
  BY <1>1 DEF Good, Shapes, People, manifest
<1>3. ReelsAreOwn' /\ GradesAreTrue'
  BY <1>1 DEF ReelsAreOwn, GradesAreTrue
<1>4. \A k \in 1..Len(pending) : Own(k)' = Own(k)
  BY DEF Own, Person
<1>5. \A f, x : FileFits(f, x) => FileFits(f, x)'
  BY DEF FileFits, People, Person, manifest
<1>6. /\ \A i \in People : Settled(i) => Settled(i)'
      /\ \A i : Person(i)' = Person(i) /\ PathsOf(i)' = PathsOf(i)
      /\ People' = People
  BY <1>1 DEF Settled, Person, PathsOf, Clips, People
<1>7. NamingFits'
  BY <1>1, <1>4, <1>5, <1>6 DEF Good, NamingFits, manifest
<1>8. WaitingFits'
  BY <1>4, <1>5 DEF Good, WaitingFits
<1>9. ReviewFits'
  BY <1>4, <1>5 DEF Good, ReviewFits, published
<1>10. OutcomeFits'
  BY <1>1, OutcomeStays
<1>11. ItemsDiffer'
  BY <1>4, NameIsNew DEF Good, ItemsDiffer
<1>12. PartsAreKnown'
  BY <1>6 DEF Good, PartsAreKnown, manifest
<1>13. AliasesAreCopies'
  BY <1>4 DEF Good, AliasesAreCopies, Clips, manifest
<1>14. ItemsAreOwned'
  BY <1>4, <1>6 DEF Good, ItemsAreOwned, Clips, manifest
<1>15. PartsHaveItems'
  BY <1>4 DEF Good, PartsHaveItems, manifest
<1>16. RecordsFit'
  BY <1>4 DEF Good, RecordsFit, manifest, published
<1>17. AuthorityFits'
  BY DEF Good, AuthorityFits, published
<1> QED
  BY <1>2, <1>3, <1>7, <1>8, <1>9, <1>10, <1>11, <1>12, <1>13, <1>14, <1>15, <1>16, <1>17 DEF Good

\* A part that differs from another in its aliases alone.
SamePart(a, b) ==
    /\ IsPart(a) /\ IsPart(b)
    /\ a.specs = b.specs /\ a.recorded = b.recorded /\ a.qa = b.qa
    /\ a.uploaded = b.uploaded /\ a.failed = b.failed /\ a.name = b.name
    /\ a.persisted = b.persisted /\ a.lost = b.lost

LEMMA SameFacts ==
    ASSUME NEW a, NEW b, SamePart(a, b)
    PROVE  /\ QaOk(a) <=> QaOk(b)
           /\ Blank(a) <=> Blank(b)
           /\ IntendedPublishable(a) <=> IntendedPublishable(b)
           /\ Publishable(a) <=> Publishable(b)
<1>1. QaOk(a) <=> QaOk(b)
  BY DEF SamePart, QaOk
<1>2. Blank(a) <=> Blank(b)
  BY DEF SamePart, Blank
<1>3. Issues(a) = Issues(b)
  BY DEF SamePart, Issues
<1>4. IntendedPublishable(a) <=> IntendedPublishable(b)
  BY <1>1, <1>3 DEF SamePart, IntendedPublishable
<1>5. Publishable(a) <=> Publishable(b)
  BY <1>4 DEF SamePart, Publishable
<1> QED
  BY <1>1, <1>2, <1>4, <1>5

\* A reel that gets a name and a draft of its own, a long video's a copy too.
DraftPath(p) ==
    p = IF Clips THEN Reel ELSE [Reel EXCEPT !.dir = "staged", !.copy = Len(pending) + 1]

LEMMA DraftKeeps ==
    ASSUME Apart, Good, NEW sub, NEW n \in Nat, n > 0, Named(sub, n),
           NEW p, DraftPath(p),
           pending' = Append(pending, Item(p, Name(sub, n), sub)),
           parts' = IF Clips THEN parts
                    ELSE [parts EXCEPT ![<<Person(who).id, Reel>>].aliases = @ \cup {p}],
           ~Clips => Reel \in DOMAIN files,
           files' = IF Clips THEN files ELSE At(files, p, files[Reel]),
           UNCHANGED <<job, pc, who, final, graded, rows, published, passed, outcome>>
    PROVE  Good'
<1>a. PICK x : x = <<Person(who).id, Reel>>
  OBVIOUS
<1>b. PICK L : L = Len(pending) + 1
  OBVIOUS
<1>c. PICK new : new = Item(p, Name(sub, n), sub)
  OBVIOUS
<1>1. /\ pc = "name" /\ who \in People
      /\ Reel \in ToSet(todo) /\ Reel \in PathsOf(who)
      /\ x \in DOMAIN parts
      /\ \A k \in 1..Len(pending) : Own(k) # x
      /\ Reel \in DOMAIN files => FileFits(files[Reel], x)
      /\ IsSeq(todo') /\ NoRepeats(todo') /\ ToSet(todo') \subseteq ToSet(todo)
      /\ Reel \notin ToSet(todo')
  BY <1>a, NamedFacts
<1>2. /\ IsSeq(pending) /\ Len(pending) \in Nat /\ IsSeq(pending') /\ Len(pending') = L
      /\ \A k \in 1..Len(pending) : pending'[k] = pending[k]
      /\ pending'[L] = new
      /\ L \notin 1..Len(pending)
      /\ \A k \in 1..L : k = L \/ k \in 1..Len(pending)
  BY <1>b, <1>c, AppendFacts, SeqFacts DEF Good, Shapes
<1>3. /\ new.who = who /\ new.path = p /\ new.name = Name(sub, n) /\ new.phase = "wait" /\ IsItem(new)
  BY <1>c DEF Item, IsItem
<1>4. Origin(p) = Reel /\ (Clips => p = Reel)
      /\ (~Clips => p = [Reel EXCEPT !.dir = "staged", !.copy = L] /\ p.copy = L /\ p.dir = "staged")
  BY <1>1, <1>b DEF DraftPath, Origin, PathsOf, Work
<1>5. /\ \A k \in 1..Len(pending) : Own(k)' = Own(k)
      /\ Own(L)' = x
  BY <1>2, <1>3, <1>4, <1>a DEF Own, Person
<1>6. /\ DOMAIN parts' = DOMAIN parts
      /\ \A y \in DOMAIN parts : y # x => parts'[y] = parts[y]
      /\ \A y \in DOMAIN parts : SamePart(parts[y], parts'[y]) /\ parts[y].aliases \subseteq parts'[y].aliases
      /\ parts'[x].aliases \subseteq parts[x].aliases \cup (IF Clips THEN {} ELSE {p})
      /\ ~Clips => p \in parts'[x].aliases
  <2>1. \A y \in DOMAIN parts : IsPart(parts[y]) /\ SamePart(parts[y], parts[y])
    BY DEF Good, Shapes, SamePart
  <2>2. CASE Clips
    BY <2>1, <2>2
  <2>3. CASE ~Clips
    <3>1. parts' = [parts EXCEPT ![x].aliases = @ \cup {p}]
      BY <2>3, <1>a
    <3>2. /\ DOMAIN parts' = DOMAIN parts
          /\ \A y \in DOMAIN parts : y # x => parts'[y] = parts[y]
          /\ parts'[x] = [parts[x] EXCEPT !.aliases = @ \cup {p}]
      BY <3>1, <1>1
    <3>3. parts'[x].aliases = parts[x].aliases \cup {p} /\ SamePart(parts[x], parts'[x])
      BY <3>2, <2>1, <1>1 DEF IsPart, SamePart
    <3> QED
      BY <2>1, <2>3, <3>2, <3>3
  <2> QED
    BY <2>2, <2>3
<1>7. \A f : \A y \in DOMAIN parts : FileFits(f, y) => FileFits(f, y)'
  <2> SUFFICES ASSUME NEW y \in DOMAIN parts, NEW f, FileFits(f, y) PROVE FileFits(f, y)'
    OBVIOUS
  <2>1. QaOk(parts'[y]) /\ parts'[y].specs => QaOk(parts[y]) /\ parts[y].specs
    BY <1>6, SameFacts DEF SamePart
  <2> QED
    BY <2>1 DEF FileFits, People, Person
<1>8. /\ \A i \in People : Settled(i) => Settled(i)'
      /\ \A i : Person(i)' = Person(i) /\ PathsOf(i)' = PathsOf(i)
      /\ People' = People /\ Clips' = Clips /\ Settled(who)'
  BY <1>1 DEF Settled, Person, PathsOf, Clips, People
<1>9. Shapes'
  BY <1>1, <1>2, <1>3, <1>6, <1>8 DEF Good, Shapes, SamePart
<1>10. ReelsAreOwn' /\ GradesAreTrue'
  BY <1>1 DEF ReelsAreOwn, GradesAreTrue
<1>11. NamingFits'
  <2> SUFFICES ASSUME NEW q \in ToSet(todo'), NEW y, y = <<Person(who).id, q>>
               PROVE  /\ q \in PathsOf(who)
                      /\ y \in DOMAIN parts'
                      /\ \A k \in 1..L : Own(k)' # y
                      /\ q \in DOMAIN files' => FileFits(files[q], y)'
    BY <1>1, <1>2, <1>8 DEF NamingFits
  <2>1. /\ q \in PathsOf(who) /\ y \in DOMAIN parts /\ \A k \in 1..Len(pending) : Own(k) # y
        /\ q \in DOMAIN files => FileFits(files[q], y)
    BY <1>1 DEF Good, NamingFits
  <2>2. y # x
    BY <1>1, <1>a
  <2>3. ~Clips => q # p
    BY <2>1, <1>4 DEF PathsOf, Work
  <2>4. q \in DOMAIN files' => q \in DOMAIN files /\ files'[q] = files[q]
    BY <2>3 DEF At
  <2> QED
    BY <2>1, <2>2, <2>4, <1>2, <1>5, <1>6, <1>7
<1>12. WaitingFits'
  <2> SUFFICES ASSUME NEW k \in 1..L, pending'[k].phase = "wait", pending'[k].path \in DOMAIN files'
               PROVE  FileFits(files[pending[k].path], Own(k))'
    BY <1>2 DEF WaitingFits
  <2>1. CASE k = L
    <3>1. Reel \in DOMAIN files /\ files'[p] = files[Reel]
      BY <2>1, <1>2, <1>3, <1>4 DEF At
    <3> QED
      BY <2>1, <3>1, <1>1, <1>2, <1>3, <1>5, <1>7
  <2>2. CASE k \in 1..Len(pending)
    <3>1. ~Clips => pending[k].path # p
      <4>1. ~Clips => pending[k].path = [Origin(pending[k].path) EXCEPT !.dir = "staged", !.copy = k]
                      /\ Origin(pending[k].path) \in PathsOf(pending[k].who)
        BY <2>2 DEF Good, ItemsAreOwned
      <4>2. ~Clips => pending[k].path.copy = k
        BY <4>1 DEF PathsOf
      <4> QED
        BY <4>2, <1>2, <1>4, <2>2
    <3>2. pending[k].path \in DOMAIN files /\ files'[pending[k].path] = files[pending[k].path]
      BY <2>2, <3>1, <1>2 DEF At
    <3>3. FileFits(files[pending[k].path], Own(k)) /\ Own(k) \in DOMAIN parts
      BY <2>2, <3>2, <1>2 DEF Good, WaitingFits, ItemsAreOwned
    <3> QED
      BY <2>2, <3>2, <3>3, <1>2, <1>5, <1>7
  <2> QED
    BY <2>1, <2>2, <1>2
<1>13. ReviewFits'
  <2> SUFFICES ASSUME NEW k \in 1..L, pending'[k].phase \in {"put", "marked", "saved", "done"}
               PROVE  pending'[k].name \in DOMAIN review' /\ FileFits(review[pending[k].name], Own(k))'
    BY <1>2 DEF ReviewFits
  <2>1. k \in 1..Len(pending)
    BY <1>2, <1>3
  <2>2. /\ pending[k].name \in DOMAIN review /\ FileFits(review[pending[k].name], Own(k))
        /\ Own(k) \in DOMAIN parts
    BY <2>1, <1>2 DEF Good, ReviewFits, ItemsAreOwned
  <2> QED
    BY <2>1, <2>2, <1>2, <1>5, <1>7 DEF published
<1>14. PartsHaveItems'
  <2> SUFFICES ASSUME NEW y \in DOMAIN parts, ~Blank(parts'[y])
               PROVE  \E k \in 1..L : Own(k)' = y /\ pending'[k].phase \in MarkedPhases
    BY <1>2, <1>6 DEF PartsHaveItems
  <2>1. ~Blank(parts[y])
    BY <1>6, SameFacts
  <2>2. PICK k \in 1..Len(pending) : Own(k) = y /\ pending[k].phase \in MarkedPhases
    BY <2>1 DEF Good, PartsHaveItems
  <2> QED
    BY <2>2, <1>2, <1>5
<1>15. RecordsFit'
  <2>1. ASSUME NEW k \in 1..L, pending'[k].phase \in MarkedPhases
        PROVE  /\ k \in 1..Len(pending) /\ pending'[k] = pending[k]
               /\ parts'[Own(k)'] = parts[Own(k)] /\ Own(k)' = Own(k)
    <3>1. k \in 1..Len(pending)
      BY <2>1, <1>2, <1>3 DEF MarkedPhases
    <3>2. Own(k) # x /\ Own(k) \in DOMAIN parts
      BY <3>1, <1>1 DEF Good, ItemsAreOwned
    <3> QED
      BY <3>1, <3>2, <1>2, <1>5, <1>6
  <2>2. authority' = authority /\ RecordsFit
    BY DEF published, Good
  <2> QED
    BY <2>1, <2>2, <1>2 DEF RecordsFit
<1>16. AuthorityFits'
  BY <1>2 DEF Good, AuthorityFits, published
<1>17. OutcomeFits'
  BY <1>1, OutcomeStays
<1>18. PartsAreKnown'
  BY <1>6, <1>8 DEF Good, PartsAreKnown
<1>19. AliasesAreCopies'
  <2> SUFFICES ASSUME NEW y \in DOMAIN parts, NEW a \in parts'[y].aliases
               PROVE  ~Clips /\ a.copy \in 1..L /\ pending'[a.copy].path = a /\ Own(a.copy)' = y
    BY <1>2, <1>6, <1>8 DEF AliasesAreCopies
  <2>1. CASE a \in parts[y].aliases
    <3>1. ~Clips /\ a.copy \in 1..Len(pending) /\ pending[a.copy].path = a /\ Own(a.copy) = y
      BY <2>1 DEF Good, AliasesAreCopies
    <3> QED
      BY <3>1, <1>2, <1>5
  <2>2. CASE a \notin parts[y].aliases
    <3>1. y = x /\ ~Clips /\ a = p
      BY <2>2, <1>6
    <3> QED
      BY <3>1, <1>2, <1>3, <1>4, <1>5
  <2> QED
    BY <2>1, <2>2
<1>20. ItemsAreOwned'
  <2>1. ASSUME NEW k \in 1..Len(pending)
        PROVE  LET q == pending[k].path
               IN  /\ pending[k].who \in People /\ Settled(pending[k].who)
                   /\ Origin(q) \in PathsOf(pending[k].who)
                   /\ Own(k) \in DOMAIN parts
                   /\ IF Clips THEN q = Origin(q)
                               ELSE /\ q = [Origin(q) EXCEPT !.dir = "staged", !.copy = k]
                                    /\ q \in parts[Own(k)].aliases
    BY DEF Good, ItemsAreOwned
  <2> SUFFICES ASSUME NEW k \in 1..L
               PROVE  LET q == pending'[k].path
                      IN  /\ pending'[k].who \in People /\ Settled(pending[k].who)'
                          /\ Origin(q) \in PathsOf(pending'[k].who)
                          /\ Own(k)' \in DOMAIN parts'
                          /\ IF Clips THEN q = Origin(q)
                                      ELSE /\ q = [Origin(q) EXCEPT !.dir = "staged", !.copy = k]
                                           /\ q \in parts'[Own(k)'].aliases
    BY <1>2, <1>8 DEF ItemsAreOwned
  <2>2. CASE k \in 1..Len(pending)
    <3>1. pending'[k] = pending[k] /\ Own(k)' = Own(k) /\ Settled(pending[k].who)'
      BY <2>1, <2>2, <1>2, <1>5, <1>8 DEF Settled
    <3>2. parts[Own(k)].aliases \subseteq parts'[Own(k)].aliases
      BY <2>1, <2>2, <1>6
    <3>a. DOMAIN parts' = DOMAIN parts
      BY <1>6
    <3>b. Own(k) \in DOMAIN parts /\ pending[k].who \in People
      BY <2>1, <2>2
    <3>3. Own(k)' \in DOMAIN parts' /\ pending'[k].who \in People
      BY <3>1, <3>a, <3>b
    <3>4. Origin(pending'[k].path) \in PathsOf(pending'[k].who)
      BY <2>1, <2>2, <3>1
    <3>5. CASE Clips
      BY <2>1, <2>2, <3>1, <3>3, <3>4, <3>5
    <3>6. CASE ~Clips
      <4>1. /\ pending[k].path = [Origin(pending[k].path) EXCEPT !.dir = "staged", !.copy = k]
            /\ pending[k].path \in parts'[Own(k)].aliases
        BY <2>1, <2>2, <3>2, <3>6
      <4> QED
        BY <3>1, <3>3, <3>4, <3>6, <4>1
    <3> QED
      BY <3>5, <3>6
  <2>3. CASE k = L
    <3>1. pending'[k].who = who /\ pending'[k].path = p /\ Own(k)' = x /\ Settled(pending[k].who)'
      BY <2>3, <1>1, <1>2, <1>3, <1>5, <1>8 DEF Settled
    <3> QED
      BY <2>3, <3>1, <1>1, <1>4, <1>6
  <2> QED
    BY <2>2, <2>3, <1>2
<1>21. ItemsDiffer'
  <2>1. /\ \A k \in 1..Len(pending) : pending[k].name # Name(sub, n)
        /\ \A k \in 1..Len(pending) : pending[k].name \in used'
        /\ NoName \notin used' /\ Name(sub, n) \in used' /\ IsFiniteSet(used')
    BY NameIsNew DEF Named
  <2>2. \A k \in 1..L : pending'[k].name \in used'
    BY <2>1, <1>2, <1>3
  <2>3. ASSUME NEW k \in 1..L, NEW l \in 1..L, k # l
        PROVE  Own(k)' # Own(l)' /\ pending'[k].name # pending'[l].name
    <3>1. CASE k = L
      BY <3>1, <2>1, <2>3, <1>1, <1>2, <1>3, <1>5
    <3>2. CASE l = L
      BY <3>2, <2>1, <2>3, <1>1, <1>2, <1>3, <1>5
    <3>3. CASE k # L /\ l # L
      <4>1. k \in 1..Len(pending) /\ l \in 1..Len(pending)
        BY <3>3, <1>2
      <4> QED
        BY <4>1, <2>3, <1>2, <1>5 DEF Good, ItemsDiffer
    <3> QED
      BY <3>1, <3>2, <3>3
  <2> QED
    BY <2>1, <2>2, <2>3, <1>2 DEF ItemsDiffer
<1> QED
  BY <1>9, <1>10, <1>11, <1>12, <1>13, <1>14, <1>15, <1>16, <1>17, <1>18, <1>19, <1>20, <1>21 DEF Good

LEMMA Numbers ==
    ASSUME Good, NEW n \in 1..(Cardinality(used) + 1)
    PROVE  n \in Nat /\ n > 0
<1>1. Cardinality(used) \in Nat
  BY FS_CardinalityType DEF Good, ItemsDiffer
<1> QED
  BY <1>1

LEMMA NameClipKeeps ==
    ASSUME Apart, Good, NameClip
    PROVE  Good'
<1>1. PICK sub \in SubjectFlags, n \in 1..(Cardinality(used) + 1) :
        /\ Named(sub, n)
        /\ pending' = Append(pending, Item(Reel, Name(sub, n), sub))
  BY DEF NameClip
<1>2. n \in Nat /\ n > 0
  BY Numbers
<1>3. Clips /\ DraftPath(Reel) /\ parts' = parts /\ files' = files
  BY DEF NameClip, DraftPath, manifest
<1>4. UNCHANGED <<job, pc, who, final, graded, rows, published, passed, outcome>>
  BY DEF NameClip, gateVars, manifest
<1>5. PICK p : p = Reel
  OBVIOUS
<1>6. DraftPath(p) /\ pending' = Append(pending, Item(p, Name(sub, n), sub))
  BY <1>1, <1>3, <1>5
<1> QED
  BY <1>1, <1>2, <1>3, <1>4, <1>6, DraftKeeps

LEMMA NameLongKeeps ==
    ASSUME Apart, Good, NameLong
    PROVE  Good'
<1>0. /\ ~Clips
      /\ UNCHANGED <<job, run, who, ver, scopes, unscoped, cur, attempt, verdict, gateVars, rows,
                     published, passed>>
  BY DEF NameLong
<1>a. PICK copy : copy = [Reel EXCEPT !.dir = "staged", !.copy = Len(pending) + 1]
  OBVIOUS
<1>1. PICK sub \in SubjectFlags, n \in 1..(Cardinality(used) + 1) :
        /\ Named(sub, n)
        /\ \/ /\ ~Exists(Reel)
              /\ UNCHANGED <<pc, files, parts, pending, outcome>>
           \/ /\ Exists(Reel)
              /\ \E x \in Owners(Reel) :
                   /\ Owners(Reel) = {x}
                   /\ parts' = [parts EXCEPT ![x].aliases = @ \cup {copy}]
              /\ files' = At(files, copy, files[Reel])
              /\ pending' = Append(pending, Item(copy, Name(sub, n), sub))
              /\ UNCHANGED <<pc, outcome>>
           \/ /\ Exists(Reel) /\ ~Sole(Owners(Reel))
              /\ Abort("no_single_owner")
              /\ UNCHANGED <<files, parts, pending>>
  BY <1>a DEF NameLong
<1>2. n \in Nat /\ n > 0
  BY Numbers
<1>3. DraftPath(copy)
  BY <1>0, <1>a DEF DraftPath
<1>4. CASE ~Exists(Reel) /\ UNCHANGED <<pc, files, parts, pending, outcome>>
  BY <1>0, <1>1, <1>2, <1>4, SkipKeeps DEF gateVars, manifest
<1>5. CASE /\ Exists(Reel)
           /\ \E x \in Owners(Reel) :
                /\ Owners(Reel) = {x}
                /\ parts' = [parts EXCEPT ![x].aliases = @ \cup {copy}]
           /\ files' = At(files, copy, files[Reel])
           /\ pending' = Append(pending, Item(copy, Name(sub, n), sub))
           /\ UNCHANGED <<pc, outcome>>
  <2>1. <<Person(who).id, Reel>> \in Owners(Reel)
    BY <1>1, NamedFacts DEF Owners
  <2>2. parts' = [parts EXCEPT ![<<Person(who).id, Reel>>].aliases = @ \cup {copy}]
    BY <1>5, <2>1
  <2> QED
    BY <1>0, <1>1, <1>2, <1>3, <1>5, <2>2, DraftKeeps DEF Exists, gateVars
<1>6. CASE Abort("no_single_owner") /\ UNCHANGED <<files, parts, pending>>
  BY <1>0, <1>1, <1>2, <1>6, SkipKeeps DEF Abort, gateVars, manifest
<1> QED
  BY <1>1, <1>4, <1>5, <1>6
----------------------------------------------------------------------------
(* Uploading. *)

\* Items are what they were, but for their phases and records.
Moved ==
    /\ IsSeq(pending') /\ Len(pending') = Len(pending)
    /\ \A k \in 1..Len(pending) :
         /\ IsItem(pending'[k])
         /\ pending'[k].who = pending[k].who /\ pending'[k].path = pending[k].path
         /\ pending'[k].name = pending[k].name

LEMMA MovedKeeps ==
    ASSUME Good, Moved, job' = job, rows' = rows, used' = used,
           \A i \in People : Settled(i) => Settled(i)',
           DOMAIN parts' = DOMAIN parts,
           \A x \in DOMAIN parts : parts'[x].aliases = parts[x].aliases
    PROVE  /\ PartsAreKnown' /\ AliasesAreCopies' /\ ItemsAreOwned' /\ ItemsDiffer'
           /\ \A k \in 1..Len(pending) : Own(k)' = Own(k)
<1>1. \A k \in 1..Len(pending) : Own(k)' = Own(k)
  BY DEF Moved, Own, Person
<1>2. /\ \A i : Person(i)' = Person(i) /\ PathsOf(i)' = PathsOf(i)
      /\ People' = People /\ Clips' = Clips
  BY DEF Person, PathsOf, Clips, People
<1>3. PartsAreKnown'
  BY <1>2 DEF Good, PartsAreKnown
<1>4. AliasesAreCopies'
  BY <1>1, <1>2 DEF Good, AliasesAreCopies, Moved
<1>5. ItemsAreOwned'
  <2>1. ASSUME NEW k \in 1..Len(pending)
        PROVE  /\ pending[k].who \in People /\ Settled(pending[k].who)
               /\ Origin(pending[k].path) \in PathsOf(pending[k].who)
               /\ Own(k) \in DOMAIN parts
               /\ Clips => pending[k].path = Origin(pending[k].path)
               /\ ~Clips => /\ pending[k].path =
                                 [Origin(pending[k].path) EXCEPT !.dir = "staged", !.copy = k]
                            /\ pending[k].path \in parts[Own(k)].aliases
    BY DEF Good, ItemsAreOwned
  <2>2. ASSUME NEW k \in 1..Len(pending)
        PROVE  /\ pending'[k].who = pending[k].who /\ pending'[k].path = pending[k].path
               /\ Own(k)' = Own(k)
    BY <1>1 DEF Moved
  <2>3. ASSUME NEW k \in 1..Len(pending)
        PROVE  /\ pending'[k].who \in People' /\ Settled(pending[k].who)'
               /\ Origin(pending'[k].path) \in PathsOf(pending[k].who)'
               /\ Own(k)' \in DOMAIN parts'
    <3>1. Settled(pending[k].who)'
      BY <2>1, <2>2 DEF Settled
    <3>2. PathsOf(pending[k].who)' = PathsOf(pending[k].who)
      BY <1>2, <2>2 DEF PathsOf, Clips, Person
    <3> QED
      BY <1>2, <2>1, <2>2, <3>1, <3>2
  <2>4. ASSUME NEW k \in 1..Len(pending), Clips
        PROVE  pending'[k].path = Origin(pending'[k].path)
    BY <2>1, <2>2, <2>4
  <2>5. ASSUME NEW k \in 1..Len(pending), ~Clips
        PROVE  /\ pending'[k].path = [Origin(pending'[k].path) EXCEPT !.dir = "staged", !.copy = k]
               /\ pending'[k].path \in parts'[Own(k)'].aliases
    BY <2>1, <2>2, <2>5
  <2>6. Len(pending') = Len(pending)
    BY DEF Moved
  <2> QED
    BY <1>2, <2>3, <2>4, <2>5, <2>6 DEF ItemsAreOwned
<1>6. ItemsDiffer'
  BY <1>1 DEF Good, ItemsDiffer, Moved
<1> QED
  BY <1>1, <1>3, <1>4, <1>5, <1>6

LEMMA PhaseFacts ==
    ASSUME Good, NEW k \in 1..Len(pending), NEW ph, pending' = Phase(k, ph)
    PROVE  /\ Moved
           /\ pending'[k].phase = ph /\ pending'[k].record = pending[k].record
           /\ \A l \in 1..Len(pending) : l # k => pending'[l] = pending[l]
<1>1. IsSeq(pending) /\ DOMAIN pending = 1..Len(pending) /\ Len(pending) \in Nat
  BY SeqFacts DEF Good, Shapes
<1>2. \A l \in 1..Len(pending) : IsItem(pending[l])
  BY DEF Good, Shapes
<1>3. pending' = [pending EXCEPT ![k].phase = ph]
  BY DEF Phase
<1>4. pending' \in [1..Len(pending) -> ToSet(pending')] /\ DOMAIN pending' = 1..Len(pending)
  BY <1>1, <1>3 DEF ToSet
<1>5. IsSeq(pending') /\ Len(pending') = Len(pending)
  BY <1>1, <1>4, FunctionIsSeq DEF IsSeq
<1>6. \A l \in 1..Len(pending) : l # k => pending'[l] = pending[l]
  BY <1>1, <1>3
<1>7. pending'[k] = [pending[k] EXCEPT !.phase = ph]
  BY <1>1, <1>3
<1>8. /\ pending'[k].phase = ph /\ pending'[k].record = pending[k].record
      /\ pending'[k].who = pending[k].who /\ pending'[k].path = pending[k].path
      /\ pending'[k].name = pending[k].name /\ IsItem(pending'[k])
  BY <1>2, <1>7 DEF IsItem
<1> QED
  BY <1>2, <1>5, <1>6, <1>8 DEF Moved

\* A draft's path leads to its own part and to no other.
LEMMA SoleOwner ==
    ASSUME Apart, Good, NEW k \in 1..Len(pending)
    PROVE  FindUploadPart(pending[k].path) = {Own(k)}
<1> DEFINE p == pending[k].path
           w == pending[k].who
<1>1. /\ w \in People /\ Origin(p) \in PathsOf(w) /\ Own(k) \in DOMAIN parts
      /\ Own(k) = <<Person(w).id, Origin(p)>>
      /\ IF Clips THEN p = Origin(p)
                  ELSE /\ p = [Origin(p) EXCEPT !.dir = "staged", !.copy = k]
                       /\ p \in parts[Own(k)].aliases
  BY DEF Good, ItemsAreOwned, Own
<1>2. Own(k) \in Owners(p)
  BY <1>1 DEF Owners
<1>3. ASSUME NEW y \in Owners(p) PROVE y = Own(k)
  <2>1. PICK i \in People : y = <<Person(i).id, y[2]>> /\ y[2] \in PathsOf(i)
    BY <1>3 DEF Owners, Good, PartsAreKnown
  <2>2. CASE Clips
    <3>1. p = y[2]
      BY <1>3, <2>2 DEF Owners, Good, AliasesAreCopies
    <3>2. Person(i).label = Person(w).label
      BY <1>1, <2>1, <2>2, <3>1 DEF PathsOf
    <3> QED
      BY <1>1, <2>1, <2>2, <3>1, <3>2 DEF Apart
  <2>3. CASE ~Clips
    <3>1. p.dir = "staged" /\ p.copy = k
      BY <1>1, <2>3 DEF PathsOf
    <3>2. p # y[2]
      BY <2>1, <3>1 DEF PathsOf, Work
    <3>3. y \in DOMAIN parts /\ p \in parts[y].aliases
      BY <1>3, <3>2 DEF Owners
    <3> QED
      BY <3>1, <3>3 DEF Good, AliasesAreCopies
  <2> QED
    BY <2>2, <2>3
<1> QED
  BY <1>2, <1>3 DEF FindUploadPart

\* What the steps between a filter and the end of a call have in common.
LEMMA LateFacts ==
    ASSUME Good, pc \in {"filter", "upload"}, pc' \in {"filter", "upload"}, who' = who, job' = job,
           outcome' = outcome
    PROVE  /\ ReelsAreOwn' /\ GradesAreTrue' /\ NamingFits' /\ OutcomeFits'
           /\ \A i \in People : Settled(i) => Settled(i)'
<1>1. OutcomeFits'
  BY OutcomeStays
<1> QED
  BY <1>1 DEF ReelsAreOwn, GradesAreTrue, NamingFits, Settled
\* A draft that was not marked has left no trace in its part.
LEMMA BlankBefore ==
    ASSUME Good, NEW k \in 1..Len(pending), pending[k].phase \notin MarkedPhases
    PROVE  Own(k) \in DOMAIN parts /\ IsPart(parts[Own(k)]) /\ Blank(parts[Own(k)])
<1>1. Own(k) \in DOMAIN parts /\ IsPart(parts[Own(k)])
  BY DEF Good, ItemsAreOwned, Shapes
<1>2. ASSUME ~Blank(parts[Own(k)]) PROVE FALSE
  <2>1. PICK l \in 1..Len(pending) : Own(l) = Own(k) /\ pending[l].phase \in MarkedPhases
    BY <1>1, <1>2 DEF Good, PartsHaveItems
  <2>2. l = k
    BY <2>1 DEF Good, ItemsDiffer
  <2> QED
    BY <2>1, <2>2
<1> QED
  BY <1>1, <1>2

\* One draft goes a step on: the others, their parts and objects stay.
LEMMA OneDraftMoves ==
    ASSUME Apart, Good, pc = "upload", NEW k \in 1..Len(pending), Moved,
           \A l \in 1..Len(pending) : l # k => pending'[l] = pending[l],
           pending'[k].phase # "wait",
           DOMAIN parts' = DOMAIN parts,
           \A x \in DOMAIN parts : x # Own(k) => parts'[x] = parts[x],
           IsPart(parts'[Own(k)]), parts'[Own(k)].aliases = parts[Own(k)].aliases,
           QaOk(parts'[Own(k)]) => QaOk(parts[Own(k)]),
           parts'[Own(k)].specs = parts[Own(k)].specs,
           \A p \in DOMAIN files' : p \in DOMAIN files /\ files'[p] = files[p],
           \A name \in DOMAIN review : name \in DOMAIN review',
           \A name \in DOMAIN review : name # pending[k].name => review'[name] = review[name],
           pending'[k].phase \in {"put", "marked", "saved", "done"} =>
               pending[k].name \in DOMAIN review' /\ FileFits(review'[pending[k].name], Own(k)),
           Blank(parts'[Own(k)]) \/ pending'[k].phase \in MarkedPhases,
           pending'[k].phase \in MarkedPhases =>
               RecordFits(pending'[k], Own(k), parts'[Own(k)], DOMAIN authority'),
           DOMAIN authority \subseteq DOMAIN authority',
           \A name \in DOMAIN authority' : name # pending[k].name =>
               name \in DOMAIN authority /\ authority'[name] = authority[name],
           pending[k].name \in DOMAIN authority' =>
               /\ pending'[k].phase \in {"saved", "done"}
               /\ authority'[pending[k].name] = pending'[k].record,
           UNCHANGED <<job, pc, who, final, todo, rows, used, passed, outcome>>
    PROVE  Good'
<1>1. /\ PartsAreKnown' /\ AliasesAreCopies' /\ ItemsAreOwned' /\ ItemsDiffer'
      /\ \A l \in 1..Len(pending) : Own(l)' = Own(l)
  <2>1. \A i \in People : Settled(i) => Settled(i)'
    BY DEF Settled
  <2>2. \A x \in DOMAIN parts : parts'[x].aliases = parts[x].aliases
    OBVIOUS
  <2> QED
    BY <2>1, <2>2, MovedKeeps
<1>2. /\ ReelsAreOwn' /\ GradesAreTrue' /\ NamingFits' /\ OutcomeFits'
  BY LateFacts
<1>3. Len(pending') = Len(pending) /\ \A l \in 1..Len(pending) : pending'[l].name = pending[l].name
  BY DEF Moved
<1>4. \A l \in 1..Len(pending) :
        /\ Own(l) \in DOMAIN parts
        /\ l # k => Own(l) # Own(k) /\ pending[l].name # pending[k].name
        /\ l # k => parts'[Own(l)] = parts[Own(l)]
  BY DEF Good, ItemsDiffer, ItemsAreOwned
<1>5. ASSUME NEW f, NEW l \in 1..Len(pending), FileFits(f, Own(l))
      PROVE  FileFits(f, Own(l))'
  <2>1. QaOk(parts'[Own(l)]) /\ parts'[Own(l)].specs => QaOk(parts[Own(l)]) /\ parts[Own(l)].specs
    BY <1>4
  <2>2. Own(l)' = Own(l)
    BY <1>1
  <2> QED
    BY <1>5, <2>1, <2>2 DEF FileFits, People, Person
<1>6. Shapes'
  <2>1. \A x \in DOMAIN parts : IsPart(parts'[x])
    BY DEF Good, Shapes
  <2>2. IsSeq(pending') /\ \A l \in 1..Len(pending) : IsItem(pending'[l])
    BY DEF Moved
  <2>3. final' = final /\ todo' = todo
    OBVIOUS
  <2> QED
    BY <2>1, <2>2, <2>3, <1>3 DEF Good, Shapes, People
<1>7. WaitingFits'
  <2> SUFFICES ASSUME NEW l \in 1..Len(pending), pending'[l].phase = "wait",
                      pending'[l].path \in DOMAIN files'
               PROVE  FileFits(files[pending[l].path], Own(l))'
    BY <1>3 DEF WaitingFits
  <2>1. l # k /\ pending'[l] = pending[l]
    OBVIOUS
  <2>2. FileFits(files[pending[l].path], Own(l)) /\ files'[pending[l].path] = files[pending[l].path]
    BY <2>1 DEF Good, WaitingFits
  <2> QED
    BY <2>1, <2>2, <1>5
<1>8. ReviewFits'
  <2> SUFFICES ASSUME NEW l \in 1..Len(pending),
                      pending'[l].phase \in {"put", "marked", "saved", "done"}
               PROVE  pending'[l].name \in DOMAIN review' /\ FileFits(review[pending[l].name], Own(l))'
    BY <1>3 DEF ReviewFits
  <2>1. CASE l = k
    BY <2>1, <1>3, <1>5
  <2>2. CASE l # k
    <3>1. pending[l].name \in DOMAIN review /\ FileFits(review[pending[l].name], Own(l))
      BY <2>2 DEF Good, ReviewFits
    <3>2. review'[pending[l].name] = review[pending[l].name] /\ pending'[l] = pending[l]
      BY <2>2, <3>1, <1>4
    <3> QED
      BY <3>1, <3>2, <1>5
  <2> QED
    BY <2>1, <2>2
<1>9. PartsHaveItems'
  <2> SUFFICES ASSUME NEW x \in DOMAIN parts, ~Blank(parts'[x])
               PROVE  \E l \in 1..Len(pending) : Own(l)' = x /\ pending'[l].phase \in MarkedPhases
    BY <1>3 DEF PartsHaveItems
  <2>1. CASE x = Own(k)
    BY <2>1, <1>1
  <2>2. CASE x # Own(k)
    <3>1. PICK l \in 1..Len(pending) : Own(l) = x /\ pending[l].phase \in MarkedPhases
      BY <2>2 DEF Good, PartsHaveItems
    <3> QED
      BY <2>2, <3>1, <1>1
  <2> QED
    BY <2>1, <2>2
<1>10. RecordsFit'
  <2> SUFFICES ASSUME NEW l \in 1..Len(pending), pending'[l].phase \in MarkedPhases
               PROVE  RecordFits(pending'[l], Own(l)', parts'[Own(l)'], DOMAIN authority')
    BY <1>3 DEF RecordsFit
  <2>1. CASE l = k
    BY <2>1, <1>1
  <2>2. CASE l # k
    <3>1. RecordFits(pending[l], Own(l), parts[Own(l)], DOMAIN authority)
      BY <2>2 DEF Good, RecordsFit
    <3>2. RecordFits(pending[l], Own(l), parts[Own(l)], DOMAIN authority')
      BY <3>1 DEF RecordFits
    <3> QED
      BY <2>2, <3>2, <1>1, <1>4
  <2> QED
    BY <2>1, <2>2
<1>11. AuthorityFits'
  <2> SUFFICES ASSUME NEW name \in DOMAIN authority'
               PROVE  \E l \in 1..Len(pending) :
                        /\ pending'[l].name = name /\ pending'[l].phase \in {"saved", "done"}
                        /\ authority'[name] = pending'[l].record
    BY <1>3 DEF AuthorityFits
  <2>1. CASE name = pending[k].name
    BY <2>1, <1>3
  <2>2. CASE name # pending[k].name
    <3>1. PICK l \in 1..Len(pending) :
            /\ pending[l].name = name /\ pending[l].phase \in {"saved", "done"}
            /\ authority[name] = pending[l].record
      BY <2>2 DEF Good, AuthorityFits
    <3> QED
      BY <2>2, <3>1
  <2> QED
    BY <2>1, <2>2
<1> QED
  BY <1>1, <1>2, <1>6, <1>7, <1>8, <1>9, <1>10, <1>11 DEF Good

\* A draft's row is written after it was marked.
LEMMA NoRowYet ==
    ASSUME Good, NEW k \in 1..Len(pending), pending[k].phase \notin {"saved", "done"}
    PROVE  pending[k].name \notin DOMAIN authority
<1> SUFFICES ASSUME pending[k].name \in DOMAIN authority PROVE FALSE
  OBVIOUS
<1>1. PICK l \in 1..Len(pending) :
        pending[l].name = pending[k].name /\ pending[l].phase \in {"saved", "done"}
  BY DEF Good, AuthorityFits
<1>2. l = k
  BY <1>1 DEF Good, ItemsDiffer
<1> QED
  BY <1>1, <1>2

LEMMA PutKeeps ==
    ASSUME Apart, Good, NEW k \in 1..Len(pending), Put(k)
    PROVE  Good'
<1>a. PICK p : p = pending[k].path
  OBVIOUS
<1>b. PICK name : name = pending[k].name
  OBVIOUS
<1>1. /\ pc = "upload" /\ pending[k].phase = "wait" /\ p \in DOMAIN files
      /\ review' = At(review, name, files[p])
      /\ pending' = Phase(k, "put")
      /\ UNCHANGED <<job, pc, who, files, final, todo, parts, rows, used, authority, passed, outcome>>
  BY <1>a, <1>b DEF Put, Turn, Exists, qaVars, gateVars, manifest
<1>2. /\ Moved /\ pending'[k].phase = "put"
      /\ \A l \in 1..Len(pending) : l # k => pending'[l] = pending[l]
  BY <1>1, PhaseFacts
<1>3. Own(k) \in DOMAIN parts /\ IsPart(parts[Own(k)]) /\ Blank(parts[Own(k)])
  BY <1>1, BlankBefore DEF MarkedPhases
<1>4. FileFits(files[p], Own(k))
  BY <1>1, <1>a DEF Good, WaitingFits
<1>5. /\ name \in DOMAIN review' /\ review'[name] = files[p]
      /\ \A m \in DOMAIN review : m \in DOMAIN review' /\ (m # name => review'[m] = review[m])
  BY <1>1 DEF At
<1>6. name \notin DOMAIN authority
  BY <1>1, <1>b, NoRowYet
<1> QED
  BY <1>b, <1>1, <1>2, <1>3, <1>4, <1>5, <1>6, OneDraftMoves DEF MarkedPhases

LEMMA PutFailsKeeps ==
    ASSUME Apart, Good, NEW k \in 1..Len(pending), PutFails(k)
    PROVE  Good'
<1>a. PICK x : x = Own(k)
  OBVIOUS
<1>b. PICK name : name = pending[k].name
  OBVIOUS
<1>1. /\ pc = "upload" /\ pending[k].phase = "wait"
      /\ pending' = Phase(k, "failed")
      /\ files' = Without(files, {pending[k].path})
      /\ UNCHANGED <<job, pc, who, final, todo, rows, used, authority, passed, outcome>>
  BY DEF PutFails, Turn, qaVars, gateVars
<1>2. /\ Moved /\ pending'[k].phase = "failed"
      /\ \A l \in 1..Len(pending) : l # k => pending'[l] = pending[l]
  BY <1>1, PhaseFacts
<1>3. x \in DOMAIN parts /\ IsPart(parts[x]) /\ Blank(parts[x])
  BY <1>1, <1>a, BlankBefore DEF MarkedPhases
<1>4. parts' = [parts EXCEPT ![x].uploaded = FALSE, ![x].failed = TRUE]
  BY <1>a, SoleOwner DEF PutFails, MarkError, Sole
<1>5. /\ DOMAIN parts' = DOMAIN parts
      /\ \A y \in DOMAIN parts : y # x => parts'[y] = parts[y]
      /\ parts'[x] = [parts[x] EXCEPT !.uploaded = FALSE, !.failed = TRUE]
  BY <1>3, <1>4
<1>6. /\ IsPart(parts'[x]) /\ Blank(parts'[x]) /\ parts'[x].aliases = parts[x].aliases
      /\ parts'[x].specs = parts[x].specs /\ QaOk(parts'[x]) = QaOk(parts[x])
  BY <1>3, <1>5 DEF IsPart, Blank, QaOk
<1>7. \A p \in DOMAIN files' : p \in DOMAIN files /\ files'[p] = files[p]
  BY <1>1 DEF Without
<1>8. \A m \in DOMAIN review : m \in DOMAIN review' /\ (m # name => review'[m] = review[m])
  BY <1>b DEF PutFails, At
<1>9. name \notin DOMAIN authority
  BY <1>1, <1>b, NoRowYet
<1> QED
  BY <1>a, <1>b, <1>1, <1>2, <1>3, <1>5, <1>6, <1>7, <1>8, <1>9, OneDraftMoves DEF MarkedPhases

LEMMA MarkKeeps ==
    ASSUME Apart, Good, NEW k \in 1..Len(pending), Mark(k)
    PROVE  Good'
<1>a. PICK x : x = Own(k)
  OBVIOUS
<1>b. PICK name : name = pending[k].name
  OBVIOUS
<1>c. PICK up : up = [parts[x] EXCEPT !.uploaded = TRUE, !.failed = FALSE, !.name = name,
                                      !.persisted = FALSE]
  OBVIOUS
<1>d. PICK record : record = [id |-> x[1], publishable |-> IntendedPublishable(up), run |-> run]
  OBVIOUS
<1>1. /\ pc = "upload" /\ pending[k].phase = "put"
      /\ UNCHANGED <<job, pc, who, final, todo, rows, used, review, authority, passed, outcome>>
  BY DEF Mark, qaVars, gateVars, published
<1>2. /\ parts' = [parts EXCEPT ![x] = up]
      /\ pending' = [pending EXCEPT ![k].phase = "marked", ![k].record = record]
      /\ files' = files
  BY <1>a, <1>b, <1>c, <1>d, SoleOwner DEF Mark, Sole
<1>3. x \in DOMAIN parts /\ IsPart(parts[x]) /\ Blank(parts[x])
  BY <1>1, <1>a, BlankBefore DEF MarkedPhases
<1>4. /\ Moved /\ pending'[k].phase = "marked" /\ pending'[k].record = record
      /\ pending'[k].name = name
      /\ \A l \in 1..Len(pending) : l # k => pending'[l] = pending[l]
  <2>1. IsSeq(pending) /\ DOMAIN pending = 1..Len(pending) /\ Len(pending) \in Nat
    BY SeqFacts DEF Good, Shapes
  <2>2. \A l \in 1..Len(pending) : IsItem(pending[l])
    BY DEF Good, Shapes
  <2>3. pending' \in [1..Len(pending) -> ToSet(pending')] /\ DOMAIN pending' = 1..Len(pending)
    BY <2>1, <1>2 DEF ToSet
  <2>4. IsSeq(pending') /\ Len(pending') = Len(pending)
    BY <2>1, <2>3, FunctionIsSeq DEF IsSeq
  <2>5. \A l \in 1..Len(pending) : l # k => pending'[l] = pending[l]
    BY <2>1, <1>2
  <2>6. pending'[k] = [pending[k] EXCEPT !.phase = "marked", !.record = record]
    BY <2>1, <1>2
  <2>7. /\ pending'[k].phase = "marked" /\ pending'[k].record = record
        /\ pending'[k].who = pending[k].who /\ pending'[k].path = pending[k].path
        /\ pending'[k].name = pending[k].name /\ IsItem(pending'[k])
    BY <2>2, <2>6 DEF IsItem
  <2> QED
    BY <2>2, <2>4, <2>5, <2>7, <1>b DEF Moved
<1>5. /\ DOMAIN parts' = DOMAIN parts /\ parts'[x] = up
      /\ \A y \in DOMAIN parts : y # x => parts'[y] = parts[y]
  BY <1>2, <1>3
<1>6. /\ IsPart(up) /\ up.aliases = parts[x].aliases /\ up.specs = parts[x].specs
      /\ up.recorded = parts[x].recorded /\ up.qa = parts[x].qa
      /\ up.name = name /\ ~up.persisted /\ ~up.lost
  BY <1>3, <1>c DEF IsPart, Blank
<1>7. QaOk(up) = QaOk(parts[x])
  BY <1>6 DEF QaOk
<1>8. RecordFits(pending'[k], x, up, DOMAIN authority')
  <2>1. IntendedPublishable(up) => QaOk(up) /\ up.specs
    BY DEF IntendedPublishable, Issues
  <2>2. record.id = x[1] /\ record.publishable = IntendedPublishable(up)
    BY <1>d
  <2> QED
    BY <2>1, <2>2, <1>4, <1>6 DEF RecordFits
<1>9. name \in DOMAIN review /\ FileFits(review[name], x)
  BY <1>1, <1>a, <1>b DEF Good, ReviewFits
<1>10. name \notin DOMAIN authority
  BY <1>1, <1>b, NoRowYet
<1>11. /\ IsPart(parts'[x]) /\ parts'[x].aliases = parts[x].aliases
       /\ parts'[x].specs = parts[x].specs /\ (QaOk(parts'[x]) => QaOk(parts[x]))
       /\ RecordFits(pending'[k], x, parts'[x], DOMAIN authority')
  BY <1>5, <1>6, <1>7, <1>8
<1>12. /\ \A p \in DOMAIN files' : p \in DOMAIN files /\ files'[p] = files[p]
       /\ \A m \in DOMAIN review : m \in DOMAIN review'
       /\ \A m \in DOMAIN review : m # name => review'[m] = review[m]
       /\ DOMAIN authority \subseteq DOMAIN authority'
       /\ \A m \in DOMAIN authority' : m # name => m \in DOMAIN authority /\ authority'[m] = authority[m]
       /\ name \in DOMAIN review' /\ FileFits(review'[name], x)
       /\ name \notin DOMAIN authority'
  BY <1>1, <1>2, <1>9, <1>10
<1>13. /\ pending'[k].phase # "wait" /\ pending'[k].phase \in MarkedPhases
  BY <1>4 DEF MarkedPhases
<1>14. /\ DOMAIN parts' = DOMAIN parts
       /\ \A y \in DOMAIN parts : y # x => parts'[y] = parts[y]
  BY <1>5
<1>15. Moved /\ \A l \in 1..Len(pending) : l # k => pending'[l] = pending[l]
  BY <1>4
<1> QED
  BY <1>a, <1>b, <1>1, <1>11, <1>12, <1>13, <1>14, <1>15, OneDraftMoves

LEMMA PersistKeeps ==
    ASSUME Apart, Good, NEW k \in 1..Len(pending), Persist(k)
    PROVE  Good'
<1>a. PICK x : x = Own(k)
  OBVIOUS
<1>b. PICK name : name = pending[k].name
  OBVIOUS
<1>1. /\ pc = "upload" /\ pending[k].phase = "marked"
      /\ pending' = Phase(k, "saved") /\ files' = Without(files, {pending[k].path})
      /\ UNCHANGED <<job, pc, who, final, todo, rows, used, review, passed, outcome>>
  BY DEF Persist, qaVars, gateVars
<1>2. PICK ok \in BOOLEAN, stored \in BOOLEAN :
        /\ ok => stored
        /\ authority' = IF stored THEN At(authority, name, pending[k].record) ELSE authority
        /\ parts' = [parts EXCEPT ![x].persisted = ok, ![x].lost = ~ok]
  BY <1>a, <1>b, SoleOwner DEF Persist, Sole
<1>3. /\ Moved /\ pending'[k].phase = "saved" /\ pending'[k].record = pending[k].record
      /\ pending'[k].name = name
      /\ \A l \in 1..Len(pending) : l # k => pending'[l] = pending[l]
  BY <1>1, <1>b, PhaseFacts DEF Moved
<1>4. x \in DOMAIN parts /\ IsPart(parts[x])
  BY <1>a DEF Good, ItemsAreOwned, Shapes
<1>5. RecordFits(pending[k], x, parts[x], DOMAIN authority)
  BY <1>1, <1>a DEF Good, RecordsFit, MarkedPhases
<1>6. PICK part : part = [parts[x] EXCEPT !.persisted = ok, !.lost = ~ok]
  OBVIOUS
<1>7. /\ DOMAIN parts' = DOMAIN parts /\ parts'[x] = part
      /\ \A y \in DOMAIN parts : y # x => parts'[y] = parts[y]
  BY <1>2, <1>4, <1>6
<1>8. /\ IsPart(part) /\ part.aliases = parts[x].aliases /\ part.specs = parts[x].specs
      /\ part.recorded = parts[x].recorded /\ part.qa = parts[x].qa
      /\ part.name = parts[x].name /\ part.uploaded = parts[x].uploaded
      /\ part.failed = parts[x].failed
  BY <1>4, <1>6 DEF IsPart
<1>9. part.persisted = ok /\ part.lost = ~ok
  BY <1>4, <1>6 DEF IsPart
<1>10. QaOk(part) = QaOk(parts[x])
  BY <1>8 DEF QaOk
<1>11. ok => (IntendedPublishable(part) <=> IntendedPublishable(parts[x]))
  <2>1. ~parts[x].lost
    BY <1>1, <1>5 DEF RecordFits
  <2>2. ok => Issues(part) = Issues(parts[x])
    BY <2>1, <1>8, <1>9 DEF Issues
  <2> QED
    BY <2>2, <1>8, <1>10 DEF IntendedPublishable
<1>12. /\ DOMAIN authority \subseteq DOMAIN authority'
       /\ stored => name \in DOMAIN authority' /\ authority'[name] = pending[k].record
       /\ ~stored => authority' = authority
       /\ \A m \in DOMAIN authority' : m # name => m \in DOMAIN authority /\ authority'[m] = authority[m]
  BY <1>2 DEF At
<1>13. RecordFits(pending'[k], x, part, DOMAIN authority')
  <2>1. part.persisted => name \in DOMAIN authority'
    BY <1>2, <1>9, <1>12
  <2>2. part.persisted => (pending[k].record.publishable <=> IntendedPublishable(part))
    BY <1>1, <1>5, <1>9, <1>11 DEF RecordFits
  <2>3. part.name = name /\ pending[k].record.id = x[1]
    BY <1>5, <1>8, <1>b DEF RecordFits
  <2>4. pending[k].record.publishable => QaOk(part) /\ part.specs
    BY <1>5, <1>8, <1>10 DEF RecordFits
  <2> QED
    BY <2>1, <2>2, <2>3, <2>4, <1>3 DEF RecordFits
<1>14. name \in DOMAIN review /\ FileFits(review[name], x)
  BY <1>1, <1>a, <1>b DEF Good, ReviewFits
<1>15. name \notin DOMAIN authority
  BY <1>1, <1>b, NoRowYet
<1>16. \A p \in DOMAIN files' : p \in DOMAIN files /\ files'[p] = files[p]
  BY <1>1 DEF Without
<1>17. name \in DOMAIN authority' => authority'[name] = pending'[k].record
  BY <1>3, <1>12, <1>15
<1> QED
  BY <1>a, <1>b, <1>1, <1>3, <1>7, <1>8, <1>10, <1>12, <1>13, <1>14, <1>16, <1>17, OneDraftMoves
     DEF MarkedPhases

LEMMA SaveMetadataKeeps ==
    ASSUME Apart, Good, NEW k \in 1..Len(pending), SaveMetadata(k)
    PROVE  Good'
<1>a. PICK x : x = Own(k)
  OBVIOUS
<1>b. PICK name : name = pending[k].name
  OBVIOUS
<1>1. /\ pc = "upload" /\ pending[k].phase = "saved"
      /\ pending' = Phase(k, "done")
      /\ UNCHANGED <<job, pc, who, files, final, todo, rows, parts, used, review, authority, passed,
                     outcome>>
  BY DEF SaveMetadata, qaVars, gateVars, manifest
<1>2. /\ Moved /\ pending'[k].phase = "done" /\ pending'[k].record = pending[k].record
      /\ pending'[k].name = name
      /\ \A l \in 1..Len(pending) : l # k => pending'[l] = pending[l]
  BY <1>1, <1>b, PhaseFacts DEF Moved
<1>3. x \in DOMAIN parts /\ IsPart(parts[x])
  BY <1>a DEF Good, ItemsAreOwned, Shapes
<1>4. RecordFits(pending'[k], x, parts[x], DOMAIN authority)
  <2>1. RecordFits(pending[k], x, parts[x], DOMAIN authority)
    BY <1>1, <1>a DEF Good, RecordsFit, MarkedPhases
  <2> QED
    BY <2>1, <1>1, <1>2, <1>b DEF RecordFits
<1>5. name \in DOMAIN review /\ FileFits(review[name], x)
  BY <1>1, <1>a, <1>b DEF Good, ReviewFits
<1>6. name \in DOMAIN authority => authority[name] = pending'[k].record
  <2> SUFFICES ASSUME name \in DOMAIN authority PROVE authority[name] = pending[k].record
    BY <1>2
  <2>1. PICK l \in 1..Len(pending) : pending[l].name = name /\ authority[name] = pending[l].record
    BY DEF Good, AuthorityFits
  <2>2. l = k
    BY <2>1, <1>b DEF Good, ItemsDiffer
  <2> QED
    BY <2>1, <2>2
<1> QED
  BY <1>a, <1>b, <1>1, <1>2, <1>3, <1>4, <1>5, <1>6, OneDraftMoves DEF MarkedPhases

LEMMA FilterDuplicatesKeeps ==
    ASSUME Apart, Good, FilterDuplicates
    PROVE  Good'
<1>1. PICK drop \in SUBSET {k \in 1..Len(pending) : pending[k].phase = "wait"} :
        pending' = [k \in 1..Len(pending) |->
                      IF k \in drop THEN [pending[k] EXCEPT !.phase = "dropped"] ELSE pending[k]]
  BY DEF FilterDuplicates
<1>2. /\ pc = "filter" /\ pc' = "upload"
      /\ UNCHANGED <<job, who, final, todo, parts, rows, used, review, authority, passed, outcome>>
  BY DEF FilterDuplicates, qaVars, gateVars, manifest, published
<1>3. \A p \in DOMAIN files' : p \in DOMAIN files /\ files'[p] = files[p]
  BY DEF FilterDuplicates, Without
<1>4. /\ IsSeq(pending) /\ DOMAIN pending = 1..Len(pending) /\ Len(pending) \in Nat
      /\ \A k \in 1..Len(pending) : IsItem(pending[k])
  BY SeqFacts DEF Good, Shapes
<1>5. IsSeq(pending') /\ Len(pending') = Len(pending)
  <2>1. pending' \in [1..Len(pending) -> ToSet(pending')]
    BY <1>1 DEF ToSet
  <2> QED
    BY <1>4, <2>1, FunctionIsSeq DEF IsSeq
<1>6. \A k \in 1..Len(pending) :
        /\ k \notin drop => pending'[k] = pending[k]
        /\ k \in drop => pending'[k] = [pending[k] EXCEPT !.phase = "dropped"] /\ pending[k].phase = "wait"
  BY <1>1
<1>7. \A k \in 1..Len(pending) :
        /\ pending'[k].phase = "dropped" \/ pending'[k] = pending[k]
        /\ IsItem(pending'[k])
        /\ pending'[k].who = pending[k].who /\ pending'[k].path = pending[k].path
        /\ pending'[k].name = pending[k].name
        /\ pending[k].phase # "wait" => pending'[k] = pending[k]
  BY <1>4, <1>6 DEF IsItem
<1>8. Moved
  BY <1>5, <1>7 DEF Moved
<1>9. /\ ReelsAreOwn' /\ GradesAreTrue' /\ NamingFits' /\ OutcomeFits'
      /\ \A i \in People : Settled(i) => Settled(i)'
  BY <1>2, LateFacts
<1>10. /\ PartsAreKnown' /\ AliasesAreCopies' /\ ItemsAreOwned' /\ ItemsDiffer'
       /\ \A k \in 1..Len(pending) : Own(k)' = Own(k)
  BY <1>2, <1>8, <1>9, MovedKeeps
<1>11. ASSUME NEW f, NEW x, FileFits(f, x) PROVE FileFits(f, x)'
  BY <1>2, <1>11 DEF FileFits, People, Person
<1>12. Shapes'
  BY <1>2, <1>5, <1>7 DEF Good, Shapes, People
<1>13. WaitingFits'
  <2> SUFFICES ASSUME NEW k \in 1..Len(pending), pending'[k].phase = "wait",
                      pending'[k].path \in DOMAIN files'
               PROVE  FileFits(files[pending[k].path], Own(k))'
    BY <1>5 DEF WaitingFits
  <2>1. pending'[k] = pending[k]
    BY <1>7
  <2>2. FileFits(files[pending[k].path], Own(k)) /\ files'[pending[k].path] = files[pending[k].path]
    BY <1>3, <2>1 DEF Good, WaitingFits
  <2> QED
    BY <2>1, <2>2, <1>10, <1>11
<1>14. ReviewFits'
  <2> SUFFICES ASSUME NEW k \in 1..Len(pending),
                      pending'[k].phase \in {"put", "marked", "saved", "done"}
               PROVE  pending'[k].name \in DOMAIN review' /\ FileFits(review[pending[k].name], Own(k))'
    BY <1>5 DEF ReviewFits
  <2>1. pending'[k] = pending[k]
    BY <1>7
  <2>2. pending[k].name \in DOMAIN review /\ FileFits(review[pending[k].name], Own(k))
    BY <2>1 DEF Good, ReviewFits
  <2> QED
    BY <2>1, <2>2, <1>2, <1>10, <1>11
<1>15. PartsHaveItems'
  <2> SUFFICES ASSUME NEW x \in DOMAIN parts, ~Blank(parts[x])
               PROVE  \E k \in 1..Len(pending) : Own(k)' = x /\ pending'[k].phase \in MarkedPhases
    BY <1>2, <1>5 DEF PartsHaveItems
  <2>1. PICK k \in 1..Len(pending) : Own(k) = x /\ pending[k].phase \in MarkedPhases
    BY DEF Good, PartsHaveItems
  <2> QED
    BY <2>1, <1>7, <1>10 DEF MarkedPhases
<1>16. RecordsFit'
  <2> SUFFICES ASSUME NEW k \in 1..Len(pending), pending'[k].phase \in MarkedPhases
               PROVE  RecordFits(pending'[k], Own(k)', parts'[Own(k)'], DOMAIN authority')
    BY <1>5 DEF RecordsFit
  <2>1. pending'[k] = pending[k]
    BY <1>7 DEF MarkedPhases
  <2> QED
    BY <2>1, <1>2, <1>10 DEF Good, RecordsFit
<1>17. AuthorityFits'
  <2> SUFFICES ASSUME NEW name \in DOMAIN authority
               PROVE  \E k \in 1..Len(pending) :
                        /\ pending'[k].name = name /\ pending'[k].phase \in {"saved", "done"}
                        /\ authority[name] = pending'[k].record
    BY <1>2, <1>5 DEF AuthorityFits
  <2>1. PICK k \in 1..Len(pending) :
          /\ pending[k].name = name /\ pending[k].phase \in {"saved", "done"}
          /\ authority[name] = pending[k].record
    BY DEF Good, AuthorityFits
  <2> QED
    BY <2>1, <1>7
<1> QED
  BY <1>9, <1>10, <1>12, <1>13, <1>14, <1>15, <1>16, <1>17 DEF Good

LEMMA FinishCallKeeps ==
    ASSUME Apart, Good, FinishCall
    PROVE  Good'
<1>1. /\ pc = "upload" /\ \A k \in 1..Len(pending) : pending[k].phase \in Over
      /\ UNCHANGED <<job, pending, parts, rows, used, review, authority, passed, final, todo, outcome>>
  BY DEF FinishCall, qaVars, gateVars, manifest, draftVars, published
<1>2. \/ pc' = "audit" /\ who' = who
      \/ pc' = "render" /\ who' = who + 1 /\ who + 1 \in People
  BY PeopleFacts DEF FinishCall, Good
<1>3. \A i \in People : Settled(i) => Settled(i)'
  BY <1>1, <1>2, PeopleFacts DEF Settled, Good
<1>4. /\ PartsAreKnown' /\ AliasesAreCopies' /\ ItemsAreOwned' /\ ItemsDiffer'
      /\ ReviewFits' /\ PartsHaveItems' /\ RecordsFit' /\ AuthorityFits'
  BY <1>1, <1>3, Upstream
<1>5. Shapes'
  BY <1>1, <1>2 DEF Good, Shapes, People
<1>6. ReelsAreOwn' /\ GradesAreTrue' /\ NamingFits'
  BY <1>2 DEF ReelsAreOwn, GradesAreTrue, NamingFits
<1>7. WaitingFits'
  BY <1>1 DEF WaitingFits, Over
<1>8. OutcomeFits'
  BY <1>1, OutcomeStays
<1> QED
  BY <1>4, <1>5, <1>6, <1>7, <1>8 DEF Good

----------------------------------------------------------------------------
(* The invariant of every run. *)

LEMMA AuditKeeps ==
    ASSUME Apart, Good, Audit
    PROVE  Good'
<1>1. /\ pc = "audit" /\ pc' = "done"
      /\ UNCHANGED <<job, run, who, files, ver, scopes, unscoped, qaVars, gateVars, manifest,
                     draftVars, published, passed>>
      /\ outcome' = IF ~GatePasses THEN "failed" ELSE IF Gaps THEN "partial" ELSE "complete"
  BY DEF Audit
<1>2. \A i \in People : Settled(i) => Settled(i)'
  BY <1>1 DEF Settled
<1>3. /\ PartsAreKnown' /\ AliasesAreCopies' /\ ItemsAreOwned' /\ ItemsDiffer'
      /\ ReviewFits' /\ PartsHaveItems' /\ RecordsFit' /\ AuthorityFits'
  BY <1>1, <1>2, Upstream DEF manifest, draftVars, published
<1>4. Shapes'
  BY <1>1 DEF Good, Shapes, People, qaVars, gateVars, manifest, draftVars
<1>5. ReelsAreOwn' /\ GradesAreTrue' /\ NamingFits'
  BY <1>1 DEF ReelsAreOwn, GradesAreTrue, NamingFits
<1>6. WaitingFits'
  BY <1>1 DEF Good, WaitingFits, FileFits, Own, Origin, Person, People, manifest, draftVars
<1>7. OutcomeFits'
  <2>1. job' = job /\ rows' = rows /\ parts' = parts
    BY <1>1 DEF manifest
  <2>2. \A x : Publishable(parts'[x]) = Publishable(parts[x]) /\ PartBlocks(parts'[x]) = PartBlocks(parts[x])
    BY <2>1
  <2>3. Gaps' = Gaps /\ AnyPublishable' = AnyPublishable
    BY <2>1 DEF Gaps, AnyPublishable
  <2>4. Blocking' = Blocking
    BY <2>1 DEF Blocking, NamedTwice, Covered, People, Person
  <2>5. GatePasses' = GatePasses
    BY <2>1, <2>3, <2>4 DEF GatePasses
  <2> QED
    BY <1>1, <2>3, <2>5 DEF OutcomeFits
<1> QED
  BY <1>3, <1>4, <1>5, <1>6, <1>7 DEF Good

LEMMA InitGood ==
    ASSUME Init
    PROVE  Good
<1>1. /\ job \in Jobs /\ pc = "render" /\ who = 1 /\ outcome = None
      /\ final = <<>> /\ todo = <<>> /\ pending = <<>> /\ used = {}
      /\ parts = <<>> /\ rows = <<>> /\ files = <<>> /\ authority = <<>>
  BY DEF Init
<1>2. IsSeq(<<>>) /\ Len(<<>>) = 0 /\ DOMAIN <<>> = {}
  BY DEF IsSeq
<1>3. who \in People
  BY <1>1, JobsAssumption DEF People
<1>4. Shapes
  BY <1>1, <1>2, <1>3 DEF Shapes
<1>5. PartsAreKnown /\ AliasesAreCopies /\ ItemsAreOwned /\ PartsHaveItems /\ RecordsFit /\ AuthorityFits
  BY <1>1, <1>2 DEF PartsAreKnown, AliasesAreCopies, ItemsAreOwned, PartsHaveItems, RecordsFit, AuthorityFits
<1>6. ItemsDiffer
  BY <1>1, <1>2, FS_EmptySet DEF ItemsDiffer
<1>7. ReelsAreOwn /\ GradesAreTrue /\ NamingFits /\ WaitingFits /\ ReviewFits
  BY <1>1, <1>2 DEF ReelsAreOwn, GradesAreTrue, NamingFits, WaitingFits, ReviewFits
<1>8. OutcomeFits
  BY <1>1 DEF OutcomeFits, None
<1> QED
  BY <1>4, <1>5, <1>6, <1>7, <1>8 DEF Good

LEMMA UnchangedKeeps ==
    ASSUME Good, UNCHANGED vars
    PROVE  Good'
<1>1. UNCHANGED <<job, pc, who, files, final, todo, graded, pending, parts, rows, used, review,
                  authority, passed, outcome>>
  BY DEF vars, qaVars, gateVars, manifest, draftVars, published
<1>2. \A i \in People : Settled(i) => Settled(i)'
  BY <1>1 DEF Settled
<1>3. /\ PartsAreKnown' /\ AliasesAreCopies' /\ ItemsAreOwned' /\ ItemsDiffer'
      /\ ReviewFits' /\ PartsHaveItems' /\ RecordsFit' /\ AuthorityFits'
  BY <1>1, <1>2, Upstream
<1>4. Shapes'
  BY <1>1 DEF Good, Shapes, People
<1>5. /\ \A i : Person(i)' = Person(i) /\ PathsOf(i)' = PathsOf(i)
      /\ \A k : Own(k)' = Own(k)
  BY <1>1 DEF Person, PathsOf, Clips, Own
<1>6. ASSUME NEW f, NEW x, FileFits(f, x) PROVE FileFits(f, x)'
  BY <1>1, <1>6 DEF FileFits, People, Person
<1>7. ReelsAreOwn' /\ GradesAreTrue'
  BY <1>1, <1>5 DEF Good, ReelsAreOwn, GradesAreTrue, PathsOf, Person, Clips
<1>8. NamingFits'
  BY <1>1, <1>5, <1>6 DEF Good, NamingFits, PathsOf, Person, Clips
<1>9. WaitingFits'
  BY <1>1, <1>5, <1>6 DEF Good, WaitingFits
<1>10. OutcomeFits'
  <2>1. \A x : Publishable(parts'[x]) = Publishable(parts[x]) /\ PartBlocks(parts'[x]) = PartBlocks(parts[x])
    BY <1>1
  <2>2. Gaps' = Gaps /\ AnyPublishable' = AnyPublishable
    BY <1>1 DEF Gaps, AnyPublishable
  <2>3. Blocking' = Blocking
    BY <1>1 DEF Blocking, NamedTwice, Covered, People, Person
  <2> QED
    BY <1>1, <2>2, <2>3 DEF Good, OutcomeFits, GatePasses
<1> QED
  BY <1>3, <1>4, <1>7, <1>8, <1>9, <1>10 DEF Good

LEMMA JobStays ==
    ASSUME [Next]_vars
    PROVE  job' = job
<1>1. CASE Uploading
  BY <1>1 DEF Uploading, Put, PutFails, Mark, Persist, SaveMetadata
<1>2. CASE UNCHANGED vars
  BY <1>2 DEF vars
<1> QED
  BY <1>1, <1>2 DEF Next, Step, Render, RenderRaises, ActivateScope, CheckReel, Reedit, ReeditFails,
     Accept, Settle, NameClip, NameLong, AllNamed, FilterDuplicates, FinishCall, Audit, RunnerLost

LEMMA NextGood ==
    ASSUME Apart, Good, [Next]_vars
    PROVE  Good'
<1>1. CASE Render
  BY <1>1, RenderKeeps
<1>2. CASE RenderRaises
  BY <1>2, RenderRaisesKeeps
<1>3. CASE ActivateScope
  BY <1>3, ActivateScopeKeeps
<1>4. CASE CheckReel
  BY <1>4, CheckReelKeeps
<1>5. CASE Reedit
  BY <1>5, ReeditKeeps
<1>6. CASE ReeditFails
  BY <1>6, ReeditFailsKeeps
<1>7. CASE Accept
  BY <1>7, AcceptKeeps
<1>8. CASE Settle
  BY <1>8, SettleKeeps
<1>9. CASE NameClip
  BY <1>9, NameClipKeeps
<1>10. CASE NameLong
  BY <1>10, NameLongKeeps
<1>11. CASE AllNamed
  BY <1>11, AllNamedKeeps
<1>12. CASE FilterDuplicates
  BY <1>12, FilterDuplicatesKeeps
<1>13. CASE Uploading
  <2>1. PICK k \in 1..Len(pending) :
          Put(k) \/ PutFails(k) \/ Mark(k) \/ Persist(k) \/ SaveMetadata(k)
    BY <1>13 DEF Uploading
  <2>2. CASE Put(k)
    BY <2>2, PutKeeps
  <2>3. CASE PutFails(k)
    BY <2>3, PutFailsKeeps
  <2>4. CASE Mark(k)
    BY <2>4, MarkKeeps
  <2>5. CASE Persist(k)
    BY <2>5, PersistKeeps
  <2>6. CASE SaveMetadata(k)
    BY <2>6, SaveMetadataKeeps
  <2> QED
    BY <2>1, <2>2, <2>3, <2>4, <2>5, <2>6
<1>14. CASE FinishCall
  BY <1>14, FinishCallKeeps
<1>15. CASE Audit
  BY <1>15, AuditKeeps
<1>16. CASE RunnerLost
  <2>1. /\ pc # "done" /\ pc' = "done" /\ outcome' = "lost"
        /\ UNCHANGED <<job, run, who, files, ver, scopes, unscoped, qaVars, gateVars, manifest,
                       draftVars, published, passed>>
    BY <1>16 DEF RunnerLost, Abort
  <2> QED
    BY <2>1, StopKeeps
<1>17. CASE UNCHANGED vars
  BY <1>17, UnchangedKeeps
<1> QED
  BY <1>1, <1>2, <1>3, <1>4, <1>5, <1>6, <1>7, <1>8, <1>9, <1>10, <1>11, <1>12, <1>13, <1>14, <1>15,
     <1>16, <1>17 DEF Next, Step

Inv == Apart => Good

LEMMA ApartStays ==
    ASSUME job' = job
    PROVE  Apart' <=> Apart
  BY DEF Apart, People, Person, Clips

LEMMA ApartAlways == Spec /\ Apart => []Apart
<1>1. Apart /\ [Next]_vars => Apart'
  BY JobStays, ApartStays
<1> QED
  BY <1>1, PTL DEF Spec

\* The strengthening every property below rests on holds all through a run.
THEOREM RunInvariant == Spec => []Inv
<1>1. Init => Inv
  BY InitGood DEF Inv
<1>2. Inv /\ [Next]_vars => Inv'
  <2> SUFFICES ASSUME Inv, [Next]_vars, Apart' PROVE Good'
    BY DEF Inv
  <2>1. job' = job
    BY JobStays
  <2>2. Apart
    BY <2>1, ApartStays
  <2> QED
    BY <2>2, NextGood DEF Inv
<1> QED
  BY <1>1, <1>2, PTL DEF Spec

----------------------------------------------------------------------------
(* What the invariant says of the manifest, the gate and the operator. *)

\* A part with a draft's name has that draft, marked under that name.
LEMMA NamedPart ==
    ASSUME Good, NEW x \in DOMAIN parts, parts[x].name # NoName
    PROVE  \E k \in 1..Len(pending) :
             /\ Own(k) = x /\ pending[k].phase \in MarkedPhases
             /\ pending[k].name = parts[x].name
             /\ RecordFits(pending[k], x, parts[x], DOMAIN authority)
             /\ pending[k].name \in DOMAIN review /\ FileFits(review[pending[k].name], x)
<1>1. PICK k \in 1..Len(pending) : Own(k) = x /\ pending[k].phase \in MarkedPhases
  BY DEF Good, PartsHaveItems, Blank
<1>2. RecordFits(pending[k], x, parts[x], DOMAIN authority)
  BY <1>1 DEF Good, RecordsFit
<1>3. pending[k].name \in DOMAIN review /\ FileFits(review[pending[k].name], x)
  BY <1>1 DEF Good, ReviewFits, MarkedPhases
<1> QED
  BY <1>1, <1>2, <1>3 DEF RecordFits

\* What the database says of a persisted part is what was intended.
LEMMA PersistedPart ==
    ASSUME Good, NEW x \in DOMAIN parts, parts[x].name # NoName, parts[x].persisted
    PROVE  LET name == parts[x].name
           IN  /\ name \in DOMAIN authority /\ authority[name].id = x[1]
               /\ authority[name].publishable <=> IntendedPublishable(parts[x])
               /\ name \in DOMAIN review /\ FileFits(review[name], x)
<1> DEFINE name == parts[x].name
<1>1. PICK k \in 1..Len(pending) :
        /\ pending[k].name = name
        /\ RecordFits(pending[k], x, parts[x], DOMAIN authority)
        /\ name \in DOMAIN review /\ FileFits(review[name], x)
  BY NamedPart
<1>2. name \in DOMAIN authority
  BY <1>1 DEF RecordFits
<1>3. PICK l \in 1..Len(pending) : pending[l].name = name /\ authority[name] = pending[l].record
  BY <1>2 DEF Good, AuthorityFits
<1>4. l = k
  BY <1>1, <1>3 DEF Good, ItemsDiffer
<1> QED
  BY <1>1, <1>2, <1>3, <1>4 DEF RecordFits

LEMMA IntendedIsGraded ==
    ASSUME NEW part, IntendedPublishable(part)
    PROVE  QaOk(part) /\ part.specs
  BY DEF IntendedPublishable, Issues

LEMMA GoodManifest ==
    ASSUME Good
    PROVE  ManifestIsHonest
<1> SUFFICES ASSUME NEW x \in DOMAIN parts, Publishable(parts[x]), parts[x].name # NoName
             PROVE  /\ parts[x].name \in DOMAIN authority /\ authority[parts[x].name].publishable
                    /\ authority[parts[x].name].id = x[1]
                    /\ parts[x].name \in DOMAIN review /\ review[parts[x].name] \in passed
  BY DEF ManifestIsHonest
<1>1. IntendedPublishable(parts[x]) /\ parts[x].persisted
  BY DEF Publishable
<1> QED
  BY <1>1, PersistedPart, IntendedIsGraded DEF FileFits

\* What the manifest counts as published is what the operator sees
\* (mark_upload_result and the persisted authority row).
THEOREM PublishedIsHonest == Spec /\ Apart => []ManifestIsHonest
<1>1. Apart /\ Inv => ManifestIsHonest
  BY GoodManifest DEF Inv
<1> QED
  BY <1>1, ApartAlways, RunInvariant, PTL

LEMMA GoodGate ==
    ASSUME Apart, Good
    PROVE  GateMeansDelivered
<1> SUFFICES ASSUME outcome \in {"complete", "partial"}
             PROVE  /\ \A i \in People : HasDraft(i, LAMBDA a : outcome = "partial" \/ a.publishable)
                    /\ \E i \in People : HasDraft(i, LAMBDA a : a.publishable)
  BY DEF GateMeansDelivered
<1>1. GatePasses /\ (outcome = "complete" <=> ~Gaps)
  BY DEF Good, OutcomeFits
<1>2. \A x \in DOMAIN parts : parts[x].name # NoName /\ parts[x].persisted
  BY <1>1 DEF GatePasses, Blocking, PartBlocks
<1>3. \A i \in People : \E x \in DOMAIN parts : x[1] = Person(i).id
  BY <1>1 DEF GatePasses, Blocking, Covered
<1>4. ASSUME NEW i \in People, NEW x \in DOMAIN parts, x[1] = Person(i).id
      PROVE  \E name \in DOMAIN review :
               /\ Person(review[name].by).id = Person(i).id
               /\ name \in DOMAIN authority /\ authority[name].id = Person(i).id
               /\ authority[name].publishable <=> IntendedPublishable(parts[x])
  BY <1>2, <1>4, PersistedPart DEF FileFits
<1>5. ASSUME NEW i \in People
      PROVE  HasDraft(i, LAMBDA a : outcome = "partial" \/ a.publishable)
  <2>1. PICK x \in DOMAIN parts : x[1] = Person(i).id
    BY <1>3, <1>5
  <2>2. outcome = "partial" \/ IntendedPublishable(parts[x])
    BY <1>1 DEF Gaps, Publishable
  <2> QED
    BY <1>4, <2>1, <2>2 DEF HasDraft
<1>6. \E i \in People : HasDraft(i, LAMBDA a : a.publishable)
  <2>1. PICK x \in DOMAIN parts : IntendedPublishable(parts[x])
    <3>1. CASE Gaps
      BY <1>1, <3>1 DEF GatePasses, AnyPublishable, Publishable
    <3>2. CASE ~Gaps
      <4>1. who \in People
        BY PeopleFacts DEF Good, Shapes
      <4> QED
        BY <1>3, <3>2, <4>1 DEF Gaps, Publishable
    <3> QED
      BY <3>1, <3>2
  <2>2. PICK i \in People : x[1] = Person(i).id
    BY DEF Good, PartsAreKnown
  <2> QED
    BY <1>4, <2>1, <2>2 DEF HasDraft
<1> QED
  BY <1>5, <1>6

\* A run the gate lets through has lost nobody (evaluate_gate).
THEOREM GateDelivers == Spec /\ Apart => []GateMeansDelivered
<1>1. Apart /\ Inv => GateMeansDelivered
  BY GoodGate DEF Inv
<1> QED
  BY <1>1, ApartAlways, RunInvariant, PTL

\* A name that has room for its QA-FLAGGED text holds it.
MarkedAs(item) == ~Person(item.who).long /\ (item.qaFlag \/ item.sub # "no") => item.name.flag
FlagsAreTold == \A k \in 1..Len(pending) : MarkedAs(pending[k])

LEMMA ToldAfterPhase ==
    ASSUME Good, FlagsAreTold, job' = job, NEW k \in 1..Len(pending), NEW ph, NEW record,
           \/ pending' = Phase(k, ph)
           \/ pending' = [pending EXCEPT ![k].phase = ph, ![k].record = record]
    PROVE  FlagsAreTold'
<1>1. /\ IsSeq(pending) /\ DOMAIN pending = 1..Len(pending) /\ Len(pending) \in Nat
      /\ \A l \in 1..Len(pending) : IsItem(pending[l])
  BY SeqFacts DEF Good, Shapes
<1>2. /\ DOMAIN pending' = 1..Len(pending)
      /\ \A l \in 1..Len(pending) : l # k => pending'[l] = pending[l]
      /\ \/ pending'[k] = [pending[k] EXCEPT !.phase = ph]
         \/ pending'[k] = [pending[k] EXCEPT !.phase = ph, !.record = record]
  BY <1>1 DEF Phase
<1>3. \A l \in 1..Len(pending) :
        /\ pending'[l].who = pending[l].who /\ pending'[l].name = pending[l].name
        /\ pending'[l].qaFlag = pending[l].qaFlag /\ pending'[l].sub = pending[l].sub
  <2>1. CASE pending'[k] = [pending[k] EXCEPT !.phase = ph]
    BY <1>1, <1>2, <2>1 DEF IsItem
  <2>2. CASE pending'[k] = [pending[k] EXCEPT !.phase = ph, !.record = record]
    <3>1. PICK item : item = pending[k] /\ IsItem(item)
      BY <1>1
    <3>2. PICK new : new = [item EXCEPT !.phase = ph, !.record = record]
      OBVIOUS
    <3>3. DOMAIN item = {"who", "path", "name", "qaFlag", "sub", "phase", "record"}
      BY <3>1 DEF IsItem
    <3>4. new.who = item.who /\ new.name = item.name /\ new.qaFlag = item.qaFlag /\ new.sub = item.sub
      BY <3>2, <3>3
    <3> QED
      BY <1>2, <2>2, <3>1, <3>2, <3>4
  <2> QED
    BY <1>2, <2>1, <2>2
<1>4. Len(pending') = Len(pending)
  <2>1. CASE pending' = Phase(k, ph)
    BY <2>1, PhaseFacts DEF Moved
  <2>2. CASE pending' = [pending EXCEPT ![k].phase = ph, ![k].record = record]
    <3>1. pending' \in [1..Len(pending) -> ToSet(pending')]
      BY <1>1, <2>2 DEF ToSet
    <3> QED
      BY <1>1, <3>1, FunctionIsSeq
  <2> QED
    BY <2>1, <2>2
<1> QED
  BY <1>3, <1>4 DEF FlagsAreTold, MarkedAs, Person

LEMMA ToldAfterName ==
    ASSUME Good, FlagsAreTold, job' = job, NEW sub, NEW n, NEW p,
           pending' = Append(pending, Item(p, Name(sub, n), sub))
    PROVE  FlagsAreTold'
<1>1. PICK new : new = Item(p, Name(sub, n), sub)
  OBVIOUS
<1>2. /\ Len(pending) \in Nat /\ Len(pending') = Len(pending) + 1
      /\ \A k \in 1..Len(pending) : pending'[k] = pending[k]
      /\ pending'[Len(pending) + 1] = new
  BY <1>1, AppendFacts, SeqFacts DEF Good, Shapes
<1>3. MarkedAs(new)
  BY <1>1 DEF MarkedAs, Item, Name, DraftName
<1>4. \A item : MarkedAs(item) => MarkedAs(item)'
  BY DEF MarkedAs, Person
<1>5. PICK L : L = Len(pending) + 1
  OBVIOUS
<1>6. \A k \in 1..L : k = L \/ k \in 1..Len(pending)
  BY <1>2, <1>5
<1>7. ASSUME NEW k \in 1..L PROVE MarkedAs(pending[k])'
  <2>1. CASE k = L
    BY <1>2, <1>3, <1>4, <1>5, <2>1
  <2>2. CASE k \in 1..Len(pending)
    BY <1>2, <1>4, <2>2 DEF FlagsAreTold
  <2> QED
    BY <1>6, <2>1, <2>2
<1> QED
  BY <1>2, <1>5, <1>7 DEF FlagsAreTold

LEMMA NextTold ==
    ASSUME Apart, Good, FlagsAreTold, [Next]_vars
    PROVE  FlagsAreTold'
<1>0. job' = job
  BY JobStays
<1>1. ASSUME pending' = pending PROVE FlagsAreTold'
  BY <1>0, <1>1 DEF FlagsAreTold, MarkedAs, Person
<1>2. CASE NameClip
  BY <1>0, <1>2, ToldAfterName DEF NameClip
<1>3. CASE NameLong
  BY <1>0, <1>1, <1>3, ToldAfterName DEF NameLong
<1>4. CASE FilterDuplicates
  <2>1. PICK drop \in SUBSET {k \in 1..Len(pending) : pending[k].phase = "wait"} :
          pending' = [k \in 1..Len(pending) |->
                        IF k \in drop THEN [pending[k] EXCEPT !.phase = "dropped"] ELSE pending[k]]
    BY <1>4 DEF FilterDuplicates
  <2>2. /\ Len(pending) \in Nat /\ \A k \in 1..Len(pending) : IsItem(pending[k])
    BY SeqFacts DEF Good, Shapes
  <2>3. Len(pending') = Len(pending)
    <3>1. pending' \in [1..Len(pending) -> ToSet(pending')]
      BY <2>1 DEF ToSet
    <3> QED
      BY <2>2, <3>1, FunctionIsSeq
  <2>4. \A k \in 1..Len(pending) :
          pending'[k] = pending[k] \/ pending'[k] = [pending[k] EXCEPT !.phase = "dropped"]
    BY <2>1
  <2>5. \A k \in 1..Len(pending) :
          /\ pending'[k].who = pending[k].who /\ pending'[k].name = pending[k].name
          /\ pending'[k].qaFlag = pending[k].qaFlag /\ pending'[k].sub = pending[k].sub
    BY <2>2, <2>4 DEF IsItem
  <2> QED
    BY <1>0, <2>3, <2>5 DEF FlagsAreTold, MarkedAs, Person
<1>5. CASE Uploading
  <2>1. PICK k \in 1..Len(pending) :
          Put(k) \/ PutFails(k) \/ Mark(k) \/ Persist(k) \/ SaveMetadata(k)
    BY <1>5 DEF Uploading
  <2>2. CASE Put(k) \/ PutFails(k) \/ Persist(k) \/ SaveMetadata(k)
    BY <1>0, <2>2, ToldAfterPhase DEF Put, PutFails, Persist, SaveMetadata
  <2>3. CASE Mark(k)
    <3>1. \/ pending' = Phase(k, "saved")
          \/ \E record : pending' = [pending EXCEPT ![k].phase = "marked", ![k].record = record]
      BY <2>3 DEF Mark
    <3> QED
      BY <1>0, <3>1, ToldAfterPhase
  <2> QED
    BY <2>1, <2>2, <2>3
<1>6. CASE UNCHANGED vars
  BY <1>1, <1>6 DEF vars, draftVars
<1> QED
  BY <1>1, <1>2, <1>3, <1>4, <1>5, <1>6 DEF Next, Step, Render, RenderRaises, ActivateScope,
     CheckReel, Reedit, ReeditFails, Accept, Settle, AllNamed, FinishCall, Audit, RunnerLost, draftVars

LEMMA FlagsInvariant == Spec => [](Apart => FlagsAreTold)
<1>1. Init => FlagsAreTold
  BY DEF Init, FlagsAreTold
<1>2. Inv /\ (Apart => FlagsAreTold) /\ [Next]_vars => (Apart => FlagsAreTold)'
  <2> SUFFICES ASSUME Inv, Apart => FlagsAreTold, [Next]_vars, Apart' PROVE FlagsAreTold'
    OBVIOUS
  <2>1. Apart
    BY JobStays, ApartStays
  <2> QED
    BY <2>1, NextTold DEF Inv
<1> QED
  BY <1>1, <1>2, RunInvariant, PTL DEF Spec

LEMMA GoodApproval ==
    ASSUME Good, FlagsAreTold
    PROVE  ApprovableIsGraded
<1>1. ASSUME NEW name \in DOMAIN review, Approvable(name)
      PROVE  /\ review[name] \in passed /\ review[name].clean
             /\ Person(review[name].by).id = authority[name].id
  <2>1. name \in DOMAIN authority /\ authority[name].publishable
    BY <1>1 DEF Approvable
  <2>2. PICK k \in 1..Len(pending) :
          /\ pending[k].name = name /\ pending[k].phase \in {"saved", "done"}
          /\ authority[name] = pending[k].record
    BY <2>1 DEF Good, AuthorityFits
  <2>3. RecordFits(pending[k], Own(k), parts[Own(k)], DOMAIN authority)
    BY <2>2 DEF Good, RecordsFit, MarkedPhases
  <2>4. FileFits(review[name], Own(k))
    BY <2>2 DEF Good, ReviewFits
  <2> QED
    BY <2>1, <2>2, <2>3, <2>4 DEF RecordFits, FileFits
<1>2. ASSUME NEW k \in DOMAIN pending, pending[k].qaFlag \/ pending[k].sub # "no",
             Approvable(pending[k].name)
      PROVE  FlagCut(pending[k])
  <2>1. k \in 1..Len(pending)
    BY SeqFacts DEF Good, Shapes
  <2> QED
    BY <1>2, <2>1 DEF FlagCut, FlagsAreTold, MarkedAs, Approvable
<1> QED
  BY <1>1, <1>2 DEF ApprovableIsGraded

\* A draft the operator can approve is a file the model passed, and it shows
\* the athlete its authority row names; an objection to it is in its name, as
\* far as the description leaves room (requireAuthoritativeDraftPublishability).
THEOREM ApprovedIsGraded == Spec /\ Apart => []ApprovableIsGraded
<1>1. Apart /\ Inv /\ (Apart => FlagsAreTold) => ApprovableIsGraded
  BY GoodApproval DEF Inv
<1> QED
  BY <1>1, ApartAlways, RunInvariant, FlagsInvariant, PTL DEF Spec

\* Parts that count as published.
LEMMA StillPublished ==
    ASSUME \A x \in DOMAIN parts :
               Publishable(parts[x]) /\ parts[x].name # NoName =>
                   /\ x \in DOMAIN parts' /\ Publishable(parts'[x])
                   /\ parts'[x].name = parts[x].name
    PROVE  PublishedParts \subseteq PublishedParts'
  BY DEF PublishedParts

LEMMA PartsKeepEvidence ==
    ASSUME Apart, Good, [Next]_vars
    PROVE  PublishedParts \subseteq PublishedParts'
<1>1. ASSUME parts' = parts PROVE PublishedParts \subseteq PublishedParts'
  BY <1>1, StillPublished
<1>2. CASE Settle
  BY <1>2, SettledParts, StillPublished
<1>3. CASE NameLong
  <2>1. CASE parts' = parts
    BY <1>1, <2>1
  <2>2. CASE \E copy : \E x \in Owners(Reel) : parts' = [parts EXCEPT ![x].aliases = @ \cup {copy}]
    <3>0. PICK copy : \E x \in DOMAIN parts : parts' = [parts EXCEPT ![x].aliases = @ \cup {copy}]
      BY <2>2 DEF Owners
    <3>1. PICK x \in DOMAIN parts : parts' = [parts EXCEPT ![x].aliases = @ \cup {copy}]
      BY <3>0
    <3>2. /\ DOMAIN parts' = DOMAIN parts
          /\ \A y \in DOMAIN parts : y # x => parts'[y] = parts[y]
          /\ parts'[x] = [parts[x] EXCEPT !.aliases = @ \cup {copy}]
      BY <3>1
    <3>3. SamePart(parts[x], parts'[x])
      BY <3>2 DEF SamePart, IsPart, Good, Shapes
    <3>4. (Publishable(parts'[x]) <=> Publishable(parts[x])) /\ parts'[x].name = parts[x].name
      BY <3>3, SameFacts DEF SamePart
    <3> QED
      BY <3>2, <3>4, StillPublished
  <2> QED
    BY <1>3, <2>1, <2>2 DEF NameLong
<1>4. ASSUME NEW k \in 1..Len(pending), PutFails(k) \/ Mark(k) \/ Persist(k)
      PROVE  PublishedParts \subseteq PublishedParts'
  <2>1. PICK x : x = Own(k) /\ FindUploadPart(pending[k].path) = {x}
    BY SoleOwner
  <2>2. \/ parts' = parts
        \/ DOMAIN parts' = DOMAIN parts /\ \A y \in DOMAIN parts : y # x => parts'[y] = parts[y]
    BY <1>4, <2>1 DEF PutFails, MarkError, Mark, Persist, Sole
  <2>3. parts[x].name = NoName \/ ~Publishable(parts[x])
    <3>1. CASE pending[k].phase \notin MarkedPhases
      BY <3>1, <2>1, BlankBefore DEF Blank
    <3>2. CASE pending[k].phase = "marked"
      <4>1. RecordFits(pending[k], x, parts[x], DOMAIN authority)
        BY <2>1, <3>2 DEF Good, RecordsFit, MarkedPhases
      <4> QED
        BY <4>1, <3>2 DEF RecordFits, Publishable
    <3> QED
      BY <1>4, <3>1, <3>2 DEF PutFails, Turn, Mark, Persist, MarkedPhases
  <2> QED
    BY <2>2, <2>3, StillPublished
<1>5. CASE Uploading
  BY <1>1, <1>4, <1>5 DEF Uploading, Put, SaveMetadata, manifest
<1>6. CASE UNCHANGED vars
  BY <1>1, <1>6 DEF vars, manifest
<1> QED
  BY <1>1, <1>2, <1>3, <1>5, <1>6 DEF Next, Step, Render, RenderRaises, ActivateScope,
     CheckReel, Reedit, ReeditFails, Accept, NameClip, AllNamed, FilterDuplicates, FinishCall, Audit,
     RunnerLost, manifest

\* Recording the athlete's next video takes no published part back
\* (record_fail_closed).
THEOREM PublishedStays == Spec /\ Apart => EarlierPartsKeepEvidence
<1>1. Apart /\ Inv /\ [Next]_vars => [run' = run => PublishedParts \subseteq PublishedParts']_vars
  BY PartsKeepEvidence DEF Inv
<1> QED
  BY <1>1, ApartAlways, RunInvariant, PTL DEF Spec, EarlierPartsKeepEvidence

----------------------------------------------------------------------------
(* The tracked run: it runs ReelPublication, and adds what is told of it. *)

\* A step of the workflow job is a step of the run or leaves it alone.
LEMMA JobRuns == JobSpec => Spec
<1>1. JobInit => Init
  BY DEF JobInit
<1>2. [JobNext]_allVars => [Next]_vars
  <2>1. CASE PipelineStep
    BY <2>1 DEF PipelineStep, Next
  <2>2. CASE BusinessGate
    BY <2>2 DEF BusinessGate, Next, Step
  <2>3. CASE UNCHANGED allVars
    BY <2>3 DEF allVars
  <2> QED
    BY <2>1, <2>2, <2>3 DEF JobNext, JobStep, NoInput, NothingSelected, MainReturns, MainRaises,
       TellSignal, TellRow, RecordSignal, RecordRow, ReadBack, Verify, Finalize, Cut, Dies
<1> QED
  BY <1>1, <1>2, PTL DEF JobSpec, Spec

\* How far the job is and what it has said by then.
TellingFits ==
    /\ JobTypeOK
    /\ row = [status |-> row.status, stage |-> row.stage]
    /\ st \in {"work", "signal", "row", "gate"} => gate = None
    /\ st \in {"verify"} => gate # "failed"
    /\ st = "record_row" => signal = SignalFailed
    /\ result = "red" => st \in {"finalize", "over"}
    /\ result = "red" /\ gate = "failed" => Told \/ outbox
    /\ st = "work" => row.status \notin TerminalStatuses
    /\ st \in {"signal", "row"} =>
         row.status \notin TerminalStatuses \/ row.status = ending

LEMMA StatusesDiffer ==
    /\ None \notin TerminalStatuses /\ "running" \notin TerminalStatuses
    /\ GateFailed.status = "failed" /\ "failed" \in TerminalStatuses
    /\ GateFailed = [status |-> GateFailed.status, stage |-> GateFailed.stage]
  BY DEF None, TerminalStatuses, GateFailed

LEMMA TellingKeeps ==
    ASSUME TellingFits, [JobNext]_allVars
    PROVE  TellingFits' /\ (row.status \in TerminalStatuses /\ row'.status # row.status => row' = GateFailed)
<1> USE DEF TellingFits, JobTypeOK, MarkRun, WriteStatus, BestEffort
<1>1. CASE PipelineStep
  BY <1>1 DEF PipelineStep, jobVars, Told
<1>2. CASE NoInput
  BY <1>2 DEF NoInput, EndsAs, TerminalStatuses, None, Told
<1>3. CASE NothingSelected
  BY <1>3 DEF NothingSelected, EndsAs, TerminalStatuses, Told
<1>4. CASE MainReturns
  BY <1>4 DEF MainReturns, EndsAs, TerminalStatuses, None, Told
<1>5. CASE MainRaises
  BY <1>5 DEF MainRaises, EndsAs, TerminalStatuses, Told
<1>6. CASE TellSignal
  BY <1>6 DEF TellSignal, Told
<1>7. CASE TellRow
  BY <1>7 DEF TellRow, TerminalStatuses, None, Told
<1>8. CASE BusinessGate
  BY <1>8 DEF BusinessGate, Audit, Told
<1>9. CASE RecordSignal
  BY <1>9 DEF RecordSignal, Retained, Told
<1>10. CASE RecordRow
  BY <1>10, StatusesDiffer DEF RecordRow, Retained, Told
<1>11. CASE ReadBack
  BY <1>11 DEF ReadBack, Retained, Told
<1>12. CASE Verify
  BY <1>12 DEF Verify, Told
<1>13. CASE Finalize
  BY <1>13, StatusesDiffer DEF Finalize, Told
<1>14. CASE Cut \/ Dies
  BY <1>14 DEF Cut, Dies, Told
<1>15. CASE UNCHANGED allVars
  BY <1>15 DEF allVars, jobVars, Told
<1> QED
  BY <1>1, <1>2, <1>3, <1>4, <1>5, <1>6, <1>7, <1>8, <1>9, <1>10, <1>11, <1>12, <1>13, <1>14, <1>15
     DEF JobNext, JobStep

LEMMA TellingInvariant == JobSpec => []TellingFits
<1>1. ASSUME JobInit PROVE TellingFits
  <2>1. \/ row = [status |-> "running", stage |-> "running"]
        \/ row = [status |-> None, stage |-> None]
    BY <1>1 DEF JobInit, Live
  <2>2. row = [status |-> row.status, stage |-> row.stage] /\ row.status \in {"running", None}
    BY <2>1
  <2>3. row.status \notin TerminalStatuses
    BY <2>2, StatusesDiffer
  <2> QED
    BY <1>1, <2>2, <2>3 DEF JobInit, TellingFits, JobTypeOK, None
<1>2. TellingFits /\ [JobNext]_allVars => TellingFits'
  BY TellingKeeps
<1> QED
  BY <1>1, <1>2, PTL DEF JobSpec

\* A run that wrote its success before the gate failed does not keep it
\* (record_gate_failure: write, read back, or leave the outbox).
THEOREM GateFailuresAreTold == JobSpec => []GateFailureIsTold
<1>1. TellingFits => GateFailureIsTold
  BY DEF TellingFits, GateFailureIsTold
<1> QED
  BY <1>1, TellingInvariant, PTL

\* How a run ended is not overwritten but by the gate
\* (finalize_unfinished_run.py, mark_terminal_run).
THEOREM TerminalStatusStands == JobSpec => TerminalStands
<1>1. TellingFits /\ [JobNext]_allVars =>
        [row.status \in TerminalStatuses /\ row'.status # row.status => row' = GateFailed]_allVars
  BY TellingKeeps
<1> QED
  BY <1>1, TellingInvariant, PTL DEF JobSpec, TerminalStands

----------------------------------------------------------------------------
(* What a green job promises: it passed the gate with every draft settled,  *)
(* and its tasks were read back last.                                       *)

\* A run comes to its gate when no draft is on its way any more.
EndsOver ==
    pc = "audit" \/ outcome \in {"complete", "partial"} =>
        \A k \in 1..Len(pending) : pending[k].phase \in Over

LEMMA NextEnds ==
    ASSUME Good, EndsOver, [Next]_vars
    PROVE  EndsOver'
<1>1. ASSUME pc # "done", pc' # "audit",
             outcome' \in {outcome, "render_failed", "no_scope", "no_single_owner", "lost"}
      PROVE  EndsOver'
  BY <1>1 DEF EndsOver, Good, OutcomeFits
<1>2. CASE Audit \/ FinishCall
  BY <1>2 DEF Audit, FinishCall, EndsOver, draftVars, Over, Good, OutcomeFits
<1>3. CASE UNCHANGED vars
  BY <1>3 DEF vars, draftVars, EndsOver, Over
<1>4. CASE Uploading
  <2>1. pc = "upload" /\ pc' = pc /\ outcome' = outcome
    BY <1>4 DEF Uploading, Put, PutFails, Turn, Mark, Persist, SaveMetadata
  <2> QED
    BY <1>1, <2>1
<1>5. CASE ActivateScope \/ AllNamed
  BY <1>1, <1>5 DEF ActivateScope, AllNamed, NextPerson, Abort
<1>6. CASE NameLong
  BY <1>1, <1>6 DEF NameLong, Named, Abort
<1> QED
  BY <1>1, <1>2, <1>3, <1>4, <1>5, <1>6 DEF Next, Step, Render, RenderRaises, CheckReel, Reedit,
     ReeditFails, Accept, Settle, NameClip, Named, FilterDuplicates, RunnerLost, Abort

LEMMA EndsInvariant == Spec => [](Apart => EndsOver)
<1>1. Init => EndsOver
  BY DEF Init, EndsOver, None
<1>2. Inv /\ (Apart => EndsOver) /\ [Next]_vars => (Apart => EndsOver)'
  <2> SUFFICES ASSUME Inv, Apart => EndsOver, [Next]_vars, Apart' PROVE EndsOver'
    OBVIOUS
  <2>1. Apart
    BY JobStays, ApartStays
  <2> QED
    BY <2>1, NextEnds DEF Inv
<1> QED
  BY <1>1, <1>2, RunInvariant, PTL DEF Spec

\* Past its gate every draft went all the way.
LEMMA PassedIsDone ==
    ASSUME Good, EndsOver, outcome \in {"complete", "partial"}, NEW k \in 1..Len(pending)
    PROVE  pending[k].phase = "done"
<1>1. Own(k) \in DOMAIN parts /\ parts[Own(k)].name # NoName
  BY DEF Good, OutcomeFits, GatePasses, Blocking, PartBlocks, ItemsAreOwned
<1>2. PICK l \in 1..Len(pending) : Own(l) = Own(k) /\ pending[l].phase \in MarkedPhases
  BY <1>1, NamedPart
<1>3. l = k
  BY <1>2 DEF Good, ItemsDiffer
<1> QED
  BY <1>2, <1>3 DEF EndsOver, Over, MarkedPhases

\* Whoever verifies has passed the gate; whoever is green has verified.
PassFits ==
    /\ (st = "verify" \/ result = "green") /\ ending = "succeeded" => outcome \in {"complete", "partial"}
    /\ result = "green" => st = "over" /\ TasksAreThere

LEMMA PassKeeps ==
    ASSUME PassFits, [JobNext]_allVars
    PROVE  PassFits'
<1>1. ASSUME st # "over", st' # "verify", result' # "green"
      PROVE  PassFits'
  BY <1>1 DEF PassFits
<1>2. ASSUME st # "over" PROVE result # "green"
  BY <1>2 DEF PassFits
<1>3. CASE BusinessGate
  <2>1. st = "gate" /\ result' = result /\ ending' = ending
    BY <1>3 DEF BusinessGate
  <2>2. st' = "verify" /\ ending = "succeeded" => outcome' \in {"complete", "partial"}
    BY <1>3 DEF BusinessGate, Audit
  <2> QED
    BY <1>2, <2>1, <2>2 DEF PassFits
<1>4. CASE Verify
  <2>1. UNCHANGED <<vars, ending>> /\ st = "verify"
    BY <1>4 DEF Verify
  <2>2. pending' = pending /\ tasks' = tasks /\ outcome' = outcome /\ job' = job
    BY <2>1 DEF vars, draftVars, published
  <2>3. TasksAreThere' <=> TasksAreThere
    BY <2>2 DEF TasksAreThere, Blocked, Drafts, TaskDue
  <2>4. \/ TasksAreThere /\ st' = "over" /\ result' = "green"
        \/ st' = "finalize" /\ result' = "red"
    BY <1>4 DEF Verify
  <2> QED
    BY <2>1, <2>2, <2>3, <2>4 DEF PassFits
<1>5. CASE UNCHANGED allVars
  <2>1. pending' = pending /\ tasks' = tasks /\ outcome' = outcome /\ job' = job
    BY <1>5 DEF allVars, vars, draftVars, published
  <2>2. TasksAreThere' <=> TasksAreThere
    BY <2>1 DEF TasksAreThere, Blocked, Drafts, TaskDue
  <2> QED
    BY <1>5, <2>1, <2>2 DEF PassFits, allVars, jobVars
<1>6. CASE TellRow
  BY <1>1, <1>2, <1>6 DEF TellRow
<1>7. CASE Cut \/ Dies
  BY <1>1, <1>7 DEF Cut, Dies
<1>8. CASE RecordSignal \/ RecordRow \/ ReadBack \/ Finalize
  BY <1>1, <1>2, <1>8 DEF RecordSignal, RecordRow, ReadBack, Finalize, Retained
<1>9. CASE PipelineStep
  BY <1>1, <1>2, <1>9 DEF PipelineStep, jobVars
<1>10. CASE NoInput \/ NothingSelected \/ MainReturns \/ MainRaises \/ TellSignal
  BY <1>1, <1>2, <1>10 DEF NoInput, NothingSelected, MainReturns, MainRaises, TellSignal, EndsAs
<1> QED
  BY <1>3, <1>4, <1>5, <1>6, <1>7, <1>8, <1>9, <1>10 DEF JobNext, JobStep

LEMMA PassInvariant == JobSpec => []PassFits
<1>1. JobInit => PassFits
  BY DEF JobInit, PassFits, None
<1> QED
  BY <1>1, PassKeeps, PTL DEF JobSpec

\* Behind a green job with drafts every athlete has a draft in review, every
\* draft went all the way, and those QA objected to have their task
\* (evaluate_gate, verify_qa_reedit_tasks.py).
THEOREM GreenIsWhole == JobSpec /\ Apart => []GreenJobIsWhole
<1>1. ASSUME Apart, Good, EndsOver, PassFits PROVE GreenJobIsWhole
  <2> SUFFICES ASSUME result = "green", ending = "succeeded"
               PROVE  /\ \A i \in People : HasDraft(i, LAMBDA a : TRUE)
                      /\ \A k \in 1..Len(pending) :
                           /\ pending[k].phase = "done"
                           /\ TaskDue(pending[k]) => pending[k].name \in tasks
    BY DEF GreenJobIsWhole
  <2>1. outcome \in {"complete", "partial"} /\ TasksAreThere
    BY <1>1 DEF PassFits
  <2>2. \A k \in 1..Len(pending) : pending[k].phase = "done"
    BY <1>1, <2>1, PassedIsDone
  <2>3. \A i \in People : HasDraft(i, LAMBDA a : outcome = "partial" \/ a.publishable)
    BY <1>1, <2>1, GoodGate DEF GateMeansDelivered
  <2>4. \A i \in People : HasDraft(i, LAMBDA a : TRUE)
    BY <2>3 DEF HasDraft
  <2> QED
    BY <2>1, <2>2, <2>4 DEF TasksAreThere, Blocked, Drafts
<1>2. Apart /\ Inv /\ (Apart => EndsOver) /\ PassFits => GreenJobIsWhole
  BY <1>1 DEF Inv
<1> QED
  BY <1>2, JobRuns, ApartAlways, RunInvariant, EndsInvariant, PassInvariant, PTL
=============================================================================
