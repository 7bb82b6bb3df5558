-------------------------- MODULE ReelPublication --------------------------
(***************************************************************************)
(* From rendered reels to drafts an operator may approve: the QA loop of    *)
(* pipeline/orchestrator.py with the layers that bootstrap.py puts around   *)
(* it, the publishable manifest, the upload of the drafts, the authority    *)
(* rows in draft_publishability, and the business gate that closes the run. *)
(*                                                                         *)
(* A job fixes the settings of a run and the people found in its sources.   *)
(* A rendered file is [by, run, ver, clean]: whom it shows, which render of *)
(* which run made it, and whether its specs (silent, 9:16, tall enough, at  *)
(* most 90 s) are in order.  Of a QA answer only its class is kept: PASS, a failure the    *)
(* editor can act on (FIX), one it cannot (FAIL), or no real grade (NONE).  *)
(***************************************************************************)
EXTENDS Naturals, Sequences, FiniteSets, SequencesExt

CONSTANT Jobs    \* the sessions considered: settings, people, and as a bound
                 \* how many runs of a day are made over them

\* A run has somebody in it, and reels have a number of parts.
ASSUME JobsAssumption ==
    \A j \in Jobs : /\ Len(j.people) \in Nat \ {0}
                    /\ \A i \in 1..Len(j.people) : j.people[i].parts \in Nat

VARIABLES job, run,            \* the job; which run of it
          pc, who,             \* the step the run is at; the person at work
          files,               \* path -> rendered file on the runner
          ver,                 \* renders so far
          scopes,              \* <<thread, label>> of renders waiting for QA
          unscoped,            \* a QA worker raised: its future holds the error
          todo, cur, attempt, verdict,     \* the QA loop of this person
          final, flagged, graded,          \* its reels, flags and QA evidence
          rows, parts,         \* the publishable manifest: athlete id -> row,
                               \* <<athlete id, path>> -> reel part
          pending, used,       \* drafts to upload; names given in this process
          review, authority, tasks,        \* R2 review/, draft_publishability,
                                           \* names with an active re-edit task
          passed,              \* history: the files a model really passed
          outcome

qaVars == <<todo, cur, attempt, verdict>>
gateVars == <<final, flagged, graded>>
manifest == <<rows, parts>>
draftVars == <<pending, used>>
published == <<review, authority, tasks>>
vars == <<job, run, pc, who, files, ver, scopes, unscoped, qaVars, gateVars, manifest,
          draftVars, published, passed, outcome>>

None == "none"
NoRecord == [id |-> None, publishable |-> FALSE, run |-> 0]
Work == "work"
NoPath == [dir |-> None, label |-> None, src |-> None, part |-> 0, copy |-> 0]
NoName == [label |-> None, part |-> 0, flag |-> FALSE, n |-> 0]
Clips == job.mode = "clips"
Person(i) == job.people[i]
People == 1..Len(job.people)

\* A reel path: clips name it by the label and the first source of the events,
\* a long video by the source alone; part 0 is the path without a part suffix.
PathOf(i, src, part) ==
    [dir |-> Work, label |-> IF Clips THEN Person(i).label ELSE None,
     src |-> src, part |-> part, copy |-> 0]

\* The people one compile call works on: all of them, or those of one video.
LastOfCall(i) ==
    i = Len(job.people) \/ (~Clips /\ Person(i + 1).src # Person(i).src)

File(i, clean) == [by |-> i, run |-> run, ver |-> ver + 1, clean |-> clean]
Without(f, S) == [x \in DOMAIN f \ S |-> f[x]]
With(f, g) == [x \in DOMAIN f \cup DOMAIN g |-> IF x \in DOMAIN g THEN g[x] ELSE f[x]]
At(f, a, v) == [x \in DOMAIN f \cup {a} |-> IF x = a THEN v ELSE f[x]]
Exists(p) == p \in DOMAIN files

----------------------------------------------------------------------------
(* The manifest. *)

NewPart(specs) ==
    [aliases |-> {}, specs |-> specs, recorded |-> FALSE, qa |-> None,
     uploaded |-> FALSE, failed |-> FALSE, name |-> NoName, persisted |-> FALSE, lost |-> FALSE]

Issues(part) ==
    {x \in {"specs", "missing_final_qa_evidence", "final_qa_failed",
            "publishability_authority_persistence_failed"} :
        \/ x = "specs" /\ ~part.specs
        \/ x = "missing_final_qa_evidence" /\ ~part.recorded
        \/ x = "final_qa_failed" /\ part.recorded /\ part.qa # "PASS"
        \/ x = "publishability_authority_persistence_failed" /\ part.lost}

QaOk(part) == part.recorded /\ part.qa = "PASS"

\* What the authority row of an uploaded part says.
IntendedPublishable(part) ==
    /\ QaOk(part)
    /\ Issues(part) = {}
    /\ part.uploaded /\ ~part.failed

\* Mutant: a part counts before its authority row is confirmed.
PublishableUnconfirmed(part) == IntendedPublishable(part)

Publishable(part) ==
    IntendedPublishable(part) /\ (part.name # NoName => part.persisted)

Keys(i, reels) == {<<Person(i).id, p>> : p \in reels}
Fresh(i, reels) == [x \in Keys(i, reels) |-> NewPart(Exists(x[2]) /\ files[x[2]].clean)]

\* Mutant: all parts of the athlete start fail closed again.
RecordOutcomeResettingAll(i, reels) ==
    With([x \in DOMAIN parts |-> IF x[1] = Person(i).id
                                   THEN [parts[x] EXCEPT !.recorded = FALSE, !.qa = None]
                                   ELSE parts[x]],
         Fresh(i, reels))

\* record_athlete_outcome: the reels of this call become parts of the athlete's
\* row, withheld until their evidence is applied (record_fail_closed); a path
\* recorded again replaces its part, the other parts stay.
RecordOutcome(i, reels) == With(parts, Fresh(i, reels))

\* One row per athlete id; a row recorded again moves to the end.
RowOf(i) == [label |-> Person(i).label, at |-> i]

\* apply_final_qa_evidence: the first row with this label that has one of the
\* paths; the evidence is what this invocation recorded for the path.
Evidenced(p, part) ==
    [part EXCEPT !.recorded = p \in DOMAIN graded,
                 !.qa = IF p \in DOMAIN graded THEN graded[p] ELSE None]

ApplyEvidence(ps, i, reels) ==
    LET mine == {id \in DOMAIN rows' : rows'[id].label = Person(i).label
                                        /\ \E p \in reels : <<id, p>> \in DOMAIN ps}
    IN  \E id \in mine :
          /\ \A o \in mine : rows'[id].at <= rows'[o].at
          /\ parts' = [x \in DOMAIN ps |-> IF x[1] = id /\ x[2] \in reels
                                             THEN Evidenced(x[2], ps[x]) ELSE ps[x]]

Owners(p) == {x \in DOMAIN parts : p = x[2] \/ p \in parts[x].aliases}

\* The parts with this file name, wherever the file is.
Base(q) == [q EXCEPT !.dir = Work]
Namesakes(p) ==
    {x \in DOMAIN parts : Base(p) \in {Base(q) : q \in {x[2]} \cup parts[x].aliases}}

\* Mutant: the first part that matches is taken.
FindUploadPartFirst(p) ==
    {x \in Owners(p) : \A y \in Owners(p) : rows[x[1]].at <= rows[y[1]].at}

\* _find_upload_part: the one part with this path or alias; else the one part
\* with this file name; else none.
FindUploadPart(p) == IF Owners(p) # {} THEN Owners(p) ELSE Namesakes(p)

Sole(found) == \E x \in found : found = {x}

----------------------------------------------------------------------------
(* Rendering. *)

Start(n) ==
    /\ run' = n /\ pc' = "render" /\ who' = 1
    /\ files' = <<>> /\ scopes' = {} /\ unscoped' = FALSE
    /\ todo' = <<>> /\ cur' = NoPath /\ attempt' = 0 /\ verdict' = None
    /\ final' = <<>> /\ flagged' = {} /\ graded' = <<>>
    /\ rows' = <<>> /\ parts' = <<>> /\ pending' = <<>> /\ used' = {} /\ outcome' = None

Init ==
    /\ job \in Jobs
    /\ run = 1 /\ pc = "render" /\ who = 1 /\ files = <<>> /\ ver = 0
    /\ scopes = {} /\ unscoped = FALSE
    /\ todo = <<>> /\ cur = NoPath /\ attempt = 0 /\ verdict = None
    /\ final = <<>> /\ flagged = {} /\ graded = <<>>
    /\ rows = <<>> /\ parts = <<>> /\ pending = <<>> /\ used = {}
    /\ review = <<>> /\ authority = <<>> /\ tasks = {} /\ passed = {} /\ outcome = None

Abort(why) == pc' = "done" /\ outcome' = why

\* What canonicalize_silent_variants leaves of a rendered part: a file in
\* order, one with poor specs, or nothing (audio, no duration, over 90 s).
\* Bound: the outcomes a job allows.
Renders == {"clean", "poor", "rejected"} \cap job.allowed

\* The first render of a person: the parts that are not rejected, in order.
\* Its scope waits under the rendering thread.
PartNumber(p) == IF p.part = 0 THEN 1 ELSE p.part

Render ==
    /\ pc = "render"
    /\ LET count == Person(who).parts
           Path(k) == PathOf(who, Person(who).src, IF count = 1 THEN 0 ELSE k)
       IN  \E out \in [1..count -> Renders], n \in 0..count :
           \E made \in [1..n -> 1..count] :
             /\ {made[j] : j \in 1..n} = {k \in 1..count : out[k] # "rejected"}
             /\ \A j, l \in 1..n : j < l => made[j] < made[l]
             /\ final' = [j \in 1..n |-> Path(made[j])]
             /\ files' = With(Without(files, {Path(k) : k \in 1..count}),
                    [p \in {Path(made[j]) : j \in 1..n} |->
                        [by |-> who, run |-> run, ver |-> ver + PartNumber(p),
                         clean |-> out[PartNumber(p)] = "clean"]])
             /\ ver' = ver + count
    /\ scopes' = scopes \cup {<<"main", Person(who).label, who>>}
    /\ pc' = "gate"
    /\ UNCHANGED <<job, run, who, unscoped, qaVars, flagged, graded, manifest, draftVars,
                   published, passed, outcome>>

RenderRaises ==
    /\ pc = "render"
    /\ Abort("render_failed")
    /\ UNCHANGED <<job, run, who, files, ver, scopes, unscoped, qaVars, gateVars, manifest, draftVars,
                   published, passed>>

\* gate_with_required_evidence takes the oldest scope of its own thread.  With
\* QA_OVERLAP the clips' gate runs on the "reel-qa" worker, and an error there
\* is kept in the future while the other people are rendered.
GateThread == IF Clips /\ job.overlap THEN "reel-qa" ELSE "main"
Waiting == {s \in scopes : s[1] = GateThread /\ s[2] = Person(who).label}

NextPerson(raised) ==
    IF LastOfCall(who)
      THEN /\ who' = who
           /\ IF raised THEN Abort("no_scope") ELSE pc' = "filter" /\ outcome' = outcome
      ELSE who' = who + 1 /\ pc' = "render" /\ outcome' = outcome

ActivateScope ==
    /\ pc = "gate"
    /\ IF Waiting = {}
         THEN unscoped' = TRUE /\ NextPerson(TRUE) /\ UNCHANGED <<scopes, todo>>
         ELSE /\ \E s \in Waiting : /\ \A t \in Waiting : s[3] <= t[3]
                                   /\ scopes' = scopes \ {s}
              /\ todo' = IF job.check THEN final ELSE <<>>
              /\ pc' = "check"
              /\ UNCHANGED <<who, unscoped, outcome>>
    /\ flagged' = {} /\ graded' = <<>>
    /\ UNCHANGED <<job, run, files, ver, cur, attempt, verdict, final, manifest, draftVars,
                   published, passed>>

----------------------------------------------------------------------------
(* The QA loop. *)

\* The classes of a graded answer: blocking defects the editor can act on (FIX)
\* or not (FAIL).  A provider that fails gives no grade.
Grades == {"PASS", "FIX", "FAIL"}
Verdicts == (Grades \cup {"NONE"}) \cap job.allowed

\* One call of the wrapped qa_check_reel: an answer without a real grade is
\* turned into a failure, and the result is recorded for the path.
Checked(p, file, v) ==
    /\ verdict' = v
    /\ graded' = At(graded, p, IF v = "PASS" THEN "PASS" ELSE "FAIL")
    /\ passed' = IF v = "PASS" THEN passed \cup {file} ELSE passed

CheckReel ==
    /\ pc = "check" /\ todo # <<>>
    /\ cur' = Head(todo) /\ todo' = Tail(todo) /\ attempt' = 0
    /\ \E v \in Verdicts : Checked(Head(todo), files[Head(todo)], v)
    /\ pc' = "judge"
    /\ UNCHANGED <<job, run, who, files, ver, scopes, unscoped, final, flagged, manifest, draftVars,
                   published, outcome>>

CanReedit == job.reedit /\ verdict = "FIX" /\ attempt < job.retries

\* The repaired events start in any of the person's sources; the re-edit makes
\* one part.  A recompile that raises may have spoilt the file it was writing.
Reedited(src) == PathOf(who, src, 0)

Reedit ==
    /\ pc = "judge" /\ CanReedit
    /\ attempt' = attempt + 1
    /\ ver' = ver + 1
    /\ \E src \in Person(who).srcs, out \in Renders \ {"rejected"}, v \in Verdicts :
         LET new == Reedited(src)
             file == File(who, out = "clean")
         IN  /\ files' = At(Without(files, {cur}), new, file)
             /\ \E j \in DOMAIN final :
                  /\ final[j] = cur
                  /\ LET left == RemoveAt(final, j)
                     IN  final' = IF Contains(left, new) THEN left ELSE Append(left, new)
             /\ cur' = new
             /\ Checked(new, file, v)
    /\ UNCHANGED <<job, run, pc, who, scopes, unscoped, todo, flagged, manifest, draftVars,
                   published, outcome>>

\* No new reel: the loop keeps the path it had, whatever became of the file.
ReeditFails ==
    /\ pc = "judge" /\ CanReedit
    /\ ver' = ver + 1
    /\ \E src \in Person(who).srcs, left \in {"untouched", "spoilt", "removed"} :
         files' = CASE left = "untouched" -> files
                    [] left = "spoilt" -> At(files, Reedited(src), File(who, FALSE))
                    [] left = "removed" -> Without(files, {Reedited(src)})
    /\ flagged' = flagged \cup {cur}
    /\ pc' = "check"
    /\ UNCHANGED <<job, run, who, scopes, unscoped, qaVars, final, graded, manifest, draftVars,
                   published, passed, outcome>>

Accept ==
    /\ pc = "judge" /\ ~CanReedit
    /\ flagged' = IF verdict = "PASS" THEN flagged ELSE flagged \cup {cur}
    /\ pc' = "check"
    /\ UNCHANGED <<job, run, who, files, ver, scopes, unscoped, qaVars, final, graded, manifest,
                   draftVars, published, passed, outcome>>

\* Reels without a PASS of their own are flagged, the evidence missing or not.
ReviewBlocked == {p \in ToSet(final) : p \notin DOMAIN graded \/ graded[p] # "PASS"}

\* The end of the gate: the athlete's row is recorded fail closed, then takes
\* the evidence of this invocation.
Settle ==
    /\ pc = "check" /\ todo = <<>>
    /\ rows' = At(rows, Person(who).id, RowOf(who))
    /\ LET recorded == RecordOutcome(who, ToSet(final))
       IN  IF final = <<>> THEN parts' = recorded
           ELSE ApplyEvidence(recorded, who, ToSet(final))
    /\ flagged' = flagged \cup ReviewBlocked
    /\ todo' = final
    /\ pc' = "name"
    /\ UNCHANGED <<job, run, who, files, ver, scopes, unscoped, cur, attempt, verdict, final, graded,
                   draftVars, published, passed, outcome>>

----------------------------------------------------------------------------
(* Naming, staging, de-duplication. *)

\* Which event of the reel the subject gates object to.
SubjectFlags == {"no", "first", "later"} \cap job.allowed

\* _safe_draft_name keeps 50 characters: a long label pushes the part and the
\* QA-FLAGGED text out.  _unique_draft_name numbers the repetitions.
DraftName(i, k, count, isFlagged, n) ==
    [label |-> Person(i).label,
     part |-> IF Person(i).long \/ count = 1 THEN 0 ELSE k,
     flag |-> isFlagged /\ ~Person(i).long, n |-> n]

\* The next reel of this person and its name.
Reel == Head(todo)
Place == Len(final) - Len(todo) + 1

Name(sub, n) == DraftName(who, Place, Len(final), Reel \in flagged \/ sub # "no", n)

Named(sub, n) ==
    /\ pc = "name" /\ todo # <<>>
    /\ Name(sub, n) \notin used
    /\ \A l \in 1..(n - 1) : Name(sub, l) \in used
    /\ used' = used \cup {Name(sub, n)}
    /\ todo' = Tail(todo)

Item(p, name, sub) ==
    [who |-> who, path |-> p, name |-> name, qaFlag |-> Reel \in flagged, sub |-> sub,
     phase |-> "wait", record |-> NoRecord]

NameClip ==
    /\ Clips
    /\ \E sub \in SubjectFlags, n \in 1..(Cardinality(used) + 1) :
         /\ Named(sub, n)
         /\ pending' = Append(pending, Item(Reel, Name(sub, n), sub))
    /\ UNCHANGED <<job, run, pc, who, files, ver, scopes, unscoped, cur, attempt, verdict, gateVars,
                   manifest, published, passed, outcome>>

\* A long video's reel is copied aside before the next person's render reuses
\* its path; the copy must be registered with the one part that owns the path.
\* A reel that is not there has used up a name.
NameLong ==
    /\ ~Clips
    /\ \E sub \in SubjectFlags, n \in 1..(Cardinality(used) + 1) :
         /\ Named(sub, n)
         /\ LET copy == [Reel EXCEPT !.dir = "staged", !.copy = Len(pending) + 1]
            IN  \/ /\ ~Exists(Reel)
                   /\ UNCHANGED <<pc, files, parts, pending, outcome>>
                \/ /\ Exists(Reel)
                   /\ \E x \in Owners(Reel) :
                        /\ Owners(Reel) = {x}
                        /\ parts' = [parts EXCEPT ![x].aliases = @ \cup {copy}]
                   /\ files' = At(files, copy, files[Reel])
                   /\ pending' = Append(pending, Item(copy, Name(sub, n), sub))
                   /\ UNCHANGED <<pc, outcome>>
                \/ /\ Exists(Reel) /\ ~Sole(Owners(Reel))
                   /\ Abort("no_single_owner")
                   /\ UNCHANGED <<files, parts, pending>>
    /\ UNCHANGED <<job, run, who, ver, scopes, unscoped, cur, attempt, verdict, gateVars, rows,
                   published, passed>>

\* All reels of this person have their names.
AllNamed ==
    /\ pc = "name" /\ todo = <<>>
    /\ NextPerson(unscoped)
    /\ UNCHANGED <<job, run, files, ver, scopes, unscoped, qaVars, gateVars, manifest, draftVars,
                   published, passed>>

\* filter_duplicate_draft_candidates: of the drafts of this call with the same
\* source windows one is kept.  Which drafts share windows is chosen freely.
FilterDuplicates ==
    /\ pc = "filter"
    /\ LET mine == {k \in 1..Len(pending) : pending[k].phase = "wait"}
       IN  \E drop \in SUBSET mine :
             /\ mine # {} => drop # mine
             /\ pending' = [k \in 1..Len(pending) |->
                              IF k \in drop THEN [pending[k] EXCEPT !.phase = "dropped"] ELSE pending[k]]
             /\ files' = IF Clips THEN files ELSE Without(files, {pending[k].path : k \in drop})
    /\ pc' = "upload"
    /\ UNCHANGED <<job, run, who, ver, scopes, unscoped, qaVars, gateVars, manifest, used, published,
                   passed, outcome>>

----------------------------------------------------------------------------
(* Uploading. *)

Phase(k, ph) == [pending EXCEPT ![k].phase = ph]
Over == {"done", "failed", "dropped"}
Busy == {k \in 1..Len(pending) : pending[k].phase \in {"put", "marked"}}

\* Clips go up on a pool of workers; the reels of a long video one by one,
\* each with its metadata before the next.
Turn(k) ==
    /\ pc = "upload" /\ pending[k].phase = "wait"
    /\ IF Clips THEN Cardinality(Busy) < job.workers
                ELSE \A j \in 1..(k - 1) : pending[j].phase \in Over

MarkError(p) ==
    LET found == FindUploadPart(p)
    IN  \/ \E x \in found :
             /\ found = {x}
             /\ parts' = [parts EXCEPT ![x].uploaded = FALSE, ![x].failed = TRUE]
        \/ ~Sole(found) /\ parts' = parts

\* upload_draft stores the reel under review/<name>, over whatever is there.
Put(k) ==
    /\ Turn(k)
    /\ Exists(pending[k].path)
    /\ review' = At(review, pending[k].name, files[pending[k].path])
    /\ pending' = Phase(k, "put")
    /\ UNCHANGED <<job, run, pc, who, files, ver, scopes, unscoped, qaVars, gateVars, manifest, used,
                   authority, tasks, passed, outcome>>

\* The upload raises: no file (a duplicate path is gone after its first
\* upload), no network, or an answer that was lost after the object was
\* stored.  The reel is staged on the runner or deleted.
PutFails(k) ==
    /\ Turn(k)
    /\ \E stored \in BOOLEAN :
         /\ stored => Exists(pending[k].path)
         /\ review' = IF stored THEN At(review, pending[k].name, files[pending[k].path])
                                ELSE review
    /\ MarkError(pending[k].path)
    /\ files' = Without(files, {pending[k].path})
    /\ pending' = Phase(k, "failed")
    /\ UNCHANGED <<job, run, pc, who, ver, scopes, unscoped, qaVars, gateVars, rows, used, authority,
                   tasks, passed, outcome>>

\* First half of mark_upload_result, under the manifest lock: the part takes
\* the draft's name and the record to persist is made.
Mark(k) ==
    /\ pending[k].phase = "put" /\ pc = "upload"
    /\ LET found == FindUploadPart(pending[k].path)
           Uploaded(part) == [part EXCEPT !.uploaded = TRUE, !.failed = FALSE,
                                          !.name = pending[k].name, !.persisted = FALSE]
       IN  \/ /\ ~Sole(found)
              /\ pending' = Phase(k, "saved")
              /\ files' = Without(files, {pending[k].path})
              /\ UNCHANGED parts
           \/ \E x \in found :
                /\ found = {x}
                /\ parts' = [parts EXCEPT ![x] = Uploaded(@)]
                /\ pending' = [pending EXCEPT ![k].phase = "marked", ![k].record =
                      [id |-> x[1], publishable |-> IntendedPublishable(Uploaded(parts[x])),
                       run |-> run]]
                /\ UNCHANGED files
    /\ UNCHANGED <<job, run, pc, who, ver, scopes, unscoped, qaVars, gateVars, rows, used, published,
                   passed, outcome>>

\* The row in draft_publishability, and what the manifest says of it; a write
\* that raises may have reached the database.
Persist(k) ==
    /\ pending[k].phase = "marked" /\ pc = "upload"
    /\ \E ok, stored \in BOOLEAN :
         LET found == FindUploadPart(pending[k].path)
         IN  /\ ok => stored
             /\ authority' = IF stored THEN At(authority, pending[k].name, pending[k].record)
                                       ELSE authority
             /\ \/ \E x \in found :
                     /\ found = {x}
                     /\ parts' = [parts EXCEPT ![x].persisted = ok, ![x].lost = ~ok]
                \/ ~Sole(found) /\ parts' = parts
    /\ files' = Without(files, {pending[k].path})
    /\ pending' = Phase(k, "saved")
    /\ UNCHANGED <<job, run, pc, who, ver, scopes, unscoped, qaVars, gateVars, rows, used, review, tasks,
                   passed, outcome>>

\* _extract_qa_gate reads the first event that carries a qa_gate; without the
\* model check only the events a subject gate objected to carry one.
TaskDue(item) ==
    \/ job.check /\ item.qaFlag
    \/ item.sub = "first"
    \/ item.sub = "later" /\ ~job.check

\* One active re-edit task per name, written as far as the database answers: a
\* task that cannot be written is passed over.
UpsertTask(item) ==
    \/ tasks' = IF TaskDue(item) THEN tasks \cup {item.name} ELSE tasks
    \/ TaskDue(item) /\ tasks' = tasks

\* Metadata and the re-edit task of an uploaded draft: after all uploads of the
\* clips, after each of a long video.
SaveMetadata(k) ==
    /\ pending[k].phase = "saved" /\ pc = "upload"
    /\ Clips => \A j \in 1..Len(pending) :
                   pending[j].phase \in Over \cup {"saved"} /\ (j < k => pending[j].phase # "saved")
    /\ pending' = Phase(k, "done")
    /\ UpsertTask(pending[k])
    /\ UNCHANGED <<job, run, pc, who, files, ver, scopes, unscoped, qaVars, gateVars, manifest, used,
                   review, authority, passed, outcome>>

\* Mutant: a call ends when all its drafts are up.
FinishCallAllUploaded ==
    /\ pc = "upload"
    /\ \A k \in 1..Len(pending) : pending[k].phase \in Over \ {"failed"}
    /\ files' = IF Clips THEN files ELSE <<>>
    /\ IF who = Len(job.people) THEN pc' = "audit" /\ who' = who
                                ELSE pc' = "render" /\ who' = who + 1
    /\ UNCHANGED <<job, run, ver, scopes, unscoped, qaVars, gateVars, manifest, draftVars, published,
                   passed, outcome>>

\* The end of a compile call: a long video's files go, the next video follows.
FinishCall ==
    /\ pc = "upload"
    /\ \A k \in 1..Len(pending) : pending[k].phase \in Over
    /\ files' = IF Clips THEN files ELSE <<>>
    /\ IF who = Len(job.people) THEN pc' = "audit" /\ who' = who
                                ELSE pc' = "render" /\ who' = who + 1
    /\ UNCHANGED <<job, run, ver, scopes, unscoped, qaVars, gateVars, manifest, draftVars, published,
                   passed, outcome>>

----------------------------------------------------------------------------
(* The business gate: validate_manifest and validate_athlete_coverage split  *)
(* into findings that block and findings on withheld reels.                  *)

\* Mutant: whether a part was uploaded is not asked.
PartBlocksUngradedOnly(part) == ~part.recorded

PartBlocks(part) ==
    part.name = NoName \/ ~part.uploaded \/ part.failed \/ ~part.persisted \/ ~part.recorded

NamedTwice ==
    \E x, y \in DOMAIN parts : x # y /\ parts[x].name # NoName /\ parts[x].name = parts[y].name

\* Every athlete of the coverage report has a row; there is one per id.
Covered == \A i \in People : Person(i).id \in DOMAIN rows

Blocking ==
    \/ NamedTwice
    \/ \E id \in DOMAIN rows : \A x \in DOMAIN parts : x[1] # id
    \/ \E x \in DOMAIN parts : PartBlocks(parts[x])
    \/ ~Covered

Gaps == \E x \in DOMAIN parts : ~Publishable(parts[x])

AnyPublishable == \E x \in DOMAIN parts : Publishable(parts[x])

GatePasses ==
    /\ ~Blocking
    /\ Gaps => job.gate = "partial" /\ AnyPublishable

Audit ==
    /\ pc = "audit"
    /\ pc' = "done"
    /\ outcome' = IF ~GatePasses THEN "failed" ELSE IF Gaps THEN "partial" ELSE "complete"
    /\ UNCHANGED <<job, run, who, files, ver, scopes, unscoped, qaVars, gateVars, manifest, draftVars,
                   published, passed>>

RunnerLost ==
    /\ pc # "done"
    /\ Abort("lost")
    /\ UNCHANGED <<job, run, who, files, ver, scopes, unscoped, qaVars, gateVars, manifest, draftVars,
                   published, passed>>

\* Another run of the day over the same sources, on a fresh runner: the names
\* begin anew, what is published stays.
NextRun ==
    /\ pc = "done" /\ run < job.runs
    /\ Start(run + 1)
    /\ UNCHANGED <<job, ver, published, passed>>

Uploading == \E k \in 1..Len(pending) :
    Put(k) \/ PutFails(k) \/ Mark(k) \/ Persist(k) \/ SaveMetadata(k)

Step ==
    \/ Render \/ RenderRaises \/ ActivateScope
    \/ CheckReel \/ Reedit \/ ReeditFails \/ Accept \/ Settle
    \/ NameClip \/ NameLong \/ AllNamed \/ FilterDuplicates
    \/ Uploading \/ FinishCall \/ Audit

Next == Step \/ RunnerLost

Spec == Init /\ [][Next]_vars

\* Several runs of the day.
SpecAgain == Init /\ [][Next \/ NextRun]_vars

\* The job's process goes on while it has something to do; nothing is assumed
\* of the answers it gets.
FairSpec == SpecAgain /\ WF_vars(Step)

----------------------------------------------------------------------------
(* Properties. *)

\* What the approve route asks of a draft: an authority row that says
\* publishable, no active re-edit task, no QA-FLAGGED in the name.
Approvable(name) ==
    /\ name \in DOMAIN review /\ name \in DOMAIN authority
    /\ authority[name].publishable
    /\ name \notin tasks /\ ~name.flag

TypeOK ==
    /\ job \in Jobs /\ run \in 1..job.runs /\ who \in People
    /\ pc \in {"render", "gate", "check", "judge", "name", "filter", "upload", "audit", "done"}
    /\ attempt \in 0..job.retries /\ verdict \in Verdicts \cup {None}
    /\ \A p \in DOMAIN files : files[p].by \in People /\ files[p].ver \in 1..ver
    /\ \A x \in DOMAIN parts : x[1] \in DOMAIN rows /\ parts[x].qa \in {None, "PASS", "FAIL"}
    /\ \A k \in DOMAIN pending :
         pending[k].phase \in Over \cup {"wait", "put", "marked", "saved"}
    /\ outcome \in {None, "render_failed", "no_scope", "no_single_owner", "failed", "partial",
                    "complete", "lost"}

\* The object was put up again since the row was written: the row is that of an
\* earlier run of the day, whose draft had the same name.
Inherited(name) == authority[name].run < review[name].run

\* The description fills the name, which then cannot hold the objection.
FlagCut(item) == Person(item.who).long

\* A draft the operator can approve is a file the model passed, with its specs
\* in order, and it shows the athlete its authority row names
\* (mark_upload_result, requireAuthoritativeDraftPublishability).  A reel the
\* QA loop or a subject gate objected to is none, not even between its upload
\* and its re-edit task (_finish_cluster's names), unless its name was cut
\* before QA-FLAGGED (_safe_draft_name): then the file is still one QA passed,
\* the objection of a subject gate is lost.  In both, a row an earlier run of
\* the day left under the name may speak for the new object (the upload comes
\* before mark_upload_result).
ApprovableIsGraded ==
    /\ \A name \in DOMAIN review :
        Approvable(name) /\ ~Inherited(name) =>
            /\ review[name] \in passed /\ review[name].clean
            /\ Person(review[name].by).id = authority[name].id
    /\ \A k \in DOMAIN pending :
        LET item == pending[k]
        IN  /\ item.qaFlag \/ item.sub # "no"
            /\ Approvable(item.name) /\ review[item.name].run = run
            => Inherited(item.name) \/ FlagCut(item)

\* A run the gate lets through has lost nobody: every athlete has a draft of
\* theirs in review with an authority row; under strict they are all
\* publishable, under partial at least one is (evaluate_gate).
HasDraft(i, Ok(_)) ==
    \E name \in DOMAIN review :
        /\ Person(review[name].by).id = Person(i).id
        /\ name \in DOMAIN authority /\ authority[name].id = Person(i).id
        /\ Ok(authority[name])

GateMeansDelivered ==
    outcome \in {"complete", "partial"} =>
        /\ \A i \in People : HasDraft(i, LAMBDA a : outcome = "partial" \/ a.publishable)
        /\ \E i \in People : HasDraft(i, LAMBDA a : a.publishable)

\* What the manifest counts as published is what the operator sees: the
\* database says so too and the object is the file the part was graded on.
ManifestIsHonest ==
    \A x \in DOMAIN parts :
        LET part == parts[x]
        IN  Publishable(part) /\ part.name # NoName =>
              /\ part.name \in DOMAIN authority /\ authority[part.name].publishable
              /\ authority[part.name].id = x[1]
              /\ part.name \in DOMAIN review /\ review[part.name] \in passed

\* A part that counts as published keeps counting: recording the athlete's
\* next video does not reset it (record_fail_closed).
PublishedParts ==
    {<<x[1], parts[x].name>> : x \in {x \in DOMAIN parts : Publishable(parts[x])
                                                           /\ parts[x].name # NoName}}

EarlierPartsKeepEvidence == [][run' = run => PublishedParts \subseteq PublishedParts']_vars

\* Claimed of the reels' paths by editor.py:1436 ("a deterministic collision-
\* resistant reel stem per athlete/part"): the file a draft waits to upload
\* shows the draft's athlete.
WaitingReelIsOwn ==
    \A k \in 1..Len(pending) :
        pending[k].phase = "wait" /\ Exists(pending[k].path) =>
            Person(files[pending[k].path].by).id = Person(pending[k].who).id

\* Whatever QA answers and whatever fails, a run comes to an end.
RunEnds == pc # "done" ~> pc = "done"

\* The QA worker finds the render it is to grade (context_qa_gate.py:266-268:
\* "drafts, names and lineage are identical to the serial loop").
ScopeIsFound == outcome # "no_scope"
=============================================================================
