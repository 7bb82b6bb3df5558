----------------------------- MODULE DraftRuns -----------------------------
(***************************************************************************)
(* The runs of pipeline/orchestrator.py over the Drive folders RAW and      *)
(* PROCESSED: retry of staged reels, the operator's reprocess requests, the *)
(* scan, the download and analysis pools, the upload of the reels and the   *)
(* archiving of the sources, run after run, each of which may crash.        *)
(*                                                                         *)
(* A source shows people; what an analysis makes of it is any part of them. *)
(* A reel is whom it shows and the sources it was cut from, a draft is      *)
(* named for whom it shows.  Large sources are long videos.  Every call     *)
(* that fails takes a fault of the world, but the downloads of a broken  *)
(* source, which always fail.                                               *)
(***************************************************************************)
EXTENDS Naturals, FiniteSets, Functions

CONSTANTS Sources, People,
          Large,         \* long videos
          Worlds,        \* what differs between instances, see World
          Requests,      \* reprocess requests, numbered as they are created
          FailLimit,     \* max_failures of record_failure
          MaxStaged      \* _MAX_STAGED_ATTEMPTS

\* Does the local disk outlive a run; the sources that cannot be downloaded; who
\* is in a source; bounds: reprocess requests, and calls that fail or crashes.
World == [kept : BOOLEAN, broken : SUBSET Sources, shows : [Sources -> SUBSET People],
          requests : Nat, faults : Nat]

ASSUME DraftRunsAssumption ==
    /\ Large \subseteq Sources
    /\ \A w \in Worlds : w \in World
    /\ Requests \subseteq Nat
    /\ FailLimit \in Nat \ {0} /\ MaxStaged \in Nat
    /\ "unseen" \notin People

VARIABLES world,         \* which world this is
          place,         \* Drive: the folder a source is in
          review,        \* Drive: the reels in REVIEW
          draftOf,       \* drafts table: name -> recorded sources
          request,       \* reprocess_requests, with the history of each
          cache, fails,  \* processed.json, failed_ids.json
          staged,        \* pending_uploads/: reel -> attempts
          pc, todo,      \* step of main; what the step still has to go through
          thread, snap,  \* per source: where its worker is; the counts it read
          tmp,           \* failed_ids.json.tmp
          found, reels,  \* people found per source; reels to upload
          notes,         \* this run has note keys of requests
          real, last,    \* history: failures; people of the last analysis
          unmade,        \* history: <<person, source>> without a reel
          abandoned, lost,
          unforgotten,   \* history: moved back, the marker's removal lost
          faults

drive == <<place, review>>
tables == <<draftOf, request>>
local == <<cache, fails, staged>>
pool == <<thread, snap, tmp>>
made == <<found, reels>>
memory == <<pool, made, notes>>
history == <<real, last, unmade, abandoned, lost, unforgotten>>
vars == <<world, drive, tables, local, pc, todo, pool, made, notes, history, faults>>

NoTable == [s \in Sources |-> 99]
Fault == faults < world.faults /\ faults' = faults + 1
Fine == UNCHANGED faults
Goto(step) == pc' = step
To(s, step) == thread' = [thread EXCEPT ![s] = step]
Long == \E s \in Large : {x \in Sources : thread[x] # "idle"} = {s}

Init ==
    /\ world \in Worlds
    /\ place = [s \in Sources |-> "raw"]
    /\ review = {} /\ draftOf = [p \in People |-> {}]
    /\ request = [q \in Requests |->
                    [status |-> "none", name |-> "none", note |-> FALSE,
                     due |-> {}, again |-> {}]]
    /\ cache = {} /\ fails = [s \in Sources |-> 0] /\ staged = [r \in {} |-> 0]
    /\ pc = "idle" /\ todo = {}
    /\ thread = [s \in Sources |-> "idle"] /\ snap = [s \in Sources |-> NoTable]
    /\ tmp = NoTable
    /\ found = [s \in Sources |-> {}] /\ reels = {} /\ notes = FALSE
    /\ real = [s \in Sources |-> 0] /\ last = [s \in Sources |-> {"unseen"}]
    /\ unmade = {} /\ abandoned = {} /\ lost = {} /\ unforgotten = {} /\ faults = 0

(***************************************************************************)
(* The operator and the start of a run                                     *)
(***************************************************************************)
\* The operator sends a draft back for a re-edit, with or without notes; refused
\* while the draft is being re-edited.
SendBack(q) ==
    \E r \in review, note \in BOOLEAN :
        /\ q <= world.requests /\ request[q].status = "none"
        /\ \A x \in Requests : x < q => request[x].status # "none"
        /\ \A x \in Requests : request[x].name = r.who => request[x].status \notin {"pending", "queued"}
        /\ request' = [request EXCEPT ![q] =
               [status |-> "pending", name |-> r.who, note |-> note, due |-> {}, again |-> {}]]
        /\ UNCHANGED <<drive, draftOf, local, pc, todo, pool, made, notes, history, faults>>

\* A runner that is thrown away after a run takes the local files with it.
StartRun ==
    /\ pc = "idle" /\ Goto("staged")
    /\ IF world.kept THEN UNCHANGED <<local, lost, unforgotten>>
       ELSE /\ cache' = {} /\ fails' = [s \in Sources |-> 0] /\ staged' = [r \in {} |-> 0]
            /\ lost' = lost \cup DOMAIN staged /\ unforgotten' = {}
    /\ todo' = IF world.kept THEN DOMAIN staged ELSE {}
    /\ UNCHANGED <<drive, tables, memory, real, last, unmade, abandoned, faults>>

\* The end of the process: main returns or raises, or the runner is lost.
EndRun ==
    /\ Goto("idle") /\ todo' = {}
    /\ thread' = [s \in Sources |-> "idle"] /\ snap' = [s \in Sources |-> NoTable]
    /\ tmp' = NoTable
    /\ found' = [s \in Sources |-> {}] /\ reels' = {} /\ notes' = FALSE

Crash ==
    /\ pc # "idle" /\ Fault /\ EndRun
    /\ unforgotten' = unforgotten \cup {s \in Sources : thread[s] = "moved"}
    /\ UNCHANGED <<drive, tables, local, real, last, unmade, abandoned, lost>>

(***************************************************************************)
(* Staged reels, the disk check, the requests                              *)
(***************************************************************************)
Unstaged(r) == [x \in DOMAIN staged \ {r} |-> staged[x]]

RetryStaged(r) ==
    /\ pc = "staged" /\ r \in todo /\ todo' = todo \ {r}
    /\ \/ /\ staged[r] >= MaxStaged /\ staged' = Unstaged(r)
          /\ abandoned' = abandoned \cup {r} /\ Fine /\ UNCHANGED review
       \/ /\ staged[r] < MaxStaged /\ staged' = Unstaged(r)
          /\ review' = review \cup {r} /\ Fine /\ UNCHANGED abandoned
       \/ /\ staged[r] < MaxStaged /\ Fault /\ staged' = [staged EXCEPT ![r] = @ + 1]
          /\ UNCHANGED <<review, abandoned>>
    /\ UNCHANGED <<place, tables, cache, fails, pc, pool, made, notes, real, last, unmade, lost,
                   unforgotten>>

\* The disk may be full; the requests may not be read, and are then skipped.
FetchRequests ==
    /\ pc = "staged" /\ todo = {}
    /\ \/ /\ Fine /\ Goto("requests") /\ todo' = {q \in Requests : request[q].status = "pending"}
          /\ UNCHANGED memory
       \/ Fault /\ Goto("list") /\ todo' = {} /\ UNCHANGED memory
       \/ Fault /\ EndRun
    /\ UNCHANGED <<drive, tables, local, history>>

\* requeue_video of one source: the move, then its removal from the cache.
\* A source that is in RAW already counts as moved.  History: due is what was
\* put back into RAW for the request, again what was analysed since.
Due(q) == draftOf[request[q].name]
Handled(q) == pc = "requests" /\ q \in todo /\ \A x \in todo : q <= x
RequeueMove(q, s) ==
    /\ Handled(q) /\ s \in Due(q)
    /\ thread[s] = "idle" /\ \A x \in Sources : thread[x] # "moved"
    /\ \/ Fine /\ place' = [place EXCEPT ![s] = "raw"] /\ To(s, "moved")
          /\ request' = [[request EXCEPT ![q].due = @ \cup {s}] EXCEPT ![q].again = @ \ {s}]
       \/ Fault /\ To(s, "stuck") /\ UNCHANGED <<place, request>>
    /\ UNCHANGED <<review, draftOf, local, pc, todo, snap, tmp, made, notes, history>>

\* Mutant: the source stays in the cache, and the scan passes over it.
RequeueForgetNothing(q, s) ==
    /\ Handled(q) /\ thread[s] = "moved" /\ s \in Due(q)
    /\ To(s, "back")
    /\ UNCHANGED <<drive, tables, local, pc, todo, snap, tmp, made, notes, history, faults>>

\* The file may not be written: the source is in RAW and does not count.
RequeueForget(q, s) ==
    /\ Handled(q) /\ thread[s] = "moved" /\ s \in Due(q)
    /\ \/ Fine /\ cache' = cache \ {s} /\ unforgotten' = unforgotten \ {s} /\ To(s, "back")
       \/ Fault /\ UNCHANGED cache /\ unforgotten' = unforgotten \cup {s} /\ To(s, "stuck")
    /\ UNCHANGED <<drive, tables, fails, staged, pc, todo, snap, tmp, made, notes, real, last,
                   unmade, abandoned, lost>>

PutBack(q) == \E s \in Due(q) : thread[s] = "back"

\* One source put back is enough for the request to be queued.  The status write
\* is not guarded: when it fails the run is over and the request still pending.
MarkRequest(q) ==
    /\ Handled(q)
    /\ \A s \in Due(q) : thread[s] \in {"back", "stuck"}
    /\ \A s \in Sources : thread[s] # "moved"
    /\ \/ /\ Fine /\ todo' = todo \ {q} /\ UNCHANGED <<pc, snap, tmp, made>>
          /\ thread' = [s \in Sources |-> "idle"]
          /\ request' = [request EXCEPT
                 ![q].status = IF PutBack(q) THEN "queued" ELSE "source_not_found"]
          /\ notes' = (notes \/ (PutBack(q) /\ request[q].note))
       \/ Fault /\ EndRun /\ UNCHANGED request
    /\ UNCHANGED <<drive, draftOf, local, history>>

(***************************************************************************)
(* The scan                                                                *)
(***************************************************************************)
\* The PROCESSED folder may not be readable: the cache then speaks alone.  A RAW
\* folder that cannot be read is an empty one.
NewVideos(done) == {s \in Sources : place[s] = "raw" /\ s \notin done}
Processed == {s \in Sources : place[s] = "processed"}

Scan(done) ==
    /\ cache' = done
    /\ IF NewVideos(done) = {} THEN EndRun
       ELSE /\ Goto("download") /\ UNCHANGED <<todo, snap, tmp, made, notes>>
            /\ thread' = [s \in Sources |-> IF s \in NewVideos(done) THEN "fetch" ELSE "idle"]

ListVideos ==
    /\ pc \in {"list", "requests"} /\ todo = {}
    /\ \/ Fine /\ Scan(cache \cup Processed)
       \/ Fault /\ Scan(cache)
       \/ Fault /\ EndRun /\ UNCHANGED cache
    /\ UNCHANGED <<drive, tables, fails, staged, history>>

(***************************************************************************)
(* The pools: one worker per source, the two local files shared            *)
(***************************************************************************)
\* The history counts failures up to the limit only.
Failed(s) ==
    /\ To(s, "load")
    /\ real' = [real EXCEPT ![s] = IF @ < FailLimit THEN @ + 1 ELSE @]

Download(s) ==
    /\ pc = "download" /\ thread[s] = "fetch"
    /\ \/ s \notin world.broken /\ Fine /\ To(s, "have") /\ UNCHANGED real
       \/ s \in world.broken /\ Fine /\ Failed(s)
       \/ s \notin world.broken /\ Fault /\ Failed(s)
    /\ UNCHANGED <<drive, tables, local, pc, todo, snap, tmp, made, notes, last, unmade,
                   abandoned, lost, unforgotten>>

\* What is analysed is history of the source, and of the requests that asked for it.
Analyzed(s, people) ==
    /\ found' = [found EXCEPT ![s] = people] /\ last' = [last EXCEPT ![s] = people]
    /\ unmade' = {u \in unmade : u[2] # s}
    /\ request' = [q \in Requests |->
                     IF s \in request[q].due
                     THEN [request[q] EXCEPT !.again = @ \cup {s}] ELSE request[q]]

Analyze(s) ==
    /\ pc = "analyze" /\ thread[s] = "have"
    /\ \/ /\ Fine /\ To(s, "seen") /\ UNCHANGED real
          /\ \E people \in SUBSET world.shows[s] : Analyzed(s, people)
       \/ Fault /\ Failed(s) /\ UNCHANGED <<found, last, unmade, request>>
    /\ UNCHANGED <<drive, draftOf, local, pc, todo, snap, tmp, reels, notes, abandoned, lost,
                   unforgotten>>

\* record_failure: read the counts, write the temporary file, rename it.  The
\* temporary name is the same for every worker: the second rename finds nothing.
RecordLoad(s) ==
    /\ thread[s] = "load" /\ To(s, "write") /\ snap' = [snap EXCEPT ![s] = fails]
    /\ UNCHANGED <<drive, tables, local, pc, todo, tmp, made, notes, history, faults>>

RecordWrite(s) ==
    /\ thread[s] = "write" /\ To(s, "rename") /\ tmp' = [snap[s] EXCEPT ![s] = @ + 1]
    /\ UNCHANGED <<drive, tables, local, pc, todo, snap, made, notes, history, faults>>

LimitReached(s) == snap[s][s] + 1 >= FailLimit
RecordRename(s) ==
    /\ thread[s] = "rename" /\ snap' = [snap EXCEPT ![s] = NoTable]
    /\ IF tmp = NoTable THEN To(s, "fell") /\ UNCHANGED <<fails, tmp>>
       ELSE /\ fails' = tmp /\ tmp' = NoTable
            /\ To(s, IF LimitReached(s) THEN "giveup" ELSE "gone")
    /\ UNCHANGED <<drive, tables, cache, staged, pc, todo, made, notes, history, faults>>

\* mark_as_processed in a worker: the move may fail, which raises; then the
\* cache, where workers can lose each other's entry or the file.
GiveUp(s) ==
    /\ thread[s] = "giveup"
    /\ \/ Fine /\ place' = [place EXCEPT ![s] = "processed"] /\ To(s, "remember")
       \/ Fault /\ To(s, "fell") /\ UNCHANGED place
    /\ UNCHANGED <<review, tables, local, pc, todo, snap, tmp, made, notes, history>>

Beside(s) == \E x \in Sources \ {s} : thread[x] = "remember"
Remember(s) ==
    /\ thread[s] = "remember"
    /\ \/ cache' = cache \cup {s} /\ To(s, "gone")
       \/ Beside(s) /\ UNCHANGED cache /\ To(s, "gone")
       \/ Beside(s) /\ UNCHANGED cache /\ To(s, "fell")
    /\ UNCHANGED <<drive, tables, fails, staged, pc, todo, snap, tmp, made, notes, history, faults>>

Resting == {"idle", "have", "seen", "gone", "fell"}
PoolEnds ==
    /\ pc \in {"download", "analyze"}
    /\ \A s \in Sources : thread[s] \in (IF pc = "download" THEN Resting
                                         ELSE Resting \ {"have"})
    /\ IF \E s \in Sources : thread[s] = "fell" THEN EndRun
       ELSE /\ UNCHANGED <<todo, memory>>
            /\ Goto(CASE pc = "download" -> "analyze"
                      [] pc = "analyze" /\ (\E s \in Sources : thread[s] = "seen") -> "compile"
                      [] OTHER -> "close")
    /\ UNCHANGED <<drive, tables, local, history, faults>>

(***************************************************************************)
(* Reels, archive, end                                                     *)
(***************************************************************************)
With(p) == {s \in Sources : p \in found[s]}
Clusters == {p \in People : With(p) # {}}

\* A cluster may yield no reel.  Clips record the sources of a draft before the
\* upload, a long video after it.
Compile ==
    /\ pc = "compile"
    /\ \/ /\ Fine /\ Goto("upload")
          /\ \E P \in SUBSET Clusters :
                /\ reels' = {[who |-> p, of |-> With(p)] : p \in P}
                /\ unmade' = unmade \cup {u \in (Clusters \ P) \X Sources : u[1] \in found[u[2]]}
                /\ draftOf' = IF Long THEN draftOf
                              ELSE [p \in People |-> IF p \in P THEN With(p) ELSE draftOf[p]]
          /\ UNCHANGED <<todo, pool, found, notes>>
       \/ Fault /\ EndRun /\ UNCHANGED <<unmade, draftOf>>
    /\ UNCHANGED <<drive, request, local, real, last, abandoned, lost, unforgotten>>

\* A reel of clips that cannot be uploaded is staged for the next run, that of a
\* long video is deleted; staging itself may fail.
Delivered(r) ==
    /\ Fine /\ review' = review \cup {r} /\ UNCHANGED <<staged, lost>>
    /\ draftOf' = IF Long THEN [draftOf EXCEPT ![r.who] = r.of] ELSE draftOf

Staged(r) ==
    /\ Fault /\ ~Long /\ UNCHANGED <<review, lost, draftOf>>
    /\ staged' = [x \in DOMAIN staged \cup {r} |-> IF x \in DOMAIN staged THEN staged[x] ELSE 0]

Upload(r) ==
    /\ pc = "upload" /\ r \in reels /\ reels' = reels \ {r}
    /\ \/ Delivered(r) \/ Staged(r)
       \/ Fault /\ lost' = lost \cup {r} /\ UNCHANGED <<review, staged, draftOf>>
    /\ UNCHANGED <<place, request, cache, fails, pc, todo, pool, found, notes, real, last,
                   unmade, abandoned, unforgotten>>

\* Mutant: a source is archived while its reels are still to be uploaded.
ArchiveFirst(s) ==
    /\ pc = "upload" /\ thread[s] = "seen"
    /\ \A x \in Sources : thread[x] # "archived"
    /\ \/ Fine /\ place' = [place EXCEPT ![s] = "processed"] /\ To(s, "archived")
          /\ UNCHANGED <<pc, todo, snap, tmp, made, notes>>
       \/ Fault /\ EndRun /\ UNCHANGED place
    /\ UNCHANGED <<review, tables, local, history>>

\* Mutant: the source is in the cache before it is moved.
ArchiveMarkedFirst(s) ==
    /\ pc = "upload" /\ reels = {} /\ thread[s] = "seen"
    /\ \A x \in Sources : thread[x] # "archived"
    /\ cache' = cache \cup {s}
    /\ \/ Fine /\ place' = [place EXCEPT ![s] = "processed"] /\ To(s, "archived")
          /\ UNCHANGED <<pc, todo, snap, tmp, made, notes>>
       \/ Fault /\ EndRun /\ UNCHANGED place
    /\ UNCHANGED <<review, tables, fails, staged, history>>

\* mark_as_processed after the uploads, source by source; a failed move raises.
Archive(s) ==
    /\ pc = "upload" /\ reels = {} /\ thread[s] = "seen"
    /\ \A x \in Sources : thread[x] # "archived"
    /\ \/ Fine /\ place' = [place EXCEPT ![s] = "processed"] /\ To(s, "archived")
          /\ UNCHANGED <<pc, todo, snap, tmp, made, notes>>
       \/ Fault /\ EndRun /\ UNCHANGED place
    /\ UNCHANGED <<review, tables, local, history>>

Archived(s) ==
    /\ pc = "upload" /\ thread[s] = "archived" /\ To(s, "gone") /\ cache' = cache \cup {s}
    /\ UNCHANGED <<drive, tables, fails, staged, pc, todo, snap, tmp, made, notes, history, faults>>

\* Every queued request is closed, those of earlier runs too, but only when a
\* request of this run had notes; a write that fails is passed over.
CloseRequests ==
    /\ \/ pc = "close"
       \/ pc = "upload" /\ reels = {} /\ \A s \in Sources : thread[s] \notin {"seen", "archived"}
    /\ EndRun
    /\ \/ /\ notes /\ Fine
          /\ request' = [q \in Requests |-> IF request[q].status = "queued"
                                            THEN [request[q] EXCEPT !.status = "done"] ELSE request[q]]
       \/ notes /\ Fault /\ UNCHANGED request
       \/ ~notes /\ Fine /\ UNCHANGED request
    /\ UNCHANGED <<drive, draftOf, local, history>>

PoolStep ==
    \/ \E s \in Sources :
          \/ Download(s) \/ Analyze(s) \/ RecordLoad(s) \/ RecordWrite(s)
          \/ RecordRename(s) \/ GiveUp(s) \/ Remember(s)
    \/ PoolEnds
Step ==
    \/ \E r \in DOMAIN staged : RetryStaged(r)
    \/ FetchRequests
    \/ \E q \in Requests : MarkRequest(q) \/ \E s \in Sources : RequeueMove(q, s) \/ RequeueForget(q, s)
    \/ ListVideos
    \/ pc \in {"download", "analyze"} /\ PoolStep
    \/ Compile
    \/ \E r \in reels : Upload(r)
    \/ \E s \in Sources : Archive(s) \/ Archived(s)
    \/ CloseRequests

Next == UNCHANGED world /\ (StartRun \/ Step \/ Crash \/ \E q \in Requests : SendBack(q))
Spec == Init /\ [][Next]_vars

\* Runs are started again and again (apps_script/trigger.gs fires while RAW has
\* files) and a run goes on while its runner lives.
FairSpec == Spec /\ WF_vars(UNCHANGED world /\ StartRun) /\ WF_vars(UNCHANGED world /\ Step)

(***************************************************************************)
(* Properties                                                              *)
(***************************************************************************)
Held == review \cup DOMAIN staged \cup abandoned \cup lost \cup reels
TypeOK ==
    /\ place \in [Sources -> {"raw", "processed"}] /\ cache \subseteq Sources
    /\ fails \in [Sources -> Nat] /\ real \in [Sources -> Nat]
    /\ \A r \in Held : r.who \in People /\ r.of \in (SUBSET Sources) \ {{}}
    /\ draftOf \in [People -> SUBSET Sources]
    /\ tmp \in [Sources -> Nat] /\ notes \in BOOLEAN /\ faults \in 0..world.faults

\* A source leaves RAW for good reason only: it has really failed as often as the
\* limit says, or a run has analysed it and every person that run found in it has
\* a reel in REVIEW or staged for it, unless rendering gave none, five retries
\* failed, or the failure is one the code cannot make good (lost).
Accounted(s) ==
    \/ real[s] >= FailLimit
    \/ /\ last[s] # {"unseen"}
       /\ \A p \in last[s] :
             \/ <<p, s>> \in unmade
             \/ \E r \in (Held \ reels) : r.who = p /\ s \in r.of
ArchivedIsAccounted == \A s \in Processed : Accounted(s)

\* In RAW, and passed over by every scan of this disk: requeue_video moved it,
\* and its removal from the cache was lost with the process or failed.
Hidden(s) == place[s] = "raw" /\ s \in cache /\ s \in unforgotten

\* Closing a request forgets none of the sources it had put back into RAW: each
\* was analysed again since, waits in RAW for the next run, or is at its limit,
\* whatever run put it back and whatever was lost, but one that is hidden.
DoneIsNotDropped ==
    \A q \in Requests : request[q].status = "done" =>
        \A s \in request[q].due :
            \/ s \in request[q].again \/ real[s] >= FailLimit
            \/ place[s] = "raw" /\ s \notin cache
            \/ Hidden(s)

\* What close_queued_reprocess says of itself: the sources of the requests it
\* closes were processed in this run.
DoneMeansReprocessed ==
    \A q \in Requests : request[q].status = "done" => request[q].due \subseteq request[q].again

\* A source in RAW is archived in the end, whatever crashes and whatever fails,
\* and a broken one is given up, unless a lost removal hides it; where no count
\* of failures outlives a run, a broken one is at least tried in run after run.
RawIsArchived ==
    \A s \in Sources :
        place[s] = "raw" ~>
            \/ place[s] = "processed"
            \/ Hidden(s)
            \/ s \in world.broken /\ ~world.kept /\ thread[s] = "fetch"
=============================================================================
