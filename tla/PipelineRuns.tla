---------------------------- MODULE PipelineRuns ----------------------------
(***************************************************************************)
(* One upload batch, many hands: the operator's start, reset and retry      *)
(* requests (web-api routes, each a series of separate database and GitHub  *)
(* calls), GitHub's concurrency group, the workflow job with its steps, and *)
(* the uploads that go on changing the batch behind them all.               *)
(*                                                                         *)
(* The batch row is the lock of BatchLock.  pipeline_runs rows are `run`.   *)
(* The storage backend is R2.                                               *)
(***************************************************************************)
EXTENDS BatchLock

CONSTANTS
    NoBatch,   \* a run row or a request that names no batch yet
    Requests,  \* operator requests; each is used once
    Unsettled, \* batches whose uploads still change behind the runs
    Kinds,     \* the routes in use: a subset of {"start", "reset", "retry"}
    Faults     \* what may go wrong: a subset of
               \*   "write"   a write to the database fails, noticed or not
               \*   "reply"   a write commits but its reply is lost
               \*   "github"  a dispatch call ends without an answer
               \*   "request" a request is killed between two calls
               \*   "runner"  a runner dies without running its last steps

ASSUME ProtocolAssumption ==
    /\ NoBatch \notin Batches
    /\ Unsettled \subseteq Batches
    /\ Kinds \subseteq {"start", "reset", "retry"}
    /\ Faults \subseteq {"write", "reply", "github", "request", "runner"}

VARIABLES
    run,      \* pipeline_runs: one record per run id
    request,  \* where each operator request stands
    active,   \* the job GitHub is running, or NoJob
    pending,  \* the one job that waits in the concurrency group, or NoJob
    stranded  \* history: runs nobody will end, for a reason WorkEnds excepts

vars == <<lock, run, request, active, pending, stranded>>

----------------------------------------------------------------------------
RunStatuses == {"absent", "queued", "running", "succeeded", "failed",
                "no_result", "dispatch_failed"}

\* "no_result" stands for no_input and no_reviewable_drafts.
Terminal == {"succeeded", "failed", "no_result", "dispatch_failed"}

Ongoing == {"queued", "running"}

RunRow == [status : RunStatuses,
           files : InputSets,             \* input_files
           batch : Batches \cup {NoBatch},  \* meta.batch_id
           claimed : BOOLEAN]             \* stage = 'dispatching_retry'

NoRunRow == [status |-> "absent", files |-> NoInputs, batch |-> NoBatch, claimed |-> FALSE]

RequestPCs ==
    {"idle", "done", "killed",
     "start_insert", "start_lock", "start_reject", "start_send", "start_sent",
     "start_fail", "start_release",
     "reset_insert", "reset_prepare", "reset_reject", "reset_freeze",
     "reset_unfreeze", "reset_send", "reset_fail", "reset_release",
     "retry_claim", "retry_send", "retry_rollback"}

\* A request that has ended, of itself or not
Over == {"done", "killed"}

RequestRow == [pc : RequestPCs, run : Runs \cup {NoRun},
               batch : Batches \cup {NoBatch}, files : InputSets]

NewRequest == [pc |-> "idle", run |-> NoRun, batch |-> NoBatch, files |-> NoInputs]

JobPCs == {"correlate", "load", "reset", "preflight", "begin", "sources", "result", "gate",
           "finalize_run", "read_status", "close_batch"}

\* The steps that work on the footage or on what was made of it.
Processing == {"reset", "begin", "sources", "result"}

JobRow == [pc : JobPCs, run : Runs, batch : Batches, files : InputSets,
           by : Requests,    \* the request that dispatched it
           route : {"start", "reset", "retry"},
           live : BOOLEAN,   \* history: its run was ongoing when it was let on
           outcome : {"completed", "failed", "none"}]

\* Neither a run nor a batch: no job in this place.
NoJob == [pc |-> "none"]

\* The route that dispatches from a step
Sender == [start_send |-> "start", reset_send |-> "reset", retry_send |-> "retry"]

NewJob(q) ==
    [pc |-> "correlate", run |-> request[q].run, batch |-> request[q].batch,
     files |-> NoInputs, by |-> q, route |-> Sender[request[q].pc],
     live |-> FALSE, outcome |-> "none"]

Init ==
    /\ lock \in [Batches -> {Recounted([st |-> "open", run |-> NoRun, manifest |-> NoInputs,
                                        inputs |-> NoInputs], in) : in \in InputSets}]
    /\ run = [r \in Runs |-> NoRunRow]
    /\ request = [q \in Requests |-> NewRequest]
    /\ active = NoJob
    /\ pending = NoJob
    /\ stranded = {}

----------------------------------------------------------------------------
(* Shared steps.                                                            *)

\* A status write to a run row; every one of them also writes the stage.
Marked(r, status) == [run EXCEPT ![r].status = status, ![r].claimed = FALSE]

GoTo(q, pc) == request' = [request EXCEPT ![q].pc = pc]

\* GitHub's concurrency group with cancel-in-progress off: a job runs at once if
\* none does, otherwise it waits; an older waiting job is cancelled unstarted.
Dispatch(q) ==
    IF active = NoJob
      THEN active' = NewJob(q) /\ UNCHANGED <<pending, stranded>>
      ELSE /\ pending' = NewJob(q)
           /\ stranded' = stranded \cup {job.run : job \in {pending} \ {NoJob}}
           /\ UNCHANGED active

\* The dispatch call of request q: accepted, refused, or without an answer.
Send(q, accepted, refused, unanswered) ==
    /\ \/ Dispatch(q) /\ GoTo(q, accepted)
       \/ UNCHANGED <<active, pending, stranded>> /\ GoTo(q, refused)
       \/ /\ "github" \in Faults
          /\ Dispatch(q) \/ UNCHANGED <<active, pending, stranded>>
          /\ GoTo(q, unanswered)
    /\ UNCHANGED <<lock, run>>

\* Request q writes a status and goes on; no route looks at the error.
Mark(q, status, pc) ==
    /\ \/ run' = Marked(request[q].run, status)
       \/ "write" \in Faults /\ UNCHANGED run
    /\ GoTo(q, pc)
    /\ UNCHANGED <<lock, active, pending>>

\* releaseUploadBatchAfterDispatchFailure: a conditional update, nothing
\* happens when the batch is no longer held.
Released(b, r) == IF Holds(b, r) THEN Unlock(b, r) ELSE UNCHANGED lock

\* Its error is thrown, whether the update took place or not.
ReleaseLock(q, pc, thrown) ==
    LET released == Released(request[q].batch, request[q].run)
    IN  /\ \/ released /\ GoTo(q, pc)
           \/ "reply" \in Faults /\ released /\ GoTo(q, thrown)
           \/ "write" \in Faults /\ UNCHANGED lock /\ GoTo(q, thrown)
        /\ UNCHANGED <<run, active, pending, stranded>>

\* An insert that fails ends the request, also when the row is there.
InsertRun(q, files, pc) ==
    /\ \/ \E r \in Runs, next \in {pc} \cup (IF "reply" \in Faults THEN {"done"} ELSE {}) :
             /\ run[r].status = "absent"
             /\ run' = [run EXCEPT ![r] = [status |-> "queued", files |-> files,
                                           batch |-> request[q].batch, claimed |-> FALSE]]
             /\ request' = [request EXCEPT ![q].pc = next, ![q].run = r]
       \/ "write" \in Faults /\ UNCHANGED run /\ GoTo(q, "done")
    /\ UNCHANGED <<lock, active, pending, stranded>>

----------------------------------------------------------------------------
(* POST /pipeline/start.                                                    *)

\* assert_upload_batch_ready: recount, then require "ready" and take the manifest.
StartCheck(q, b) ==
    LET row == Recounted(lock[b], lock[b].inputs)
    IN  /\ request[q].pc = "idle"
        /\ row.st = "ready"
        /\ lock' = [lock EXCEPT ![b] = row]
        /\ request' = [request EXCEPT ![q] = [pc |-> "start_insert", run |-> NoRun,
                                              batch |-> b, files |-> row.manifest]]
        /\ UNCHANGED <<run, active, pending, stranded>>

StartInsert(q) ==
    /\ request[q].pc = "start_insert"
    /\ InsertRun(q, request[q].files, "start_lock")

\* mark_upload_batch_running; the batch may have changed since the check.
StartLock(q) ==
    LET b == request[q].batch
    IN  /\ request[q].pc = "start_lock"
        /\ \/ Lock(b, request[q].run) /\ GoTo(q, "start_send")
           \/ "reply" \in Faults /\ Lock(b, request[q].run) /\ GoTo(q, "start_reject")
           \/ /\ lock[b].st # "ready" \/ "write" \in Faults
              /\ UNCHANGED lock /\ GoTo(q, "start_reject")
        /\ UNCHANGED <<run, active, pending, stranded>>

StartReject(q) ==
    /\ request[q].pc = "start_reject"
    /\ Mark(q, "dispatch_failed", "done")
    /\ UNCHANGED stranded

StartSend(q) ==
    /\ request[q].pc = "start_send"
    /\ Send(q, "start_sent", "start_fail", "start_fail")

\* The job of request q has not come to its last look at the run.
LooksAgain(q) ==
    \E job \in {active, pending} \ {NoJob} :
        job.by = q /\ job.pc \notin {"read_status", "close_batch"}

\* The last write of the route has no condition on the status it replaces: it may
\* even replace the end of the run.
StartSent(q) ==
    /\ request[q].pc = "start_sent"
    /\ Mark(q, "queued", "done")
    /\ stranded' = IF LooksAgain(q) THEN stranded ELSE stranded \cup {request[q].run}

\* failDispatch: mark the run, then release the batch and catch the error.
StartFail(q) ==
    /\ request[q].pc = "start_fail"
    /\ Mark(q, "dispatch_failed", "start_release")
    /\ UNCHANGED stranded

StartRelease(q) ==
    /\ request[q].pc = "start_release"
    /\ ReleaseLock(q, "done", "done")

Start(q) ==
    \/ \E b \in Batches : StartCheck(q, b)
    \/ StartInsert(q)
    \/ StartLock(q)
    \/ StartReject(q)
    \/ StartSend(q)
    \/ StartSent(q)
    \/ StartFail(q)
    \/ StartRelease(q)

----------------------------------------------------------------------------
(* POST /pipeline/reset: a new run over the batch of an ended one.          *)

ResetCheck(q, source) ==
    /\ request[q].pc = "idle"
    /\ run[source].status \notin Ongoing \cup {"absent"}
    /\ run[source].files # NoInputs
    /\ request' = [request EXCEPT ![q].pc = "reset_insert", ![q].batch = run[source].batch]
    /\ UNCHANGED <<lock, run, active, pending, stranded>>

ResetInsert(q) ==
    /\ request[q].pc = "reset_insert"
    /\ InsertRun(q, NoInputs, "reset_prepare")

\* The checks of prepare_upload_batch_rerun.
RerunAllowed(b) ==
    /\ lock[b].st # "none"
    /\ lock[b].inputs # NoInputs
    /\ lock[b].run # NoRun => run[lock[b].run].status \notin Ongoing

ResetPrepare(q) ==
    LET b == request[q].batch
    IN  /\ request[q].pc = "reset_prepare"
        /\ \/ /\ RerunAllowed(b)
              /\ Relock(b, request[q].run)
              /\ \/ request' = [request EXCEPT ![q].pc = "reset_freeze",
                                               ![q].files = lock[b].inputs]
                 \/ "reply" \in Faults /\ GoTo(q, "reset_reject")
           \/ /\ ~RerunAllowed(b) \/ "write" \in Faults
              /\ UNCHANGED lock /\ GoTo(q, "reset_reject")
        /\ UNCHANGED <<run, active, pending, stranded>>

ResetReject(q) ==
    /\ request[q].pc = "reset_reject"
    /\ Mark(q, "dispatch_failed", "done")
    /\ UNCHANGED stranded

\* The manifest of the rerun becomes the run's input_files.
ResetFreeze(q) ==
    /\ request[q].pc = "reset_freeze"
    /\ \/ /\ run' = [run EXCEPT ![request[q].run].files = request[q].files]
          /\ \/ GoTo(q, "reset_send")
             \/ "reply" \in Faults /\ GoTo(q, "reset_unfreeze")
       \/ "write" \in Faults /\ UNCHANGED run /\ GoTo(q, "reset_unfreeze")
    /\ UNCHANGED <<lock, active, pending, stranded>>

\* The freeze failed: release, then mark the run, unless the release throws.
ResetUnfreeze(q) ==
    /\ request[q].pc = "reset_unfreeze"
    /\ ReleaseLock(q, "reset_reject", "done")

\* No answer throws out of the route.
ResetSend(q) ==
    /\ request[q].pc = "reset_send"
    /\ Send(q, "done", "reset_fail", "done")

ResetFail(q) ==
    /\ request[q].pc = "reset_fail"
    /\ Mark(q, "dispatch_failed", "reset_release")
    /\ UNCHANGED stranded

ResetRelease(q) ==
    /\ request[q].pc = "reset_release"
    /\ ReleaseLock(q, "done", "done")

Reset(q) ==
    \/ \E source \in Runs : ResetCheck(q, source)
    \/ ResetInsert(q)
    \/ ResetPrepare(q)
    \/ ResetReject(q)
    \/ ResetFreeze(q)
    \/ ResetUnfreeze(q)
    \/ ResetSend(q)
    \/ ResetFail(q)
    \/ ResetRelease(q)

----------------------------------------------------------------------------
(* POST /pipeline/retry: the failed run itself, once more.                  *)

\* The route's checks on the run and on its batch.  That the manifest has the
\* expected number of files follows from its being a manifest.
Retryable(r, b) ==
    /\ run[r].status = "failed"
    /\ lock[b].st = "failed"
    /\ lock[b].run = r
    /\ run[r].files # NoInputs
    /\ run[r].files = lock[b].manifest

RetryCheck(q, r, b) ==
    /\ request[q].pc = "idle"
    /\ Retryable(r, b)
    /\ request' = [request EXCEPT ![q].pc = "retry_claim", ![q].run = r, ![q].batch = b]
    /\ UNCHANGED <<lock, run, active, pending, stranded>>

\* Compare and set: only one of several requests goes on.
RetryClaim(q) ==
    LET r == request[q].run
    IN  /\ request[q].pc = "retry_claim"
        /\ \/ /\ run[r].status = "failed"
              /\ run' = [run EXCEPT ![r].status = "queued", ![r].claimed = TRUE]
              /\ GoTo(q, "retry_send") \/ ("reply" \in Faults /\ GoTo(q, "done"))
           \/ /\ run[r].status # "failed" \/ "write" \in Faults
              /\ UNCHANGED run /\ GoTo(q, "done")
        /\ UNCHANGED <<lock, active, pending, stranded>>

\* No answer keeps the claim.
RetrySend(q) ==
    /\ request[q].pc = "retry_send"
    /\ Send(q, "done", "retry_rollback", "done")

\* Mutant: a refused retry keeps its claim.
RetryRollbackNothing(q) ==
    /\ request[q].pc = "retry_rollback"
    /\ GoTo(q, "done")
    /\ UNCHANGED <<lock, run, active, pending, stranded>>

\* A refusal gives the claim back, if it is still there.
RetryRollback(q) ==
    LET r == request[q].run
    IN  /\ request[q].pc = "retry_rollback"
        /\ \/ run' = IF run[r].status = "queued" /\ run[r].claimed
                       THEN Marked(r, "failed") ELSE run
           \/ "write" \in Faults /\ UNCHANGED run
        /\ GoTo(q, "done")
        /\ UNCHANGED <<lock, active, pending, stranded>>

Retry(q) ==
    \/ \E r \in Runs, b \in Batches : RetryCheck(q, r, b)
    \/ RetryClaim(q)
    \/ RetrySend(q)
    \/ RetryRollback(q)

----------------------------------------------------------------------------
(* The workflow job, step by step.                                          *)

At(pc) == active.pc = pc

JobTo(pc) == active' = [active EXCEPT !.pc = pc]

\* A status write of the job that may be lost.
BestEffort(status) ==
    \/ run' = Marked(active.run, status)
    \/ "write" \in Faults /\ UNCHANGED run

\* record_run_correlation.py on a first attempt: queued becomes running.
Correlate ==
    /\ At("correlate")
    /\ IF run[active.run].status = "queued"
         THEN BestEffort("running") ELSE UNCHANGED run
    /\ JobTo("load")
    /\ UNCHANGED <<lock, request, pending, stranded>>

AfterLoad(job) == IF job.route = "reset" THEN "reset" ELSE "preflight"

\* export_pipeline_input_manifest.py; an empty manifest fails the job.
LoadManifest ==
    LET files == run[active.run].files
    IN  /\ At("load")
        /\ active' = [active EXCEPT !.files = files,
                          !.live = run[active.run].status \in Ongoing,
                          !.pc = IF files = NoInputs THEN "finalize_run" ELSE AfterLoad(active)]
        /\ UNCHANGED <<lock, run, request, pending, stranded>>

\* reset_and_rerun.py --reset-only deletes the drafts, before the preflight.
ResetDrafts ==
    /\ At("reset")
    /\ BestEffort("running")
    /\ JobTo("preflight")
    /\ UNCHANGED <<lock, request, pending, stranded>>

\* Mutant: preflight does not compare the run's files with the batch's manifest.
EligibleIgnoringManifest(job) ==
    /\ lock[job.batch].run = job.run
    /\ lock[job.batch].st \in {"running", "failed"}

\* Mutant: preflight does not compare the batch's run with its own.
EligibleIgnoringOwner(job) ==
    /\ lock[job.batch].st \in {"running", "failed"}
    /\ lock[job.batch].manifest = job.files

\* preflight_frozen_inputs.py, _check_eligibility
Eligible(job) ==
    /\ lock[job.batch].run = job.run
    /\ lock[job.batch].st \in {"running", "failed"}
    /\ lock[job.batch].manifest = job.files

\* A job installs its packages before the preflight, which takes far longer than
\* the end of the request that dispatched it.
DispatcherDone == request[active.by].pc \in Over

\* Nothing is asked of the run itself.
Preflight ==
    /\ At("preflight")
    /\ DispatcherDone
    /\ active' = [active EXCEPT !.live = run[active.run].status \in Ongoing,
                      !.pc = IF Eligible(active) THEN "begin" ELSE "finalize_run"]
    /\ UNCHANGED <<lock, run, request, pending, stranded>>

\* run_tracked.py begins: the status whatever it was.
Begin ==
    /\ At("begin")
    /\ BestEffort("running")
    /\ JobTo("sources")
    /\ UNCHANGED <<lock, request, pending, stranded>>

\* prepare_canonical_sources hashes every source and writes the hash to its row:
\* the trigger recounts the batch, which may have lost a duplicate.
HashSources ==
    /\ At("sources")
    /\ \E in \in {lock[active.batch].inputs, NoInputs} :
          lock' = [lock EXCEPT ![active.batch] = Recounted(@, in)]
    /\ JobTo("result")
    /\ UNCHANGED <<run, request, pending, stranded>>

\* The end of run_tracked.py; a failed run also fails the step.
Result ==
    /\ At("result")
    /\ \E status \in {"succeeded", "failed", "no_result"} :
          /\ BestEffort(status)
          /\ JobTo(IF status = "failed" THEN "finalize_run" ELSE "gate")
    /\ UNCHANGED <<lock, request, pending, stranded>>

\* The publishable business gate passes, or overwrites the status with "failed".
Gate ==
    /\ At("gate")
    /\ \/ JobTo("read_status") /\ UNCHANGED run
       \/ JobTo("finalize_run") /\ BestEffort("failed")
    /\ UNCHANGED <<lock, request, pending, stranded>>

\* A step fails, times out or is cancelled; the last two steps still run.
StepBreaks ==
    /\ active # NoJob
    /\ active.pc \notin {"finalize_run", "read_status", "close_batch"}
    /\ JobTo("finalize_run")
    /\ UNCHANGED <<lock, run, request, pending, stranded>>

\* finalize_unfinished_run.py: a run that is not terminal has failed.
FinalizeRun ==
    /\ At("finalize_run")
    /\ IF run[active.run].status \in Terminal
         THEN UNCHANGED run ELSE BestEffort("failed")
    /\ JobTo("read_status")
    /\ UNCHANGED <<lock, request, pending, stranded>>

\* Mutant: a run without reviewable result completes its batch.
OutcomeNoResultCompletes(status) ==
    IF status \in {"succeeded", "no_result"} THEN "completed"
    ELSE IF status \in Terminal THEN "failed" ELSE "none"

\* The mapping of finalize_upload_batch.py from run status to batch state.
OutcomeOf(status) ==
    IF status = "succeeded" THEN "completed"
    ELSE IF status \in Terminal THEN "failed" ELSE "none"

\* finalize_upload_batch.py reads the run ...
ReadStatus ==
    /\ At("read_status")
    /\ active' = [active EXCEPT !.pc = "close_batch",
                                !.outcome = OutcomeOf(run[active.run].status)]
    /\ UNCHANGED <<lock, run, request, pending, stranded>>

\* The waiting job takes the place of the one that ended.
JobEnds == active' = pending /\ pending' = NoJob /\ UNCHANGED stranded

\* ... and closes the batch that is still running under it.
CloseBatch ==
    /\ At("close_batch")
    /\ \/ IF active.outcome # "none" /\ Holds(active.batch, active.run)
            THEN Close(active.batch, active.run, active.outcome)
            ELSE UNCHANGED lock
       \/ "write" \in Faults /\ UNCHANGED lock
    /\ JobEnds
    /\ UNCHANGED <<run, request>>

\* The runner is lost: no further step runs, not even the last ones.
RunnerLost ==
    /\ "runner" \in Faults
    /\ active # NoJob
    /\ JobEnds
    /\ UNCHANGED <<lock, run, request>>

\* The workflow is started by hand, for no run: its job takes the waiting place, and
\* the one that waited is cancelled unstarted.
StartedByHand ==
    /\ pending # NoJob
    /\ pending' = NoJob
    /\ stranded' = stranded \cup {pending.run}
    /\ UNCHANGED <<lock, run, request, active>>

JobStep ==
    \/ Correlate
    \/ LoadManifest
    \/ ResetDrafts
    \/ Preflight
    \/ Begin
    \/ HashSources
    \/ Result
    \/ Gate
    \/ FinalizeRun
    \/ ReadStatus
    \/ CloseBatch

----------------------------------------------------------------------------
RequestStep(q) ==
    \/ "start" \in Kinds /\ Start(q)
    \/ "reset" \in Kinds /\ Reset(q)
    \/ "retry" \in Kinds /\ Retry(q)

\* The platform stops the function between two calls.
RequestKilled(q) ==
    /\ "request" \in Faults
    /\ request[q].pc \notin {"idle"} \cup Over
    /\ GoTo(q, "killed")
    /\ UNCHANGED <<lock, run, active, pending, stranded>>

\* The uploads behind a batch change (any transaction of UploadBatch).
UploadsChange(b) ==
    /\ SourcesChange({b})
    /\ UNCHANGED <<run, request, active, pending, stranded>>

Next ==
    \/ \E q \in Requests : RequestStep(q) \/ RequestKilled(q)
    \/ JobStep
    \/ StepBreaks
    \/ RunnerLost
    \/ StartedByHand
    \/ \E b \in Unsettled : UploadsChange(b)

Spec == Init /\ [][Next]_vars

\* A request that has begun goes on to its end, GitHub runs the steps of a job.
\* The operator owes nothing: an idle request may stay idle.
Fairness ==
    /\ WF_vars(JobStep)
    /\ \A q \in Requests : WF_vars(request[q].pc # "idle" /\ RequestStep(q))

FairSpec == Spec /\ Fairness

----------------------------------------------------------------------------
(* Properties.                                                              *)

\* Every row, request and job has the fields of its kind.
TypeOK ==
    /\ LockTypeOK
    /\ run \in [Runs -> RunRow]
    /\ request \in [Requests -> RequestRow]
    /\ active \in JobRow \cup {NoJob}
    /\ pending \in JobRow \cup {NoJob}
    /\ stranded \subseteq Runs

\* A batch is shown as completed only if the run that closed it is still shown as
\* succeeded, the business gate included (finalize_upload_batch.py against resets,
\* retries and late status writes).
CompletedMeansSucceeded ==
    \A b \in Batches : lock[b].st = "completed" =>
        /\ lock[b].run # NoRun
        /\ run[lock[b].run].status = "succeeded"

\* No batch is taken over from a run that is working on it: a reset waits for the
\* end, a start finds the batch locked (prepare_upload_batch_rerun,
\* mark_upload_batch_running).  The promise is made to runs that were queued or running
\* when their job was let on: the preflight does not ask, and lets on a job whose
\* dispatch was given up while the release of its batch was lost.  An in-place retry
\* has no part in it.
ProcessingOwnsBatch ==
    active.pc \in Processing /\ active.route # "retry" /\ active.live =>
        lock[active.batch].run = active.run

\* A failed run is claimed by one retry request at a time, so that one dispatch
\* follows one claim (the compare-and-set of retry/route.ts).
RetryClaimedOnce ==
    \A p, q \in Requests :
        request[p].pc = "retry_send" /\ request[q].pc = "retry_send"
          /\ request[p].run = request[q].run => p = q

\* Claimed by finalize_upload_batch.py:5-6: "A successful pipeline closes its batch
\* as completed", when the batch still belongs to the run.
SuccessCompletesBatch ==
    [][CloseBatch /\ active.outcome = "completed" /\ lock[active.batch].run = active.run
         => lock'[active.batch].st = "completed"]_vars

\* Claimed by 20261006_seal_ready_upload_batches.sql:1-2: a running batch is sealed,
\* "its frozen inputs may not change".  While one run holds a batch, the batch
\* keeps its manifest.
LockedManifestKept ==
    [][\A b \in Batches :
          lock[b].st = "running" /\ lock'[b].st = "running" /\ lock'[b].run = lock[b].run
            => lock'[b].manifest = lock[b].manifest]_vars

\* Preflight admits no run whose dispatch the operator was told had failed, even if
\* GitHub did take it (failDispatch releases, preflight compares the owner).
AdmitsOngoingOnly ==
    [][(At("preflight") /\ active'.pc = "begin") => run[active.run].status \in Ongoing]_vars

\* A run is let on to processing only with the files its batch adds up to at that
\* moment, although they were frozen by an earlier call, before the batch was even
\* locked, and uploads changed the batch in between (start/route.ts against
\* preflight_frozen_inputs.py and refresh_upload_batch_state).
AdmitsCurrentFiles ==
    [][(At("preflight") /\ active'.pc = "begin") =>
          /\ active.files # NoInputs
          /\ active.files = lock[active.batch].inputs]_vars

\* Whoever locked a batch, somebody is left who will unlock it: a request on its
\* way, a job that will come to its last step, or an ended run, whose batch the
\* operator may reset.
LockHasKeeper ==
    \A b \in Batches : lock[b].st = "running" =>
        \/ \E q \in Requests : request[q].run = lock[b].run /\ request[q].pc \notin Over
        \/ \E job \in {active, pending} \ {NoJob} : job.run = lock[b].run
        \/ run[lock[b].run].status \notin Ongoing

\* Every run that was queued comes to an end that the operator sees, retries included,
\* and every locked batch is released in the end (finalize_unfinished_run.py,
\* finalize_upload_batch.py, failDispatch, the retry rollback), but for two ways to
\* strand a run: its waiting job is cancelled by a later one, or its job is over
\* before its start route writes "queued" for the last time.
WorkEnds ==
    /\ \A r \in Runs :
          run[r].status \in Ongoing ~> run[r].status \notin Ongoing \/ r \in stranded
    /\ \A b \in Batches :
          lock[b].st = "running" ~> lock[b].st # "running" \/ lock[b].run \in stranded
=============================================================================
