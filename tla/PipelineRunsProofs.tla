------------------------- MODULE PipelineRunsProofs -------------------------
(***************************************************************************)
(* What the run protocol keeps, for any batches, runs, requests and faults: *)
(* its types, and the three safety properties of PipelineRuns.              *)
(*                                                                         *)
(* The invariant is stated run by run.  A run is known by its owner, the    *)
(* start or reset request that inserted it, by retry requests, by jobs and  *)
(* by at most one batch; a step of one run leaves what is said of the       *)
(* others alone, which is the lemma Untouched.                              *)
(***************************************************************************)
EXTENDS PipelineRuns, TLAPS

\* The steps of a request that has inserted the run it names
Owning == {"start_lock", "start_reject", "start_send", "start_sent", "start_fail",
           "start_release", "reset_prepare", "reset_reject", "reset_freeze",
           "reset_unfreeze", "reset_send", "reset_fail", "reset_release"}

\* ... and has not called the dispatch.
Undispatched == {"start_lock", "start_reject", "start_send", "reset_prepare",
                 "reset_reject", "reset_freeze", "reset_unfreeze", "reset_send"}

\* The lock is asked for next.
Early == {"start_lock", "reset_prepare"}

\* The lock was granted.
Granted == {"start_send", "reset_freeze", "reset_send"}

Retrying == {"retry_claim", "retry_send", "retry_rollback"}

\* The steps of a job before its run has a result
BeforeResult == {"correlate", "load", "reset", "preflight", "begin", "sources", "result"}

\* ... and those that come after the wait for the dispatching request.
AfterRequest == {"begin", "sources", "result", "gate"}

\* The steps the preflight has let on
LetOn == {"begin", "sources", "result"}

Jobs == {active, pending} \ {NoJob}

Owns(q, r) == request[q].pc \in Owning /\ request[q].run = r

Retries(q, r) == request[q].pc \in Retrying /\ request[q].run = r

----------------------------------------------------------------------------
(* The parts of the invariant.                                              *)

\* What a request names at each step
RequestOK(q) ==
    /\ request[q].pc \in {"idle", "start_insert", "reset_insert"} => request[q].run = NoRun
    /\ request[q].pc # "idle" => request[q].batch \in Batches
    /\ request[q].pc \in Owning \cup Retrying => request[q].run \in Runs

\* A job is what its request dispatched; it has the files its run had.
JobOK(job) ==
    /\ job.run = request[job.by].run
    /\ job.batch = request[job.by].batch
    /\ request[job.by].pc \in {"start_sent", "start_fail", "start_release", "done", "killed"}
    /\ job.route = "reset" => request[job.by].pc \in Over
    /\ job.route = "retry" => request[job.by].pc \in Over
    /\ job.pc \in AfterRequest => request[job.by].pc \in Over
    /\ job.pc \in {"reset", "preflight"} => job.files # NoInputs
    /\ job.pc = "reset" => job.route = "reset"

\* A run that is not there is named by nobody.
AbsentUnnamed(r) ==
    run[r].status = "absent" =>
        /\ \A q \in Requests : request[q].run # r
        /\ \A b \in Batches : lock[b].run # r

\* The run is held by the batch it was inserted for, under one owner; nobody closes
\* the batch before the dispatch.
OwnerOK(r) ==
    /\ \A p, q \in Requests : Owns(p, r) /\ Owns(q, r) => p = q
    /\ \A b, c \in Batches : lock[b].run = r /\ lock[c].run = r => b = c
    /\ \A q \in Requests, b \in Batches :
          Owns(q, r) /\ lock[b].run = r =>
              /\ b = request[q].batch
              /\ request[q].pc \in Undispatched => lock[b].st = "running"

\* Before its dispatch a run is queued, and nobody but its owner works on it.
UndispatchedOK(r) ==
    \A q \in Requests : Owns(q, r) =>
        /\ request[q].pc \in Undispatched =>
              /\ run[r].status = "queued"
              /\ \A job \in Jobs : job.run # r
              /\ \A p \in Requests : ~Retries(p, r)
        /\ request[q].pc \in Early => \A b \in Batches : lock[b].run # r
        /\ request[q].pc \in Granted => Holds(request[q].batch, r)

\* A run is retried only after its batch has failed.
RetryOK(r) ==
    \A b \in Batches : lock[b].run = r /\ lock[b].st \in {"running", "completed"} =>
        /\ \A q \in Requests : ~Retries(q, r)
        /\ \A job \in Jobs : job.run = r => job.route # "retry"

\* The first job of a run belongs to its owner.
FirstJobOK(r) ==
    \A job \in Jobs : job.run = r /\ job.route # "retry" =>
        \A q \in Requests : Owns(q, r) => q = job.by

\* A completed batch names a succeeded run that nobody works on any more.
CompletedOK(r) ==
    \A b \in Batches : lock[b].run = r /\ lock[b].st = "completed" =>
        /\ run[r].status = "succeeded"
        /\ \A q \in Requests : ~Owns(q, r)
        /\ \A job \in Jobs : job.run # r

\* A run that succeeds has its first job; whoever dispatched it is done with it.
SucceededOK(r) ==
    \A b \in Batches : Holds(b, r) /\ run[r].status = "succeeded" =>
        \A q \in Requests : ~Owns(q, r)

\* What the last step has read of the run still holds while the run has its batch.
OutcomeOK(r) ==
    \A job \in Jobs : job.run = r /\ job.pc = "close_batch" /\ job.outcome = "completed" =>
        \A b \in Batches : Holds(b, r) => run[r].status = "succeeded"

Held(job) == Holds(job.batch, job.run) /\ run[job.run].status \in Ongoing

\* A batch that names a run is not closed before the first job of the run has a
\* result.  It is held by the run if the job resets it, or was let on while the run
\* was ongoing.
WorkingOK(r) ==
    \A job \in Jobs :
        job.run = r /\ job.route # "retry" /\ job.pc \in BeforeResult =>
            /\ lock[job.batch].run = r => lock[job.batch].st = "running"
            /\ job.route = "reset" \/ (job.pc \in LetOn /\ job.live) => Held(job)

RunOK(r) ==
    /\ AbsentUnnamed(r)
    /\ OwnerOK(r)
    /\ UndispatchedOK(r)
    /\ RetryOK(r)
    /\ FirstJobOK(r)
    /\ CompletedOK(r)
    /\ SucceededOK(r)
    /\ OutcomeOK(r)
    /\ WorkingOK(r)

\* A batch that is shown as completed has a run.
CompletedHasRun == \A b \in Batches : lock[b].st = "completed" => lock[b].run \in Runs

\* A run's first job and its second are not in GitHub's group at once.
OneJob ==
    active # NoJob /\ pending # NoJob /\ active.run = pending.run =>
        active.route = "retry" \/ pending.route = "retry"

RunsInv ==
    /\ TypeOK
    /\ LockManifestIsCurrent
    /\ \A r \in Runs : run[r].status # "absent" => run[r].batch \in Batches
    /\ \A q \in Requests : RequestOK(q)
    /\ \A job \in Jobs : JobOK(job)
    /\ pending # NoJob => pending.pc = "correlate"
    /\ OneJob
    /\ CompletedHasRun
    /\ \A r \in Runs : RunOK(r)

----------------------------------------------------------------------------
(* Lemmas about the operators.                                              *)

\* Recounting keeps the run of a batch and what is running or completed.
SameHold(b) ==
    /\ lock'[b].run = lock[b].run
    /\ lock[b].st \in {"running", "completed"} \/ lock'[b].st \in {"running", "completed"}
         => lock'[b].st = lock[b].st

LEMMA RecountedRow ==
    ASSUME NEW row \in LockRow, NEW in \in InputSets
    PROVE  /\ Recounted(row, in) \in LockRow
           /\ Recounted(row, in).manifest # NoInputs =>
                 Recounted(row, in).manifest = Recounted(row, in).inputs
           /\ Recounted(row, in).inputs = in
           /\ Recounted(row, in).run = row.run
           /\ \/ Recounted(row, in).st = row.st
              \/ /\ row.st \notin {"running", "completed"}
                 /\ Recounted(row, in).st \notin {"running", "completed"}
           /\ Recounted(row, in).st = "ready" => in # NoInputs
<1> DEFINE st == IF row.st \in {"running", "completed", "cancelled"} THEN row.st
                 ELSE IF in # NoInputs THEN "ready" ELSE "open"
<1>1. st \in LockStates
  BY DEF LockRow, LockStates
<1>2. Recounted(row, in) = [row EXCEPT !.st = st, !.inputs = in,
                                       !.manifest = IF st = "ready" THEN in ELSE NoInputs]
  BY DEF Recounted
<1>3. NoInputs \in InputSets
  BY LockAssumption
<1> QED
  BY <1>1, <1>2, <1>3 DEF LockRow, LockStates

LEMMA GoToType ==
    ASSUME TypeOK, NEW q \in Requests, NEW pc \in RequestPCs, GoTo(q, pc)
    PROVE  /\ request' \in [Requests -> RequestRow]
           /\ request'[q].pc = pc
           /\ request'[q].run = request[q].run
           /\ request'[q].batch = request[q].batch
           /\ \A p \in Requests : p # q => request'[p] = request[p]
  BY DEF TypeOK, GoTo, RequestRow

LEMMA MarkedType ==
    ASSUME TypeOK, NEW r \in Runs, NEW status \in RunStatuses
    PROVE  /\ Marked(r, status) \in [Runs -> RunRow]
           /\ Marked(r, status)[r].status = status
           /\ Marked(r, status)[r].batch = run[r].batch
           /\ \A x \in Runs : x # r => Marked(r, status)[x] = run[x]
  BY DEF TypeOK, Marked, RunRow

LEMMA NewJobType ==
    ASSUME TypeOK, NEW q \in Requests, request[q].run \in Runs, request[q].batch \in Batches,
           request[q].pc \in {"start_send", "reset_send", "retry_send"}
    PROVE  /\ NewJob(q) \in JobRow
           /\ NewJob(q).pc = "correlate" /\ NewJob(q).run = request[q].run
           /\ NewJob(q).batch = request[q].batch /\ NewJob(q).by = q
           /\ NewJob(q).route = "start" <=> request[q].pc = "start_send"
           /\ NewJob(q).route = "reset" <=> request[q].pc = "reset_send"
           /\ NewJob(q).route = "retry" <=> request[q].pc = "retry_send"
<1>1. Sender[request[q].pc] \in {"start", "reset", "retry"}
  BY DEF Sender
<1>2. NoInputs \in InputSets
  BY LockAssumption
<1>3. /\ Sender[request[q].pc] = "start" <=> request[q].pc = "start_send"
      /\ Sender[request[q].pc] = "reset" <=> request[q].pc = "reset_send"
      /\ Sender[request[q].pc] = "retry" <=> request[q].pc = "retry_send"
  BY DEF Sender
<1> QED
  BY <1>1, <1>2, <1>3 DEF NewJob, JobRow, JobPCs

LEMMA NoJobIsNone ==
    \A job \in JobRow : job # NoJob
  BY DEF JobRow, JobPCs, NoJob

\* The job that is at a step is there.
LEMMA AtJob ==
    ASSUME TypeOK, NEW pc \in JobPCs, At(pc)
    PROVE  active \in JobRow /\ active # NoJob /\ active \in Jobs
  BY NoJobIsNone DEF TypeOK, At, NoJob, JobPCs, Jobs

\* A dispatch adds the job of its request, or puts it in the place of another.
LEMMA DispatchJobs ==
    ASSUME RunsInv, NEW q \in Requests, Dispatch(q),
           request[q].pc \in {"start_send", "reset_send", "retry_send"}
    PROVE  /\ active' \in JobRow \cup {NoJob} /\ pending' \in JobRow \cup {NoJob}
           /\ Jobs' \subseteq Jobs \cup {NewJob(q)}
           /\ NewJob(q) \in Jobs'
           /\ pending' # NoJob => pending'.pc = "correlate"
           /\ \/ active' = active /\ pending' = NewJob(q)
              \/ active = NoJob /\ active' = NewJob(q) /\ pending' = pending
<1>1. request[q].run \in Runs /\ request[q].batch \in Batches
  BY DEF RunsInv, RequestOK, Owning, Retrying
<1>2. NewJob(q) \in JobRow /\ NewJob(q).pc = "correlate" /\ NewJob(q) # NoJob
  BY <1>1, NewJobType, NoJobIsNone DEF RunsInv
<1>3. TypeOK /\ (pending # NoJob => pending.pc = "correlate")
  BY DEF RunsInv
<1> QED
  BY <1>2, <1>3 DEF Dispatch, Jobs, TypeOK

----------------------------------------------------------------------------
(* What a step may touch.  r is the run the step is about, or NoRun.        *)

RowsEffect(r) ==
    /\ run' \in [Runs -> RunRow]
    /\ \A x \in Runs : x # r => run'[x] = run[x]
    /\ \A x \in Runs : run'[x].status # "absent" => run'[x].batch \in Batches
    /\ \A x \in Runs : run[x].status # "absent" => run'[x].status # "absent"

\* A batch keeps its holder, is taken over from a run that has ended, or is given back.
LockEffect(r) ==
    /\ lock' \in [Batches -> LockRow]
    /\ \A b \in Batches : lock'[b].manifest # NoInputs => lock'[b].manifest = lock'[b].inputs
    /\ \A b \in Batches :
          \/ SameHold(b)
          \/ /\ lock'[b].run = r /\ r \in Runs
             /\ lock[b].st = "running" /\ lock[b].run \in Runs \ {r} =>
                   run[lock[b].run].status \notin Ongoing
          \/ lock[b].run = r /\ lock'[b].run = NoRun /\ lock'[b].st = "ready"

JobsEffect(r) ==
    /\ active' \in JobRow \cup {NoJob}
    /\ pending' \in JobRow \cup {NoJob}
    /\ \A job \in Jobs' : job \in Jobs \/ job.run = r

RequestEffect(q) ==
    /\ \E h \in RequestRow : request' = [request EXCEPT ![q] = h]
    /\ request[q].run \in {NoRun, request'[q].run}
    /\ RequestOK(q)'
    /\ RowsEffect(request'[q].run)
    /\ LockEffect(request'[q].run)
    /\ JobsEffect(request'[q].run)

LEMMA RowsStay == ASSUME RunsInv, UNCHANGED run, NEW r PROVE RowsEffect(r)
  BY DEF RunsInv, TypeOK, RowsEffect

LEMMA LockStays == ASSUME RunsInv, UNCHANGED lock, NEW r PROVE LockEffect(r)
  BY DEF RunsInv, TypeOK, LockTypeOK, LockManifestIsCurrent, LockEffect, SameHold

LEMMA JobsStay == ASSUME RunsInv, UNCHANGED <<active, pending>>, NEW r PROVE JobsEffect(r)
  BY DEF RunsInv, TypeOK, JobsEffect, Jobs

LEMMA RowMarked ==
    ASSUME RunsInv, NEW r \in Runs, NEW status \in RunStatuses, status # "absent",
           run[r].status # "absent", run' = Marked(r, status)
    PROVE  RowsEffect(r)
  BY MarkedType DEF RunsInv, RowsEffect

LEMMA LockRecounted ==
    ASSUME RunsInv, NEW b \in Batches, NEW in \in InputSets,
           lock' = [lock EXCEPT ![b] = Recounted(lock[b], in)], NEW r
    PROVE  LockEffect(r)
<1>1. lock \in [Batches -> LockRow] /\ LockManifestIsCurrent
  BY DEF RunsInv, TypeOK, LockTypeOK
<1> DEFINE row == Recounted(lock[b], in)
<1>2. /\ row \in LockRow
      /\ row.manifest # NoInputs => row.manifest = row.inputs
      /\ row.run = lock[b].run
      /\ \/ row.st = lock[b].st
         \/ lock[b].st \notin {"running", "completed"} /\ row.st \notin {"running", "completed"}
  BY <1>1, RecountedRow
<1> HIDE DEF row
<1>3. lock' = [lock EXCEPT ![b] = row]
  BY DEF row
<1> QED
  BY <1>1, <1>2, <1>3 DEF LockEffect, SameHold, LockManifestIsCurrent

LEMMA LockTaken ==
    ASSUME RunsInv, NEW b \in Batches, NEW r \in Runs, Lock(b, r) PROVE LockEffect(r)
  BY DEF RunsInv, TypeOK, LockTypeOK, LockManifestIsCurrent, LockEffect, SameHold, Lock,
         LockRow, LockStates

LEMMA LockGiven ==
    ASSUME RunsInv, NEW b \in Batches, NEW r \in Runs, Unlock(b, r) PROVE LockEffect(r)
  BY DEF RunsInv, TypeOK, LockTypeOK, LockManifestIsCurrent, LockEffect, SameHold, Unlock,
         Holds, LockRow, LockStates

LEMMA LockTakenOver ==
    ASSUME RunsInv, NEW b \in Batches, NEW r \in Runs, RerunAllowed(b), Relock(b, r)
    PROVE  LockEffect(r)
<1>1. lock \in [Batches -> LockRow] /\ LockManifestIsCurrent
  BY DEF RunsInv, TypeOK, LockTypeOK
<1> DEFINE row == [lock[b] EXCEPT !.st = "running", !.run = r, !.manifest = lock[b].inputs]
<1>2. lock' = [lock EXCEPT ![b] = row]
  BY <1>1 DEF Relock
<1>3. /\ row \in LockRow /\ row.manifest = row.inputs
      /\ row.run = r
  BY <1>1 DEF LockRow, LockStates
<1>4. lock[b].run \in Runs => run[lock[b].run].status \notin Ongoing
  BY LockAssumption DEF RerunAllowed
<1> HIDE DEF row
<1> QED
  BY <1>1, <1>2, <1>3, <1>4 DEF LockEffect, SameHold, LockManifestIsCurrent

LEMMA LockReleased ==
    ASSUME RunsInv, NEW q \in Requests, NEW pc, NEW thrown, request[q].run \in Runs,
           request[q].batch \in Batches, ReleaseLock(q, pc, thrown)
    PROVE  LockEffect(request[q].run)
  BY LockGiven, LockStays DEF ReleaseLock, Released

\* A request goes on, and names what it named.
LEMMA Moves ==
    ASSUME RunsInv, NEW q \in Requests, NEW pc \in RequestPCs, GoTo(q, pc),
           request[q].pc \in Owning \cup Retrying,
           pc \in Owning \cup Retrying \cup Over
    PROVE  /\ \E h \in RequestRow : request' = [request EXCEPT ![q] = h]
           /\ request'[q].run = request[q].run /\ request[q].run \in Runs
           /\ request[q].batch \in Batches
           /\ RequestOK(q)'
<1>1. TypeOK /\ RequestOK(q)
  BY DEF RunsInv
<1>2. /\ request' = [request EXCEPT ![q] = [request[q] EXCEPT !.pc = pc]]
      /\ [request[q] EXCEPT !.pc = pc] \in RequestRow
  BY <1>1 DEF GoTo, TypeOK, RequestRow
<1>3. /\ request'[q].pc = pc /\ request'[q].run = request[q].run
      /\ request'[q].batch = request[q].batch
  BY <1>1, GoToType
<1>4. request[q].pc # "idle" /\ pc \notin {"idle", "start_insert", "reset_insert"}
  BY DEF Owning, Retrying, Over
<1> QED
  BY <1>1, <1>2, <1>3, <1>4 DEF RequestOK

----------------------------------------------------------------------------
(* Every step of a request touches its own run and batch only.              *)

LEMMA MarkEffect ==
    ASSUME RunsInv, NEW q \in Requests, NEW pc \in Owning \cup Over,
           NEW status \in {"queued", "failed", "dispatch_failed"},
           request[q].pc \in Owning, Mark(q, status, pc)
    PROVE  RequestEffect(q)
<1>1. /\ run' = Marked(request[q].run, status) \/ UNCHANGED run
      /\ GoTo(q, pc) /\ UNCHANGED lock /\ UNCHANGED <<active, pending>>
  BY DEF Mark
<1>2. pc \in RequestPCs /\ pc \in Owning \cup Retrying \cup Over
  BY DEF RequestPCs, Owning, Over
<1>3. /\ \E h \in RequestRow : request' = [request EXCEPT ![q] = h]
      /\ request'[q].run = request[q].run /\ request[q].run \in Runs
      /\ RequestOK(q)'
  BY <1>1, <1>2, Moves
<1>4. run[request[q].run].status # "absent"
  BY <1>3 DEF RunsInv, RunOK, AbsentUnnamed
<1>5. RowsEffect(request[q].run)
  BY <1>1, <1>3, <1>4, RowMarked, RowsStay DEF RunStatuses
<1> QED
  BY <1>1, <1>3, <1>5, LockStays, JobsStay DEF RequestEffect

LEMMA SendEffect ==
    ASSUME RunsInv, NEW q \in Requests,
           request[q].pc \in {"start_send", "reset_send", "retry_send"},
           NEW a \in Owning \cup Retrying \cup Over, NEW b \in Owning \cup Retrying \cup Over,
           NEW c \in Owning \cup Retrying \cup Over, Send(q, a, b, c)
    PROVE  RequestEffect(q)
<1>1. \E pc \in {a, b, c} : GoTo(q, pc)
  BY DEF Send
<1>2. /\ UNCHANGED lock /\ UNCHANGED run
      /\ Dispatch(q) \/ UNCHANGED <<active, pending>>
  BY DEF Send
<1>3. /\ \E h \in RequestRow : request' = [request EXCEPT ![q] = h]
      /\ request'[q].run = request[q].run /\ request[q].run \in Runs
      /\ request[q].batch \in Batches
      /\ RequestOK(q)'
  BY <1>1, Moves DEF RequestPCs, Owning, Retrying, Over
<1>4. NewJob(q).run = request[q].run
  BY DEF NewJob
<1>5. JobsEffect(request[q].run)
  BY <1>2, <1>4, DispatchJobs, JobsStay DEF JobsEffect
<1> QED
  BY <1>2, <1>3, <1>5, RowsStay, LockStays DEF RequestEffect

LEMMA ReleaseEffect ==
    ASSUME RunsInv, NEW q \in Requests, NEW pc \in Owning \cup Over,
           NEW thrown \in Owning \cup Over,
           request[q].pc \in Owning, ReleaseLock(q, pc, thrown)
    PROVE  RequestEffect(q)
<1>1. PICK next \in {pc, thrown} :
         GoTo(q, next) /\ UNCHANGED run /\ UNCHANGED <<active, pending>>
  BY DEF ReleaseLock
<1>2. next \in RequestPCs /\ next \in Owning \cup Retrying \cup Over
  BY DEF RequestPCs, Owning, Over
<1>3. /\ \E h \in RequestRow : request' = [request EXCEPT ![q] = h]
      /\ request'[q].run = request[q].run /\ request[q].run \in Runs
      /\ request[q].batch \in Batches
      /\ RequestOK(q)'
  BY <1>1, <1>2, Moves
<1>4. LockEffect(request[q].run)
  BY <1>3, LockReleased
<1> QED
  BY <1>1, <1>3, <1>4, RowsStay, JobsStay DEF RequestEffect

\* The owner or a retry goes on without touching a row.
LEMMA GoOnEffect ==
    ASSUME RunsInv, NEW q \in Requests, NEW pc \in Owning \cup Retrying \cup Over,
           request[q].pc \in Owning \cup Retrying, GoTo(q, pc),
           RowsEffect(request[q].run), LockEffect(request[q].run),
           UNCHANGED <<active, pending>>
    PROVE  RequestEffect(q)
<1>1. pc \in RequestPCs
  BY DEF RequestPCs, Owning, Retrying, Over
<1>2. /\ \E h \in RequestRow : request' = [request EXCEPT ![q] = h]
      /\ request'[q].run = request[q].run
      /\ RequestOK(q)'
  BY <1>1, Moves
<1> QED
  BY <1>2, JobsStay DEF RequestEffect

\* The row is there, and the request knows of it or has ended, or nothing is.
LEMMA InsertOutcome ==
    ASSUME NEW q, NEW files, NEW pc, InsertRun(q, files, pc)
    PROVE  /\ UNCHANGED <<lock, active, pending, stranded>>
           /\ \/ \E r \in Runs, next \in {pc, "done"} :
                    /\ run[r].status = "absent"
                    /\ run' = [run EXCEPT ![r] = [status |-> "queued", files |-> files,
                                                  batch |-> request[q].batch,
                                                  claimed |-> FALSE]]
                    /\ request' = [request EXCEPT ![q].pc = next, ![q].run = r]
              \/ UNCHANGED run /\ GoTo(q, "done")
  BY DEF InsertRun

LEMMA InsertEffect ==
    ASSUME RunsInv, NEW q \in Requests, NEW files \in InputSets, NEW pc \in Owning,
           request[q].pc \in {"start_insert", "reset_insert"}, InsertRun(q, files, pc)
    PROVE  RequestEffect(q) /\ request[q].run = NoRun
<1>2. TypeOK /\ RequestOK(q) /\ UNCHANGED lock /\ UNCHANGED <<active, pending>>
  BY InsertOutcome DEF RunsInv
<1>3. request[q].run = NoRun /\ request[q].batch \in Batches
  BY <1>2 DEF RequestOK
<1>1. ASSUME NEW r \in Runs, NEW next \in {pc, "done"}, run[r].status = "absent",
             run' = [run EXCEPT ![r] = [status |-> "queued", files |-> files,
                                        batch |-> request[q].batch, claimed |-> FALSE]],
             request' = [request EXCEPT ![q].pc = next, ![q].run = r]
      PROVE  RequestEffect(q)
  <2>4. next \in RequestPCs /\ next \in Owning \cup Over
    BY DEF Owning, Over, RequestPCs
  <2>5. /\ request' = [request EXCEPT ![q] = [request[q] EXCEPT !.pc = next, !.run = r]]
        /\ [request[q] EXCEPT !.pc = next, !.run = r] \in RequestRow
    BY <1>1, <1>2, <2>4 DEF TypeOK, RequestRow
  <2>6. /\ request'[q].run = r /\ request'[q].pc = next
        /\ request'[q].batch = request[q].batch
    BY <1>2, <2>5 DEF TypeOK, RequestRow
  <2>7. RequestOK(q)'
    BY <1>3, <2>4, <2>6 DEF RequestOK, Owning, Over
  <2> DEFINE row == [status |-> "queued", files |-> files, batch |-> request[q].batch,
                     claimed |-> FALSE]
  <2>8. row \in RunRow /\ row.status = "queued" /\ row.batch \in Batches
    BY <1>3 DEF RunRow, RunStatuses
  <2>9. run' = [run EXCEPT ![r] = row]
    BY <1>1
  <2> HIDE DEF row
  <2>10. RowsEffect(r)
    BY <1>2, <2>8, <2>9 DEF RowsEffect, RunsInv, TypeOK
  <2> QED
    BY <1>2, <1>3, <2>5, <2>6, <2>7, <2>10, LockStays, JobsStay DEF RequestEffect
<1>4. ASSUME UNCHANGED run, GoTo(q, "done") PROVE RequestEffect(q)
  <2> DEFINE h == [request[q] EXCEPT !.pc = "done"]
  <2>1. h \in RequestRow /\ request' = [request EXCEPT ![q] = h]
    BY <1>2, <1>4 DEF GoTo, TypeOK, RequestRow, RequestPCs
  <2>2. /\ request'[q].run = NoRun /\ request'[q].pc = "done"
        /\ request'[q].batch = request[q].batch
    BY <1>2, <1>3, <2>1 DEF TypeOK, RequestRow
  <2>3. RequestOK(q)'
    BY <1>3, <2>2 DEF RequestOK, Owning, Retrying
  <2> HIDE DEF h
  <2> QED
    BY <1>2, <1>3, <1>4, <2>1, <2>2, <2>3, RowsStay, LockStays, JobsStay DEF RequestEffect
<1> QED
  BY <1>1, <1>3, <1>4, InsertOutcome

LEMMA StartEffect ==
    ASSUME RunsInv, NEW q \in Requests, Start(q)
    PROVE  RequestEffect(q)
<1>1. ASSUME NEW b \in Batches, StartCheck(q, b) PROVE RequestEffect(q)
  <2> DEFINE row == Recounted(lock[b], lock[b].inputs)
  <2>1. TypeOK /\ RequestOK(q) /\ lock[b] \in LockRow /\ lock[b].inputs \in InputSets
    BY DEF RunsInv, TypeOK, LockTypeOK, LockRow
  <2>2. row \in LockRow
    BY <2>1, RecountedRow
  <2> DEFINE h == [pc |-> "start_insert", run |-> NoRun, batch |-> b, files |-> row.manifest]
  <2>3. h \in RequestRow
    BY <2>2 DEF RequestRow, RequestPCs, LockRow
  <2>4. request' = [request EXCEPT ![q] = h] /\ request[q].pc = "idle"
    BY <1>1 DEF StartCheck
  <2>5. lock' = [lock EXCEPT ![b] = Recounted(lock[b], lock[b].inputs)]
    BY <1>1 DEF StartCheck
  <2>6. UNCHANGED run /\ UNCHANGED <<active, pending>>
    BY <1>1 DEF StartCheck
  <2>7. /\ request'[q].run = NoRun /\ request'[q].pc = "start_insert"
        /\ request'[q].batch = b /\ request[q].run = NoRun
    BY <2>1, <2>4 DEF TypeOK, RequestOK
  <2>8. RequestOK(q)'
    BY <2>7 DEF RequestOK, Owning, Retrying
  <2>9. LockEffect(NoRun)
    BY <2>1, <2>5, LockRecounted
  <2> HIDE DEF h
  <2> QED
    BY <2>3, <2>4, <2>6, <2>7, <2>8, <2>9, RowsStay, JobsStay DEF RequestEffect
<1>2. CASE StartInsert(q)
  <2>1. request[q].files \in InputSets
    BY DEF RunsInv, TypeOK, RequestRow
  <2> QED
    BY <1>2, <2>1, InsertEffect DEF StartInsert, Owning
<1>3. CASE StartLock(q)
  <2>1. /\ request[q].pc \in Owning /\ request[q].run \in Runs /\ request[q].batch \in Batches
        /\ UNCHANGED run /\ UNCHANGED <<active, pending>>
    BY <1>3 DEF StartLock, Owning, RunsInv, RequestOK
  <2>2. GoTo(q, "start_send") \/ GoTo(q, "start_reject")
    BY <1>3 DEF StartLock
  <2>3. LockEffect(request[q].run)
    BY <1>3, <2>1, LockTaken, LockStays DEF StartLock
  <2> QED
    BY <2>1, <2>2, <2>3, RowsStay, GoOnEffect DEF Owning
<1>4. CASE StartReject(q)
  BY <1>4, MarkEffect DEF StartReject, Owning, Over
<1>5. CASE StartSend(q)
  BY <1>5, SendEffect DEF StartSend, Owning
<1>6. CASE StartSent(q)
  BY <1>6, MarkEffect DEF StartSent, Owning, Over
<1>7. CASE StartFail(q)
  BY <1>7, MarkEffect DEF StartFail, Owning
<1>8. CASE StartRelease(q)
  BY <1>8, ReleaseEffect DEF StartRelease, Owning, Over
<1> QED
  BY <1>1, <1>2, <1>3, <1>4, <1>5, <1>6, <1>7, <1>8 DEF Start

LEMMA ResetEffect ==
    ASSUME RunsInv, NEW q \in Requests, Reset(q)
    PROVE  RequestEffect(q)
<1>1. ASSUME NEW source \in Runs, ResetCheck(q, source) PROVE RequestEffect(q)
  <2>1. TypeOK /\ RequestOK(q) /\ request[q].pc = "idle" /\ run[source].batch \in Batches
    BY <1>1 DEF RunsInv, ResetCheck
  <2> DEFINE h == [request[q] EXCEPT !.pc = "reset_insert", !.batch = run[source].batch]
  <2>2. h \in RequestRow /\ request' = [request EXCEPT ![q] = h]
    BY <1>1, <2>1 DEF ResetCheck, TypeOK, RequestRow, RequestPCs
  <2>3. /\ request'[q].run = NoRun /\ request'[q].pc = "reset_insert"
        /\ request'[q].batch = run[source].batch /\ request[q].run = NoRun
    BY <2>1, <2>2 DEF TypeOK, RequestOK, RequestRow
  <2>4. RequestOK(q)'
    BY <2>1, <2>3 DEF RequestOK, Owning, Retrying
  <2>5. UNCHANGED lock /\ UNCHANGED run /\ UNCHANGED <<active, pending>>
    BY <1>1 DEF ResetCheck
  <2> HIDE DEF h
  <2> QED
    BY <2>2, <2>3, <2>4, <2>5, RowsStay, LockStays, JobsStay DEF RequestEffect
<1>2. CASE ResetInsert(q)
  BY <1>2, LockAssumption, InsertEffect DEF ResetInsert, Owning
<1>3. CASE ResetPrepare(q)
  <2>1. /\ request[q].pc \in Owning /\ request[q].run \in Runs /\ request[q].batch \in Batches
        /\ UNCHANGED run /\ UNCHANGED <<active, pending>> /\ TypeOK /\ RequestOK(q)
    BY <1>3 DEF ResetPrepare, Owning, RunsInv, RequestOK
  <2>2. LockEffect(request[q].run)
    BY <1>3, <2>1, LockTakenOver, LockStays DEF ResetPrepare
  <2>3. CASE GoTo(q, "reset_reject")
    BY <2>1, <2>2, <2>3, RowsStay, GoOnEffect DEF Owning
  <2>4. CASE request' = [request EXCEPT ![q].pc = "reset_freeze",
                                        ![q].files = lock[request[q].batch].inputs]
    <3> DEFINE h == [request[q] EXCEPT !.pc = "reset_freeze",
                                       !.files = lock[request[q].batch].inputs]
    <3>1. lock[request[q].batch].inputs \in InputSets
      BY <2>1 DEF TypeOK, LockTypeOK, LockRow
    <3>2. h \in RequestRow /\ request' = [request EXCEPT ![q] = h]
      BY <2>1, <2>4, <3>1 DEF TypeOK, RequestRow, RequestPCs
    <3>3. /\ request'[q].run = request[q].run /\ request'[q].pc = "reset_freeze"
          /\ request'[q].batch = request[q].batch
      BY <2>1, <3>2 DEF TypeOK, RequestRow
    <3>4. RequestOK(q)'
      BY <2>1, <3>3 DEF RequestOK, Owning
    <3> HIDE DEF h
    <3> QED
      BY <2>1, <2>2, <3>2, <3>3, <3>4, RowsStay, JobsStay DEF RequestEffect
  <2> QED
    BY <1>3, <2>3, <2>4 DEF ResetPrepare
<1>4. CASE ResetReject(q)
  BY <1>4, MarkEffect DEF ResetReject, Owning, Over
<1>5. CASE ResetFreeze(q)
  <2>1. /\ request[q].pc \in Owning /\ request[q].run \in Runs /\ UNCHANGED lock
        /\ UNCHANGED <<active, pending>> /\ TypeOK /\ request[q].files \in InputSets
        /\ GoTo(q, "reset_send") \/ GoTo(q, "reset_unfreeze")
    BY <1>5 DEF ResetFreeze, Owning, RunsInv, RequestOK, TypeOK, RequestRow
  <2>2. UNCHANGED run \/ run' = [run EXCEPT ![request[q].run].files = request[q].files]
    BY <1>5 DEF ResetFreeze
  <2>3. RowsEffect(request[q].run)
    BY <2>1, <2>2, RowsStay DEF RowsEffect, RunsInv, TypeOK, RunRow
  <2> QED
    BY <2>1, <2>3, LockStays, GoOnEffect DEF Owning
<1>6. CASE ResetUnfreeze(q)
  BY <1>6, ReleaseEffect DEF ResetUnfreeze, Owning, Over
<1>7. CASE ResetSend(q)
  BY <1>7, SendEffect DEF ResetSend, Owning, Over
<1>8. CASE ResetFail(q)
  BY <1>8, MarkEffect DEF ResetFail, Owning
<1>9. CASE ResetRelease(q)
  BY <1>9, ReleaseEffect DEF ResetRelease, Owning, Over
<1> QED
  BY <1>1, <1>2, <1>3, <1>4, <1>5, <1>6, <1>7, <1>8, <1>9 DEF Reset

LEMMA RetryEffect ==
    ASSUME RunsInv, NEW q \in Requests, Retry(q)
    PROVE  RequestEffect(q)
<1>1. ASSUME NEW r \in Runs, NEW b \in Batches, RetryCheck(q, r, b) PROVE RequestEffect(q)
  <2>1. TypeOK /\ RequestOK(q) /\ request[q].pc = "idle"
    BY <1>1 DEF RunsInv, RetryCheck
  <2> DEFINE h == [request[q] EXCEPT !.pc = "retry_claim", !.run = r, !.batch = b]
  <2>2. h \in RequestRow /\ request' = [request EXCEPT ![q] = h]
    BY <1>1, <2>1 DEF RetryCheck, TypeOK, RequestRow, RequestPCs
  <2>3. /\ request'[q].run = r /\ request'[q].pc = "retry_claim"
        /\ request'[q].batch = b /\ request[q].run = NoRun
    BY <2>1, <2>2 DEF TypeOK, RequestOK, RequestRow
  <2>4. RequestOK(q)'
    BY <2>1, <2>3 DEF RequestOK, Owning, Retrying
  <2>5. UNCHANGED lock /\ UNCHANGED run /\ UNCHANGED <<active, pending>>
    BY <1>1 DEF RetryCheck
  <2> HIDE DEF h
  <2> QED
    BY <2>2, <2>3, <2>4, <2>5, RowsStay, LockStays, JobsStay DEF RequestEffect
<1>2. CASE RetryClaim(q)
  <2>1. /\ request[q].pc \in Retrying /\ request[q].run \in Runs /\ UNCHANGED lock
        /\ UNCHANGED <<active, pending>> /\ TypeOK
        /\ GoTo(q, "retry_send") \/ GoTo(q, "done")
    BY <1>2 DEF RetryClaim, Retrying, RunsInv, RequestOK
  <2>2. \/ UNCHANGED run
        \/ /\ run[request[q].run].status = "failed"
           /\ run' = [run EXCEPT ![request[q].run].status = "queued",
                                 ![request[q].run].claimed = TRUE]
    BY <1>2 DEF RetryClaim
  <2>3. RowsEffect(request[q].run)
    BY <2>1, <2>2, RowsStay DEF RowsEffect, RunsInv, TypeOK, RunRow, RunStatuses
  <2> QED
    BY <2>1, <2>3, LockStays, GoOnEffect DEF Retrying, Over
<1>3. CASE RetrySend(q)
  BY <1>3, SendEffect DEF RetrySend, Retrying, Over
<1>4. CASE RetryRollback(q)
  <2>1. /\ request[q].pc \in Retrying /\ request[q].run \in Runs /\ UNCHANGED lock
        /\ UNCHANGED <<active, pending>> /\ GoTo(q, "done")
    BY <1>4 DEF RetryRollback, Retrying, RunsInv, RequestOK
  <2>2. \/ UNCHANGED run
        \/ /\ run[request[q].run].status = "queued"
           /\ run' = Marked(request[q].run, "failed")
    BY <1>4 DEF RetryRollback
  <2>3. RowsEffect(request[q].run)
    BY <2>1, <2>2, RowsStay, RowMarked DEF RunStatuses
  <2> QED
    BY <2>1, <2>3, LockStays, GoOnEffect DEF Over
<1> QED
  BY <1>1, <1>2, <1>3, <1>4 DEF Retry

LEMMA KilledEffect ==
    ASSUME RunsInv, NEW q \in Requests, RequestKilled(q)
    PROVE  RequestEffect(q)
<1>1. /\ request[q].pc \notin {"idle"} \cup Over /\ GoTo(q, "killed")
      /\ UNCHANGED lock /\ UNCHANGED run /\ UNCHANGED <<active, pending>>
  BY DEF RequestKilled
<1>2. TypeOK /\ RequestOK(q)
  BY DEF RunsInv
<1> DEFINE h == [request[q] EXCEPT !.pc = "killed"]
<1>3. h \in RequestRow /\ request' = [request EXCEPT ![q] = h]
  BY <1>1, <1>2 DEF GoTo, TypeOK, RequestRow, RequestPCs
<1>4. /\ request'[q].run = request[q].run /\ request'[q].pc = "killed"
      /\ request'[q].batch = request[q].batch
  BY <1>2, <1>3 DEF TypeOK, RequestRow
<1>5. RequestOK(q)'
  BY <1>1, <1>2, <1>4 DEF RequestOK, Owning, Retrying
<1> HIDE DEF h
<1> QED
  BY <1>1, <1>3, <1>4, <1>5, RowsStay, LockStays, JobsStay DEF RequestEffect

----------------------------------------------------------------------------
(* A step leaves what is said of other runs alone.                          *)

\* No request comes to, leaves or changes under the run x.
RequestsKeep(x) ==
    \A q \in Requests : request[q].run = x \/ request'[q].run = x => request'[q] = request[q]

LEMMA Untouched ==
    ASSUME RunsInv, NEW r, NEW x \in Runs, x # r, RequestsKeep(x),
           RowsEffect(r), LockEffect(r), JobsEffect(r)
    PROVE  RunOK(x)'
<1>1. /\ RunOK(x) /\ run'[x] = run[x]
      /\ \A job \in Jobs : JobOK(job)
  BY DEF RunsInv, RowsEffect
<1>2. \A job \in Jobs' : job.run = x => job \in Jobs
  BY DEF JobsEffect
<1>3. \A q \in Requests : request[q].run = x \/ request'[q].run = x => request'[q] = request[q]
  BY DEF RequestsKeep
<1>4. \A q \in Requests : /\ Owns(q, x)' => Owns(q, x) /\ request'[q] = request[q]
                          /\ Retries(q, x)' => Retries(q, x)
  BY <1>3 DEF Owns, Retries
\* The batch stays with x, or is lost to somebody else.
<1>5. \A b \in Batches :
         \/ SameHold(b)
         \/ /\ lock'[b].run # x
            /\ lock[b].st = "running" /\ lock[b].run = x => run[x].status \notin Ongoing
  <2> TAKE b \in Batches
  <2>1. CASE SameHold(b)
    BY <2>1
  <2>2. CASE /\ lock'[b].run = r
             /\ lock[b].st = "running" /\ lock[b].run \in Runs \ {r} =>
                   run[lock[b].run].status \notin Ongoing
    BY <2>2
  <2>3. CASE lock[b].run = r /\ lock'[b].run = NoRun
    BY <2>3, LockAssumption
  <2> QED
    BY <2>1, <2>2, <2>3 DEF LockEffect
<1>6. \A b \in Batches : lock'[b].run = x =>
         /\ lock[b].run = x
         /\ lock[b].st \in {"running", "completed"} \/ lock'[b].st \in {"running", "completed"}
              => lock'[b].st = lock[b].st
  BY <1>5 DEF SameHold
<1>7. \A b \in Batches : Holds(b, x) /\ run[x].status \in Ongoing => Holds(b, x)'
  BY <1>5 DEF SameHold, Holds
<1>8. \A job \in Jobs' : job.run = x =>
         /\ job \in Jobs /\ job.by \in Requests /\ job.batch \in Batches
         /\ request'[job.by] = request[job.by]
  <2>1. \A job \in Jobs : job \in JobRow /\ job.by \in Requests /\ job.batch \in Batches
    BY DEF RunsInv, TypeOK, Jobs, JobRow
  <2>2. \A job \in Jobs : job.run = x => request[job.by].run = x
    BY <1>1 DEF JobOK
  <2> QED
    BY <1>2, <1>3, <2>1, <2>2
<1>9. AbsentUnnamed(x)'
  BY <1>1, <1>3, <1>6 DEF RunOK, AbsentUnnamed
<1>10. OwnerOK(x)'
  BY <1>1, <1>4, <1>6 DEF RunOK, OwnerOK
<1>11. UndispatchedOK(x)'
  <2> SUFFICES ASSUME NEW q \in Requests, Owns(q, x)'
               PROVE  /\ request'[q].pc \in Undispatched =>
                            /\ run'[x].status = "queued"
                            /\ \A job \in Jobs' : job.run # x
                            /\ \A p \in Requests : ~Retries(p, x)'
                      /\ request'[q].pc \in Early => \A b \in Batches : lock'[b].run # x
                      /\ request'[q].pc \in Granted => Holds(request[q].batch, x)'
    BY DEF UndispatchedOK
  <2>1. Owns(q, x) /\ request'[q] = request[q]
    BY <1>4
  <2>2. /\ request[q].pc \in Undispatched =>
              /\ run[x].status = "queued"
              /\ \A job \in Jobs : job.run # x
              /\ \A p \in Requests : ~Retries(p, x)
        /\ request[q].pc \in Early => \A b \in Batches : lock[b].run # x
        /\ request[q].pc \in Granted => Holds(request[q].batch, x)
    BY <1>1, <2>1 DEF RunOK, UndispatchedOK
  <2>3. request[q].pc \in Granted => request[q].pc \in Undispatched /\ request[q].batch \in Batches
    BY DEF Granted, Undispatched, RunsInv, RequestOK
  <2>4. request[q].pc \in Granted => Holds(request[q].batch, x)'
    <3> SUFFICES ASSUME request[q].pc \in Granted PROVE Holds(request[q].batch, x)'
      OBVIOUS
    <3>1. PICK b \in Batches : b = request[q].batch
      BY <2>3
    <3>2. Holds(b, x)'
      BY <1>7, <2>2, <2>3, <3>1 DEF Ongoing
    <3> QED
      BY <2>1, <3>1, <3>2 DEF Holds
  <2> QED
    BY <1>1, <1>2, <1>4, <1>6, <2>1, <2>2, <2>4
<1>12. RetryOK(x)'
  BY <1>1, <1>2, <1>4, <1>6 DEF RunOK, RetryOK
<1>13. FirstJobOK(x)'
  BY <1>1, <1>2, <1>4 DEF RunOK, FirstJobOK
<1>14. CompletedOK(x)'
  BY <1>1, <1>2, <1>4, <1>6 DEF RunOK, CompletedOK
<1>15. OutcomeOK(x)' /\ SucceededOK(x)'
  BY <1>1, <1>2, <1>4, <1>6 DEF RunOK, OutcomeOK, SucceededOK, Holds
<1>16. WorkingOK(x)'
  <2> SUFFICES ASSUME NEW job \in Jobs', job.run = x, job.route # "retry",
                      job.pc \in BeforeResult
               PROVE  /\ lock'[job.batch].run = x => lock'[job.batch].st = "running"
                      /\ job.route = "reset" \/ (job.pc \in LetOn /\ job.live) => Held(job)'
    BY DEF WorkingOK
  <2>1. job \in Jobs /\ job.batch \in Batches
    BY <1>8
  <2>2. Held(job) => Held(job)'
    BY <1>1, <1>7, <2>1 DEF Held, Holds
  <2>3. /\ lock[job.batch].run = x => lock[job.batch].st = "running"
        /\ job.route = "reset" \/ (job.pc \in LetOn /\ job.live) => Held(job)
    BY <1>1, <2>1 DEF RunOK, WorkingOK
  <2> QED
    BY <1>6, <2>1, <2>2, <2>3
<1> QED
  BY <1>9, <1>10, <1>11, <1>12, <1>13, <1>14, <1>15, <1>16 DEF RunOK

\* What the steps of a request keep: everything said of the other runs.
LEMMA OtherRuns ==
    ASSUME RunsInv, NEW q \in Requests, RequestEffect(q),
           NEW x \in Runs, x # request'[q].run
    PROVE  RunOK(x)'
<1>1. PICK h \in RequestRow : request' = [request EXCEPT ![q] = h]
  BY DEF RequestEffect
<1>2. request[q].run # x
  BY LockAssumption DEF RequestEffect
<1>3. RequestsKeep(x)
  BY <1>1, <1>2 DEF RequestsKeep, RunsInv, TypeOK
<1> DEFINE r == request'[q].run
<1>4. RowsEffect(r) /\ LockEffect(r) /\ JobsEffect(r)
  BY DEF RequestEffect
<1> HIDE DEF r
<1> QED
  BY <1>3, <1>4, Untouched DEF r

----------------------------------------------------------------------------
(* What the steps of a request keep of its own run.                         *)

\* The owner of a run goes on without a dispatch and without a new lock; it may
\* mark its run and give the batch back.
LEMMA OwnerMoves ==
    ASSUME RunsInv, NEW q \in Requests, NEW r \in Runs, Owns(q, r), RequestEffect(q),
           NEW pc \in Owning \cup Over, GoTo(q, pc), UNCHANGED <<active, pending>>,
           \A b \in Batches : \/ lock'[b] = lock[b]
                              \/ lock[b].run = r /\ lock'[b].run = NoRun,
           pc \in Undispatched => /\ request[q].pc \in Undispatched
                                  /\ run'[r].status = run[r].status,
           pc \notin Early,
           pc \in Granted => request[q].pc \in Granted /\ UNCHANGED lock,
           run'[r].status = "succeeded" => run[r].status = "succeeded"
    PROVE  RunOK(r)'
<1>1. /\ RunOK(r) /\ TypeOK /\ RequestOK(q) /\ NoRun # r
      /\ \A job \in Jobs : JobOK(job)
  BY LockAssumption DEF RunsInv
<1>2. pc \in RequestPCs
  BY DEF Owning, Over, RequestPCs
<1>3. /\ request'[q].pc = pc /\ request'[q].run = request[q].run
      /\ request'[q].batch = request[q].batch /\ request[q].run = r
      /\ request[q].pc \in Owning /\ request[q].batch \in Batches
      /\ \A p \in Requests : p # q => request'[p] = request[p]
  BY <1>1, <1>2, GoToType DEF Owns, RequestOK, Owning
<1>4. Jobs' = Jobs
  BY DEF Jobs
<1>5. \A b \in Batches : lock'[b].run = r => lock'[b] = lock[b]
  BY <1>1
<1>6. \A p \in Requests : (Owns(p, r)' => Owns(p, r)) /\ (Retries(p, r)' => Retries(p, r))
  BY <1>3 DEF Owns, Retries, Owning, Retrying, Over
<1>7. \A p \in Requests : Owns(p, r) => p = q
  BY <1>1 DEF RunOK, OwnerOK
<1>8. run'[r].status # "absent"
  <2>1. run[r].status # "absent"
    BY <1>1, <1>3 DEF RunOK, AbsentUnnamed
  <2>2. RowsEffect(request'[q].run)
    BY DEF RequestEffect
  <2> QED
    BY <2>1, <2>2 DEF RowsEffect
<1>9. AbsentUnnamed(r)'
  BY <1>8 DEF AbsentUnnamed
<1>10. OwnerOK(r)'
  BY <1>1, <1>3, <1>5, <1>6, <1>7 DEF RunOK, OwnerOK
<1>11. UndispatchedOK(r)'
  <2> SUFFICES ASSUME NEW p \in Requests, Owns(p, r)'
               PROVE  /\ request'[p].pc \in Undispatched =>
                            /\ run'[r].status = "queued"
                            /\ \A job \in Jobs' : job.run # r
                            /\ \A s \in Requests : ~Retries(s, r)'
                      /\ request'[p].pc \in Early => \A b \in Batches : lock'[b].run # r
                      /\ request'[p].pc \in Granted => Holds(request[p].batch, r)'
    BY <1>3 DEF UndispatchedOK
  <2>1. p = q
    BY <1>6, <1>7
  <2>2. /\ request[q].pc \in Undispatched =>
              /\ run[r].status = "queued"
              /\ \A job \in Jobs : job.run # r
              /\ \A s \in Requests : ~Retries(s, r)
        /\ request[q].pc \in Granted => Holds(request[q].batch, r)
    BY <1>1 DEF RunOK, UndispatchedOK
  <2>3. pc \in Granted => Holds(request[q].batch, r)'
    BY <1>3, <2>2 DEF Holds
  <2> QED
    BY <1>3, <1>4, <1>6, <2>1, <2>2, <2>3
<1>12. RetryOK(r)'
  BY <1>1, <1>4, <1>5, <1>6 DEF RunOK, RetryOK
<1>13. FirstJobOK(r)'
  BY <1>1, <1>4, <1>6 DEF RunOK, FirstJobOK
<1>14. CompletedOK(r)'
  <2>1. \A b \in Batches : lock[b].run = r => lock[b].st # "completed"
    BY <1>1 DEF RunOK, CompletedOK
  <2> QED
    BY <1>5, <2>1 DEF CompletedOK
\* The run that holds its batch has not succeeded: it has an owner.
<1>15. OutcomeOK(r)' /\ SucceededOK(r)'
  <2>1. \A b \in Batches : Holds(b, r)' => Holds(b, r)
    BY <1>5 DEF Holds
  <2>2. \A b \in Batches : Holds(b, r) => run[r].status # "succeeded"
    BY <1>1 DEF RunOK, SucceededOK
  <2>3. \A b \in Batches, job \in Jobs :
           job.run = r /\ job.pc = "close_batch" /\ Holds(b, r) => job.outcome # "completed"
    BY <1>1, <2>2 DEF RunOK, OutcomeOK
  <2>4. OutcomeOK(r)'
    BY <1>4, <2>1, <2>3 DEF OutcomeOK
  <2>5. SucceededOK(r)'
    BY <2>1, <2>2 DEF SucceededOK
  <2> QED
    BY <2>4, <2>5
<1>16. WorkingOK(r)'
  <2> SUFFICES ASSUME NEW job \in Jobs, job.run = r, job.route # "retry",
                      job.pc \in BeforeResult
               PROVE  /\ lock'[job.batch].run = r => lock'[job.batch].st = "running"
                      /\ ~(job.route = "reset" \/ (job.pc \in LetOn /\ job.live))
    BY <1>4 DEF WorkingOK
  <2>1. job.by = q /\ job.batch \in Batches
    <3>1. job \in JobRow
      BY <1>1 DEF TypeOK, Jobs
    <3> QED
      BY <1>1, <3>1 DEF RunOK, FirstJobOK, JobRow
  <2>2. job.route # "reset" /\ job.pc \notin LetOn
    BY <1>1, <1>3, <2>1 DEF JobOK, Owning, Over, AfterRequest, LetOn
  <2> QED
    BY <1>1, <1>5, <2>1, <2>2 DEF RunOK, WorkingOK
<1> QED
  BY <1>9, <1>10, <1>11, <1>12, <1>13, <1>14, <1>15, <1>16 DEF RunOK

\* The mark of a request is lost, or is no success.
LEMMA MarkedStatus ==
    ASSUME TypeOK, NEW q, request[q].run \in Runs,
           NEW status \in RunStatuses, status # "succeeded", NEW pc, Mark(q, status, pc)
    PROVE  run'[request[q].run].status = "succeeded" =>
              run[request[q].run].status = "succeeded"
  BY MarkedType DEF Mark

\* A release touches the request's batch alone, and only while its run holds it.
LEMMA ReleaseGives ==
    ASSUME TypeOK, NEW q, request[q].batch \in Batches, NEW pc, NEW thrown,
           ReleaseLock(q, pc, thrown), NEW b \in Batches
    PROVE  lock'[b] = lock[b] \/ (lock[b].run = request[q].run /\ lock'[b].run = NoRun)
  BY DEF ReleaseLock, Released, Unlock, Holds, TypeOK, LockTypeOK, LockRow

\* A new run is named by its owner alone.
LEMMA NewRun ==
    ASSUME RunsInv, NEW q \in Requests, NEW files \in InputSets,
           NEW early \in Early, InsertRun(q, files, early), request[q].run = NoRun,
           NEW r \in Runs, request'[q].run = r
    PROVE  RunOK(r)'
<1>1. PICK x \in Runs, pc \in {early, "done"} :
        /\ run[x].status = "absent"
        /\ run' = [run EXCEPT ![x] = [status |-> "queued", files |-> files,
                                      batch |-> request[q].batch, claimed |-> FALSE]]
        /\ request' = [request EXCEPT ![q].pc = pc, ![q].run = x]
        /\ UNCHANGED <<lock, active, pending>>
  <2>1. ~GoTo(q, "done")
    BY LockAssumption, GoToType DEF RunsInv, RequestPCs
  <2> QED
    BY <2>1, InsertOutcome
<1>0. x = r
  BY <1>1 DEF RunsInv, TypeOK, RequestRow
<1>2. TypeOK /\ AbsentUnnamed(r) /\ \A job \in Jobs : JobOK(job)
  BY DEF RunsInv, RunOK
<1>3. /\ \A p \in Requests : request[p].run # r
      /\ \A b \in Batches : lock[b].run # r
  BY <1>0, <1>1, <1>2 DEF AbsentUnnamed
<1>4. /\ request'[q].pc = pc /\ request'[q].run = r
      /\ \A p \in Requests : p # q => request'[p] = request[p]
      /\ run'[r].status = "queued"
  BY <1>0, <1>1, <1>2 DEF TypeOK, RequestRow, RunRow
<1>5. \A p \in Requests : p # q => request'[p].run # r
  BY <1>3, <1>4
<1>6. \A b \in Batches : lock'[b].run # r
  BY <1>1, <1>3
<1>7. \A job \in Jobs' : job.run # r
  <2>1. \A job \in Jobs : job \in JobRow /\ job.by \in Requests
    BY <1>2 DEF TypeOK, Jobs, JobRow
  <2>2. Jobs' = Jobs
    BY <1>1 DEF Jobs
  <2> QED
    BY <1>2, <1>3, <2>1, <2>2 DEF JobOK
<1>8. \A p \in Requests : (Owns(p, r)' => p = q) /\ ~Retries(p, r)'
  BY <1>4, <1>5 DEF Owns, Retries, Early, Retrying
<1>9. AbsentUnnamed(r)' /\ OwnerOK(r)' /\ RetryOK(r)' /\ FirstJobOK(r)' /\ CompletedOK(r)'
  BY <1>4, <1>6, <1>7, <1>8 DEF AbsentUnnamed, OwnerOK, RetryOK, FirstJobOK, CompletedOK
<1>10. OutcomeOK(r)' /\ SucceededOK(r)' /\ WorkingOK(r)'
  BY <1>4, <1>7 DEF OutcomeOK, SucceededOK, WorkingOK
<1>11. UndispatchedOK(r)'
  <2>1. pc \notin Granted
    BY DEF Early, Granted
  <2> QED
    BY <1>4, <1>6, <1>7, <1>8, <2>1 DEF UndispatchedOK
<1> QED
  BY <1>9, <1>10, <1>11 DEF RunOK

\* The owner gets the lock; it may not learn of it.
LEMMA LockGranted ==
    ASSUME RunsInv, NEW q \in Requests, NEW r \in Runs, Owns(q, r),
           request[q].pc \in Early,
           NEW pc \in {"start_send", "start_reject", "reset_freeze", "reset_reject"},
           request'[q].pc = pc, request'[q].run = r, request'[q].batch = request[q].batch,
           \A p \in Requests : p # q => request'[p] = request[p],
           lock'[request[q].batch].run = r, lock'[request[q].batch].st = "running",
           \A b \in Batches : b # request[q].batch => lock'[b] = lock[b],
           UNCHANGED <<run, active, pending>>
    PROVE  RunOK(r)'
<1>1. /\ RunOK(r) /\ TypeOK /\ RequestOK(q)
      /\ \A job \in Jobs : JobOK(job)
  BY DEF RunsInv
<1>2. Jobs' = Jobs
  BY DEF Jobs
<1>3. pc \in Undispatched /\ pc \in Owning /\ pc \notin Early /\ request[q].pc \in Undispatched
  BY DEF Undispatched, Early, Owning
<1>4. /\ run[r].status = "queued"
      /\ \A job \in Jobs : job.run # r
      /\ \A p \in Requests : ~Retries(p, r)
      /\ \A b \in Batches : lock[b].run # r
  BY <1>1, <1>3 DEF RunOK, UndispatchedOK
<1>5. \A p \in Requests : (Owns(p, r)' => p = q) /\ ~Retries(p, r)'
  <2>1. \A p \in Requests : Owns(p, r) => p = q
    BY <1>1 DEF RunOK, OwnerOK
  <2>2. pc \notin Retrying
    BY DEF Retrying
  <2> QED
    BY <1>4, <2>1, <2>2 DEF Owns, Retries
<1>6. \A b \in Batches : lock'[b].run = r => b = request[q].batch
  BY <1>4
<1>7. AbsentUnnamed(r)' /\ OwnerOK(r)' /\ RetryOK(r)' /\ FirstJobOK(r)' /\ CompletedOK(r)'
  BY <1>2, <1>4, <1>5, <1>6 DEF AbsentUnnamed, OwnerOK, RetryOK, FirstJobOK, CompletedOK
<1>8. OutcomeOK(r)' /\ SucceededOK(r)' /\ WorkingOK(r)'
  BY <1>2, <1>4 DEF OutcomeOK, SucceededOK, WorkingOK
<1>9. UndispatchedOK(r)'
  <2>1. Holds(request[q].batch, r)'
    BY DEF Holds
  <2>2. ASSUME NEW p \in Requests, Owns(p, r)'
        PROVE  /\ p = q /\ request'[p].pc = pc
               /\ Holds(request[p].batch, r)'
    BY <1>5, <2>1, <2>2 DEF Holds
  <2> QED
    BY <1>2, <1>3, <1>4, <1>5, <2>1, <2>2 DEF UndispatchedOK, Holds
<1> QED
  BY <1>7, <1>8, <1>9 DEF RunOK

\* The owner dispatches the first job of its run, which has its batch.
LEMMA FirstDispatch ==
    ASSUME RunsInv, NEW q \in Requests, NEW r \in Runs, Owns(q, r), Dispatch(q),
           NEW pc \in {"start_sent", "start_fail", "done"}, GoTo(q, pc),
           \/ request[q].pc = "start_send" /\ pc # "done"
           \/ request[q].pc = "reset_send" /\ pc = "done",
           UNCHANGED <<lock, run>>
    PROVE  RunOK(r)'
<1>1. /\ RunOK(r) /\ TypeOK /\ RequestOK(q)
      /\ \A job \in Jobs : JobOK(job)
  BY DEF RunsInv
<1>2. pc \in RequestPCs /\ request[q].pc \in Granted /\ request[q].pc \in Undispatched
  BY DEF RequestPCs, Granted, Undispatched
<1>3. /\ request'[q].pc = pc /\ request'[q].run = request[q].run
      /\ request'[q].batch = request[q].batch /\ request[q].run = r
      /\ request[q].batch \in Batches
      /\ \A p \in Requests : p # q => request'[p] = request[p]
  BY <1>1, <1>2, GoToType DEF Owns, RequestOK
<1>4. /\ run[r].status = "queued" /\ Holds(request[q].batch, r)
      /\ \A job \in Jobs : job.run # r
      /\ \A p \in Requests : ~Retries(p, r)
  BY <1>1, <1>2 DEF RunOK, UndispatchedOK
<1>5. /\ NewJob(q).pc = "correlate" /\ NewJob(q).run = r /\ NewJob(q).by = q
      /\ NewJob(q).batch = request[q].batch /\ NewJob(q).route # "retry"
  BY <1>1, <1>3, NewJobType
<1>6. \A job \in Jobs' : job.run = r => job = NewJob(q)
  BY <1>4, DispatchJobs
<1>7. \A p \in Requests : (Owns(p, r)' => p = q) /\ ~Retries(p, r)'
  <2>1. \A p \in Requests : Owns(p, r) => p = q
    BY <1>1 DEF RunOK, OwnerOK
  <2>2. pc \notin Retrying
    BY DEF Retrying
  <2> QED
    BY <1>3, <1>4, <2>1, <2>2 DEF Owns, Retries
<1>8. \A b \in Batches : lock[b].run = r => b = request[q].batch /\ lock[b].st = "running"
  BY <1>1, <1>2 DEF RunOK, OwnerOK
<1>9. AbsentUnnamed(r)' /\ OwnerOK(r)' /\ CompletedOK(r)'
  BY <1>3, <1>4, <1>7, <1>8 DEF AbsentUnnamed, OwnerOK, CompletedOK
<1>10. RetryOK(r)' /\ FirstJobOK(r)' /\ OutcomeOK(r)' /\ SucceededOK(r)'
  BY <1>4, <1>5, <1>6, <1>7 DEF RetryOK, FirstJobOK, OutcomeOK, SucceededOK
<1>11. UndispatchedOK(r)'
  <2>1. pc \notin Undispatched /\ pc \notin Early /\ pc \notin Granted
    BY DEF Undispatched, Early, Granted
  <2> QED
    BY <1>3, <1>7, <2>1 DEF UndispatchedOK
<1>12. WorkingOK(r)'
  <2>1. \A job \in Jobs' : job.run = r => job.batch = request[q].batch
    BY <1>5, <1>6
  <2>2. Holds(request[q].batch, r)' /\ run'[r].status \in Ongoing
    BY <1>3, <1>4 DEF Holds, Ongoing
  <2>3. \A job \in Jobs' : job.run = r => Held(job)'
    BY <1>3, <2>1, <2>2 DEF Held, Holds
  <2> QED
    BY <2>3 DEF WorkingOK, Held, Holds
<1> QED
  BY <1>9, <1>10, <1>11, <1>12 DEF RunOK

\* A retry names a run whose batch has failed.
LEMMA RetryNamed ==
    ASSUME RunsInv, NEW q \in Requests, NEW r \in Runs, NEW b \in Batches, RetryCheck(q, r, b)
    PROVE  RunOK(r)'
<1>1. /\ RunOK(r) /\ TypeOK
      /\ run[r].status = "failed" /\ lock[b].st = "failed" /\ lock[b].run = r
      /\ UNCHANGED <<lock, run, active, pending>> /\ Jobs' = Jobs
      /\ \A job \in Jobs : JobOK(job)
  BY DEF RunsInv, RetryCheck, Retryable, Jobs
<1>2. /\ request'[q].pc = "retry_claim" /\ request[q].pc = "idle"
      /\ \A p \in Requests : p # q => request'[p] = request[p]
  BY <1>1 DEF RetryCheck, TypeOK, RequestRow
<1>3. \A c \in Batches : lock[c].run = r => lock[c].st = "failed"
  BY <1>1 DEF RunOK, OwnerOK
<1>4. \A p \in Requests : Owns(p, r)' => Owns(p, r) /\ p # q
  BY <1>2 DEF Owns, Owning
<1>5. AbsentUnnamed(r)' /\ OwnerOK(r)' /\ RetryOK(r)' /\ FirstJobOK(r)' /\ CompletedOK(r)'
  BY <1>1, <1>2, <1>3, <1>4
     DEF RunOK, AbsentUnnamed, OwnerOK, RetryOK, FirstJobOK, CompletedOK
<1>6. OutcomeOK(r)' /\ SucceededOK(r)'
  BY <1>1, <1>3 DEF OutcomeOK, SucceededOK, Holds
<1>7. UndispatchedOK(r)'
  <2> SUFFICES ASSUME NEW p \in Requests, Owns(p, r)'
               PROVE  request'[p].pc \notin Undispatched
    BY <1>1 DEF UndispatchedOK, Undispatched, Early, Granted
  <2>1. Owns(p, r) /\ request'[p] = request[p]
    BY <1>2, <1>4
  <2> QED
    BY <1>1, <2>1 DEF RunOK, UndispatchedOK
<1>8. WorkingOK(r)'
  BY <1>1 DEF RunOK, WorkingOK, Held, Holds
<1> QED
  BY <1>5, <1>6, <1>7, <1>8 DEF RunOK

\* A retry marks a run that no batch holds, and dispatches no first job.
LEMMA RetryMoves ==
    ASSUME RunsInv, NEW q \in Requests, NEW r \in Runs, Retries(q, r), RequestEffect(q),
           NEW pc \in Retrying \cup Over, GoTo(q, pc), UNCHANGED lock,
           \A job \in Jobs' : job \in Jobs \/ (job.pc = "correlate" /\ job.route = "retry")
    PROVE  RunOK(r)'
<1>1. /\ RunOK(r) /\ TypeOK /\ RequestOK(q)
      /\ \A job \in Jobs : JobOK(job)
  BY DEF RunsInv
<1>2. pc \in RequestPCs
  BY DEF RequestPCs, Retrying, Over
<1>3. /\ request'[q].pc = pc /\ request'[q].run = request[q].run /\ request[q].run = r
      /\ request[q].pc \in Retrying
      /\ \A p \in Requests : p # q => request'[p] = request[p]
  BY <1>1, <1>2, GoToType DEF Retries
<1>4. \A b \in Batches : lock[b].run = r => lock[b].st \notin {"running", "completed"}
  BY <1>1 DEF RunOK, RetryOK
<1>5. run'[r].status # "absent"
  <2>1. run[r].status # "absent"
    BY <1>1, <1>3 DEF RunOK, AbsentUnnamed
  <2>2. RowsEffect(request'[q].run)
    BY DEF RequestEffect
  <2> QED
    BY <1>3, <2>1, <2>2 DEF RowsEffect
<1>6. \A p \in Requests : Owns(p, r)' => Owns(p, r) /\ p # q /\ request'[p] = request[p]
  BY <1>3 DEF Owns, Owning, Retrying, Over
<1>7. AbsentUnnamed(r)' /\ OwnerOK(r)'
  BY <1>1, <1>5, <1>6 DEF RunOK, AbsentUnnamed, OwnerOK
<1>8. RetryOK(r)' /\ CompletedOK(r)'
  BY <1>4 DEF RetryOK, CompletedOK
<1>9. OutcomeOK(r)' /\ SucceededOK(r)'
  BY <1>4 DEF OutcomeOK, SucceededOK, Holds
<1>10. FirstJobOK(r)'
  BY <1>1, <1>6 DEF RunOK, FirstJobOK
<1>11. UndispatchedOK(r)'
  <2> SUFFICES ASSUME NEW p \in Requests, Owns(p, r)'
               PROVE  request'[p].pc \notin Undispatched
    BY DEF UndispatchedOK, Undispatched, Early, Granted
  <2>1. Owns(p, r) /\ request'[p] = request[p]
    BY <1>6
  <2> QED
    BY <1>1, <2>1 DEF RunOK, UndispatchedOK
<1>12. WorkingOK(r)'
  <2> SUFFICES ASSUME NEW job \in Jobs, job.run = r, job.route # "retry",
                      job.pc \in BeforeResult
               PROVE  /\ lock[job.batch].run # r
                      /\ ~(job.route = "reset" \/ (job.pc \in LetOn /\ job.live))
    BY DEF WorkingOK
  <2>1. job.batch \in Batches
    BY <1>1 DEF TypeOK, Jobs, JobRow
  <2>2. ~Held(job)
    BY <1>4, <2>1 DEF Held, Holds
  <2> QED
    BY <1>1, <1>4, <2>1, <2>2 DEF RunOK, WorkingOK
<1> QED
  BY <1>7, <1>8, <1>9, <1>10, <1>11, <1>12 DEF RunOK

\* Whatever a request does, what is said of every run is true afterwards.
LEMMA StartRuns ==
    ASSUME RunsInv, NEW q \in Requests, Start(q), NEW x \in Runs
    PROVE  RunOK(x)'
<1>1. RequestEffect(q) /\ RequestOK(q) /\ TypeOK
  BY StartEffect DEF RunsInv
<1>2. SUFFICES ASSUME x = request'[q].run PROVE RunOK(x)'
  BY <1>1, OtherRuns
<1>3. request[q].pc \in Owning => /\ Owns(q, x) /\ request[q].batch \in Batches
                                  /\ request[q].run = x
  BY <1>1, <1>2, LockAssumption DEF Owns, RequestEffect, RequestOK, Owning
<1>4. ASSUME NEW b \in Batches, StartCheck(q, b) PROVE FALSE
  <2>1. request'[q].run = NoRun
    BY <1>1, <1>4 DEF StartCheck, TypeOK
  <2> QED
    BY <1>2, <2>1, LockAssumption
<1>5. CASE StartInsert(q)
  <2>1. request[q].files \in InputSets
    BY <1>1 DEF TypeOK, RequestRow
  <2> QED
    BY <1>1, <1>2, <1>5, <2>1, NewRun DEF StartInsert, Early, RequestOK
<1>6. CASE StartLock(q)
  <2>1. /\ request[q].pc \in Early /\ request[q].pc \in Owning
        /\ UNCHANGED <<run, active, pending>>
    BY <1>6 DEF StartLock, Early, Owning
  <2>2. CASE Lock(request[q].batch, x) /\ (GoTo(q, "start_send") \/ GoTo(q, "start_reject"))
    <3>1. /\ lock'[request[q].batch].run = x /\ lock'[request[q].batch].st = "running"
          /\ \A b \in Batches : b # request[q].batch => lock'[b] = lock[b]
      BY <1>1, <1>3, <2>1, <2>2 DEF Lock, TypeOK, LockTypeOK, LockRow
    <3>2. PICK pc \in {"start_send", "start_reject"} : GoTo(q, pc)
      BY <2>2
    <3>3. /\ request'[q].pc = pc /\ request'[q].batch = request[q].batch
          /\ \A p \in Requests : p # q => request'[p] = request[p]
      BY <1>1, <3>2, GoToType DEF RequestPCs
    <3> QED
      BY <1>2, <1>3, <2>1, <3>1, <3>3, LockGranted
  <2>3. CASE UNCHANGED lock /\ GoTo(q, "start_reject")
    BY <1>1, <1>3, <1>6, <2>1, <2>3, OwnerMoves
       DEF StartLock, Owning, Undispatched, Early, Granted
  <2> QED
    BY <1>3, <1>6, <2>1, <2>2, <2>3 DEF StartLock
<1>7. CASE StartReject(q)
  <2>1. /\ request[q].pc = "start_reject" /\ GoTo(q, "done")
        /\ UNCHANGED <<lock, active, pending>> /\ Mark(q, "dispatch_failed", "done")
    BY <1>7 DEF StartReject, Mark
  <2>2. run'[x].status = "succeeded" => run[x].status = "succeeded"
    BY <1>1, <1>3, <2>1, MarkedStatus DEF Owning, RunStatuses
  <2> QED
    BY <1>1, <1>3, <2>1, <2>2, OwnerMoves DEF Owning, Undispatched, Early, Granted, Over
<1>8. CASE StartSend(q)
  <2>1. /\ request[q].pc = "start_send" /\ UNCHANGED <<lock, run>>
    BY <1>8 DEF StartSend, Send
  <2>2. CASE Dispatch(q) /\ (GoTo(q, "start_sent") \/ GoTo(q, "start_fail"))
    BY <1>3, <2>1, <2>2, FirstDispatch DEF Owning
  <2>3. CASE UNCHANGED <<active, pending>> /\ GoTo(q, "start_fail")
    BY <1>1, <1>3, <2>1, <2>3, OwnerMoves DEF Owning, Undispatched, Early, Granted
  <2> QED
    BY <1>8, <2>2, <2>3 DEF StartSend, Send
<1>9. CASE StartSent(q)
  <2>1. /\ request[q].pc = "start_sent" /\ GoTo(q, "done")
        /\ UNCHANGED <<lock, active, pending>> /\ Mark(q, "queued", "done")
    BY <1>9 DEF StartSent, Mark
  <2>2. run'[x].status = "succeeded" => run[x].status = "succeeded"
    BY <1>1, <1>3, <2>1, MarkedStatus DEF Owning, RunStatuses
  <2> QED
    BY <1>1, <1>3, <2>1, <2>2, OwnerMoves DEF Owning, Undispatched, Early, Granted, Over
<1>10. CASE StartFail(q)
  <2>1. /\ request[q].pc = "start_fail" /\ GoTo(q, "start_release")
        /\ UNCHANGED <<lock, active, pending>>
        /\ Mark(q, "dispatch_failed", "start_release")
    BY <1>10 DEF StartFail, Mark
  <2>2. run'[x].status = "succeeded" => run[x].status = "succeeded"
    BY <1>1, <1>3, <2>1, MarkedStatus DEF Owning, RunStatuses
  <2> QED
    BY <1>1, <1>3, <2>1, <2>2, OwnerMoves DEF Owning, Undispatched, Early, Granted
<1>11. CASE StartRelease(q)
  <2>1. /\ request[q].pc = "start_release" /\ GoTo(q, "done")
        /\ UNCHANGED <<run, active, pending>> /\ request[q].pc \in Owning
    BY <1>11 DEF StartRelease, ReleaseLock, Owning
  <2>2. \A b \in Batches : \/ lock'[b] = lock[b]
                           \/ lock[b].run = x /\ lock'[b].run = NoRun
    BY <1>1, <1>3, <1>11, <2>1, ReleaseGives DEF StartRelease
  <2> QED
    BY <1>1, <1>3, <2>1, <2>2, OwnerMoves DEF Owning, Undispatched, Early, Granted, Over
<1> QED
  BY <1>4, <1>5, <1>6, <1>7, <1>8, <1>9, <1>10, <1>11 DEF Start

LEMMA ResetRuns ==
    ASSUME RunsInv, NEW q \in Requests, Reset(q), NEW x \in Runs
    PROVE  RunOK(x)'
<1>1. RequestEffect(q) /\ RequestOK(q) /\ TypeOK
  BY ResetEffect DEF RunsInv
<1>2. SUFFICES ASSUME x = request'[q].run PROVE RunOK(x)'
  BY <1>1, OtherRuns
<1>3. request[q].pc \in Owning => /\ Owns(q, x) /\ request[q].batch \in Batches
                                  /\ request[q].run = x
  BY <1>1, <1>2, LockAssumption DEF Owns, RequestEffect, RequestOK, Owning
<1>4. ASSUME NEW source \in Runs, ResetCheck(q, source) PROVE FALSE
  <2>1. request'[q].run = request[q].run /\ request[q].pc = "idle"
    BY <1>1, <1>4 DEF ResetCheck, TypeOK, RequestRow
  <2> QED
    BY <1>1, <1>2, <2>1, LockAssumption DEF RequestOK
<1>5. CASE ResetInsert(q)
  BY <1>1, <1>2, <1>5, NewRun, LockAssumption DEF ResetInsert, Early, RequestOK
<1>6. CASE ResetPrepare(q)
  <2>1. /\ request[q].pc \in Early /\ request[q].pc \in Owning
        /\ UNCHANGED <<run, active, pending>>
    BY <1>6 DEF ResetPrepare, Early, Owning
  <2>2. CASE RerunAllowed(request[q].batch) /\ Relock(request[q].batch, x)
    <3>1. /\ lock'[request[q].batch].run = x /\ lock'[request[q].batch].st = "running"
          /\ \A b \in Batches : b # request[q].batch => lock'[b] = lock[b]
      BY <1>1, <1>3, <2>1, <2>2 DEF Relock, TypeOK, LockTypeOK, LockRow
    <3>2. /\ request'[q].pc \in {"reset_freeze", "reset_reject"}
          /\ request'[q].batch = request[q].batch
          /\ \A p \in Requests : p # q => request'[p] = request[p]
      <4>1. CASE GoTo(q, "reset_reject")
        BY <1>1, <4>1, GoToType DEF RequestPCs
      <4>2. CASE request' = [request EXCEPT ![q].pc = "reset_freeze",
                                            ![q].files = lock[request[q].batch].inputs]
        BY <1>1, <4>2 DEF TypeOK, RequestRow
      <4> QED
        BY <1>6, <2>2, <4>1, <4>2 DEF ResetPrepare
    <3> QED
      BY <1>2, <1>3, <2>1, <3>1, <3>2, LockGranted
  <2>3. CASE UNCHANGED lock /\ GoTo(q, "reset_reject")
    BY <1>1, <1>3, <1>6, <2>1, <2>3, OwnerMoves
       DEF ResetPrepare, Owning, Undispatched, Early, Granted
  <2> QED
    BY <1>3, <1>6, <2>1, <2>2, <2>3 DEF ResetPrepare
<1>7. CASE ResetReject(q)
  <2>1. /\ request[q].pc = "reset_reject" /\ GoTo(q, "done")
        /\ UNCHANGED <<lock, active, pending>> /\ Mark(q, "dispatch_failed", "done")
    BY <1>7 DEF ResetReject, Mark
  <2>2. run'[x].status = "succeeded" => run[x].status = "succeeded"
    BY <1>1, <1>3, <2>1, MarkedStatus DEF Owning, RunStatuses
  <2> QED
    BY <1>1, <1>3, <2>1, <2>2, OwnerMoves DEF Owning, Undispatched, Early, Granted, Over
<1>8. CASE ResetFreeze(q)
  <2>1. /\ request[q].pc = "reset_freeze" /\ (GoTo(q, "reset_send") \/ GoTo(q, "reset_unfreeze"))
        /\ UNCHANGED <<lock, active, pending>> /\ request[q].pc \in Owning
    BY <1>8 DEF ResetFreeze, Owning
  <2>2. run'[x].status = run[x].status
    BY <1>1, <1>3, <1>8, <2>1 DEF ResetFreeze, TypeOK, RunRow
  <2> QED
    BY <1>1, <1>3, <2>1, <2>2, OwnerMoves DEF Owning, Undispatched, Early, Granted
<1>9. CASE ResetUnfreeze(q)
  <2>1. /\ request[q].pc = "reset_unfreeze"
        /\ GoTo(q, "reset_reject") \/ GoTo(q, "done")
        /\ UNCHANGED <<run, active, pending>> /\ request[q].pc \in Owning
    BY <1>9 DEF ResetUnfreeze, ReleaseLock, Owning
  <2>2. \A b \in Batches : \/ lock'[b] = lock[b]
                           \/ lock[b].run = x /\ lock'[b].run = NoRun
    BY <1>1, <1>3, <1>9, <2>1, ReleaseGives DEF ResetUnfreeze
  <2> QED
    BY <1>1, <1>3, <2>1, <2>2, OwnerMoves DEF Owning, Undispatched, Early, Granted, Over
<1>10. CASE ResetSend(q)
  <2>1. /\ request[q].pc = "reset_send" /\ UNCHANGED <<lock, run>>
    BY <1>10 DEF ResetSend, Send
  <2>2. CASE Dispatch(q) /\ GoTo(q, "done")
    BY <1>3, <2>1, <2>2, FirstDispatch DEF Owning
  <2>3. CASE UNCHANGED <<active, pending>> /\ (GoTo(q, "done") \/ GoTo(q, "reset_fail"))
    BY <1>1, <1>3, <2>1, <2>3, OwnerMoves DEF Owning, Undispatched, Early, Granted, Over
  <2> QED
    BY <1>10, <2>2, <2>3 DEF ResetSend, Send
<1>11. CASE ResetFail(q)
  <2>1. /\ request[q].pc = "reset_fail" /\ GoTo(q, "reset_release")
        /\ UNCHANGED <<lock, active, pending>>
        /\ Mark(q, "dispatch_failed", "reset_release")
    BY <1>11 DEF ResetFail, Mark
  <2>2. run'[x].status = "succeeded" => run[x].status = "succeeded"
    BY <1>1, <1>3, <2>1, MarkedStatus DEF Owning, RunStatuses
  <2> QED
    BY <1>1, <1>3, <2>1, <2>2, OwnerMoves DEF Owning, Undispatched, Early, Granted
<1>12. CASE ResetRelease(q)
  <2>1. /\ request[q].pc = "reset_release" /\ GoTo(q, "done")
        /\ UNCHANGED <<run, active, pending>> /\ request[q].pc \in Owning
    BY <1>12 DEF ResetRelease, ReleaseLock, Owning
  <2>2. \A b \in Batches : \/ lock'[b] = lock[b]
                           \/ lock[b].run = x /\ lock'[b].run = NoRun
    BY <1>1, <1>3, <1>12, <2>1, ReleaseGives DEF ResetRelease
  <2> QED
    BY <1>1, <1>3, <2>1, <2>2, OwnerMoves DEF Owning, Undispatched, Early, Granted, Over
<1> QED
  BY <1>4, <1>5, <1>6, <1>7, <1>8, <1>9, <1>10, <1>11, <1>12 DEF Reset

LEMMA RetryRuns ==
    ASSUME RunsInv, NEW q \in Requests, Retry(q), NEW x \in Runs
    PROVE  RunOK(x)'
<1>1. RequestEffect(q) /\ RequestOK(q) /\ TypeOK
  BY RetryEffect DEF RunsInv
<1>2. SUFFICES ASSUME x = request'[q].run PROVE RunOK(x)'
  BY <1>1, OtherRuns
<1>3. request[q].pc \in Retrying => Retries(q, x)
  BY <1>1, <1>2, LockAssumption DEF Retries, RequestEffect, RequestOK, Retrying
<1>4. ASSUME NEW r \in Runs, NEW b \in Batches, RetryCheck(q, r, b) PROVE RunOK(x)'
  <2>1. request'[q].run = r
    BY <1>1, <1>4 DEF RetryCheck, TypeOK, RequestRow
  <2> QED
    BY <1>2, <1>4, <2>1, RetryNamed
<1>5. CASE RetryClaim(q)
  <2>1. /\ request[q].pc \in Retrying /\ (GoTo(q, "retry_send") \/ GoTo(q, "done"))
        /\ UNCHANGED lock /\ Jobs' = Jobs
    BY <1>5 DEF RetryClaim, Retrying, Jobs
  <2> QED
    BY <1>1, <1>3, <2>1, RetryMoves DEF Retrying, Over
<1>6. CASE RetrySend(q)
  <2>1. /\ request[q].pc = "retry_send" /\ (GoTo(q, "done") \/ GoTo(q, "retry_rollback"))
        /\ UNCHANGED lock /\ (Dispatch(q) \/ UNCHANGED <<active, pending>>)
    BY <1>6 DEF RetrySend, Send
  <2>2. NewJob(q).pc = "correlate" /\ NewJob(q).route = "retry"
    BY <2>1 DEF NewJob, Sender
  <2>3. \A job \in Jobs' : job \in Jobs \/ (job.pc = "correlate" /\ job.route = "retry")
    BY <2>1, <2>2, DispatchJobs DEF Jobs
  <2> QED
    BY <1>1, <1>3, <2>1, <2>3, RetryMoves DEF Retrying, Over
<1>7. CASE RetryRollback(q)
  <2>1. /\ request[q].pc \in Retrying /\ GoTo(q, "done")
        /\ UNCHANGED lock /\ Jobs' = Jobs
    BY <1>7 DEF RetryRollback, Retrying, Jobs
  <2> QED
    BY <1>1, <1>3, <2>1, RetryMoves DEF Retrying, Over
<1> QED
  BY <1>4, <1>5, <1>6, <1>7 DEF Retry

LEMMA KilledRuns ==
    ASSUME RunsInv, NEW q \in Requests, RequestKilled(q), NEW x \in Runs
    PROVE  RunOK(x)'
<1>1. RequestEffect(q) /\ RequestOK(q) /\ TypeOK
  BY KilledEffect DEF RunsInv
<1>2. SUFFICES ASSUME x = request'[q].run PROVE RunOK(x)'
  BY <1>1, OtherRuns
<1>3. /\ GoTo(q, "killed") /\ UNCHANGED <<lock, run, active, pending>>
      /\ request[q].pc \notin {"idle"} \cup Over /\ Jobs' = Jobs
  BY DEF RequestKilled, Jobs
<1>4. request[q].run = x
  BY <1>1, <1>2, <1>3, GoToType DEF RequestPCs
<1>5. request[q].pc \in Owning \cup Retrying
  <2>1. request[q].pc \in RequestPCs /\ request[q].pc \notin {"start_insert", "reset_insert"}
    BY <1>1, <1>4, LockAssumption DEF TypeOK, RequestRow, RequestOK
  <2> QED
    BY <1>3, <2>1 DEF RequestPCs, Owning, Retrying, Over
<1>6. CASE request[q].pc \in Owning
  BY <1>1, <1>3, <1>4, <1>6, OwnerMoves DEF Owns, Owning, Undispatched, Early, Granted, Over
<1>7. CASE request[q].pc \in Retrying
  BY <1>1, <1>3, <1>4, <1>7, RetryMoves DEF Retries, Over
<1> QED
  BY <1>5, <1>6, <1>7

----------------------------------------------------------------------------
(* The steps of the job.                                                    *)

\* The active job goes on: it may mark its run and recount its batch.
LEMMA JobGoesOn ==
    ASSUME RunsInv, active \in JobRow, active' \in JobRow,
           active'.run = active.run, active'.batch = active.batch,
           active'.by = active.by, active'.route = active.route,
           UNCHANGED <<pending, request>>,
           RowsEffect(active.run), LockEffect(active.run), \A b \in Batches : SameHold(b),
           active'.pc \in BeforeResult =>
              /\ active.pc \in BeforeResult
              /\ run[active.run].status \in Ongoing => run'[active.run].status \in Ongoing,
           active'.pc \in LetOn /\ active'.live =>
              \/ active.pc \in LetOn /\ active.live
              \/ /\ lock[active.batch].run = active.run
                 /\ run[active.run].status \in Ongoing,
           run'[active.run].status = "succeeded" =>
              run[active.run].status = "succeeded" \/ active.pc \in AfterRequest,
           active'.pc = "close_batch" /\ active'.outcome = "completed" =>
              run'[active.run].status = "succeeded",
           NEW x \in Runs
    PROVE  RunOK(x)'
<1>1. /\ TypeOK /\ RunOK(x) /\ active \in Jobs /\ OneJob
      /\ \A job \in Jobs : JobOK(job)
      /\ pending # NoJob => pending.pc = "correlate"
  BY NoJobIsNone DEF RunsInv, Jobs
<1>2. Jobs' \subseteq {active', pending} /\ (pending # NoJob => pending \in Jobs)
  BY DEF Jobs
<1>3. ASSUME x # active.run PROVE RunOK(x)'
  <2> DEFINE r == active.run
  <2>1. JobsEffect(r)
    BY <1>1, <1>2 DEF JobsEffect, TypeOK, Jobs
  <2>2. RequestsKeep(x)
    BY DEF RequestsKeep
  <2>3. r # x /\ RowsEffect(r) /\ LockEffect(r)
    BY <1>3
  <2> HIDE DEF r
  <2> QED
    BY <2>1, <2>2, <2>3, Untouched
<1>4. ASSUME x = active.run PROVE RunOK(x)'
  <2>1. /\ active.by \in Requests /\ request[active.by].run = x
        /\ active.batch \in Batches
        /\ pending # NoJob => pending \in JobRow
    BY <1>1, <1>4 DEF JobRow, JobOK, TypeOK
  <2>2. run'[x].status # "absent"
    BY <1>1, <1>4, <2>1 DEF RunOK, AbsentUnnamed, RowsEffect
  <2>3. \A q \in Requests : Owns(q, x)' = Owns(q, x) /\ Retries(q, x)' = Retries(q, x)
    BY DEF Owns, Retries
  <2>4. \A b \in Batches :
           /\ lock'[b].run = lock[b].run
           /\ lock[b].st \in {"running", "completed"} \/ lock'[b].st \in {"running", "completed"}
                => lock'[b].st = lock[b].st
    BY DEF SameHold
  <2>5. AbsentUnnamed(x)'
    BY <2>2 DEF AbsentUnnamed
  <2>6. OwnerOK(x)'
    BY <1>1, <2>3, <2>4 DEF RunOK, OwnerOK
  <2>7. \A q \in Requests : Owns(q, x) => request[q].pc \notin Undispatched
    BY <1>1, <1>4 DEF RunOK, UndispatchedOK
  <2>8. UndispatchedOK(x)'
    BY <2>3, <2>7 DEF UndispatchedOK, Undispatched, Early, Granted
  <2>9. \A job \in Jobs' : job.run = x /\ job.route # "retry" =>
           \/ job = active' /\ active.route # "retry"
           \/ job = pending /\ active.route = "retry" /\ pending \in Jobs /\ pending.run = x
    BY <1>1, <1>2, <1>4 DEF OneJob, Jobs
  <2>10. RetryOK(x)'
    <3> SUFFICES ASSUME NEW b \in Batches, lock'[b].run = x,
                        lock'[b].st \in {"running", "completed"}
                 PROVE  /\ \A q \in Requests : ~Retries(q, x)'
                        /\ \A job \in Jobs' : job.run = x => job.route # "retry"
      BY DEF RetryOK
    <3>1. lock[b].run = x /\ lock[b].st \in {"running", "completed"}
      BY <2>4
    <3>2. /\ \A q \in Requests : ~Retries(q, x)
          /\ \A job \in Jobs : job.run = x => job.route # "retry"
      BY <1>1, <3>1 DEF RunOK, RetryOK
    <3> QED
      BY <1>1, <1>2, <1>4, <2>3, <3>2 DEF Jobs
  <2>11. FirstJobOK(x)'
    BY <1>1, <1>4, <2>3, <2>9 DEF RunOK, FirstJobOK
  <2>12. CompletedOK(x)'
    <3>1. \A b \in Batches : lock[b].run = x => lock[b].st # "completed"
      BY <1>1, <1>4 DEF RunOK, CompletedOK
    <3> QED
      BY <2>4, <3>1 DEF CompletedOK
  <2>13. OutcomeOK(x)' /\ SucceededOK(x)'
    <3>1. OutcomeOK(x)'
      BY <1>1, <1>2, <1>4 DEF OutcomeOK, Jobs
    <3>2. SUFFICES ASSUME NEW b \in Batches, Holds(b, x)', run'[x].status = "succeeded",
                          NEW q \in Requests, Owns(q, x)
                   PROVE  FALSE
      BY <2>3, <3>1 DEF SucceededOK
    <3>3. Holds(b, x)
      BY <2>4, <3>2 DEF Holds
    <3>4. run[x].status # "succeeded"
      BY <1>1, <3>2, <3>3 DEF RunOK, SucceededOK
    <3>5. active.pc \in AfterRequest
      BY <1>4, <3>2, <3>4
    <3>6. active.route # "retry"
      BY <1>1, <1>4, <3>3 DEF RunOK, RetryOK, Holds
    <3>7. active.by = q
      BY <1>1, <1>4, <3>2, <3>6 DEF RunOK, FirstJobOK
    <3> QED
      BY <1>1, <3>2, <3>5, <3>7 DEF JobOK, Owns, Owning, Over
  <2>14. WorkingOK(x)'
    <3> SUFFICES ASSUME NEW job \in Jobs', job.run = x, job.route # "retry",
                        job.pc \in BeforeResult
                 PROVE  /\ lock'[job.batch].run = x => lock'[job.batch].st = "running"
                        /\ job.route = "reset" \/ (job.pc \in LetOn /\ job.live) => Held(job)'
      BY DEF WorkingOK
    <3>1. CASE job = active' /\ active.route # "retry"
      <4>1. active.pc \in BeforeResult
        BY <3>1
      <4>2. Held(active) => Held(job)'
        <5>1. Held(active) => /\ lock[active.batch].st = "running" /\ lock[active.batch].run = x
                              /\ run'[x].status \in Ongoing
          BY <1>4, <3>1 DEF Held, Holds
        <5>2. job.batch = active.batch /\ job.run = x
          BY <3>1
        <5> QED
          BY <2>1, <2>4, <5>1, <5>2 DEF Held, Holds
      <4>3. /\ lock[active.batch].run = x => lock[active.batch].st = "running"
            /\ active.route = "reset" \/ (active.pc \in LetOn /\ active.live) => Held(active)
        BY <1>1, <1>4, <3>1, <4>1 DEF RunOK, WorkingOK
      <4>4. job.pc \in LetOn /\ job.live => Held(active)
        BY <1>4, <3>1, <4>3 DEF Held, Holds
      <4> QED
        BY <1>4, <2>1, <2>4, <3>1, <4>2, <4>3, <4>4
    <3>2. CASE job = pending /\ active.route = "retry" /\ pending \in Jobs /\ pending.run = x
      <4>1. job \in Jobs /\ job.batch \in Batches
        BY <2>1, <3>2 DEF JobRow, Jobs
      <4>2. ~Held(job)
        BY <1>1, <1>4, <3>2, <4>1 DEF RunOK, RetryOK, Held, Holds
      <4> QED
        BY <1>1, <2>4, <4>1, <4>2 DEF RunOK, WorkingOK
    <3> QED
      BY <2>9, <3>1, <3>2
  <2> QED
    BY <2>5, <2>6, <2>8, <2>10, <2>11, <2>12, <2>13, <2>14 DEF RunOK
<1> QED
  BY <1>3, <1>4

\* Batches are recounted, or a job is gone.
LEMMA NobodysStep ==
    ASSUME RunsInv, UNCHANGED <<run, request>>, LockEffect(NoRun), Jobs' \subseteq Jobs,
           active' \in JobRow \cup {NoJob}, pending' \in JobRow \cup {NoJob}, NEW x \in Runs
    PROVE  RunOK(x)'
<1>1. RowsEffect(NoRun) /\ JobsEffect(NoRun) /\ x # NoRun /\ RequestsKeep(x)
  BY RowsStay, LockAssumption DEF JobsEffect, RequestsKeep
<1> QED
  BY <1>1, Untouched

\* The batch is closed under its run, which nobody works on any more.
LEMMA BatchClosed ==
    ASSUME RunsInv, active \in JobRow, active.pc = "close_batch",
           active.outcome \in {"completed", "failed"},
           Close(active.batch, active.run, active.outcome), JobEnds,
           UNCHANGED <<run, request>>, NEW x \in Runs
    PROVE  LockEffect(active.run) /\ RunOK(x)'
<1>1. /\ TypeOK /\ RunOK(x) /\ active \in Jobs /\ OneJob
      /\ \A job \in Jobs : JobOK(job)
  BY NoJobIsNone DEF RunsInv, Jobs
<1> DEFINE r == active.run
           b == active.batch
<1>2. b \in Batches /\ r \in Runs /\ lock \in [Batches -> LockRow]
  BY <1>1 DEF JobRow, TypeOK, LockTypeOK
<1>3. /\ Holds(b, r) /\ lock' = [lock EXCEPT ![b] = [lock[b] EXCEPT !.st = active.outcome]]
      /\ [lock[b] EXCEPT !.st = active.outcome] \in LockRow
  BY <1>2 DEF Close, LockRow, LockStates
<1>4. LockEffect(r)
  BY <1>2, <1>3 DEF LockEffect, SameHold, Holds, LockRow, RunsInv, LockManifestIsCurrent
<1>5. Jobs' \subseteq {pending} /\ Jobs' \subseteq Jobs
      /\ active' \in JobRow \cup {NoJob} /\ pending' \in JobRow \cup {NoJob}
  BY <1>1 DEF JobEnds, Jobs, TypeOK
<1>6. ASSUME x # r PROVE RunOK(x)'
  <2>1. RowsEffect(r) /\ JobsEffect(r) /\ RequestsKeep(x)
    BY <1>5, RowsStay DEF JobsEffect, RequestsKeep
  <2> HIDE DEF r
  <2> QED
    BY <1>4, <1>6, <2>1, Untouched
<1>7. ASSUME x = r PROVE RunOK(x)'
  <2>1. /\ \A q \in Requests : ~Retries(q, x)
        /\ \A job \in Jobs : job.run = x => job.route # "retry"
    BY <1>1, <1>2, <1>3, <1>7 DEF RunOK, RetryOK, Holds
  <2>2. \A job \in Jobs' : job.run # x
    BY <1>1, <1>5, <1>7, <2>1 DEF OneJob, Jobs
  <2>3. /\ active.outcome = "completed" => \A q \in Requests : ~Owns(q, x)
        /\ \A q \in Requests : Owns(q, x) => request[q].pc \notin Undispatched
    <3>1. active.outcome = "completed" => run[x].status = "succeeded"
      BY <1>1, <1>2, <1>3, <1>7 DEF RunOK, OutcomeOK
    <3>2. active.outcome = "completed" => \A q \in Requests : ~Owns(q, x)
      BY <1>1, <1>2, <1>3, <1>7, <3>1 DEF RunOK, SucceededOK
    <3> QED
      BY <1>1, <1>7, <3>2 DEF RunOK, UndispatchedOK
  <2>4. \A q \in Requests : (Owns(q, x)' <=> Owns(q, x)) /\ ~Retries(q, x)'
    BY <2>1 DEF Owns, Retries
  <2>5. \A c \in Batches : lock'[c].run = x => c = b /\ lock'[c].st = active.outcome
    BY <1>1, <1>2, <1>3, <1>7 DEF RunOK, OwnerOK, Holds, LockRow
  <2>6. active.outcome = "completed" => run[x].status = "succeeded"
    BY <1>1, <1>2, <1>3, <1>7 DEF RunOK, OutcomeOK
  <2>7. run[x].status # "absent"
    BY <1>1, <1>2, <1>3, <1>7 DEF RunOK, AbsentUnnamed, Holds
  <2>8. AbsentUnnamed(x)' /\ OwnerOK(x)'
    BY <1>1, <1>3, <1>7, <2>3, <2>4, <2>5, <2>7 DEF RunOK, AbsentUnnamed, OwnerOK, Holds
  <2>9. UndispatchedOK(x)'
    BY <2>3, <2>4 DEF UndispatchedOK, Undispatched, Early, Granted
  <2>10. RetryOK(x)' /\ FirstJobOK(x)' /\ CompletedOK(x)' /\ OutcomeOK(x)' /\ WorkingOK(x)'
    BY <2>2, <2>3, <2>4, <2>5, <2>6 DEF RetryOK, FirstJobOK, CompletedOK, OutcomeOK, WorkingOK
  <2>11. SucceededOK(x)'
    BY <2>5 DEF SucceededOK, Holds
  <2> QED
    BY <2>8, <2>9, <2>10, <2>11 DEF RunOK
<1> QED
  BY <1>4, <1>6, <1>7

----------------------------------------------------------------------------
(* The invariant.                                                           *)

\* The runs that are given up are runs.
LEMMA StrandedRuns ==
    ASSUME RunsInv, Next PROVE stranded' \subseteq Runs
<1>1. /\ TypeOK /\ stranded \subseteq Runs
      /\ pending # NoJob => pending.run \in Runs
      /\ \A q \in Requests : request[q].pc = "start_sent" => request[q].run \in Runs
  BY DEF RunsInv, TypeOK, JobRow, RequestOK, Owning
<1>2. ASSUME NEW q \in Requests, RequestStep(q) \/ RequestKilled(q)
      PROVE  stranded' \subseteq Runs
  <2>1. UNCHANGED stranded \/ Dispatch(q) \/ StartSent(q)
    BY <1>2 DEF RequestStep, RequestKilled, Start, StartCheck, StartInsert, InsertRun,
                StartLock, StartReject, StartSend, StartFail, StartRelease,
                Reset, ResetCheck, ResetInsert, ResetPrepare, ResetReject, ResetFreeze,
                ResetUnfreeze, ResetSend, ResetFail, ResetRelease, Retry, RetryCheck,
                RetryClaim, RetrySend, RetryRollback, ReleaseLock, Send
  <2>2. CASE Dispatch(q)
    BY <1>1, <2>2 DEF Dispatch
  <2>3. CASE StartSent(q)
    BY <1>1, <2>3 DEF StartSent
  <2> QED
    BY <1>1, <2>1, <2>2, <2>3
<1>3. ASSUME JobStep \/ StepBreaks \/ RunnerLost PROVE UNCHANGED stranded
  BY <1>3 DEF JobStep, StepBreaks, RunnerLost, JobEnds, Correlate, LoadManifest, ResetDrafts,
              Preflight, Begin, HashSources, Result, Gate, FinalizeRun, ReadStatus, CloseBatch
<1>4. CASE StartedByHand
  BY <1>1, <1>4 DEF StartedByHand
<1>5. ASSUME NEW b \in Unsettled, UploadsChange(b) PROVE UNCHANGED stranded
  BY <1>5 DEF UploadsChange
<1> QED
  BY <1>1, <1>2, <1>3, <1>4, <1>5 DEF Next

LEMMA StepTypes ==
    ASSUME RunsInv, NEW r, RowsEffect(r), LockEffect(r),
           active' \in JobRow \cup {NoJob}, pending' \in JobRow \cup {NoJob},
           request' \in [Requests -> RequestRow], stranded' \subseteq Runs
    PROVE  /\ TypeOK' /\ LockManifestIsCurrent' /\ CompletedHasRun'
           /\ \A x \in Runs : run'[x].status # "absent" => run'[x].batch \in Batches
<1>1. TypeOK' /\ LockManifestIsCurrent'
  BY DEF TypeOK, LockTypeOK, LockManifestIsCurrent, RowsEffect, LockEffect
<1>2. CompletedHasRun'
  BY DEF CompletedHasRun, LockEffect, SameHold, RunsInv
<1> QED
  BY <1>1, <1>2 DEF RowsEffect

\* A request that has dispatched only ends, or fails and ends.
LEMMA RequestJobs ==
    ASSUME RunsInv, NEW q \in Requests, RequestStep(q) \/ RequestKilled(q)
    PROVE  (\A job \in Jobs' : JobOK(job)') /\ OneJob' /\ (pending' # NoJob => pending'.pc = "correlate")
<1>1. TypeOK /\ RequestOK(q) /\ OneJob /\ (\A job \in Jobs : JobOK(job))
      /\ (pending # NoJob => pending.pc = "correlate")
  BY DEF RunsInv
<1>2. RequestEffect(q)
  BY StartEffect, ResetEffect, RetryEffect, KilledEffect DEF RequestStep
<1>3. PICK h \in RequestRow : request' = [request EXCEPT ![q] = h]
  BY <1>2 DEF RequestEffect
<1>4. \A p \in Requests : p # q => request'[p] = request[p]
  BY <1>1, <1>3 DEF TypeOK
<1>5. /\ request[q].pc \notin Over
      /\ request[q].pc \in {"start_sent", "start_fail", "start_release"} =>
            \E pc \in {"start_sent", "start_fail", "start_release", "done", "killed"} : GoTo(q, pc)
  <2>1. CASE Start(q)
    BY <2>1 DEF Start, StartCheck, StartInsert, StartLock, StartReject, StartSend, StartSent,
                StartFail, StartRelease, Mark, ReleaseLock, Over
  <2>2. CASE Reset(q)
    BY <2>2 DEF Reset, ResetCheck, ResetInsert, ResetPrepare, ResetReject, ResetFreeze,
                ResetUnfreeze, ResetSend, ResetFail, ResetRelease, Over
  <2>3. CASE Retry(q)
    BY <2>3 DEF Retry, RetryCheck, RetryClaim, RetrySend, RetryRollback, Over
  <2>4. CASE RequestKilled(q)
    BY <2>4 DEF RequestKilled, Over
  <2> QED
    BY <2>1, <2>2, <2>3, <2>4 DEF RequestStep
<1>6. ASSUME NEW job \in Jobs PROVE JobOK(job)'
  <2>1. job.by \in Requests /\ JobOK(job)
    BY <1>1 DEF TypeOK, Jobs, JobRow
  <2>2. CASE job.by # q
    BY <1>4, <2>1, <2>2 DEF JobOK
  <2>3. CASE job.by = q
    <3>1. request[q].pc \in {"start_sent", "start_fail", "start_release"}
      BY <1>5, <2>1, <2>3 DEF JobOK, Over
    <3>2. PICK pc \in {"start_sent", "start_fail", "start_release", "done", "killed"} : GoTo(q, pc)
      BY <1>5, <3>1
    <3>3. /\ request'[q].pc = pc /\ request'[q].run = request[q].run
          /\ request'[q].batch = request[q].batch
      BY <1>1, <3>2, GoToType DEF RequestPCs
    <3> QED
      BY <1>5, <2>1, <2>3, <3>3 DEF JobOK
  <2> QED
    BY <2>2, <2>3
<1>7. CASE UNCHANGED <<active, pending>>
  BY <1>1, <1>6, <1>7 DEF Jobs, OneJob
<1>8. ASSUME Dispatch(q), NEW pc \in {"start_sent", "start_fail", "done", "retry_rollback"},
             GoTo(q, pc),
             \/ request[q].pc = "start_send" /\ pc \in {"start_sent", "start_fail"}
             \/ request[q].pc \in {"reset_send", "retry_send"} /\ pc = "done"
      PROVE  (\A job \in Jobs' : JobOK(job)') /\ OneJob' /\ (pending' # NoJob => pending'.pc = "correlate")
  <2>1. /\ request'[q].pc = pc /\ request'[q].run = request[q].run
        /\ request'[q].batch = request[q].batch
        /\ request[q].run \in Runs /\ request[q].batch \in Batches
    BY <1>1, <1>8, GoToType DEF RequestPCs, RequestOK, Owning, Retrying
  <2>2. /\ NewJob(q).pc = "correlate" /\ NewJob(q).run = request[q].run
        /\ NewJob(q).batch = request[q].batch /\ NewJob(q).by = q
        /\ NewJob(q).route = "reset" <=> request[q].pc = "reset_send"
        /\ NewJob(q).route = "retry" <=> request[q].pc = "retry_send"
    BY <1>1, <1>8, <2>1, NewJobType
  <2>3. PICK new : new = NewJob(q)
    OBVIOUS
  <2>4. JobOK(new)'
    BY <1>8, <2>1, <2>2, <2>3 DEF JobOK, Over, AfterRequest
  <2>5. \A job \in Jobs' : JobOK(job)'
    BY <1>6, <1>8, <2>3, <2>4, DispatchJobs
  <2>6. OneJob'
    <3>1. NewJob(q).route = "retry" \/ \A job \in Jobs : job.run # NewJob(q).run
      <4>1. CASE request[q].pc = "retry_send"
        BY <2>2, <4>1
      <4>2. CASE request[q].pc \in {"start_send", "reset_send"}
        BY <2>1, <2>2, <4>2
           DEF RunsInv, RunOK, UndispatchedOK, Undispatched, Owns, Owning
      <4> QED
        BY <1>8, <4>1, <4>2
    <3> QED
      BY <1>8, <3>1, DispatchJobs DEF OneJob, Jobs
  <2> QED
    BY <1>8, <2>5, <2>6, DispatchJobs
<1>9. CASE Start(q)
  <2>1. CASE StartSend(q)
    BY <1>7, <1>8, <2>1 DEF StartSend, Send
  <2> QED
    BY <1>7, <1>9, <2>1
       DEF Start, StartCheck, StartInsert, InsertRun, StartLock, StartReject, StartSent,
           StartFail, StartRelease, Mark, ReleaseLock
<1>10. CASE Reset(q)
  <2>1. CASE ResetSend(q)
    BY <1>7, <1>8, <2>1 DEF ResetSend, Send
  <2> QED
    BY <1>7, <1>10, <2>1
       DEF Reset, ResetCheck, ResetInsert, InsertRun, ResetPrepare, ResetReject, ResetFreeze,
           ResetUnfreeze, ResetFail, ResetRelease, Mark, ReleaseLock
<1>11. CASE Retry(q)
  <2>1. CASE RetrySend(q)
    BY <1>7, <1>8, <2>1 DEF RetrySend, Send
  <2> QED
    BY <1>7, <1>11, <2>1 DEF Retry, RetryCheck, RetryClaim, RetryRollback
<1>12. CASE RequestKilled(q)
  BY <1>7, <1>12 DEF RequestKilled
<1> QED
  BY <1>9, <1>10, <1>11, <1>12 DEF RequestStep

LEMMA RequestInv ==
    ASSUME RunsInv, NEW q \in Requests, RequestStep(q) \/ RequestKilled(q),
           stranded' \subseteq Runs
    PROVE  RunsInv'
<1>1. RequestEffect(q)
  BY StartEffect, ResetEffect, RetryEffect, KilledEffect DEF RequestStep
<1>2. PICK h \in RequestRow : request' = [request EXCEPT ![q] = h]
  BY <1>1 DEF RequestEffect
<1>3. /\ request' \in [Requests -> RequestRow]
      /\ \A p \in Requests : p # q => request'[p] = request[p]
  BY <1>2 DEF RunsInv, TypeOK
<1>4. \A p \in Requests : RequestOK(p)'
  BY <1>1, <1>3 DEF RunsInv, RequestOK, RequestEffect
<1> DEFINE r == request'[q].run
<1>5. /\ RowsEffect(r) /\ LockEffect(r)
      /\ active' \in JobRow \cup {NoJob} /\ pending' \in JobRow \cup {NoJob}
  BY <1>1 DEF RequestEffect, JobsEffect
<1> HIDE DEF r
<1>6. /\ TypeOK' /\ LockManifestIsCurrent' /\ CompletedHasRun'
      /\ \A x \in Runs : run'[x].status # "absent" => run'[x].batch \in Batches
  BY <1>3, <1>5, StepTypes
<1>7. \A x \in Runs : RunOK(x)'
  BY StartRuns, ResetRuns, RetryRuns, KilledRuns DEF RequestStep
<1> QED
  BY <1>4, <1>6, <1>7, RequestJobs DEF RunsInv

\* The invariant after a step of the active job that keeps its place.
LEMMA JobInv ==
    ASSUME RunsInv, stranded' \subseteq Runs, active \in JobRow, active' \in JobRow,
           active'.run = active.run, active'.batch = active.batch,
           active'.by = active.by, active'.route = active.route,
           UNCHANGED <<pending, request>>,
           RowsEffect(active.run), LockEffect(active.run), \A b \in Batches : SameHold(b),
           active'.pc \in BeforeResult =>
              /\ active.pc \in BeforeResult
              /\ run[active.run].status \in Ongoing => run'[active.run].status \in Ongoing,
           active'.pc \in LetOn /\ active'.live =>
              \/ active.pc \in LetOn /\ active.live
              \/ /\ lock[active.batch].run = active.run
                 /\ run[active.run].status \in Ongoing,
           run'[active.run].status = "succeeded" =>
              run[active.run].status = "succeeded" \/ active.pc \in AfterRequest,
           active'.pc = "close_batch" /\ active'.outcome = "completed" =>
              run'[active.run].status = "succeeded",
           active'.pc \in AfterRequest =>
              active.pc \in AfterRequest \/ request[active.by].pc \in Over,
           active'.pc \in {"reset", "preflight"} => active'.files # NoInputs,
           active'.pc = "reset" => active'.route = "reset"
    PROVE  RunsInv'
<1>1. /\ TypeOK /\ OneJob /\ (\A job \in Jobs : JobOK(job)) /\ active \in Jobs
      /\ pending # NoJob => pending.pc = "correlate"
  BY NoJobIsNone DEF RunsInv, Jobs
<1>2. /\ TypeOK' /\ LockManifestIsCurrent' /\ CompletedHasRun'
      /\ \A x \in Runs : run'[x].status # "absent" => run'[x].batch \in Batches
  BY <1>1, StepTypes DEF TypeOK
<1>3. \A x \in Runs : RunOK(x)'
  BY JobGoesOn
<1>4. \A q \in Requests : RequestOK(q)'
  BY DEF RunsInv, RequestOK
<1>5. \A job \in Jobs' : job = active' \/ job \in Jobs
  BY DEF Jobs
<1>6. JobOK(active)
  BY <1>1
<1>7. JobOK(active)'
  BY <1>6 DEF JobOK
<1>8. \A job \in Jobs : JobOK(job)'
  BY <1>1 DEF JobOK
<1>9. OneJob'
  BY <1>1, NoJobIsNone DEF OneJob
<1>10. \A job \in Jobs' : JobOK(job)'
  BY <1>5, <1>7, <1>8 DEF JobOK
<1> QED
  BY <1>1, <1>2, <1>3, <1>4, <1>9, <1>10 DEF RunsInv

\* A best-effort write marks the run or is lost.
LEMMA JobMarks ==
    ASSUME RunsInv, active \in JobRow, NEW status \in RunStatuses, status # "absent",
           BestEffort(status)
    PROVE  /\ RowsEffect(active.run)
           /\ run'[active.run].status \in {status, run[active.run].status}
<1>1. TypeOK /\ active.run \in Runs
  BY DEF RunsInv, JobRow
<1>2. run[active.run].status # "absent"
  <2>1. active \in Jobs /\ active.by \in Requests
    BY NoJobIsNone DEF Jobs, JobRow
  <2> QED
    BY <1>1, <2>1 DEF RunsInv, JobOK, RunOK, AbsentUnnamed
<1> QED
  BY <1>1, <1>2, RowMarked, RowsStay, MarkedType DEF BestEffort

LEMMA JobToType ==
    ASSUME active \in JobRow, NEW pc \in JobPCs, JobTo(pc)
    PROVE  /\ active' \in JobRow /\ active'.pc = pc
           /\ active'.run = active.run /\ active'.batch = active.batch
           /\ active'.by = active.by /\ active'.route = active.route
           /\ active'.files = active.files /\ active'.outcome = active.outcome
           /\ active'.live = active.live
  BY DEF JobTo, JobRow

LEMMA HoldsStay == ASSUME UNCHANGED lock PROVE \A b \in Batches : SameHold(b)
  BY DEF SameHold

LEMMA JobStepInv ==
    ASSUME RunsInv, JobStep \/ StepBreaks, ~CloseBatch, stranded' \subseteq Runs
    PROVE  RunsInv'
<1>1. TypeOK /\ (active \in Jobs => JobOK(active))
  BY DEF RunsInv
<1>2. active \in JobRow /\ active # NoJob /\ active \in Jobs /\ active.pc \in JobPCs
  <2>1. active # NoJob
    BY DEF JobStep, StepBreaks, At, Correlate, LoadManifest, ResetDrafts, Preflight, Begin,
           HashSources, Result, Gate, FinalizeRun, ReadStatus, NoJob
  <2> QED
    BY <1>1, <2>1 DEF TypeOK, Jobs, JobRow
<1>3. RowsEffect(active.run) \/ ~UNCHANGED run
  BY RowsStay
<1>4. (LockEffect(active.run) /\ \A b \in Batches : SameHold(b)) \/ ~UNCHANGED lock
  BY LockStays, HoldsStay
<1>5. CASE Correlate
  <2>1. /\ UNCHANGED run \/ BestEffort("running")
        /\ JobTo("load") /\ UNCHANGED lock /\ UNCHANGED <<pending, request>>
        /\ active.pc = "correlate"
    BY <1>5 DEF Correlate, At
  <2>2. RowsEffect(active.run) /\ run'[active.run].status \in {"running", run[active.run].status}
    BY <1>2, <1>3, <2>1, JobMarks DEF RunStatuses
  <2>3. /\ active' \in JobRow /\ active'.pc = "load"
        /\ active'.run = active.run /\ active'.batch = active.batch
        /\ active'.by = active.by /\ active'.route = active.route
        /\ active'.live = active.live
    BY <1>2, <2>1, JobToType DEF JobPCs
  <2> QED
    BY <1>2, <1>4, <2>1, <2>2, <2>3, JobInv DEF BeforeResult, LetOn, AfterRequest, Ongoing
<1>6. CASE LoadManifest
  <2> DEFINE pc == IF run[active.run].files = NoInputs THEN "finalize_run" ELSE AfterLoad(active)
  <2>1. /\ UNCHANGED run /\ UNCHANGED lock /\ UNCHANGED <<pending, request>>
        /\ active.pc = "load"
        /\ active' = [active EXCEPT !.files = run[active.run].files,
                          !.live = run[active.run].status \in Ongoing, !.pc = pc]
    BY <1>6 DEF LoadManifest, At
  <2>2. /\ pc \in {"finalize_run", "reset", "preflight"}
        /\ pc # "finalize_run" => run[active.run].files # NoInputs
        /\ pc = "reset" => active.route = "reset"
        /\ pc = "preflight" => active.route # "reset"
    BY DEF AfterLoad
  <2>3. run[active.run].files \in InputSets
    BY <1>1, <1>2 DEF TypeOK, JobRow, RunRow
  <2>5. PICK on \in BOOLEAN : on = (run[active.run].status \in Ongoing)
    <3>1. (run[active.run].status \in Ongoing) \in BOOLEAN
      OBVIOUS
    <3> QED
      BY <3>1, Zenon
  <2>6. active' = [active EXCEPT !.files = run[active.run].files, !.live = on, !.pc = pc]
    BY <2>1, <2>5
  <2> HIDE DEF pc
  <2>4. /\ active' \in JobRow /\ active'.pc = pc /\ active'.files = run[active.run].files
        /\ active'.run = active.run /\ active'.batch = active.batch
        /\ active'.by = active.by /\ active'.route = active.route
    BY <1>2, <2>2, <2>3, <2>6 DEF JobRow, JobPCs
  <2> QED
    BY <1>2, <1>3, <1>4, <2>1, <2>2, <2>4, JobInv DEF BeforeResult, LetOn, AfterRequest
<1>7. CASE ResetDrafts
  <2>1. /\ BestEffort("running") /\ JobTo("preflight")
        /\ UNCHANGED lock /\ UNCHANGED <<pending, request>> /\ active.pc = "reset"
    BY <1>7 DEF ResetDrafts, At
  <2>2. RowsEffect(active.run) /\ run'[active.run].status \in {"running", run[active.run].status}
    BY <1>2, <2>1, JobMarks DEF RunStatuses
  <2>3. /\ active' \in JobRow /\ active'.pc = "preflight" /\ active'.files = active.files
        /\ active'.run = active.run /\ active'.batch = active.batch
        /\ active'.by = active.by /\ active'.route = active.route
        /\ active'.live = active.live
    BY <1>2, <2>1, JobToType DEF JobPCs
  <2>4. active.files # NoInputs
    BY <1>1, <1>2, <2>1 DEF JobOK
  <2> QED
    BY <1>2, <1>4, <2>1, <2>2, <2>3, <2>4, JobInv DEF BeforeResult, LetOn, AfterRequest, Ongoing
<1>8. CASE Preflight
  <2>1. /\ UNCHANGED run /\ UNCHANGED lock /\ UNCHANGED <<pending, request>>
        /\ active.pc = "preflight" /\ request[active.by].pc \in Over
        /\ \E pc \in {"begin", "finalize_run"} :
              /\ active' = [active EXCEPT !.live = run[active.run].status \in Ongoing, !.pc = pc]
              /\ pc = "begin" => lock[active.batch].run = active.run
    BY <1>8 DEF Preflight, At, DispatcherDone, Eligible
  <2>2. PICK pc \in {"begin", "finalize_run"} :
           /\ active' = [active EXCEPT !.live = run[active.run].status \in Ongoing, !.pc = pc]
           /\ pc = "begin" => lock[active.batch].run = active.run
    BY <2>1
  <2>4. PICK on \in BOOLEAN : on = (run[active.run].status \in Ongoing)
    <3>1. (run[active.run].status \in Ongoing) \in BOOLEAN
      OBVIOUS
    <3> QED
      BY <3>1, Zenon
  <2>5. active' = [active EXCEPT !.live = on, !.pc = pc]
    BY <2>2, <2>4
  <2>3. /\ active' \in JobRow /\ active'.pc = pc
        /\ active'.live <=> run[active.run].status \in Ongoing
        /\ active'.run = active.run /\ active'.batch = active.batch
        /\ active'.by = active.by /\ active'.route = active.route
    BY <1>2, <2>4, <2>5 DEF JobRow, JobPCs
  <2> QED
    BY <1>2, <1>3, <1>4, <2>1, <2>2, <2>3, JobInv DEF BeforeResult, LetOn, AfterRequest
<1>9. CASE Begin
  <2>1. /\ BestEffort("running") /\ JobTo("sources")
        /\ UNCHANGED lock /\ UNCHANGED <<pending, request>> /\ active.pc = "begin"
    BY <1>9 DEF Begin, At
  <2>2. RowsEffect(active.run) /\ run'[active.run].status \in {"running", run[active.run].status}
    BY <1>2, <2>1, JobMarks DEF RunStatuses
  <2>3. /\ active' \in JobRow /\ active'.pc = "sources"
        /\ active'.run = active.run /\ active'.batch = active.batch
        /\ active'.by = active.by /\ active'.route = active.route
        /\ active'.live = active.live
    BY <1>2, <2>1, JobToType DEF JobPCs
  <2> QED
    BY <1>2, <1>4, <2>1, <2>2, <2>3, JobInv DEF BeforeResult, LetOn, AfterRequest, Ongoing
<1>10. CASE HashSources
  <2>1. /\ UNCHANGED run /\ JobTo("result")
        /\ UNCHANGED <<pending, request>> /\ active.pc = "sources"
    BY <1>10 DEF HashSources, At
  <2>2. active.batch \in Batches /\ lock[active.batch] \in LockRow
    BY <1>1, <1>2 DEF JobRow, TypeOK, LockTypeOK
  <2>3. PICK in \in InputSets :
           lock' = [lock EXCEPT ![active.batch] = Recounted(lock[active.batch], in)]
    BY <1>10, <2>2, LockAssumption DEF HashSources, LockRow
  <2>4. LockEffect(active.run)
    BY <2>2, <2>3, LockRecounted
  <2>5. \A b \in Batches : SameHold(b)
    <3>1. \A b \in Batches : b # active.batch => lock'[b] = lock[b]
      BY <1>1, <2>3 DEF TypeOK, LockTypeOK
    <3>2. lock'[active.batch] = Recounted(lock[active.batch], in)
      BY <1>1, <2>2, <2>3 DEF TypeOK, LockTypeOK
    <3>3. SameHold(active.batch)
      BY <2>2, <3>2, RecountedRow DEF SameHold
    <3> QED
      BY <3>1, <3>3 DEF SameHold
  <2>6. /\ active' \in JobRow /\ active'.pc = "result"
        /\ active'.run = active.run /\ active'.batch = active.batch
        /\ active'.by = active.by /\ active'.route = active.route
        /\ active'.live = active.live
    BY <1>2, <2>1, JobToType DEF JobPCs
  <2> QED
    BY <1>2, <1>3, <2>1, <2>4, <2>5, <2>6, JobInv DEF BeforeResult, LetOn, AfterRequest
<1>11. CASE Result
  <2>1. PICK status \in {"succeeded", "failed", "no_result"} :
           BestEffort(status) /\ JobTo(IF status = "failed" THEN "finalize_run" ELSE "gate")
    BY <1>11 DEF Result
  <2>2. UNCHANGED lock /\ UNCHANGED <<pending, request>> /\ active.pc = "result"
    BY <1>11 DEF Result, At
  <2>3. RowsEffect(active.run)
    BY <1>2, <2>1, JobMarks DEF RunStatuses
  <2>4. PICK pc \in {"finalize_run", "gate"} : JobTo(pc)
    BY <2>1
  <2>5. /\ active' \in JobRow /\ active'.pc = pc
        /\ active'.run = active.run /\ active'.batch = active.batch
        /\ active'.by = active.by /\ active'.route = active.route
        /\ active'.live = active.live
    BY <1>2, <2>4, JobToType DEF JobPCs
  <2> QED
    BY <1>2, <1>4, <2>2, <2>3, <2>5, JobInv DEF BeforeResult, LetOn, AfterRequest
<1>12. CASE Gate
  <2>1. /\ UNCHANGED run \/ BestEffort("failed")
        /\ JobTo("read_status") \/ JobTo("finalize_run")
        /\ UNCHANGED lock /\ UNCHANGED <<pending, request>> /\ active.pc = "gate"
    BY <1>12 DEF Gate, At
  <2>2. RowsEffect(active.run) /\ run'[active.run].status \in {"failed", run[active.run].status}
    BY <1>2, <1>3, <2>1, JobMarks DEF RunStatuses
  <2>3. PICK pc \in {"read_status", "finalize_run"} : JobTo(pc)
    BY <2>1
  <2>4. /\ active' \in JobRow /\ active'.pc = pc
        /\ active'.run = active.run /\ active'.batch = active.batch
        /\ active'.by = active.by /\ active'.route = active.route
        /\ active'.live = active.live
    BY <1>2, <2>3, JobToType DEF JobPCs
  <2> QED
    BY <1>2, <1>4, <2>1, <2>2, <2>4, JobInv DEF BeforeResult, LetOn, AfterRequest
<1>13. CASE StepBreaks
  <2>1. /\ UNCHANGED run /\ UNCHANGED lock /\ UNCHANGED <<pending, request>>
        /\ JobTo("finalize_run")
    BY <1>13 DEF StepBreaks
  <2>2. /\ active' \in JobRow /\ active'.pc = "finalize_run"
        /\ active'.run = active.run /\ active'.batch = active.batch
        /\ active'.by = active.by /\ active'.route = active.route
        /\ active'.live = active.live
    BY <1>2, <2>1, JobToType DEF JobPCs
  <2> QED
    BY <1>2, <1>3, <1>4, <2>1, <2>2, JobInv DEF BeforeResult, LetOn, AfterRequest
<1>14. CASE FinalizeRun
  <2>1. /\ UNCHANGED run \/ BestEffort("failed")
        /\ JobTo("read_status")
        /\ UNCHANGED lock /\ UNCHANGED <<pending, request>>
    BY <1>14 DEF FinalizeRun
  <2>2. RowsEffect(active.run) /\ run'[active.run].status \in {"failed", run[active.run].status}
    BY <1>2, <1>3, <2>1, JobMarks DEF RunStatuses
  <2>3. /\ active' \in JobRow /\ active'.pc = "read_status"
        /\ active'.run = active.run /\ active'.batch = active.batch
        /\ active'.by = active.by /\ active'.route = active.route
        /\ active'.live = active.live
    BY <1>2, <2>1, JobToType DEF JobPCs
  <2> QED
    BY <1>2, <1>4, <2>1, <2>2, <2>3, JobInv DEF BeforeResult, LetOn, AfterRequest
<1>15. CASE ReadStatus
  <2> DEFINE out == OutcomeOf(run[active.run].status)
  <2>1. /\ UNCHANGED run /\ UNCHANGED lock /\ UNCHANGED <<pending, request>>
        /\ active.pc = "read_status"
        /\ active' = [active EXCEPT !.pc = "close_batch", !.outcome = out]
    BY <1>15 DEF ReadStatus, At
  <2>2. /\ out \in {"completed", "failed", "none"}
        /\ out = "completed" => run[active.run].status = "succeeded"
    BY DEF OutcomeOf
  <2> HIDE DEF out
  <2>3. /\ active' \in JobRow /\ active'.pc = "close_batch" /\ active'.outcome = out
        /\ active'.run = active.run /\ active'.batch = active.batch
        /\ active'.by = active.by /\ active'.route = active.route
        /\ active'.live = active.live
    BY <1>2, <2>1, <2>2 DEF JobRow, JobPCs
  <2> QED
    BY <1>2, <1>3, <1>4, <2>1, <2>2, <2>3, JobInv DEF BeforeResult, LetOn, AfterRequest
<1> QED
  BY <1>5, <1>6, <1>7, <1>8, <1>9, <1>10, <1>11, <1>12, <1>13, <1>14, <1>15 DEF JobStep

\* The end of a job, and the uploads behind the batches.
LEMMA NobodyInv ==
    ASSUME RunsInv, UNCHANGED <<run, request>>, NEW r \in Runs \cup {NoRun}, LockEffect(r),
           Jobs' \subseteq Jobs,
           active' \in JobRow \cup {NoJob}, pending' \in JobRow \cup {NoJob},
           pending' \in {pending, NoJob}, active' \in {active, pending},
           pending' # NoJob => active' = active,
           stranded' \subseteq Runs, \A x \in Runs : RunOK(x)'
    PROVE  RunsInv'
<1>1. /\ TypeOK /\ OneJob /\ (\A job \in Jobs : JobOK(job))
      /\ pending # NoJob => pending.pc = "correlate"
  BY DEF RunsInv
<1>2. /\ TypeOK' /\ LockManifestIsCurrent' /\ CompletedHasRun'
      /\ \A x \in Runs : run'[x].status # "absent" => run'[x].batch \in Batches
  BY <1>1, RowsStay, StepTypes DEF TypeOK
<1>3. \A q \in Requests : RequestOK(q)'
  BY DEF RunsInv, RequestOK
<1>4. \A job \in Jobs' : JobOK(job)'
  BY <1>1 DEF JobOK
<1>5. OneJob' /\ (pending' # NoJob => pending'.pc = "correlate")
  BY <1>1 DEF OneJob
<1> QED
  BY <1>2, <1>3, <1>4, <1>5 DEF RunsInv

LEMMA JobEndsInv ==
    ASSUME RunsInv, CloseBatch \/ RunnerLost, stranded' \subseteq Runs
    PROVE  RunsInv'
<1>1. TypeOK /\ JobEnds /\ UNCHANGED <<run, request>> /\ active # NoJob
  BY DEF RunsInv, CloseBatch, RunnerLost, At, NoJob
<1>2. /\ active \in JobRow /\ Jobs' \subseteq Jobs
      /\ active' \in JobRow \cup {NoJob} /\ pending' \in JobRow \cup {NoJob}
      /\ pending' = NoJob /\ active' = pending
  BY <1>1 DEF JobEnds, Jobs, TypeOK
<1>3. CASE UNCHANGED lock
  <2>1. LockEffect(NoRun)
    BY <1>3, LockStays
  <2>2. \A x \in Runs : RunOK(x)'
    BY <1>1, <1>2, <2>1, NobodysStep
  <2> QED
    BY <1>1, <1>2, <2>1, <2>2, NobodyInv
<1>4. CASE /\ active.pc = "close_batch" /\ active.outcome # "none"
           /\ Close(active.batch, active.run, active.outcome)
  <2>1. active.outcome \in {"completed", "failed"} /\ active.run \in Runs
    BY <1>2, <1>4 DEF JobRow
  <2>2. \A x \in Runs : LockEffect(active.run) /\ RunOK(x)'
    BY <1>1, <1>2, <1>4, <2>1, BatchClosed
  <2> DEFINE r == active.run
  <2>3. r \in Runs \cup {NoRun} /\ LockEffect(r)
    BY <2>1, <2>2
  <2> HIDE DEF r
  <2> QED
    BY <1>1, <1>2, <2>2, <2>3, NobodyInv
<1> QED
  BY <1>3, <1>4 DEF CloseBatch, RunnerLost, At

LEMMA StartedByHandInv ==
    ASSUME RunsInv, StartedByHand, stranded' \subseteq Runs
    PROVE  RunsInv'
<1>1. /\ TypeOK /\ UNCHANGED <<run, request>> /\ UNCHANGED lock
      /\ active' = active /\ pending' = NoJob
  BY DEF RunsInv, StartedByHand
<1>2. /\ active' \in JobRow \cup {NoJob} /\ pending' \in JobRow \cup {NoJob}
      /\ Jobs' \subseteq Jobs /\ LockEffect(NoRun)
  BY <1>1, LockStays DEF TypeOK, Jobs
<1>3. \A x \in Runs : RunOK(x)'
  BY <1>1, <1>2, NobodysStep
<1> QED
  BY <1>1, <1>2, <1>3, NobodyInv

LEMMA UploadsInv ==
    ASSUME RunsInv, NEW b \in Batches, UploadsChange(b), stranded' \subseteq Runs
    PROVE  RunsInv'
<1>1. TypeOK /\ UNCHANGED <<run, request, active, pending>> /\ Jobs' = Jobs
  BY DEF RunsInv, UploadsChange, Jobs
<1>2. PICK in \in [{c \in {b} : lock[c].st # "none"} -> InputSets] :
         lock' = [c \in Batches |-> IF c \in DOMAIN in THEN Recounted(lock[c], in[c])
                                                        ELSE lock[c]]
  BY DEF UploadsChange, SourcesChange
<1>3. DOMAIN in = {c \in {b} : lock[c].st # "none"} /\ lock \in [Batches -> LockRow]
  BY <1>1, <1>2 DEF TypeOK, LockTypeOK
<1>4. LockEffect(NoRun)
  <2>1. CASE lock[b].st = "none"
    <3>1. UNCHANGED lock
      BY <1>2, <1>3, <2>1
    <3> QED
      BY <3>1, LockStays
  <2>2. CASE lock[b].st # "none"
    <3>1. in[b] \in InputSets /\ lock' = [lock EXCEPT ![b] = Recounted(lock[b], in[b])]
      BY <1>2, <1>3, <2>2
    <3> QED
      BY <1>3, <3>1, LockRecounted
  <2> QED
    BY <2>1, <2>2
<1>5. \A x \in Runs : RunOK(x)'
  BY <1>1, <1>4, NobodysStep DEF TypeOK
<1> QED
  BY <1>1, <1>4, <1>5, NobodyInv DEF TypeOK

LEMMA RunsInvInit == Init => RunsInv
<1> SUFFICES ASSUME Init PROVE RunsInv
  OBVIOUS
<1>1. \A b \in Batches : /\ lock[b] \in LockRow
                         /\ lock[b].run = NoRun
                         /\ lock[b].st \in {"open", "ready"}
                         /\ lock[b].manifest # NoInputs => lock[b].manifest = lock[b].inputs
  <2> TAKE b \in Batches
  <2> DEFINE row == [st |-> "open", run |-> NoRun, manifest |-> NoInputs, inputs |-> NoInputs]
  <2>1. PICK in \in InputSets : lock[b] = Recounted(row, in)
    BY DEF Init
  <2>2. row \in LockRow /\ row.run = NoRun /\ row.st = "open"
    BY LockAssumption DEF LockRow, LockStates
  <2>3. Recounted(row, in).st \in {"open", "ready"}
    BY DEF Recounted
  <2> HIDE DEF row
  <2> QED
    BY <2>1, <2>2, <2>3, RecountedRow
<1>2. /\ run = [r \in Runs |-> NoRunRow] /\ request = [q \in Requests |-> NewRequest]
      /\ active = NoJob /\ pending = NoJob /\ Jobs = {} /\ stranded = {}
      /\ lock = [b \in Batches |-> lock[b]]
  BY DEF Init, Jobs
<1>3. TypeOK /\ LockManifestIsCurrent
  BY <1>1, <1>2, LockAssumption
     DEF TypeOK, LockTypeOK, LockManifestIsCurrent, RunRow, NoRunRow, RunStatuses,
         RequestRow, NewRequest, RequestPCs
<1>4. \A q \in Requests : request[q].pc = "idle" /\ request[q].run = NoRun
  BY <1>2 DEF NewRequest
<1>5. \A q \in Requests, r \in Runs : ~Owns(q, r) /\ ~Retries(q, r)
  BY <1>4 DEF Owns, Retries, Owning, Retrying
<1>6. \A r \in Runs : RunOK(r)
  <2> TAKE r \in Runs
  <2>1. r # NoRun
    BY LockAssumption
  <2>2. AbsentUnnamed(r) /\ OwnerOK(r) /\ UndispatchedOK(r) /\ RetryOK(r)
    BY <1>1, <1>4, <1>5, <2>1 DEF AbsentUnnamed, OwnerOK, UndispatchedOK, RetryOK
  <2>3. FirstJobOK(r) /\ CompletedOK(r) /\ SucceededOK(r) /\ OutcomeOK(r) /\ WorkingOK(r)
    BY <1>1, <1>2, <1>5, <2>1 DEF FirstJobOK, CompletedOK, SucceededOK, OutcomeOK, WorkingOK
  <2> QED
    BY <2>2, <2>3 DEF RunOK
<1>7. /\ \A r \in Runs : run[r].status # "absent" => run[r].batch \in Batches
      /\ \A q \in Requests : RequestOK(q)
      /\ \A job \in Jobs : JobOK(job)
      /\ CompletedHasRun /\ OneJob
      /\ pending # NoJob => pending.pc = "correlate"
  BY <1>1, <1>2, <1>4 DEF NoRunRow, RequestOK, Owning, Retrying, CompletedHasRun, OneJob
<1> QED
  BY <1>3, <1>6, <1>7 DEF RunsInv

LEMMA RunsInvNext == RunsInv /\ [Next]_vars => RunsInv'
<1> SUFFICES ASSUME RunsInv, [Next]_vars PROVE RunsInv'
  OBVIOUS
<1>0. stranded' \subseteq Runs
  BY StrandedRuns DEF vars, RunsInv, TypeOK
<1>1. ASSUME NEW q \in Requests, RequestStep(q) \/ RequestKilled(q) PROVE RunsInv'
  BY <1>0, <1>1, RequestInv
<1>2. CASE JobStep \/ StepBreaks
  BY <1>0, <1>2, JobStepInv, JobEndsInv
<1>3. CASE RunnerLost
  BY <1>0, <1>3, JobEndsInv
<1>4. CASE StartedByHand
  BY <1>0, <1>4, StartedByHandInv
<1>5. ASSUME NEW b \in Unsettled, UploadsChange(b) PROVE RunsInv'
  BY <1>0, <1>5, UploadsInv, ProtocolAssumption
<1>6. CASE UNCHANGED vars
  <2>1. /\ UNCHANGED <<run, request>> /\ LockEffect(NoRun) /\ Jobs' = Jobs
        /\ UNCHANGED <<active, pending>> /\ TypeOK
    BY <1>6, LockStays DEF vars, Jobs, RunsInv
  <2>2. \A x \in Runs : RunOK(x)'
    BY <2>1, NobodysStep DEF TypeOK
  <2> QED
    BY <1>0, <2>1, <2>2, NobodyInv DEF TypeOK
<1> QED
  BY <1>1, <1>2, <1>3, <1>4, <1>5, <1>6 DEF Next

\* The inductive invariant of the run protocol.
THEOREM RunsInvariant == Spec => []RunsInv
  BY RunsInvInit, RunsInvNext, PTL DEF Spec

\* Every reachable state of the run protocol is well typed.
THEOREM TypeCorrect == Spec => []TypeOK
<1>1. RunsInv => TypeOK
  BY DEF RunsInv
<1> QED
  BY <1>1, RunsInvariant, PTL

\* Whatever requests, retries, faults and late writes there are, a batch is shown
\* as completed only while its run is shown as succeeded.
THEOREM CompletedSucceeded == Spec => []CompletedMeansSucceeded
<1>1. RunsInv => CompletedMeansSucceeded
  <2> SUFFICES ASSUME RunsInv, NEW b \in Batches, lock[b].st = "completed"
               PROVE  lock[b].run # NoRun /\ run[lock[b].run].status = "succeeded"
    BY DEF CompletedMeansSucceeded
  <2>1. PICK r \in Runs : lock[b].run = r
    BY DEF RunsInv, CompletedHasRun
  <2>2. CompletedOK(r)
    BY DEF RunsInv, RunOK
  <2> QED
    BY <2>1, <2>2, LockAssumption DEF CompletedOK
<1> QED
  BY <1>1, RunsInvariant, PTL

\* No batch is taken over from a first run that works on it and was ongoing when its
\* job was let on, whatever releases, marks, inserts and replies are lost.
THEOREM ProcessingOwns == Spec => []ProcessingOwnsBatch
<1>1. RunsInv => ProcessingOwnsBatch
  <2> SUFFICES ASSUME RunsInv, active.pc \in Processing, active.route # "retry", active.live
               PROVE  lock[active.batch].run = active.run
    BY DEF ProcessingOwnsBatch
  <2>1. active \in JobRow /\ active \in Jobs
    BY DEF RunsInv, TypeOK, Jobs, Processing, NoJob
  <2>2. JobOK(active) /\ WorkingOK(active.run)
    BY <2>1 DEF RunsInv, RunOK, JobRow
  <2>3. /\ active.pc \in BeforeResult
        /\ active.route = "reset" \/ active.pc \in LetOn
    BY <2>2 DEF JobOK, Processing, BeforeResult, LetOn
  <2> QED
    BY <2>1, <2>2, <2>3 DEF WorkingOK, Held, Holds
<1> QED
  BY <1>1, RunsInvariant, PTL

\* The preflight lets a run on only with the files its batch adds up to, and with
\* some, although the files were frozen before the batch was locked.
THEOREM AdmitsCurrent == Spec => AdmitsCurrentFiles
<1>1. RunsInv /\ [Next]_vars =>
        [(At("preflight") /\ active'.pc = "begin") =>
            /\ active.files # NoInputs
            /\ active.files = lock[active.batch].inputs]_vars
  <2> SUFFICES ASSUME RunsInv, Next, At("preflight"), active'.pc = "begin"
               PROVE  /\ active.files # NoInputs
                      /\ active.files = lock[active.batch].inputs
    OBVIOUS
  <2>1. active \in JobRow /\ active \in Jobs /\ active.files # NoInputs
    BY AtJob DEF RunsInv, JobOK, JobPCs, At
  <2>2. CASE Preflight
    <3>1. Eligible(active)
      BY <2>1, <2>2 DEF Preflight, JobRow
    <3>2. lock[active.batch].manifest = active.files /\ active.batch \in Batches
      BY <2>1, <3>1 DEF Eligible, JobRow
    <3> QED
      BY <2>1, <3>2 DEF RunsInv, LockManifestIsCurrent
  <2>3. CASE StepBreaks
    BY <2>1, <2>3, JobToType DEF StepBreaks, JobPCs
  <2>4. CASE RunnerLost
    <3>1. active' = pending /\ (pending # NoJob => pending.pc = "correlate")
      BY <2>4 DEF RunnerLost, JobEnds, RunsInv
    <3> QED
      BY <3>1 DEF NoJob
  <2>5. ASSUME NEW q \in Requests, RequestStep(q) \/ RequestKilled(q) PROVE FALSE
    <3>1. UNCHANGED active \/ Dispatch(q)
      BY <2>5 DEF RequestStep, RequestKilled, Start, StartCheck, StartInsert, InsertRun,
                  StartLock, StartReject, StartSend, StartSent, StartFail, StartRelease,
                  Reset, ResetCheck, ResetInsert, ResetPrepare, ResetReject, ResetFreeze,
                  ResetUnfreeze, ResetSend, ResetFail, ResetRelease, Retry, RetryCheck,
                  RetryClaim, RetrySend, RetryRollback, Mark, ReleaseLock, Send
    <3>2. UNCHANGED active
      BY <2>1, <3>1 DEF Dispatch, RunsInv, JobRow, JobPCs, NoJob
    <3> QED
      BY <3>2 DEF At
  <2>6. ASSUME NEW b \in Unsettled, UploadsChange(b) PROVE FALSE
    BY <2>6 DEF UploadsChange, At
  <2>8. CASE StartedByHand
    BY <2>8 DEF StartedByHand, At
  <2>7. ASSUME JobStep, ~Preflight PROVE FALSE
    BY <2>7 DEF JobStep, At, Correlate, LoadManifest, ResetDrafts, Begin, HashSources, Result,
                Gate, FinalizeRun, ReadStatus, CloseBatch
  <2> QED
    BY <2>2, <2>3, <2>4, <2>5, <2>6, <2>7, <2>8 DEF Next
<1> QED
  BY <1>1, RunsInvariant, PTL DEF Spec, AdmitsCurrentFiles
=============================================================================
