----------------------------- MODULE BatchLock -----------------------------
(***************************************************************************)
(* What a durable upload batch promises to the runs that use it: a lock     *)
(* with a frozen manifest.  The uploads behind a batch are abstracted to    *)
(* the input set they currently add up to, NoInputs unless the batch is     *)
(* complete.  UploadBatchRefinement shows that UploadBatch implements this  *)
(* specification; PipelineRuns builds the run protocol on its operators.    *)
(***************************************************************************)
CONSTANTS
    Batches,    \* batch ids
    Runs,       \* ids of pipeline_runs rows
    NoRun,      \* upload_batches.pipeline_run_id IS NULL
    InputSets,  \* the sets of files a batch can stand for
    NoInputs    \* the empty manifest, and the inputs of an incomplete batch

ASSUME LockAssumption ==
    /\ NoRun \notin Runs
    /\ NoInputs \in InputSets

VARIABLE lock  \* one record per batch id

LockStates == {"none", "open", "ready", "running", "completed", "failed", "cancelled"}

LockRow == [st : LockStates, run : Runs \cup {NoRun},
            manifest : InputSets, inputs : InputSets]

LockInit ==
    lock = [b \in Batches |-> [st |-> "none", run |-> NoRun,
                               manifest |-> NoInputs, inputs |-> NoInputs]]

----------------------------------------------------------------------------
\* refresh_upload_batch_state when the uploads add up to the inputs `in`.
Recounted(row, in) ==
    LET st == IF row.st \in {"running", "completed", "cancelled"} THEN row.st
              ELSE IF in # NoInputs THEN "ready" ELSE "open"
    IN  [row EXCEPT !.st = st, !.inputs = in,
                    !.manifest = IF st = "ready" THEN in ELSE NoInputs]

\* Writes to source_uploads, in one transaction and over the batches in B.
SourcesChange(B) ==
    \E in \in [{b \in B : lock[b].st # "none"} -> InputSets] :
        lock' = [b \in Batches |-> IF b \in DOMAIN in THEN Recounted(lock[b], in[b])
                                                       ELSE lock[b]]

\* A registration opens the batch or enlarges it; the refresh that should follow
\* may be lost.
Register(b) ==
    /\ lock[b].st \in {"none", "open"}
    /\ \E in \in InputSets :
          LET opened == [st |-> "open", run |-> NoRun, manifest |-> NoInputs, inputs |-> in]
          IN  \/ lock' = [lock EXCEPT ![b] = opened]
              \/ lock' = [lock EXCEPT ![b] = Recounted(opened, in)]

\* mark_upload_batch_running
Lock(b, r) ==
    /\ lock[b].st = "ready"
    /\ lock' = [lock EXCEPT ![b].st = "running", ![b].run = r]

Holds(b, r) == lock[b].st = "running" /\ lock[b].run = r

\* releaseUploadBatchAfterDispatchFailure
Unlock(b, r) ==
    /\ Holds(b, r)
    /\ lock' = [lock EXCEPT ![b].st = "ready", ![b].run = NoRun]

\* finalize_upload_batch.py
Close(b, r, outcome) ==
    /\ Holds(b, r)
    /\ lock' = [lock EXCEPT ![b].st = outcome]

\* prepare_upload_batch_rerun; that the previous run has ended is checked by
\* whoever knows the runs.
Relock(b, r) ==
    /\ lock[b].st # "none"
    /\ lock[b].inputs # NoInputs
    /\ lock' = [lock EXCEPT ![b].st = "running", ![b].run = r, ![b].manifest = lock[b].inputs]

\* neutralize_active_video_state: cancel, then recount the batches B that lost
\* their uploads.
Cancel(B) ==
    /\ \A b \in Batches : lock[b].inputs # NoInputs => b \in B
    /\ lock' = [b \in Batches |->
          LET row == IF lock[b].st \in {"open", "ready", "running"}
                       THEN [lock[b] EXCEPT !.st = "cancelled", !.manifest = NoInputs]
                       ELSE lock[b]
          IN  IF b \in B /\ row.st # "none" THEN Recounted(row, NoInputs) ELSE row]

LockNext ==
    \/ \E B \in SUBSET Batches : SourcesChange(B) \/ Cancel(B)
    \/ \E b \in Batches :
          \/ Register(b)
          \/ \E r \in Runs :
                \/ Lock(b, r)
                \/ Unlock(b, r)
                \/ Relock(b, r)
                \/ \E outcome \in {"completed", "failed"} : Close(b, r, outcome)

LockSpec == LockInit /\ [][LockNext]_lock

----------------------------------------------------------------------------
\* Every batch has a state, a run or none, a manifest and inputs.
LockTypeOK == lock \in [Batches -> LockRow]

\* A manifest that is there is the one the uploads behind the batch add up to.
LockManifestIsCurrent ==
    \A b \in Batches : lock[b].manifest # NoInputs => lock[b].manifest = lock[b].inputs
=============================================================================
