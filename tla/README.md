# SportReel: a verification project

TLA+ models of SportReel, a service that turns drone footage into reels of single athletes.
An operator's phone uploads videos in batches, a web API on a serverless platform records
them in Postgres, GitHub Actions runs the editing pipeline over a batch, the operator approves
the drafts, and a second job delivers them. `PROJECT.json` maps every definition to the lines
it models and lists the hazards each property is about.

## 1. The system

| Part | Where | State it keeps | Operations | Talks to |
|---|---|---|---|---|
| Upload batch gate | `supabase/migrations` | `source_uploads`, `source_upload_parts`, `upload_batches` | register a batch, insert an upload, register membership, begin completion, verify, abort, cleanup evidence, resolve duplicates, refresh (trigger), assert ready, mark running, release, prepare rerun, neutralize | called by routes, pipeline scripts |
| Upload routes | `web-api/.../operator/upload` | none (R2 sessions and objects) | batch, single PUT, verify, multipart start / part-url / record-part / complete / abort / cleanup / status | R2, gate |
| Run routes | `web-api/.../operator/pipeline` | `pipeline_runs` | start, reset, retry; start-raw, reset-raw; run, runs, status (read only) | gate, GitHub dispatch |
| Workflow job | `.github/workflows/pipeline-run.yml`, `scripts/` | the job; the concurrency group | correlate, load the frozen manifest, reset, preflight, tracked pipeline run, business gate, finalize run, finalize batch | gate, `pipeline_runs`, R2 |
| Frozen inputs | `pipeline/r2_batch_restore.py`, `r2_batch_scope.py`, `scripts/preflight_frozen_inputs.py`, `reset_and_rerun.py`, `raw_recovery.py` | R2 objects under `raw/`, `processed/`; markers | reconcile, verify, admit, hash, mark, requeue, reset, recover | R2, gate |
| Ingest and archive | `pipeline/orchestrator.py`, `integrations/drive.py`, `supabase_uploader.py` | Drive RAW, PROCESSED, REVIEW; `processed.json`, `failed_ids.json`, `pending_uploads/`; `drafts`, `reprocess_requests` | retry staged reels, requeue, scan, download, analyse, give up, upload, archive, close requests | Drive, Postgres |
| Analysis | `pipeline/stages/analyzer.py` and the policies `bootstrap.py` wraps around it | the events of a source | chunk, ask, read times, select, bind to tracks, trim | Gemini, tracker |
| Identity | `pipeline/stages/identity.py`, `identity_failsafe.py`, `real_identity_gate.py` | clusters of persons | group, split, merge, verify | Gemini |
| Perception | `pipeline/perception/`, `required_perception_policy.py`, `scripts/generate_perception_sidecar.py` | sidecars with the tracker's detections, a cache of them keyed by content | detect, stitch fragments, bind events to tracks | tracker |
| Framing and rendering | `quality_preserving_framing.py`, `stages/editor.py`, `edl_export.py`, `rendered_timeline.py` | clip files, what was recorded of each, the film, its timeline and edit decision list | frame, cut, join, list, repair | ffmpeg |
| Reel timeline | `pipeline/stages/editor.py` and guards | windows that are cut | rides, guards, sanitize, de-duplicate, cut, rescue, re-edit | ffmpeg |
| QA and publication | `orchestrator.py`, `context_qa_*`, `publishable_*` | rendered files, the publishable manifest, `draft_publishability`, `qa_reedit_tasks` | render, grade, re-edit up to a bound, name, filter, upload, mark, persist, gate | Gemini, R2, Postgres |
| Tracked run | `scripts/run_tracked.py`, `integrations/run_status.py`, the gate's and the verifier's scripts, `finalize_unfinished_run.py` | the run's row, `pipeline_status`, `terminal_status_outbox.json` | run, tell how it ended, gate, record a failed gate strictly, verify the re-edit tasks, finalize | Postgres |
| Run reports | `scripts/build_*.py`, `generate_run_quality_report.py`, `append_*_to_report.py`, called by `run_pipeline_with_diagnostics.sh` | files in the debug directory: the selector's candidates, trace, ledger, coverage, quality report | note what the selector was told; after the run pair it with what was cut, find gaps, raise alerts and take them back | files only |
| Draft review | `web-api/.../drafts`, `lib/operator-draft-approve.ts` | `drafts`, `draft_feedback`, `reprocess_requests` | list, approve, feedback, reprocess | R2, GitHub |
| Delivery | `deliver.py`, `services/delivery.py`, `deliver.yml` | `delivery_runs`, `reels`, APPROVED, PENDING_PAYMENT, `previewed.json`, `delivered.json` | publish the preview, move, mark, mail; final delivery | Drive or R2, e-mail |
| Checkout and payments | `web-api/.../checkout`, `payments/webhook`, `download`, `stream` | `purchases`, `reels` | session, webhook, download token | Stripe |
| Clean Video Storage | `lib/video-storage-cleanup.ts` | -- | neutralize the database, then delete R2 prefixes page by page | gate, R2 |
| Rate limits | `lib/ratelimit.ts` | `rate_limits` | fixed-window count | Postgres |
| Mobile app | `mobile/`, its native uploader in `mobile/modules/sportreel-source-reader` | durable upload jobs, WorkManager's queue | pick, upload in parts, resume, retry, confirm the cleanup | routes, R2 |
| Annotation studio | `annotation-studio/` | its own database | labelling tasks, assignment, export | -- |

How they interact. The phone reserves a number of files for a batch, starts, sends and
completes each upload, and reports that its temporary copy is gone. Every write to
`source_uploads` fires a trigger that recomputes the batch: when as many files as were intended
are verified and no phone copy is owed, the batch becomes `ready` and stores its input
manifest. *Start* freezes that manifest into a new run, locks the batch for the run and
dispatches a workflow. *Reset* makes a new run over the batch of an ended run, *retry* sends the
failed run itself again. The job checks that it still owns the batch, brings the frozen files
back to `raw/`, analyses them, groups the persons of the sources into athletes, cuts a reel of
each, has it graded and perhaps cut again, uploads it as a draft, and marks its sources as done;
its last two steps end the run and release the batch. The operator approves drafts; each
approval queues a delivery, which publishes a preview and moves the draft on to payment.

What is hard in it:

- no step of this path is a transaction over more than one service; a route is a series of
  separate calls and may stop between any two, or lose the answer of one that succeeded;
- status writes of the jobs are best effort, and their finalizers decide on what is in the row;
- a batch is recomputed by writes to uploads whoever makes them: a phone, the run that holds
  the batch, a run of another batch, the cleaner;
- the phone stops waiting for handlers that run on, and Android for engines that do;
- GitHub keeps one running and one waiting job per group and drops the older waiting one;
- moves over object stores are a copy, a check and a deletion; copies come out short; several
  generations of the code have left objects in different places;
- the pipeline is a chain of wrappers (`bootstrap.py`) that replace functions of one another, so
  that what one layer has changed is matched by another by file, by label or by thread;
- the reports are built after the run by one-shot scripts that pair rows and cuts by windows which
  have moved since, and any of which may fail and leave the next one to go on without it;
- answers of a model are data from outside: times in any notation, persons left out or named
  twice, no answer at all.

What makes each part correct:

- *gate*: a stored manifest is never stale; the gate opens by itself once the last condition
  is met; a sealed batch gains only a file that had passed the seal check before, and is then ready no
  more; de-duplication keeps exactly one copy in use;
- *run protocol*: processing works on the run's frozen files and only while the run owns the
  batch; batch and run rows never disagree about success; each run ends, each lock is released;
- *upload routes and uploader*: a verified row has its object and stays verified, the ledger
  lists only parts that R2 has, the phone takes for uploaded only what the server has verified,
  a session that no row owns is explained by a fault of R2 or a killed handler;
- *frozen inputs*: no original is overwritten or lost, a run takes in its frozen bytes, and after
  any interruption the files of a manifest can be restored;
- *ingest*: a source leaves RAW when everybody found in it has a reel that is kept somewhere, or
  for a reason that is on record; a closed request forgets no source; each source ends archived;
- *analysis, identity, timeline*: an event stays in the moment it was told of, every person is in
  exactly one cluster, a reel shows its athlete and shows each of his moments once;
- *perception, framing, rendering*: evidence is of the video it is used for, a crop holds its
  athlete, timeline and edit decision list tell what the film shows;
- *tracked run*: a green job has lost nobody, a failed gate reaches the operator or stays in the outbox,
  how a run ended is not overwritten;
- *run reports*: the ledger says of each cut once that it was selected and of nothing else, nobody the
  selector took is passed over without a reason, and a report that passes is of clean drafts;
- *QA and publication*: only a file the model has passed can be approved, under the name of the
  athlete it shows; a run that claims success has lost nobody;
- *delivery*: what waits for payment is published, a delivery that reports success has published,
  an approved draft gets there.

## 2. The modules

| Module | Models | Extends |
|---|---|---|
| `UploadBatch` | the two tables and every function and trigger that changes them | |
| `BatchLock` | abstract: a batch is a lock with a frozen manifest | |
| `UploadBatchRefinement` | `UploadBatch` implements `BatchLock` | `UploadBatch` |
| `UploadBatchProofs` | theorems about `UploadBatch`, and the proof that it implements `BatchLock` | `UploadBatchRefinement`, TLAPS |
| `PipelineRuns` | requests, runs, concurrency group, job and finalizers | `BatchLock` |
| `PipelineRunsProofs` | theorems about it | `PipelineRuns`, TLAPS |
| `MultipartUpload` | one video from the phone to R2: engine, routes, row, sessions | |
| `MultipartUploadProofs` | theorems about it | `MultipartUpload`, TLAPS |
| `FrozenInputs` | the originals in R2 and every job that moves, copies or counts them | |
| `FrozenInputsProofs` | theorems about it | `FrozenInputs`, TLAPS |
| `DraftRuns` | run after run over the folders RAW and PROCESSED and the request table | |
| `DraftRunsProofs` | theorems about it | `DraftRuns`, TLAPS |
| `ChunkTimeline` | which seconds of a source an answer means (operators) | |
| `ActorEvidence` | whether it is clear whom a moment shows (operators) | |
| `EventSelection` | which events are kept, and their trimming to tracks (operators) | `ChunkTimeline`, `ActorEvidence` |
| `AthleteClusters` | which persons are one athlete (operators) | |
| `ReelAssembly` | from the events of an athlete to the windows that are cut (operators) | `EventSelection` |
| `Session` | one session from its films to its reels, made of the five above | `ReelAssembly`, `AthleteClusters` |
| `SelectionReports` | what the selector was told, its ledger, audit and coverage (operators) | `ReelAssembly` |
| `QualityReport` | the alerts and the status of the quality report (operators) | `SelectionReports` |
| `RunReports` | a session followed by its uploads and its reports | `Session`, `QualityReport` |
| `CropGeometry` | the crop arithmetic: ratios, rounding, even pixels (operators) | |
| `FramingProofs` | theorems about `CropGeometry` | `CropGeometry`, TLAPS |
| `Tracks` | detections, stitched tracks, the evidence of an event (operators) | |
| `Framing` | how a clip is framed and what a frame of it shows (operators) | `CropGeometry`, `Tracks` |
| `ReelFilm` | order of the clips, transitions, edit decision list, repair (operators) | `Framing` |
| `ClipRendering` | from analysed sources to films, over several runs | `ReelFilm` |
| `ReelPublication` | from rendered reels to drafts that can be approved, and the business gate | |
| `TrackedRun` | the workflow job around a run: what it tells of it, gate, verification, finalizer | `ReelPublication` |
| `ReelPublicationProofs` | theorems about both | `TrackedRun`, TLAPS |
| `Delivery` | approval, the deliver job and its queue, the final delivery | |
| `DeliveryProofs` | theorems about it | `Delivery`, TLAPS |
| `MC...` | finite instances of the module of that name | |

The path of a video through the modules: `MultipartUpload`, `UploadBatch`, `PipelineRuns`,
`FrozenInputs`, (`DraftRuns`), `Session`, `ClipRendering`, `ReelPublication`, `Delivery`. Each hands to the next what
the code hands over: a verified row, a ready batch with a manifest, a run with a frozen manifest,
sources in `raw/`, events, rendered reels, drafts with an authority row. `RunReports` stands beside it:
it watches a `Session` and reports on what was uploaded. `TrackedRun` takes the steps of `ReelPublication`
as its own and adds the job they run in; `PipelineRuns` knows of that job only whether it succeeded, failed or
was lost, and models instead who may send it.

### UploadBatch

`upload[u]` is a row of `source_uploads`, `batch[b]` a row of `upload_batches`, `clock` the
number of `verified_at` timestamps given. One action is one SQL transaction, but for the insert of an
upload, whose seal check and whose commit are two (a row that has passed the check is `inserting`); the trigger is
part of every action that writes an upload (`UploadsBecome`). Actions take no account of who
calls them or in which order, so that repeated, lost and reordered requests are covered.
The latest version of each SQL function is modelled (the migrations replace several of them
more than once).

| Action | Code |
|---|---|
| `RegisterBatch` | `register_upload_batch`, then the refresh of `registerUploadBatch`, which may be lost |
| `CheckSeal`, `InsertUpload` | the before-trigger `source_upload_reject_sealed_batch`, which reads the batch without a lock, then the insert |
| `RegisterMembership` | `register_source_upload_batch_membership` |
| `DeleteAfterSetupFailure` | `removeSourceUploadsAfterSetupFailure` |
| `TouchUpload` | writes to columns the gate does not read (parts, errors, storage key) |
| `BeginCompletion`, `RecoverableError`, `Abort`, `Verify`, `ReportCleanup` | the functions of those names |
| `ResolveDuplicate` | `resolve_exact_source_duplicate` |
| `RefreshBatch` | `refresh_upload_batch_state`, `assert_upload_batch_ready` |
| `MarkRunning`, `Release`, `Finalize`, `PrepareRerun` | lock, release, close, rerun |
| `Neutralize` | `neutralize_active_video_state` |

Abstractions: names, keys, sizes and part ledgers are gone (a completion begins when all
parts are recorded); each upload has fixed content and the object is or is not of the
declared size; `verified_at` values are distinct and in commit order; the status `paused`
and null sizes, which no current code writes, are left out; the storage backend is R2.
`MaxFiles` stands for the limit of 1000 files. `Neutralize` may hit a running batch, because
the clean's guard only spares those younger than seven hours. Whether the run that holds a
batch has ended, which `prepare_upload_batch_rerun` asks first, is part of `PipelineRuns`.

### BatchLock and the refinement

`lock[b]` keeps of a batch its state (`collecting` and `uploading` are one state, `open`), its
run, its manifest and the input set its uploads currently add up to. `SourcesChange` is any
transaction of the upload side; `Lock`, `Unlock`, `Close`, `Relock` are the calls of the run
side. `UploadBatchRefinement` maps `UploadBatch` to it; the property `ImplementsBatchLock` is
the abstract specification. This is what allows `PipelineRuns` to forget single uploads.

### PipelineRuns

`run[r]` is a row of `pipeline_runs`, `request[q]` an operator request with the next call it
will make, `active` and `pending` the two places of the concurrency group, `stranded` a history of the runs
nobody will end. An action is one
call of a route or one step of the job.

| Actions | Code |
|---|---|
| `StartCheck` ... `StartRelease` | `pipeline/start/route.ts`: assert ready, insert the run, lock, dispatch, last write; the failure branches |
| `ResetCheck` ... `ResetRelease` | `pipeline/reset/route.ts` and `prepare_upload_batch_rerun` |
| `RetryCheck`, `RetryClaim`, `RetrySend`, `RetryRollback` | `pipeline/retry/route.ts` |
| `Correlate`, `LoadManifest`, `ResetDrafts`, `Preflight`, `Begin`, `HashSources`, `Result`, `Gate` | the job's steps: `record_run_correlation.py`, `export_pipeline_input_manifest.py`, `reset_and_rerun.py --reset-only`, `preflight_frozen_inputs.py`, `run_tracked.py`, source hashing, result, business gate |
| `FinalizeRun`, `ReadStatus`, `CloseBatch` | `finalize_unfinished_run.py`, `finalize_upload_batch.py` (a read, then a conditional update) |
| `StepBreaks`, `RunnerLost`, `RequestKilled` | failure, timeout or cancellation of a step; loss of a runner; end of a serverless function |
| `StartedByHand` | `workflow_dispatch` by an operator, for no run: it takes the waiting place |
| `UploadsChange` | any upload transaction, through `BatchLock` |

`Faults` names what may go wrong in a run: `write` (a best-effort write is lost, and so is a release of the
lock, whose error the routes swallow), `reply` (a lock call commits, its answer is lost), `github` (a dispatch call without an answer, whether
or not it was accepted), `request`, `runner`. Initially each batch is open or ready, with any
inputs; these are reachable lock rows.

Assumptions. `DispatcherDone`: the preflight comes after the request that dispatched the job has ended,
since it is preceded by the installation of the packages and a request takes seconds. Nothing of the kind is
assumed of the last steps: a job may break at once and be over before its start route writes `queued`. The two reads of the retry route are one step: its claim checks the run again, and
the preflight the batch. `no_result` stands for `no_input` and `no_reviewable_drafts`. GitHub's
own "re-run job", the legacy rekeying of a reset and batchless raw runs are left out.

### MultipartUpload

The part that `UploadBatch` leaves out: what happens between the transactions of one multipart
upload. `row` is its row of `source_uploads` with the ledger of recorded parts, `r2` the multipart
sessions of R2 (a completed session is the object under its key), `call` the handlers that run,
`job` the durable job of the phone, `work` what WorkManager thinks of it, `worker` the engines that
run, `faults` a count. A handler is a sequence of actions, one per call it makes; an engine step
is one action between two places where a stop, a lost answer or another actor can come in.

| Actions | Code |
|---|---|
| `StartFind` ... `StartUndo` | `multipart/start/route.ts`, `createMultipartSourceManifest` |
| `RecordPart` | `record_source_upload_part` |
| `CompleteBegin` ... `CompleteError` | `multipart/complete/route.ts` and the functions it calls |
| `ReportCleanup` | `record_source_upload_local_cleanup_evidence` |
| `AbortRead`, `AbortR2`, `AbortMark` | `multipart/abort/route.ts` |
| `BeginRun`, `OpenSource` ... `ConfirmCleanup`, `StopRequested` | `MultipartUploadEngine.kt` |
| `Reopen`, `Retry` | `resumeEligible`, `retryBackgroundUpload` |
| `SourceUnreadable`, `NetworkFails`, `Stop`, `Death`, `Kill`, `CallFails` | what can fail |

`FaultKinds` says what the faults are; `CallFails` and the second disjuncts of the handlers are
calls that fail, with or without effect. What a call's error becomes is the code's: 4xx makes
the engine fail, no answer or a 5xx makes it retry, a source that cannot be read or a stop gives
the attempt back.

Assumptions. The batch is open, so registering membership succeeds (its own transaction is
`RegisterMembership` of `UploadBatch`). The size of the file is as declared and no duplicate is
resolved meanwhile: the states `size_mismatch` and `superseded` belong to `UploadBatch`. The two
reads of the status route are one step. A part sent twice carries the same bytes, hence the same
ETag. R2 is strongly consistent, and an aborted session has no parts (`Discarded`); `faults.apart` says that a
handler was cut off between R2's abort and the row's. An answer arrives in the step that ends the handler; that it
arrives late or never is `lost` and `network`. Rate limits (429) are retries and like `network`.

### FrozenInputs

`store` maps keys `<<"raw" | "processed", directory, name>>` to the bytes of the object, `origin`
is what it was at the start, `markers` the entries of `processed.json` (each pins the bytes it was
made for), `rows` the keys, states and hashes of the uploads. `job` is the job at work, a list of
phases still to be gone through; `recovery` is `raw_recovery.py`, run by hand beside it. Bytes are
identities; `Torn` is a copy that came out short. Two histories: `analysed`, what was analysed with which
bytes, and `overwritten`, the keys at which a copy met an object that had come after its look.

| Phase | Code |
|---|---|
| `preflight` | `preflight_frozen_inputs.py`: manifest, keys, identities |
| `examine`, `copy`, `confirm` | `reconcile` of `r2_batch_restore.py`: state of each item, copy and check one by one, listing and sizes afterwards |
| `admit`, `prepare`, `mark` | `r2_batch_scope.py`, hashing and exact de-duplication, markers after the run |
| `requeue` | a reprocess request puts one source back: the look at `raw/` (`LookToRequeue`), then the copy and the marker (`Requeue`, `RequeueFails`) |
| `plan`, `restore`, `rekey`, `forget`, `drafts` | the batchless reset of `reset_and_rerun.py` |

`Phases(kind)` is which jobs go through which: a batch run, a batch reset, the two manual kinds
(storage audit, legacy restore), the batchless run and reset. A crash may come between any two
steps, and the next job finds the bucket as it was left. `RecoveryPlan` ... `RecoveryCopy` are one
step per read or copy, because the script is outside the concurrency group. For the same reason every
`copy_object_verified` is a look and a copy (`CopyVerified`): between them the other one may have
filled the place. Only an object over the size limit of a single copy is written on the condition that
its place is free (`CopyIfAbsent`); `Large` says which names are that big.

Abstractions: sizes are right or wrong; a manifest is what `parse_manifest` sees of it; two names of
one batch never have equal bytes, and of equal uploads the one outside the batch is the later, so
that `resolve_exact_source_duplicate` is decided (its general form is in `UploadBatch`). A copy
within R2 lands whole or not at all; `MaxTorn` copies of the reconciliation, which reads the size
afterwards, may come out short.

### DraftRuns

The Drive workflow of `orchestrator.main`: `place[s]` is the folder of a source, `review` the reels in
REVIEW, `draftOf` the sources on record for a draft, `request` the table of reprocess requests;
`unforgotten` is a history of the sources that were moved back while the
removal of their marker was lost, and each request has two, `due`, what was moved back for it, and `again`, what was analysed since;
`cache`, `fails`, `staged` are the three local files, which a fresh runner does not have. `pc` and
`todo` are where `main` is, `thread[s]` where the pool's worker for a source is, `snap` and `tmp`
what a worker has read and written of `failed_ids.json`.

| Actions | Code |
|---|---|
| `RetryStaged` | `retry_pending_uploads`, at most `_MAX_STAGED_ATTEMPTS` times |
| `FetchRequests`, `RequeueMove`, `RequeueForget`, `MarkRequest` | `_handle_reprocess_requests` and `requeue_video`: move, cache, status |
| `ListVideos` | `get_new_videos` |
| `Download`, `Analyze`, `RecordLoad`, `RecordWrite`, `RecordRename`, `GiveUp`, `Remember`, `PoolEnds` | the two pools, `record_failure` with its temporary file, `mark_as_processed` |
| `Compile`, `Upload`, `Archive`, `Archived` | reels, drafts, archive |
| `CloseRequests` | `close_queued_reprocess` |
| `SendBack`, `StartRun`, `Crash` | operator, scheduler, end of a process |

What the analysis finds is any part of the people of a source; whether a cluster gives a reel is
open. Every call that may fail takes one of the world's faults, except the download of a source
that is broken, which always fails. `Compile` is one step: its inside is `Session` and
`ReelPublication`.

### Session and the operators it is made of

`Session` runs one session (`film`: the true moments, tracks and looks of its clips) from
analysis to the reels. `asked`, `events`, `state` are about single clips, `entries` the persons that
were found, `clusters` and `settled` the clusters before and after the current stage, `reels` what
was compiled, `edits` how often the last reel was cut again.

| Actions | Code |
|---|---|
| `Analyse`, `AnalysisFails` | `analyze_session` chunk by chunk; `Heard` is parsing, selection and placing (`analyzer.py`, `raw_timestamp_recovery.py`, `chunk_timeline_runtime.py`, `performance_reel_policy.py`) |
| `Enrich` | binding to tracks, trimming, one event per stretch (`perception/runtime.py`, `required_perception_policy.py`) |
| `GroupNobody`, `GroupByModel`, `GroupByPictures`, `GroupFallback`, `ConfirmCluster`, `AllConfirmed` | the tiers of `cluster_clips` and the passes after each (`_post_process_clusters`) |
| `Compile` | `compile_multi_source_reel`, `compile_reel` and what is wrapped around them: rides, guards, `sanitize`, final duplicates, cuts, any of which may fail |
| `Accept`, `Reedit` | the re-edit of the QA loop: defective cuts dropped, others longer |

`ChunkTimeline` has the arithmetic in hundredths of a second: a time is of the chunk or of the source,
plain or MM.SS, and `Normalize` decides. `ActorEvidence` is the verdict on whom a moment shows, by what
was said of it and what the tracker saw; `EventSelection` has the rules of selection;
`AthleteClusters` the passes over clusters; `ReelAssembly` the passes over the windows of a reel, the two
gates of an event (what was noted when it was bound, what the sidecar has in its window) and,
for a long video, the rescue of events that fail them.

The model that answers is honest: it tells the moments of the chunk, in any of the four notations,
with any of the labels the film allows. What it says about identity is any grouping of any persons.
Abstractions: a track is the set of seconds in which its athlete is visible (the detections are
many a second); a description is a number and a kit; "medium" confidence counts as sure; quality in
the final duplicate pass is the score; persons without events are not kept as rows; pieces of a
split cluster come in a fixed order; the canonical merging of names, which never joins two of these
rows, the de-duplication over sources, which has nothing to do on windows of different files, phase
times, teasers and music reels are left out; what is said of the primary actor in words is left out,
and the evidence about a moment is that of the window it was told of. The QA thread is
serial here; its interleaving is in `ReelPublication`.

### RunReports and the operators it is made of

`RunReports` is a `Session` (its steps after the answers are taken over whole) with four variables more:
`pages`, the rows noted with each answer that could be read; `drafts`, the reels that were uploaded;
`report`, the rows of the ledger; `quality`, the quality report.

| Actions | Code |
|---|---|
| `Note` | an answer, as in `Session`, and `selector_candidate_runtime.py` beside it |
| `Upload` | one draft per fingerprint; each may fail; `draft_identity_metadata.py` and `build_draft_decision_trace.py` note the cuts of the others |
| `Report` | `build_candidate_decision_ledger.py`, `build_selection_decision_audit.py`, `build_athlete_coverage_report.py` |
| `Assess` | `generate_run_quality_report.py`, then the scripts `append_*_to_report.py` in the order of `Scripts`, of which one may fail |

`SelectionReports` has the mirror of the selection that the runtime keeps, the merging of pages over
chunks, the pairing of rows and cuts, the causes and the gaps; `QualityReport` the alerts each script
adds and takes away and the status it computes from those that are left.

Abstractions: of the builders only the audit may be missing; the registry of detected athletes adds
nothing to what the entries tell, and generated ids of athletes are one per cluster; a report is its
alerts, metrics and wording are left out, and so are alerts about broken sidecars, errors of the
runtime, fragmented tracks and an athlete with several collections of drafts; a cut stands by one window;
as many uploads are counted as are traced. Athletes are described by a number and a kit, as in
`Session`: descriptions are alike or have nothing in common.

### ClipRendering and the operators it is made of

`ClipRendering` runs the sources of several runs to films. `Footage` is what the camera saw: content
|-> frame, length and detections of the tracker's two passes; `scenario` gives each run its sources
(a name and a content) and the events told of them. `cache` is all that outlives a runner.
`sidecar[v]` is the content the sidecar of source `v` was made of, `before` what the runner had recorded of clips
when the reel was begun, `unrecorded` the clips whose record failed, `bound` the events with their
track, `results` the clips cut so far by index, `records` what the edit decision list has on record
per path, `probed` the memory of `get_duration`, `film` and `edl` the two files, `timeline` what a
repair goes by.

| Actions | Code |
|---|---|
| `EnsureFromCache`, `Produce`, `ProducerFails` | `ensure_sidecar_for_video`, `generate_perception_sidecar.py` |
| `Bind` | `enrich_session_with_sidecar`, the filter of `required_perception_policy.py` |
| `StartReel` | `create_reel`: order, teaser, slow motion |
| `CutClip`, `RenderFails`, `PassOver` | the pool of `compile_multi_source_reel`, `_cut_clip_with_qa`, `quality_cut_clip`, `record_clip` |
| `CompileReel`, `CompileFails`, `NoClips` | `compile_reel`, transitions, timeline, `write_reel_edl` |
| `Accept`, `Repair` | `_qa_gate`, `_apply_qa_fixes` with the contracts around it |
| `NextRun`, `Crash` | the next run; the same run again on another runner |

`Tracks` stitches the tracker's fragments in pixels and milliseconds; lengths are compared by their
squares. `Framing` decides between the whole frame, a fixed crop and a crop that follows: the
ratios are in thousandths (`Round` is Python's rounding, half to even), the path of a following
crop is linear between keyframes. `ReelFilm` computes offsets of a film twice, as the code does:
once by what is rendered (`XfadeOffsets`) and once by what is told (`RenderedOffsets`).

Abstractions: which of the tracks in a window is the best is any of them; a frame size belongs to a
video; a file is as long as the window it was cut from; slow motion, captions, grading, music and the
bookend are left out, since a production reel has none of them or they change no time. A teaser is
passed over by the installed policy, so it is never cut.

### ReelPublication

`job` fixes the settings of a run and its people; `files` are the rendered files on the runner,
`rows` and `parts` the publishable manifest (athletes, and per athlete the parts of the reel by path), `pending` the drafts on their way, `review` and `authority` what R2
and `draft_publishability` hold, `tasks` the active re-edit tasks. `graded` is the evidence the
current QA invocation has recorded, `passed` a history of the files the model really passed.

| Actions | Code |
|---|---|
| `Render`, `RenderRaises`, `ActivateScope` | compile, `publishable_pending_scope.py` |
| `CheckReel`, `Reedit`, `ReeditFails`, `Accept`, `Settle` | `context_qa_gate.py`, `publishable_reel_policy.py` (record fail closed, apply evidence) |
| `NameClip`, `NameLong`, `AllNamed`, `FilterDuplicates` | `_finish_cluster`, `context_qa_long_video.py`, `publishable_runtime_integrity.py`, the duplicate filter |
| `Put`, `PutFails`, `Mark`, `Persist`, `SaveMetadata`, `FinishCall` | `upload_draft`, `mark_upload_result` in two halves, metadata and the re-edit task (`UpsertTask`, one active task per name) |
| `Audit` | `evaluate_gate` |
| `RunnerLost`, `NextRun` | end of a runner; the same job again on the same day, with the objects, rows and tasks of the run before still there |

Of a QA answer only its class is kept: passed, failed with something the editor can act on, failed
otherwise, no real grade. Of a label it is kept whether it is so long that the fifty characters of a draft's
name lose the flag (`long`, `_safe_draft_name`). Which drafts share windows is chosen freely; the windows are `Session`'s. Drafts are named reel by
reel, since a name, a staged copy and its registration with the manifest can each be refused.

### TrackedRun

The workflow job around `ReelPublication`. `st` is the step the job is at: `work` (the steps of
`ReelPublication` are taken here), `signal` and `row` (the end is told), `gate`, `record_signal`, `record_row`,
`read_back` (a failed gate is recorded strictly), `verify`, `finalize`, `over`. `row` is the run's row in
`pipeline_runs`, `signal` the one `pipeline_status` row, `ending` the status `run_tracked.py` arrives at, `gate`
what the business gate says, `outbox` whether `terminal_status_outbox.json` was written, `result` the job.

| Actions | Code |
|---|---|
| `PipelineStep`, `NoInput`, `NothingSelected`, `MainReturns`, `MainRaises` | `main` under `run_tracked.py`; the mirror that passes stages on to the row |
| `TellSignal`, `TellRow` | `mark_terminal_run`, best effort |
| `BusinessGate` | the gate of `run_pipeline_with_diagnostics.sh` |
| `RecordSignal`, `RecordRow`, `ReadBack` | `record_publishable_business_gate_status.py`: strict writes, `verify_terminal_state`, the outbox |
| `Verify` | `verify_qa_reedit_tasks.py` |
| `Finalize`, `Cut`, `Dies` | `finalize_unfinished_run.py`; a cancelled job; a lost runner |

`Faults` says what may go wrong: writes that raise, stored or not; reads that raise; a job that is cut; a runner
that dies. Abstractions: the stage of a failure, which names its reason, is `failed`; the merge of `meta` in
`mark_run_strict`, which is passed over when its read fails, and a partial publish, which only annotates the meta,
are left out; `verify` reads the drafts themselves, where the script reads the trace that was written of them
and passes when there is none. Nothing in the repository reads the outbox; it is kept with the run's artifacts.

### Delivery

`place[d]` is the set of folders a draft is in (two during a copy over R2), `reels[d]` counts its rows
in `reels`, `row[d]` is its `delivery_runs` row, `route[d]` the step of the approve request, `waiting`
and `job` the two places of the group, `previewed` and `delivered` the two local files, `final` the
final delivery on a workstation. `missed` is a history of the approved drafts that a delivery had to itself and did
not get to: it was replaced while it waited, it was stopped, or a call of it failed.

| Actions | Code |
|---|---|
| `ApproveMove` ... `ApproveEnd`, `ApproveInDrive`, `DeliverByHand` | `operator-draft-approve.ts`; the operator in Drive; `deliver.yml` by hand |
| `StartJob`, `Scan`, `ScanFails`, `NextDraft`, `Prepare`, `UploadPreview`, `Publish`, `PassOver`, `MoveToPayment`, `MarkPreviewed`, `EndDrafts`, `Notify`, `Succeed`, `Fail`, `FinalizeRow` | `deliver.py`, `services/delivery.py`, `finalize_unfinished_run.py` |
| `StopJob` | a job cancelled, timed out or lost |
| `StartFinal`, `Deliver`, `FinalDies` | `deliver_final`: the list of drafts, then the mails, publications and the write of `delivered.json`, then the archive |

A world fixes the backend, whether `previewed.json` outlives a job, the drafts' names (two may share
one), the drafts there are, those the review policy blocks, and a bound on faults. Every call may fail; the answer of
the insert into `reels` and of the dispatch may be lost after the call took effect.

## 3. The runs

All runs pass, and all disable deadlock checking: the operator may stop asking, uploads may all be
done, and each id is used once.

| Run | Question | Instance |
|---|---|---|
| `UploadTwoBatches` | Is the stored manifest always exact, does the gate open by itself, does one copy stay in use over batches, what can a sealed batch gain, and do the tables implement the lock? | 2 batches, 2 uploads of the same bytes, a single PUT and a multipart that owes a phone copy, 1 run |
| `RunsFaults` | Do run and batch rows agree under every fault, and is no batch taken over from a working run? | 1 batch, 2 runs, 3 requests of any kind, two non-empty input sets |
| `RunsProgress` | Is every lock released and does every run end? | 1 batch, 2 runs, 3 requests, no faults, jobs started by hand, `FairSpec` |
| `MultipartFaults` | Do phone, row, ledger and R2 agree whatever overlaps? | 1 part, 2 sessions, 2 handlers at once, 2 engines at once, `MaxAttempts` 2, any 2 faults of every kind, retry, reopen and abort at any time |
| `FrozenInputs` | Are originals safe, and is what a run takes in what was frozen? | 2 files, 2 batch directories, 30 initial stores (originals in `raw/`, moved, torn or foreign), 2 jobs of any of 6 kinds over 4 manifests, 1 short copy, one recovery by hand, no file over the size limit of a single copy (917,201 states) |
| `DraftRuns` | Is no source archived, and no request closed, with work left? | 2 sources (one a long video), 2 people, requests and faults as the six worlds of `MCDraftRuns` say (at most 2 each), workstation and fresh runners, a source that cannot be read on each, `FairSpec` |
| `Session` | Do events keep their meaning, persons one cluster, reels their athlete, and is whoever is shown attributed or alone? | 4 films: two surfers in a clip of two chunks and a short one; a match in three clips; a long video of two full chunks with a moment over the edge between them; one of athletes who cross each other, with and without evidence. Every notation and labelling, every grouping, one re-edit |
| `ClipRendering` | Do crops hold their athlete, and do timeline and edit decision list tell what the film shows? | an athlete who moves in 108 ways (where, how fast, how tall, how often and how surely detected) at two windows; two runs over two sources under each other's names; two athletes whose clips share paths; judged clips; records that fail; 1 or 2 faults, 1 repair |
| `RunReports` | Does the ledger tell what the drafts show, is nobody passed over in silence, and is a report that passes true? | 3 films: a long video of two chunks, a match in two clips, a ride told in fragments; unreadable answers, failing cuts and uploads, the audit missing or one of six scripts failing; no re-edit |
| `ReelPublication` | Can only what was graded be approved, and is the gate's verdict true? | 17 jobs: clips and long videos, one or two athletes, one or two parts, equal descriptions, descriptions that fill a draft's name, both gate policies, one or two re-edits, two runs of a day; every outcome of render, grade, upload and write; `FairSpec` |
| `TrackedRun` | Does the operator learn of a failed gate, and is nobody lost behind a green job? | one athlete whose reel passes, fails or is rejected; two of whom one may be published alone; every fault of the writes, reads, job and runner (373,234 states) |
| `Delivery` | Does an approved draft get to Discover, and is what waits for payment there? | 2 drafts, which may share a name, with 1 fault, 1 draft with 3, 3 drafts with none; R2 and Drive; `FairSpec` |

Why these bounds are enough for the questions. A row of the gate interacts with others through
counts and through equal contents: with two a batch can be short of one, and the two can be copies of
each other in one batch or in two. That a third changes nothing is proved (section 4). In the protocol an anomaly needs
a run that holds, a run that takes over and a third request that arrives in between; a
dispatch has to meet a running job and a waiting one. Two non-empty input sets distinguish the
files frozen in a run from those of the batch later. In an upload the anomalies are races of two: two starts,
two completes, a complete and an abort, a stopped engine and its successor; one fault makes
the second actor and another disturbs the pair. With one part an engine passes each of its
steps; that `RowIsTrueOfR2` holds with any number, of which a resumed engine skips some, is proved (section 4). Jobs over the store
meet only through what the one before left, and two are enough for an interrupted job and the one
that finds it; the second file shows that an item does not disturb another. Two sources share the
local files and one request; a failure limit of 2 has a count below and at the limit. In a session
an error of placing needs a second chunk, and at its edge a moment that both chunks see; an error of grouping a third clip (a merge that a
later merge makes impossible), an error of a reel two events of one athlete and one of another; an error of a gate somebody who is in the
picture before the seconds it looks at, and somebody who comes in when a cut is made longer.
A crop is checked at every sample of its clip, and the ways of moving are chosen so that each mode of
framing occurs at the frame's edge and inside it; three clips are the fewest of which one can fail
and leave two that are joined. In a publication what one draft may do to another needs two people or two parts; the job around it adds one
actor, whose writes are met by the finalizer only. Of three
deliveries one runs, one waits and one replaces it: three drafts, or two and one by hand. Two runs of a day are
the fewest in which one finds what the other left.
`UploadTwoBatches`, `MultipartFaults` and the `Runs*` safety runs
use symmetry over ids that occur in no other constant; the liveness runs use none.

Fairness. `PipelineRuns`: `WF_vars(JobStep)`, since GitHub runs the next step of a job and each step
has a timeout; `WF_vars` of each begun request: a function goes on to its next call; this is used
without the fault `request`. Nothing is assumed of an idle request, of uploads, of `StepBreaks` or of `StartedByHand`.
`WorkEnds` names the two ways in which a run is left behind even so: the group drops its waiting job, or its start
route writes `queued` when its job is over (`stranded`).
With faults the liveness properties of runs are not claimed: a lost runner or a lost final write
leaves its batch running, and the code relies on the operator.
`MultipartUpload`: each handler (`Handler(c)`), each engine (`EngineStep(w)`) and WorkManager's
start of enqueued work (`BeginRun(w)`) is weakly fair: a function runs on until it ends or is
killed, a thread until the process dies, WorkManager runs persisted work once its network
constraint holds. People and faults are not. `UploadGetsThrough`, which no run states, is claimed with fewer faults than
attempts and without `network`, `stop` and `death`, which leave a handler or an engine behind
that can make the successor fail (below), and without `db` (below): TLC confirms it for `FairSpec` with 2 parts, 3 sessions, 1 handler, 1 engine,
`MaxAttempts = 3`, `Operator = {"reopen"}` and any 2 of `lost`, `source`, `kill`, `r2` (5,016 states).
`DraftRuns`: runs go on, and runs are started again and again (`apps_script/trigger.gs` fires while
RAW has files). `ReelPublication`: the process goes on; nothing is assumed of the answers.
`RawIsArchived` excepts two sources the code loses sight of: one whose marker was not taken out when it was put
back (`Hidden`), and one that cannot be read, on fresh runners, where its failures are counted anew.
`Delivery`: GitHub starts the delivery that waits, and its job goes on while its runner lives (`WF`). Nobody is
assumed to approve or to press a button: `ApprovedIsPublished` is about a draft for which a delivery waits, and says
that it is published or that the delivery was replaced, stopped or met a failure (`missed`). A bounded number of faults stands for "not failing for ever".

### Where code and documentation disagree

`PROJECT.json` lists the disagreements met while modelling, each with the sentence it is about. Two
are about what the theorems of section 4 are not true of:

- "GitHub, durable run status, and operator status converge on one read-back verified terminal
  state, or a durable retry/outbox record remains" (`docs/audit/cross-layer-logical-consistency-test-basis-20260717.md:95-96`).
  The re-edit task of a draft is written as far as the database answers; when it is missing,
  `verify_qa_reedit_tasks.py` fails the job, but row and signal have said `succeeded` since
  `run_tracked.py` ended, and the finalizer leaves a terminal row alone (`Converged`).
- The "collision-resistant reel stem per athlete/part" (`editor.py`, `_multi_reel_stem`) is a
  hash of the description alone. Identity keeps two people of one clip apart even if they are
  described in the same words (`identity.py:678-714`), so the second reel is rendered over the first while the first
  waits for its upload (`WaitingReelIsOwn`). What saves the run is the manifest: the two parts have one path, the
  upload finds no single owner, and the gate fails.

Those of this table can be reproduced in the configuration named, the formula taking the place of its
properties; they are not among the runs.

| Configuration | Formula | Sentence | What happens |
|---|---|---|---|
| `UploadTwoBatches` | `FailedStaysSealed` | a failed batch "is SEALED" (`20261006_seal_ready_upload_batches.sql:1-2`) | the refresh recomputes a failed batch and can reopen it |
| `RunsFaults` with `Faults = {}`, `Unsettled = {}`, inputs `{NoInputs, i1}` | `LockedManifestKept` | a running batch's "frozen inputs may not change" (same migration) | hashing the run's sources empties the manifest of its batch; the run can then not be retried in place |
| the same | `SuccessCompletesBatch` | "A successful pipeline closes its batch as completed" (`finalize_upload_batch.py`) | a retried run succeeds, its batch stays `failed` |
| the same | `LockHasKeeper` | cancelled workflows "close as failed ... instead of staying locked" (`finalize_upload_batch.py`) | a waiting job dropped by the concurrency group runs no finalizer |
| `RunsFaults` | `AdmitsOngoingOnly` | `failDispatch` releases the batch of a run whose dispatch failed, so that no job of it is let on (`start/route.ts:32-36`) | a dispatch is accepted with its answer lost, the release that follows throws and is dropped: the job of a run that is `dispatch_failed` is let on |
| `UploadTwoBatches` | `SealedGainsNoFile` | a sealed batch's "frozen inputs may not change" (`20261006_seal_ready_upload_batches.sql:1-2`) | the gate opens between the trigger's read and the insert's commit |
| `MultipartFaults` with 1 worker, `MaxAttempts = 3`, `Operator = {}`, one fault `network` | `NetworkLossIsRetried` | "Network loss results in retry/backoff ..., not batch abandonment" (`2026-10-01-android-background-uploads-design.md:24`) | the complete of the retry is refused because the first one has just succeeded; the phone fails the job |
| `TrackedRun` with `Faults <- Nothing` | `Converged` | the first above | a red job, a row that says `succeeded`, no outbox |
| `ReelPublication` | `WaitingReelIsOwn` | the second above | the draft of the first athlete waits with the reel of the second |
| `ReelPublication` with `Jobs <- Overlapped` | `ScopeIsFound` | "drafts, names and lineage are identical to the serial loop" (`context_qa_gate.py:266-268`) | the QA worker looks for the render's scope under its own thread, finds none and raises |
| `FrozenInputs` | `NothingOverwritten` | `copy_object_verified` copies "without ever overwriting": "runs are single-flight" (`r2_storage.py:272`) | the recovery script is in no group with the runs; both look, both copy, and the second overwrites what the first has written or admitted |
| `FrozenInputs` with `MaxJobs = 3` | `ProvesWhatItAdmits` | a flat source "is accepted only with a matching size AND a verified SHA-256" (`r2_batch_restore.py:215-216`) | the recovery's late copy replaces `raw/<file>` after its proof, the restore copies what it finds and its runner is lost before the check after the copy; the next run takes the file by its size |
| `Delivery` | `SucceededIsAlwaysPublished` | a run that succeeded has delivered | a Drive folder that cannot be listed counts as empty |
| the same | `DispatchedIsDelivered` | `delivery_workflow_dispatched` of an approval (`operator-draft-approve.ts:166`) | of three approvals the middle one's delivery is cancelled unstarted; no fault is needed |
| `ClipRendering` | `EdlShowsEachClip` | a clip that could not be recorded is noted `clip_not_recorded` (`edl_export.py:278`) | what was last recorded at its path, of another athlete or another window, is told in its place |
| `DraftRuns` | `DoneMeansReprocessed` | a request is closed because its "sources were processed in this run" (`supabase_uploader.py:295-296`) | a source at its failure limit, or one whose marker was not taken out, is not analysed again |

Others have no configuration of their own: among them that a requeue restores whatever lies at a flat
key, which the reconciliation then takes for the original (`r2_storage.py:434`); that failures of the network use up the
attempts `MultipartUploadEngine.kt:50-54` means to give back; that the start route aborts a session
whose row was inserted with a lost reply; that a draft's name has no room for its flag; that a row of an
earlier run of the day speaks for the new bytes; that `deliver_final` tries to archive from a folder the draft has left; and the
places where the identity and timeline passes undo one another. What the models say of these is in
their actions, where a comment names it.

## 4. The proofs

Eight modules hold theorems; `tlapm` checks each of them to the last leaf. They hold for all values
of the constants under the named assumptions of the module they are about, which TLC evaluates in
every run. Each invariant below was first checked by TLC on the configuration of its run.

| Module | Theorems, each `Spec => [](...)` unless said otherwise |
|---|---|
| `UploadBatchProofs` | `TypeCorrect`, `ManifestCurrent` (`ManifestIsCurrent`), `OpenWithoutManifest` (`OpenHasNoManifest`), `GateOpens` (`GateOpensWhenComplete`), `DedupContent` (`DedupKeepsContent`), `DedupUnique` (`DedupIsUnique`); `SealedBatches`: `Spec => SealedGainsOnlyLateFiles`; `IntendsInvariant` (`IntendsFiles`); `Refinement`: `Spec => ImplementsBatchLock` |
| `PipelineRunsProofs` | `RunsInvariant`, `TypeCorrect`, `CompletedSucceeded` (`CompletedMeansSucceeded`), `ProcessingOwns` (`ProcessingOwnsBatch`); `AdmitsCurrent`: `Spec => AdmitsCurrentFiles` |
| `MultipartUploadProofs` | `MultipartInvariant`, `TypeCorrect`, `RowTrue` (`RowIsTrueOfR2`), `PhoneBelieves` (`PhoneBelievesServer`), `OrphansCaused` (`OrphansHaveCause`) |
| `FrozenInputsProofs` | `InputsInvariant`, `TypeCorrect`, `OriginalsAreKept` (`OriginalsUntouched`), `PassedOverIsAnalysed` (`PassedOverWasAnalysed`), `BatchInvariant`, `AdmitsFrozen` (`AdmitsFrozenBytes`), `RunsRecover` (`InterruptedRunsRecover`) |
| `DraftRunsProofs` | `DraftInvariant`, `TypeCorrect`, `ArchivedAccounted` (`ArchivedIsAccounted`), `DoneNotDropped` (`DoneIsNotDropped`) |
| `DeliveryProofs` | `DeliveryInvariant`, `TypeCorrect`, `PayablePublished` (`PayableIsPublished`), `SucceededPublished` (`SucceededIsPublished`), `PublishedComesFirst` (`PublishedFirst`, both) |
| `ReelPublicationProofs` | `RunInvariant`; from a job that is `Apart`: `PublishedIsHonest` (`ManifestIsHonest`), `GateDelivers` (`GateMeansDelivered`), `ApprovedIsGraded` (`ApprovableIsGraded`), and `PublishedStays`: `EarlierPartsKeepEvidence`. Of `JobSpec`: `GateFailuresAreTold` (`GateFailureIsTold`), `TerminalStatusStands`: `TerminalStands`, and from a job that is `Apart` `GreenIsWhole` (`GreenJobIsWhole`) |
| `FramingProofs` | `CropInsideFrame`, `FittingBoxIsRendered`, about operators |

*The gate* (`UploadBatchProofs`). The three invariants are proved together. `RowOK(us, bt, b)` is what
they say of batch `b` in the tables `us` and `bt`: a non-empty manifest is exactly the admitted files, as
many as intended, with no phone copy owed; an open or cancelled batch has none; a batch in `uploading` is
not complete. `GateInv` is `TypeOK`, `Placed` (an upload that exists belongs to a batch) and `RowOK`
of every batch. `RefreshedRowOK` shows that a refresh establishes `RowOK` of a batch whatever it
was before, `FramedRowOK` that a batch keeps `RowOK` while its uploads and its row do not change;
`UploadsBecomeRowOK` combines them for every write to uploads, and it needs `Placed` because the
trigger refreshes the batch a row belongs to. The remaining actions change one batch row. `SealedBatches` takes from
`GateInv` that a manifest is the batch's admitted files: a row that was `inserting` when the gate opened is not in
it, so its insert takes the manifest back.

*De-duplication.* `DedupInv` is `TypeOK`, no `verified_at` above `clock`, and `DedupRows`: rows that
do not exist are blank; timestamps are unique, never given to files of a wrong size, and every
verified or superseded row has one; a hashed row has a timestamp and stays verified or superseded
until it is removed, and superseded rows are hashed; and the two properties themselves. `Verify`
preserves it because a first verification takes a timestamp above all others and its row is not
hashed yet, `ResolveDuplicate` because it supersedes all but the latest copy, `Abort` because it
spares finished uploads.

*The tables implement the lock* (`UploadBatchProofs`). Initial states map to initial states
(`InitMapped`), and every transaction maps to a step of `BatchLock` or to none (`StepMapped`, one lemma
per action). A write to uploads changes many batches at once: `SourcesMapped` shows that the trigger's
refresh is, batch by batch, the recount of the abstract lock (`RefreshRecounts`), and that batches
the write does not touch keep their inputs (`FramedInputs`). A `ready` batch must have inputs for the
two to agree, which `GateInv` does not say: `IntendsFiles`, that a batch intends at least one file, is
the invariant this adds.

*Runs* (`PipelineRunsProofs`). What makes `CompletedMeansSucceeded` and `ProcessingOwnsBatch` true is spread
over the rows, the requests and the two jobs of the group. `RunsInv` says it run by run (`RunOK(r)`): who
owns a run that is not dispatched yet, that its lock is held from the grant to the dispatch, that a run is
retried only after its batch has failed, that the first job belongs to the owner and, if the run was going on when the job
was let on (`live`), has the batch until it has a result, that a completed batch names a run nobody works on, and that what the last
step has read still holds while its run has the batch. A step works on one run and changes at most one
lock; the lemmas ending in `Effect` say which row, lock and job it may change, and `Untouched` and
`OtherRuns` carry `RunOK` over for all other runs, so that each action is argued for its own run only.

*Uploads* (`MultipartUploadProofs`). The row is the anchor. It is inserted once and keeps its session;
`Grown` is what no step takes back (parts in R2, objects, a verified row, a settled copy), so that what a
handler or an engine has read remains true however late it acts on it, while the session is there. That a session
that is gone has a row that says so, or a handler that is about to write it, or a fault (`GoneIsTold`), needs that no two
starts are in charge of one session (`HeldApart`): what a start discards no row has. `HandlerOK` and `EngineOK` say what
each knows at each step, `WaitApart` that no two engines wait for the same handler. For
`OrphansHaveCause` the sessions nobody owns are counted against the faults of the server: a step
adds at most one and then has taken a fault, or removes them (`OrphansCounted`).

*Originals* (`FrozenInputsProofs`). A job copies on a look that may be old, and the recovery script copies
beside it. What saves the originals is that whatever was seen free was free at the start
(`Free`), and that nothing under `processed/` is ever written. What is admitted stays where it is until
its marker is written (`AdmittedOK`), because the phases of a job follow one another as they do
(`Ordered`). The first attempt at this proof failed for a reason: between the admission and the marker
the recovery's copy can replace an object the run itself has restored, so that `PassedOverWasAnalysed`
was not true as it had been stated, and the model, in which a requeue looked and copied in one step, hid
another of the kind. Both are in the code (section 3, `NothingOverwritten`); the property now
excepts the keys at which two copies met.

What a batch run takes in rests on a second invariant over the first (`BatchInv`). A key of the batch's own
directory holds the upload's bytes, nothing, or what is too short to pass (`BytesOK`); a restore
holds for each file a source that is `processed/<batch>/<file>` if there is one, and a flat copy only with the
proven bytes (`RestoreOK`, `From`); the job admits what it has just confirmed (`Checked`, `ConfirmOK`);
the recovery writes beside the batches (`BesideOK`); and while no copy has come out short no file that was
there is short (`UntornOK`). So every refusal of the reconciliation has its excuse
(`RunsRecover`): where `Intact` holds, the source is the moved original and needs no proof. Here too the
attempt changed the statement. TLC had passed `AdmitsFrozenBytes` with two jobs; a third one breaks the form
it had, because a flat copy can be replaced between its proof and a copy whose runner is then lost (section 3,
`ProvesWhatItAdmits`). And a requeue brings back `processed/<file>` unseen, so both statements ask that this
object, where there is one, be of the same upload (`Attested`) or not short (`Intact`).

*Ingest* (`DraftRunsProofs`). Why a source leaves RAW is decided long before it does. The count in
`failed_ids.json`, in its temporary file and in the hands of the workers is never ahead of what really
failed (`CountsOK`: `Honest`, and `Behind` by one while a failure is being recorded), although workers
overwrite each other's file; a source that was seen is archived only when every reel it is part of is
somewhere (`SeenOK`, `ReelsOK`); what was moved back for a request, from the move on, waits in RAW, out of the cache or with the removal of its marker lost, until it
is analysed or at its limit, or is between the two writes of a requeue that goes on (`RequestsOK`). `StepsWith` says which steps of a worker go with which of `main`.

*Publication* (`ReelPublicationProofs`). A draft, a part of the manifest, a file and an authority row meet by path
and by name, in different steps and on different threads. The argument follows a reel. Its path lies among
the paths of its athlete (`PathsOf`), which nobody else's reel has, so the part of a draft, `Own(k)`, is the
only one that the upload finds by its path (`SoleOwner`). Whatever stands at the draft's path, at its staged copy
or under its name in `review/` shows the part's athlete and is what the part was graded on (`FileFits`), although a
re-edit replaces a file and its path between two grades and the next person's render reuses the path of a long
video. The record of a draft says of the part what the manifest says, as long as it is on its way and once it
is confirmed (`RecordFits`); between, when the write was lost, it says nothing, and the gate then does not let the run
through. `Good` is the conjunction, and it is inductive with `Apart`: `Inv == Apart => Good` holds of every run,
and of those whose people are told apart the four properties of the run follow. `ApprovableIsGraded` needs
`FlagsAreTold` besides, that a flag of the QA loop reaches the draft's name.

One hypothesis is on the job, which no step changes. `Apart`: different athletes have different
descriptions, an athlete comes once in a compile call, a reel of a long video has one source. Without it
no argument by files is possible, as reels of two people share a path (`WaitingReelIsOwn`, section 3); that the gate and the approval hold with
equal descriptions too, TLC checks in `ReelPublication`. Descriptions are of any length: that a flag which was cut off is the only
way past the review is part of `ApprovableIsGraded`. The theorems are about one run (`Spec`); runs repeated on one day
are model-checked.

*The job* (same module). A step of the job either takes a step of `ReelPublication` or leaves it alone
(`JobRuns`), so all of the above holds in the job. `TellingFits` says how far the job has come and what it has
told by then: a red job after a failed gate has told both places or left the outbox, whatever was lost before.
For `GreenJobIsWhole` one more fact of the run is needed, that a call ends with every draft over
(`EndsOver`), and `PassFits`: who verifies has passed the gate, who is green has verified, and nothing
changes in between.

*Delivery* (`DeliveryProofs`). Rows of `reels` are only added, so a draft that is published stays so.
`PublishedInTime` follows the draft in hand through the job, `AskedInTime` and `WorkedInTime` the
draft a job was asked for, over R2: it is published, still to come, or among the failures.

*Framing* (`FramingProofs`). Two facts of `CropGeometry` for every frame size, every zoom
and every centre: the crop that is rendered, rounded and made even, lies inside the frame
(`CropInsideFrame`), and a box that fits the padded window which the check looks at lies inside the
crop that is rendered (`FittingBoxIsRendered`), when the frame is large enough for the padding to
outweigh the rounding. The lemmas bound what rounding and evening move. The run checks what the
theorems do not say: that the samples of the check are those of the clip.

Model-checked only:

- liveness, `WorkEnds`, `RawIsArchived`, `RunEnds`, `ApprovedIsPublished`: fairness
  and `ENABLED` are out of the prover's reach;
- the properties of `Session`, `ClipRendering` and `RunReports`: they are about what passes over
  sequences and sets of events compute, folds over data whose facts need induction: what a pass leaves of a
  sequence of any length, or a fold of a set of any size, no backend here can be told;
- `ReelPublication` for people who are described alike, and over several runs.

## 5. Plan

1. `RawDispatch`: the single-flight dispatch of batchless runs; the reservation of batch slots by the
   phone, whose count a crash between its two writes makes too high.
2. `Checkout`: "a purchase is delivered once" under repeated webhooks; `VideoStorageClean`: the clean's
   pages against uploads that arrive meanwhile; rate-limit window.
3. Proofs: `OneClusterEach` of `Session` and `EvidenceIsOfTheVideo` of `ClipRendering`, as far as they do not rest
   on what a fold computes; the gate of `ReelPublication`
   without `Apart`, where a part may belong to two drafts.

Not modelled, and why: grading, captions, music and the encoder's settings (no state, and no property
here depends on them); the tracker itself and the prompts; the cache of the model's answers; diagnostics and
release scripts (no product state); the lists, thumbnails, feedback and reject routes of draft review.
The app's screens and its foreground upload queue, and the annotation studio, a separate program,
are candidates for later modules.
