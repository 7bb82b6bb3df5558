---------------------------- MODULE UploadBatch ----------------------------
(***************************************************************************)
(* The durable upload-batch gate of SportReel: the Postgres tables          *)
(* source_uploads and upload_batches and the functions of                   *)
(* src/supabase/migrations that change them (in their latest versions).     *)
(*                                                                         *)
(* Every action is one SQL transaction.  A write to a source_uploads row    *)
(* fires the trigger source_uploads_refresh_batch in the same transaction,  *)
(* so every action that changes `upload` also recomputes the batch it       *)
(* belongs to (UploadsBecome).  The callers -- web-api routes, the          *)
(* operator's phone, the pipeline workflow -- are not modelled here: any    *)
(* transaction may come at any time, which covers lost, repeated and        *)
(* reordered requests.                                                      *)
(***************************************************************************)
EXTENDS Naturals, FiniteSets

CONSTANTS
    Uploads,      \* ids of source_uploads rows
    Batches,      \* batch ids
    Runs,         \* ids of pipeline_runs rows
    NoRun,        \* upload_batches.pipeline_run_id IS NULL
    NoBatch,      \* batch of an id without a row
    Contents,     \* distinct file contents
    ContentOf,    \* the bytes behind each upload, hence its SHA-256
    Multipart,    \* uploads by the multipart protocol; the others are a single PUT
    MustClean,    \* uploads that leave a temporary copy on the operator's phone
    Misdeclared,  \* uploads whose R2 object is not of the size declared at start
    MaxFiles      \* cap on expected_file_count (1000 in the code)

ASSUME ConstantsAssumption ==
    /\ NoRun \notin Runs
    /\ NoBatch \notin Batches
    /\ ContentOf \in [Uploads -> Contents]
    /\ IsFiniteSet(Uploads)
    /\ MustClean \subseteq Multipart
    /\ Multipart \subseteq Uploads
    /\ Misdeclared \subseteq Uploads
    /\ MaxFiles \in Nat \ {0}

VARIABLES
    upload,   \* source_uploads: one record per id
    batch,    \* upload_batches: one record per batch id
    clock     \* number of verified_at timestamps handed out so far

vars == <<upload, batch, clock>>

----------------------------------------------------------------------------
(* Rows.  "absent" and "none" are ids without a row; the row of an "inserting"  *)
(* id is not committed yet; a deleted id is never reused (ids are generated    *)
(* UUIDs).                                                                     *)

UploadStates == {"absent", "inserting", "uploading", "completing", "verified",
                 "size_mismatch", "superseded", "aborted", "deleted"}

BatchStates == {"none", "collecting", "uploading", "ready", "running",
                "completed", "failed", "cancelled"}

\* The states in which register_upload_batch and the insert trigger accept files.
OpenStates == {"none", "collecting", "uploading"}

UploadRow ==
    [st : UploadStates,
     batch : Batches \cup {NoBatch},
     fresh : BOOLEAN,       \* the request that created the row may still delete it
     member : BOOLEAN,      \* batch_membership_registered_at is set
     verifiedAt : Nat,      \* verified_at; 0 is null
     hashed : BOOLEAN,      \* content_sha256 is set
     superseded : BOOLEAN,  \* superseded_at is set
     removed : BOOLEAN,     \* removed_at is set
     cleaned : BOOLEAN]     \* local_cleanup_status = 'confirmed'

BatchRow ==
    [st : BatchStates, expected : Nat, manifest : SUBSET Uploads,
     run : Runs \cup {NoRun}]

Exists(row) == row.st \notin {"absent", "inserting", "deleted"}

\* Rows that count: not removed and not an exact duplicate of a later one.
Live(us, b) ==
    {u \in Uploads : /\ Exists(us[u])
                     /\ us[u].batch = b
                     /\ ~us[u].removed
                     /\ ~us[u].superseded}

\* Rows whose object was found with the declared size.
Admitted(us, b) ==
    {u \in Live(us, b) : us[u].st = "verified" /\ u \notin Misdeclared}

\* Rows whose temporary copy on the phone is not confirmed deleted.
CleanupOwed(us, b) ==
    {u \in Live(us, b) : u \in MustClean /\ ~us[u].cleaned}

\* The counts all three gates compare: intended, registered, verified, cleanup.
Complete(bt, us, b) ==
    /\ Cardinality(Live(us, b)) = bt.expected
    /\ Cardinality(Admitted(us, b)) = bt.expected
    /\ CleanupOwed(us, b) = {}

NextBatchState(bt, us, b) ==
    CASE bt.st \in {"running", "completed", "cancelled"} -> bt.st
      [] bt.st \notin {"running", "completed", "cancelled"} /\ Complete(bt, us, b)
           -> "ready"
      [] OTHER -> IF Live(us, b) = {} THEN "collecting" ELSE "uploading"

\* Mutant: the manifest of a batch that is no longer ready is left behind.
RefreshedKeepingManifest(bt, us, b) ==
    LET next == NextBatchState(bt, us, b)
    IN  [bt EXCEPT !.st = next,
                   !.manifest = IF next = "ready" THEN Admitted(us, b) ELSE @]

\* refresh_upload_batch_state: recompute the state, and the manifest with it.
Refreshed(bt, us, b) ==
    LET next == NextBatchState(bt, us, b)
    IN  [bt EXCEPT !.st = next,
                   !.manifest = IF next = "ready" THEN Admitted(us, b) ELSE {}]

Refresh(bs, us, B) ==
    [b \in Batches |-> IF b \in B /\ bs[b].st # "none"
                         THEN Refreshed(bs[b], us, b)
                         ELSE bs[b]]

\* Mutant: the trigger is gone, callers must refresh.
UploadsBecomeUnrefreshed(us, bs, B) ==
    /\ upload' = us
    /\ batch' = bs

\* A committed write to source_uploads, with its after-row trigger.
UploadsBecome(us, bs, B) ==
    /\ upload' = us
    /\ batch' = Refresh(bs, us, B)

NoUpload ==
    [st |-> "absent", batch |-> NoBatch, fresh |-> FALSE, member |-> FALSE,
     verifiedAt |-> 0, hashed |-> FALSE, superseded |-> FALSE, removed |-> FALSE,
     cleaned |-> FALSE]

NoBatchRow ==
    [st |-> "none", expected |-> 0, manifest |-> {}, run |-> NoRun]

Init ==
    /\ upload = [u \in Uploads |-> NoUpload]
    /\ batch = [b \in Batches |-> NoBatchRow]
    /\ clock = 0

----------------------------------------------------------------------------
(* Collecting a batch.                                                      *)

CanRegister(bt, n) ==
    /\ bt.st \in OpenStates
    /\ bt.expected + n <= MaxFiles

Registered(bt, n) ==
    [st |-> "collecting", expected |-> bt.expected + n, manifest |-> {}, run |-> NoRun]

\* POST /upload/batch: register n more files, then refresh in a second call.
\* The second call may be lost, leaving the batch "collecting".
RegisterBatch(b, n, refreshed) ==
    /\ CanRegister(batch[b], n)
    /\ LET bs == [batch EXCEPT ![b] = Registered(@, n)]
       IN  batch' = IF refreshed THEN Refresh(bs, upload, {b}) ELSE bs
    /\ UNCHANGED <<upload, clock>>

InsertBegins(u, b) ==
    upload' = [upload EXCEPT ![u] = [NoUpload EXCEPT !.st = "inserting", !.batch = b]]

\* Mutant: no before-insert trigger.
CheckSealNever(u, b) ==
    /\ upload[u].st = "absent"
    /\ InsertBegins(u, b)
    /\ UNCHANGED <<batch, clock>>

\* A single-PUT or multipart start inserts its row.  The before-insert trigger
\* refuses a sealed batch; it reads the state without locking the batch.
CheckSeal(u, b) ==
    /\ upload[u].st = "absent"
    /\ batch[b].st \in OpenStates
    /\ InsertBegins(u, b)
    /\ UNCHANGED <<batch, clock>>

\* The rest of the insert, from where its after-row trigger holds the batch: other
\* transactions may have changed the batch since CheckSeal.  An insert that fails
\* stays where it is.
InsertUpload(u) ==
    /\ upload[u].st = "inserting"
    /\ UploadsBecome(
         [upload EXCEPT ![u] = [NoUpload EXCEPT !.st = "uploading", !.batch = upload[u].batch,
                                                !.fresh = u \notin Multipart]],
         batch, {upload[u].batch})
    /\ UNCHANGED clock

\* Every row of the batch counts here, removed and superseded ones too.
RowsOf(us, b) == {u \in Uploads : Exists(us[u]) /\ us[u].batch = b}

\* register_source_upload_batch_membership: reserve room for the rows that no
\* reservation covers, once per upload; own says whether the caller is the
\* request that created the row.
RegisterMembership(u, own) ==
    LET b == upload[u].batch
        rows == Cardinality(RowsOf(upload, b))
        short == rows > batch[b].expected
        n == rows - batch[b].expected
    IN  /\ Exists(upload[u])
        /\ own => upload[u].fresh
        /\ (~upload[u].member /\ short) => CanRegister(batch[b], n)
        /\ UploadsBecome(
             [upload EXCEPT ![u].member = TRUE, ![u].fresh = @ /\ ~own],
             IF ~upload[u].member /\ short
               THEN [batch EXCEPT ![b] = Registered(@, n)]
               ELSE batch,
             {b})
        /\ batch'[b].st # "none"
        /\ UNCHANGED clock

\* The creating single-PUT request takes its row back when membership fails.
DeleteAfterSetupFailure(u) ==
    /\ Exists(upload[u]) /\ upload[u].fresh
    /\ UploadsBecome([upload EXCEPT ![u].st = "deleted"], batch, {upload[u].batch})
    /\ UNCHANGED clock

----------------------------------------------------------------------------
(* The life of one upload.                                                  *)

\* One write to the row of u that keeps verified_at.
RowBecomes(u, row) ==
    /\ UploadsBecome([upload EXCEPT ![u] = row], batch, {upload[u].batch})
    /\ UNCHANGED clock

\* Writes of columns the gate does not read: a recorded part, last_error,
\* removal_error, storage_key, cleanup evidence of an upload that owes none.  The
\* trigger still fires.
TouchUpload(u) ==
    /\ Exists(upload[u])
    /\ RowBecomes(u, upload[u])

\* begin_source_upload_completion, all parts being recorded.
BeginCompletion(u) ==
    /\ u \in Multipart
    /\ upload[u].st \in {"uploading", "completing"}
    /\ RowBecomes(u, [upload[u] EXCEPT !.st = "completing"])

\* set_source_upload_recoverable_error after a failed completion.
RecoverableError(u) ==
    /\ upload[u].st = "completing"
    /\ RowBecomes(u, [upload[u] EXCEPT !.st = "uploading"])

\* Mutant: an abort that also hits finished uploads.
AbortFinished(u) ==
    /\ u \in Multipart
    /\ Exists(upload[u])
    /\ RowBecomes(u, [upload[u] EXCEPT !.st = "aborted"])

\* mark_source_upload_aborted; removed_at stays null.
Abort(u) ==
    /\ u \in Multipart
    /\ Exists(upload[u])
    /\ upload[u].st \notin {"verified", "superseded"}
    /\ RowBecomes(u, [upload[u] EXCEPT !.st = "aborted"])

\* Mutant: a superseded upload may be verified again.
VerifySuperseded(u) ==
    /\ Exists(upload[u])
    /\ u \notin Misdeclared
    /\ LET first == upload[u].verifiedAt = 0
       IN  /\ UploadsBecome([upload EXCEPT ![u].st = "verified",
                                           ![u].verifiedAt = IF first THEN clock + 1 ELSE @],
                            batch, {upload[u].batch})
           /\ clock' = IF first THEN clock + 1 ELSE clock

\* verify_source_upload with the size a HEAD of the object returned.
Verify(u) ==
    /\ Exists(upload[u])
    /\ upload[u].st # "superseded"
    /\ LET good == u \notin Misdeclared
           first == good /\ upload[u].verifiedAt = 0
           row == [upload[u] EXCEPT !.st = IF good THEN "verified" ELSE "size_mismatch",
                                    !.verifiedAt = IF first THEN clock + 1 ELSE @]
       IN  /\ UploadsBecome([upload EXCEPT ![u] = row], batch, {upload[u].batch})
           /\ clock' = IF first THEN clock + 1 ELSE clock

\* Mutant: evidence recorded without the trigger's refresh.
ReportCleanupUnrefreshed(u, gone) ==
    /\ u \in MustClean
    /\ Exists(upload[u])
    /\ gone => upload[u].st \in {"verified", "aborted", "size_mismatch"}
    /\ upload' = [upload EXCEPT ![u].cleaned = gone]
    /\ UNCHANGED <<batch, clock>>

\* record_source_upload_local_cleanup_evidence: the phone reports that its copy
\* is gone, or that it failed to delete it.
ReportCleanup(u, gone) ==
    /\ u \in MustClean
    /\ Exists(upload[u])
    /\ gone => upload[u].st \in {"verified", "aborted", "size_mismatch"}
    /\ RowBecomes(u, [upload[u] EXCEPT !.cleaned = gone])

----------------------------------------------------------------------------
(* Exact-content duplicates.                                                *)

\* Verified rows whose recorded hash is that of content x.
Copies(us, x) ==
    {v \in Uploads : /\ us[v].hashed
                     /\ ContentOf[v] = x
                     /\ us[v].verifiedAt > 0
                     /\ us[v].st \in {"verified", "superseded"}}

IsLatest(us, c, copies) ==
    /\ c \in copies
    /\ \A v \in copies : us[v].verifiedAt <= us[c].verifiedAt

\* The latest verified copy stays or becomes verified, the others superseded.
Resolved(us, c, copies) ==
    [v \in Uploads |->
        CASE v = c -> [us[v] EXCEPT !.st = "verified", !.superseded = FALSE]
          [] v \in copies \ {c} -> [us[v] EXCEPT !.st = "superseded", !.superseded = TRUE]
          [] OTHER -> us[v]]

\* resolve_exact_source_duplicate, called by a pipeline run that hashed u; the
\* HTTP request that created the row is long over by then.
ResolveDuplicate(u) ==
    /\ upload[u].verifiedAt > 0
    /\ upload[u].st \in {"verified", "superseded"}
    /\ LET hashed == [upload EXCEPT ![u].hashed = TRUE, ![u].fresh = FALSE]
           copies == Copies(hashed, ContentOf[u])
       IN  \E c \in Uploads :
              /\ IsLatest(hashed, c, copies)
              /\ UploadsBecome(Resolved(hashed, c, copies), batch,
                               {upload[v].batch : v \in copies})
    /\ UNCHANGED clock

----------------------------------------------------------------------------
(* Running a batch.                                                         *)

\* refresh_upload_batch_state called by itself; the first half of
\* assert_upload_batch_ready, which then only reads.
RefreshBatch(b) ==
    /\ batch' = Refresh(batch, upload, {b})
    /\ UNCHANGED <<upload, clock>>

\* mark_upload_batch_running
MarkRunning(b, r) ==
    /\ batch[b].st = "ready"
    /\ batch' = [batch EXCEPT ![b].st = "running", ![b].run = r]
    /\ UNCHANGED <<upload, clock>>

HeldBy(bt, r) == bt.st = "running" /\ bt.run = r

\* releaseUploadBatchAfterDispatchFailure: the manifest column is not written.
Release(b, r) ==
    /\ HeldBy(batch[b], r)
    /\ batch' = [batch EXCEPT ![b].st = "ready", ![b].run = NoRun]
    /\ UNCHANGED <<upload, clock>>

\* finalize_upload_batch.py, once the run has ended.
Finalize(b, r, outcome) ==
    /\ HeldBy(batch[b], r)
    /\ batch' = [batch EXCEPT ![b].st = outcome]
    /\ UNCHANGED <<upload, clock>>

\* prepare_upload_batch_rerun: recount, then lock for run r whatever the state.
\* That the run holding the batch has ended is the business of its caller.
PrepareRerun(b, r) ==
    /\ batch[b].st # "none"
    /\ Complete(batch[b], upload, b)
    /\ batch' = [batch EXCEPT ![b].st = "running", ![b].run = r,
                              ![b].manifest = Admitted(upload, b)]
    /\ UNCHANGED <<upload, clock>>

----------------------------------------------------------------------------
(* Clean Video Storage.                                                     *)

ActiveUploadStates == {"uploading", "completing", "verified", "superseded", "size_mismatch"}
ActiveBatchStates == {"collecting", "uploading", "ready", "running"}

\* neutralize_active_video_state: batches first, then uploads, whose trigger
\* refreshes their batches.  A running batch may have outlived the 7 hours
\* after which it no longer blocks the clean.
Neutralize ==
    LET cancelled == [b \in Batches |->
            IF batch[b].st \in ActiveBatchStates
              THEN [batch[b] EXCEPT !.st = "cancelled", !.manifest = {}]
              ELSE batch[b]]
        hit == {u \in Uploads : upload[u].st \in ActiveUploadStates}
    IN  /\ UploadsBecome(
             [u \in Uploads |->
                IF u \in hit THEN [upload[u] EXCEPT !.st = "aborted", !.removed = TRUE]
                             ELSE upload[u]],
             cancelled, {upload[u].batch : u \in hit})
        /\ UNCHANGED clock

----------------------------------------------------------------------------
UploadStep(u) ==
    \/ \E b \in Batches : CheckSeal(u, b)
    \/ InsertUpload(u)
    \/ \E own \in BOOLEAN : RegisterMembership(u, own)
    \/ DeleteAfterSetupFailure(u)
    \/ TouchUpload(u)
    \/ BeginCompletion(u)
    \/ RecoverableError(u)
    \/ Abort(u)
    \/ Verify(u)
    \/ \E gone \in BOOLEAN : ReportCleanup(u, gone)
    \/ ResolveDuplicate(u)

BatchStep(b) ==
    \/ \E n \in 1..MaxFiles, refreshed \in BOOLEAN : RegisterBatch(b, n, refreshed)
    \/ RefreshBatch(b)
    \/ \E r \in Runs : MarkRunning(b, r)
    \/ \E r \in Runs : Release(b, r)
    \/ \E r \in Runs, outcome \in {"completed", "failed"} : Finalize(b, r, outcome)
    \/ \E r \in Runs : PrepareRerun(b, r)

Next ==
    \/ \E u \in Uploads : UploadStep(u)
    \/ \E b \in Batches : BatchStep(b)
    \/ Neutralize

Spec == Init /\ [][Next]_vars

----------------------------------------------------------------------------
(* Properties.                                                              *)

\* Every row has the columns of its table: uploads a state, a batch and a
\* timestamps, batches a state, a count, a manifest and a run.
TypeOK ==
    /\ upload \in [Uploads -> UploadRow]
    /\ batch \in [Batches -> BatchRow]
    /\ clock \in Nat

\* A stored manifest is never stale: whatever was removed, superseded, aborted,
\* re-verified or still owed a phone cleanup since it was written, a batch that
\* holds a manifest holds exactly its admitted files, as many as were intended
\* (refresh_upload_batch_state through the source_uploads trigger, and
\* prepare_upload_batch_rerun).
ManifestIsCurrent ==
    \A b \in Batches : batch[b].manifest # {} =>
        /\ batch[b].manifest = Admitted(upload, b)
        /\ Cardinality(batch[b].manifest) = batch[b].expected
        /\ CleanupOwed(upload, b) = {}

\* A batch that still takes files, or was cancelled by Clean Video Storage, has
\* no manifest a run could be started from.
OpenHasNoManifest ==
    \A b \in Batches :
        batch[b].st \in OpenStates \cup {"cancelled"} => batch[b].manifest = {}

\* The gate opens by itself: a batch never waits in "uploading" when all its
\* intended files are verified and their phone copies accounted for, in whatever
\* order verification, cleanup evidence and de-duplication arrived.
GateOpensWhenComplete ==
    \A b \in Batches : batch[b].st = "uploading" => ~Complete(batch[b], upload, b)

\* De-duplication never loses the footage: whenever a row is superseded, a later
\* verified row with the same bytes is still there (resolve_exact_source_duplicate
\* in any order, over batches, with re-verifications and aborts in between).
DedupKeepsContent ==
    \A u \in Uploads : upload[u].st = "superseded" =>
        \E v \in Uploads : /\ upload[v].st = "verified"
                           /\ ContentOf[v] = ContentOf[u]
                           /\ upload[v].hashed
                           /\ upload[v].verifiedAt > upload[u].verifiedAt

\* At most one row of each hashed content remains in use.
DedupIsUnique ==
    \A u, v \in Uploads :
        /\ upload[u].st = "verified" /\ upload[u].hashed /\ ~upload[u].removed
        /\ upload[v].st = "verified" /\ upload[v].hashed /\ ~upload[v].removed
        /\ ContentOf[u] = ContentOf[v]
        => u = v

\* Rows of a batch whose insert the trigger has let through and that are not committed.
InFlight(us, b) == {u \in Uploads : us[u].st = "inserting" /\ us[u].batch = b}

\* A sealed batch (ready, running, completed, failed or cancelled) lets no further
\* insert through and keeps its intended count, however uploads and registrations
\* race with the run.  An insert it had let through before it was sealed may still
\* commit, and then takes the manifest back, so that no run is started from it or
\* admitted with it.  A completed or cancelled batch leaves its state only for an
\* explicit rerun.
SealedStep ==
    \A b \in Batches : batch[b].st \notin OpenStates =>
        LET late == RowsOf(upload', b) \ RowsOf(upload, b)
        IN  /\ late \subseteq InFlight(upload, b)
            /\ InFlight(upload', b) \subseteq InFlight(upload, b)
            /\ late # {} => batch'[b].st # "ready" /\ batch'[b].manifest = {}
            /\ batch'[b].expected = batch[b].expected
            /\ batch[b].st \in {"completed", "cancelled"} =>
                 batch'[b].st \in {batch[b].st, "running"}

SealedGainsOnlyLateFiles == [][SealedStep]_vars

\* Claimed by 20261006_seal_ready_upload_batches.sql:1-3: a sealed batch's "frozen
\* inputs may not change"; it gains no file.
SealedGainsNoFile ==
    [][\A b \in Batches : batch[b].st \notin OpenStates =>
          RowsOf(upload', b) \subseteq RowsOf(upload, b)]_vars

\* Claimed by 20261006_seal_ready_upload_batches.sql:1-2: a failed batch is sealed, so
\* (clean apart) it does not go back to taking files.
FailedStaysSealed ==
    [][~Neutralize =>
          \A b \in Batches :
             batch[b].st = "failed" => batch'[b].st \notin OpenStates]_vars
=============================================================================
