----------------------- MODULE UploadBatchRefinement ------------------------
(***************************************************************************)
(* UploadBatch implements BatchLock: forget the uploads, keep of each batch *)
(* the lock and the input set its uploads add up to.                        *)
(***************************************************************************)
EXTENDS UploadBatch

LockOf(b) ==
    [st |-> IF batch[b].st \in {"collecting", "uploading"} THEN "open" ELSE batch[b].st,
     run |-> batch[b].run,
     manifest |-> batch[b].manifest,
     inputs |-> IF batch[b].st # "none" /\ Complete(batch[b], upload, b)
                  THEN Admitted(upload, b) ELSE {}]

\* One lock for each batch id
Locks == [b \in Batches |-> LockOf(b)]

BL == INSTANCE BatchLock WITH
    InputSets <- SUBSET Uploads,
    NoInputs <- {},
    lock <- Locks

\* Whatever the phones, the pipeline and the cleaner do to single uploads, a batch
\* behaves as the lock that the start, reset and retry routes rely on.
ImplementsBatchLock == BL!LockSpec
=============================================================================
