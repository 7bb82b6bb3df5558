------------------------- MODULE UploadBatchProofs -------------------------
(***************************************************************************)
(* Proofs about UploadBatch, for any number of uploads, batches and runs.   *)
(*                                                                         *)
(* RowOK is what one batch row owes to the uploads: every row the refresh   *)
(* function writes satisfies it (RefreshedRowOK), and it survives writes    *)
(* to the uploads of other batches (FramedRowOK).  A transaction that       *)
(* writes uploads refreshes every batch it touches, so it re-establishes    *)
(* RowOK for all of them (UploadsBecomeRowOK).                              *)
(***************************************************************************)
EXTENDS UploadBatchRefinement, FiniteSetTheorems, TLAPS

RowOK(us, bt, b) ==
    /\ bt.manifest # {} =>
         /\ bt.manifest = Admitted(us, b)
         /\ Cardinality(bt.manifest) = bt.expected
         /\ CleanupOwed(us, b) = {}
    /\ bt.st \in OpenStates \cup {"cancelled"} => bt.manifest = {}
    /\ bt.st = "uploading" => ~Complete(bt, us, b)

Placed(us) ==
    \A u \in Uploads : IF us[u].st = "absent" THEN us[u].batch = NoBatch
                                              ELSE us[u].batch \in Batches

GateInv ==
    /\ TypeOK
    /\ Placed(upload)
    /\ \A b \in Batches : RowOK(upload, batch[b], b)

\* Only rows that are or come to be in a batch of B differ, and rows not committed.
Framed(us1, us2, B) ==
    \A u \in Uploads : \/ us2[u] = us1[u]
                       \/ ~Exists(us1[u]) /\ ~Exists(us2[u])
                       \/ us1[u].batch \in B \cup {NoBatch} /\ us2[u].batch \in B

----------------------------------------------------------------------------
\* A refreshed batch row keeps the type of its table.
LEMMA RefreshedType ==
    ASSUME NEW us \in [Uploads -> UploadRow], NEW b \in Batches,
           NEW bt \in BatchRow
    PROVE  /\ NextBatchState(bt, us, b) \in BatchStates
           /\ Refreshed(bt, us, b) \in BatchRow
           /\ Refreshed(bt, us, b).st = NextBatchState(bt, us, b)
           /\ Refreshed(bt, us, b).expected = bt.expected
           /\ Refreshed(bt, us, b).run = bt.run
           /\ Refreshed(bt, us, b).manifest =
                IF NextBatchState(bt, us, b) = "ready" THEN Admitted(us, b) ELSE {}
<1>1. NextBatchState(bt, us, b) \in BatchStates
  BY DEF NextBatchState, BatchStates
<1>2. Admitted(us, b) \in SUBSET Uploads
  BY DEF Admitted, Live
<1> QED
  BY <1>1, <1>2 DEF Refreshed, BatchRow

\* A refreshed batch row is current for the uploads it was computed from.
LEMMA RefreshedRowOK ==
    ASSUME NEW us \in [Uploads -> UploadRow], NEW b \in Batches,
           NEW bt \in BatchRow, bt.st # "none"
    PROVE  RowOK(us, Refreshed(bt, us, b), b)
<1> DEFINE new == Refreshed(bt, us, b)
<1>1. /\ new.st = NextBatchState(bt, us, b)
      /\ new.expected = bt.expected
      /\ new.manifest = IF NextBatchState(bt, us, b) = "ready" THEN Admitted(us, b) ELSE {}
  BY RefreshedType
<1>2. Complete(new, us, b) <=> Complete(bt, us, b)
  BY <1>1 DEF Complete
<1>3. NextBatchState(bt, us, b) = "ready" => Complete(bt, us, b)
  BY DEF NextBatchState
<1>4. NextBatchState(bt, us, b) = "uploading" => ~Complete(bt, us, b)
  BY DEF NextBatchState
<1> HIDE DEF new
<1>5. RowOK(us, new, b)
  BY <1>1, <1>2, <1>3, <1>4 DEF RowOK, Complete, OpenStates
<1> QED
  BY <1>5 DEF new

\* A batch row stays current while its live uploads do not change.
LEMMA FramedRowOK ==
    ASSUME NEW us1 \in [Uploads -> UploadRow], NEW us2 \in [Uploads -> UploadRow],
           NEW B, NEW b \in Batches, NEW bt,
           b \notin B, Framed(us1, us2, B), RowOK(us1, bt, b)
    PROVE  RowOK(us2, bt, b)
<1>1. b # NoBatch
  BY ConstantsAssumption
<1>2. \A u \in Uploads : \/ us2[u] = us1[u]
                         \/ us1[u].batch # b /\ us2[u].batch # b
                         \/ ~Exists(us1[u]) /\ ~Exists(us2[u])
  BY <1>1 DEF Framed
<1>3. Live(us2, b) = Live(us1, b)
  BY <1>2 DEF Live
<1>4. Admitted(us2, b) = Admitted(us1, b)
  BY <1>2, <1>3 DEF Admitted, Live
<1>5. CleanupOwed(us2, b) = CleanupOwed(us1, b)
  BY <1>2, <1>3 DEF CleanupOwed, Live
<1>6. Complete(bt, us2, b) <=> Complete(bt, us1, b)
  BY <1>3, <1>4, <1>5 DEF Complete
<1> QED
  BY <1>4, <1>5, <1>6 DEF RowOK

\* The heart of the argument: a transaction that refreshes every batch it
\* touches leaves every row as it should be.
LEMMA UploadsBecomeRowOK ==
    ASSUME NEW us \in [Uploads -> UploadRow], NEW bs \in [Batches -> BatchRow], NEW B,
           upload \in [Uploads -> UploadRow],
           Framed(upload, us, B),
           \A b \in Batches : bs[b].st = "none" => bs[b].manifest = {},
           \A b \in Batches \ B : RowOK(upload, bs[b], b),
           UploadsBecome(us, bs, B)
    PROVE  /\ upload' = us
           /\ batch' \in [Batches -> BatchRow]
           /\ \A b \in Batches : RowOK(upload', batch'[b], b)
<1>1. upload' = us /\ batch' = Refresh(bs, us, B)
  BY DEF UploadsBecome
<1>2. ASSUME NEW b \in Batches
      PROVE  batch'[b] \in BatchRow /\ RowOK(us, batch'[b], b)
  <2>1. CASE b \in B /\ bs[b].st # "none"
    <3>1. batch'[b] = Refreshed(bs[b], us, b)
      BY <1>1, <2>1 DEF Refresh
    <3> QED
      BY <2>1, <3>1, RefreshedType, RefreshedRowOK
  <2>2. CASE ~(b \in B /\ bs[b].st # "none")
    <3>1. batch'[b] = bs[b]
      BY <1>1, <2>2 DEF Refresh
    <3>2. CASE b \in B
      BY <2>2, <3>1, <3>2 DEF RowOK
    <3>3. CASE b \notin B
      <4>1. RowOK(upload, bs[b], b)
        BY <3>3
      <4> QED
        BY <3>1, <3>3, <4>1, FramedRowOK
    <3> QED
      BY <3>2, <3>3
  <2> QED
    BY <2>1, <2>2
<1> QED
  BY <1>1, <1>2 DEF Refresh

----------------------------------------------------------------------------
\* The parts of GateInv, ready to be cited.
LEMMA Unpacked ==
    ASSUME GateInv
    PROVE  /\ upload \in [Uploads -> UploadRow]
           /\ batch \in [Batches -> BatchRow]
           /\ clock \in Nat
           /\ Placed(upload)
           /\ \A b \in Batches : RowOK(upload, batch[b], b)
           /\ \A b \in Batches : batch[b].st = "none" => batch[b].manifest = {}
  BY DEF GateInv, TypeOK, RowOK, OpenStates

\* A transaction that writes one row, possibly its batch too, and refreshes that
\* batch keeps GateInv.
LEMMA RowWrite ==
    ASSUME GateInv, NEW u \in Uploads, NEW row \in UploadRow, NEW b \in Batches,
           NEW bs \in [Batches -> BatchRow],
           row.st # "absent", row.batch = b,
           upload[u].batch \in {b, NoBatch},
           \A c \in Batches \ {b} : bs[c] = batch[c],
           bs[b].st = "none" => bs[b].manifest = {},
           UploadsBecome([upload EXCEPT ![u] = row], bs, {b}),
           clock' \in Nat
    PROVE  GateInv'
<1> DEFINE us == [upload EXCEPT ![u] = row]
<1>1. upload \in [Uploads -> UploadRow] /\ Placed(upload)
  BY Unpacked
<1>2. /\ us \in [Uploads -> UploadRow]
      /\ Framed(upload, us, {b})
      /\ Placed(us)
  BY <1>1 DEF Framed, Placed
<1>3. UploadsBecome(us, bs, {b})
  OBVIOUS
<1>4. \A c \in Batches : bs[c].st = "none" => bs[c].manifest = {}
  BY Unpacked
<1>5. \A c \in Batches \ {b} : RowOK(upload, bs[c], c)
  BY Unpacked
<1> HIDE DEF us
<1>6. /\ upload' = us
      /\ batch' \in [Batches -> BatchRow]
      /\ \A c \in Batches : RowOK(upload', batch'[c], c)
  BY <1>1, <1>2, <1>3, <1>4, <1>5, UploadsBecomeRowOK
<1> QED
  BY <1>2, <1>6 DEF GateInv, TypeOK

\* The same when only the upload row is written.
LEMMA RowUpdate ==
    ASSUME GateInv, NEW u \in Uploads, NEW row \in UploadRow,
           Exists(upload[u]), row.st # "absent", row.batch = upload[u].batch,
           UploadsBecome([upload EXCEPT ![u] = row], batch, {upload[u].batch}),
           clock' \in Nat
    PROVE  GateInv'
<1>1. upload[u].batch \in Batches
  BY Unpacked DEF Placed, Exists
<1>2. /\ batch \in [Batches -> BatchRow]
      /\ batch[upload[u].batch].st = "none" => batch[upload[u].batch].manifest = {}
  BY Unpacked, <1>1
<1> QED
  BY <1>1, <1>2, RowWrite

\* A transaction that writes only batch b keeps GateInv if the row it leaves is.
LEMMA BatchWrite ==
    ASSUME GateInv, NEW b \in Batches, NEW row \in BatchRow,
           RowOK(upload, row, b),
           batch' = [batch EXCEPT ![b] = row], UNCHANGED <<upload, clock>>
    PROVE  GateInv'
<1>1. /\ upload' = upload
      /\ clock' = clock
      /\ batch' \in [Batches -> BatchRow]
      /\ \A c \in Batches : RowOK(upload, batch'[c], c)
  BY Unpacked
<1> QED
  BY <1>1 DEF GateInv, TypeOK

\* A row just registered is well formed and holds no manifest.
LEMMA RegisteredRow ==
    ASSUME NEW us, NEW b \in Batches, NEW bt \in BatchRow, NEW n \in Nat
    PROVE  /\ Registered(bt, n) \in BatchRow
           /\ Registered(bt, n).st = "collecting"
           /\ Registered(bt, n).manifest = {}
           /\ Registered(bt, n).expected = bt.expected + n
           /\ RowOK(us, Registered(bt, n), b)
<1>1. /\ Registered(bt, n) \in BatchRow
      /\ Registered(bt, n).st = "collecting"
      /\ Registered(bt, n).manifest = {}
      /\ Registered(bt, n).expected = bt.expected + n
  BY DEF Registered, BatchRow, BatchStates
<1> QED
  BY <1>1 DEF RowOK

----------------------------------------------------------------------------
(* Every action keeps GateInv.                                              *)

\* An insert that the trigger lets through changes no row that counts.
LEMMA CheckSealGate ==
    ASSUME GateInv, NEW u \in Uploads, NEW b \in Batches, CheckSeal(u, b)
    PROVE  /\ GateInv'
           /\ Framed(upload, upload', {})
           /\ upload' \in [Uploads -> UploadRow]
           /\ batch' = batch
<1> DEFINE row == [NoUpload EXCEPT !.st = "inserting", !.batch = b]
<1>1. /\ row \in UploadRow /\ row.batch = b /\ row.st = "inserting"
      /\ upload[u].st = "absent" /\ upload' = [upload EXCEPT ![u] = row]
      /\ batch' = batch /\ clock' = clock
  BY DEF CheckSeal, InsertBegins, NoUpload, UploadRow, UploadStates
<1> HIDE DEF row
<1>2. upload' \in [Uploads -> UploadRow] /\ Placed(upload')
  BY <1>1, Unpacked DEF Placed
<1>3. Framed(upload, upload', {})
  BY <1>1, Unpacked DEF Framed, Exists
<1>4. \A c \in Batches : RowOK(upload', batch'[c], c)
  BY <1>1, <1>2, <1>3, Unpacked, FramedRowOK
<1> QED
  BY <1>1, <1>2, <1>3, <1>4, Unpacked DEF GateInv, TypeOK

\* A start request that inserts its row keeps GateInv.
LEMMA InsertUploadGate ==
    ASSUME GateInv, NEW u \in Uploads, InsertUpload(u)
    PROVE  GateInv'
<1> DEFINE b == upload[u].batch
           row == [NoUpload EXCEPT !.st = "uploading", !.batch = b,
                                   !.fresh = u \notin Multipart]
<1>1. b \in Batches
  BY Unpacked DEF InsertUpload, Placed
<1>2. row \in UploadRow /\ row.batch = b /\ row.st = "uploading"
  BY <1>1 DEF NoUpload, UploadRow, UploadStates
<1>3. UploadsBecome([upload EXCEPT ![u] = row], batch, {b}) /\ clock' \in Nat
  BY Unpacked DEF InsertUpload
<1> HIDE DEF row
<1> QED
  BY <1>1, <1>2, <1>3, Unpacked, RowWrite

\* Registering membership, with or without an enlargement, keeps GateInv.
LEMMA RegisterMembershipGate ==
    ASSUME GateInv, NEW u \in Uploads, NEW own \in BOOLEAN, RegisterMembership(u, own)
    PROVE  GateInv'
<1> DEFINE b == upload[u].batch
           rows == Cardinality(RowsOf(upload, b))
           n == rows - batch[b].expected
           reserve == ~upload[u].member /\ rows > batch[b].expected
           row == [upload[u] EXCEPT !.member = TRUE, !.fresh = @ /\ ~own]
           bs == IF reserve THEN [batch EXCEPT ![b] = Registered(@, n)] ELSE batch
<1>1. b \in Batches /\ upload[u].st # "absent" /\ upload[u] \in UploadRow
  BY Unpacked DEF RegisterMembership, Placed, Exists
<1>2. row \in UploadRow /\ row.batch = b /\ row.st = upload[u].st
  BY <1>1 DEF UploadRow
<1>3. rows \in Nat
  <2>1. RowsOf(upload, b) \subseteq Uploads
    BY DEF RowsOf
  <2> QED
    BY <2>1, FS_Subset, FS_CardinalityType, ConstantsAssumption
<1>4. batch[b] \in BatchRow /\ batch[b].expected \in Nat
  BY <1>1, Unpacked DEF BatchRow
<1>5. /\ bs \in [Batches -> BatchRow]
      /\ \A c \in Batches \ {b} : bs[c] = batch[c]
      /\ bs[b].st = "none" => bs[b].manifest = {}
  <2>1. CASE reserve
    <3>1. n \in Nat
      BY <1>3, <1>4, <2>1
    <3> DEFINE reg == Registered(batch[b], n)
    <3>2. reg \in BatchRow /\ reg.manifest = {}
      BY <1>1, <1>4, <3>1, RegisteredRow
    <3>3. bs = [batch EXCEPT ![b] = reg]
      BY <2>1
    <3> HIDE DEF bs, b, n, reg
    <3> QED
      BY <1>1, <3>2, <3>3, Unpacked
  <2>2. CASE ~reserve
    BY <1>1, <2>2, Unpacked
  <2> QED
    BY <2>1, <2>2
<1>6. UploadsBecome([upload EXCEPT ![u] = row], bs, {b}) /\ clock' \in Nat
  BY Unpacked DEF RegisterMembership
<1>7. upload[u].batch = b
  OBVIOUS
<1> HIDE DEF row, bs, b
<1> QED
  BY <1>1, <1>2, <1>5, <1>6, <1>7, RowWrite

\* Taking a row back after a failed setup keeps GateInv.
LEMMA DeleteAfterSetupFailureGate ==
    ASSUME GateInv, NEW u \in Uploads, DeleteAfterSetupFailure(u)
    PROVE  GateInv'
<1> DEFINE row == [upload[u] EXCEPT !.st = "deleted"]
<1>1. row \in UploadRow /\ row.batch = upload[u].batch /\ row.st = "deleted"
  BY Unpacked DEF UploadRow, UploadStates
<1>2. UploadsBecome([upload EXCEPT ![u] = row], batch, {upload[u].batch}) /\ clock' \in Nat
  BY Unpacked DEF DeleteAfterSetupFailure
<1>3. Exists(upload[u])
  BY DEF DeleteAfterSetupFailure
<1> HIDE DEF row
<1> QED
  BY <1>1, <1>2, <1>3, RowUpdate

\* A single write to one upload row keeps GateInv.
LEMMA RowBecomesGate ==
    ASSUME GateInv, NEW u \in Uploads, NEW row \in UploadRow, Exists(upload[u]),
           row.st # "absent", row.batch = upload[u].batch, RowBecomes(u, row)
    PROVE  GateInv'
<1>1. UploadsBecome([upload EXCEPT ![u] = row], batch, {upload[u].batch}) /\ clock' \in Nat
  BY Unpacked DEF RowBecomes
<1> QED
  BY <1>1, RowUpdate

\* The actions that are one RowBecomes.
LEMMA ColumnUpdatesGate ==
    ASSUME GateInv, NEW u \in Uploads, NEW gone \in BOOLEAN,
           \/ TouchUpload(u)
           \/ BeginCompletion(u)
           \/ RecoverableError(u)
           \/ Abort(u)
           \/ ReportCleanup(u, gone)
    PROVE  GateInv'
<1>1. upload[u] \in UploadRow
  BY Unpacked
<1>2. CASE TouchUpload(u)
  BY <1>1, <1>2, RowBecomesGate DEF TouchUpload, Exists
<1>3. CASE BeginCompletion(u)
  <2>1. [upload[u] EXCEPT !.st = "completing"] \in UploadRow
    BY <1>1 DEF UploadRow, UploadStates
  <2> QED
    BY <1>1, <1>3, <2>1, RowBecomesGate DEF BeginCompletion, Exists, UploadRow
<1>4. CASE RecoverableError(u)
  <2>1. [upload[u] EXCEPT !.st = "uploading"] \in UploadRow
    BY <1>1 DEF UploadRow, UploadStates
  <2> QED
    BY <1>1, <1>4, <2>1, RowBecomesGate DEF RecoverableError, Exists, UploadRow
<1>5. CASE Abort(u)
  <2>1. [upload[u] EXCEPT !.st = "aborted"] \in UploadRow
    BY <1>1 DEF UploadRow, UploadStates
  <2> QED
    BY <1>1, <1>5, <2>1, RowBecomesGate DEF Abort, UploadRow
<1>6. CASE ReportCleanup(u, gone)
  <2>1. [upload[u] EXCEPT !.cleaned = gone] \in UploadRow
    BY <1>1 DEF UploadRow
  <2> QED
    BY <1>1, <1>6, <2>1, RowBecomesGate DEF ReportCleanup, Exists, UploadRow
<1> QED
  BY <1>2, <1>3, <1>4, <1>5, <1>6

\* Verification, matching or not, keeps GateInv.
LEMMA VerifyGate ==
    ASSUME GateInv, NEW u \in Uploads, Verify(u)
    PROVE  GateInv'
<1> DEFINE good == u \notin Misdeclared
           first == good /\ upload[u].verifiedAt = 0
           row == [upload[u] EXCEPT !.st = IF good THEN "verified" ELSE "size_mismatch",
                                    !.verifiedAt = IF first THEN clock + 1 ELSE @]
<1>1. upload[u] \in UploadRow /\ clock \in Nat
  BY Unpacked
<1>2. row \in UploadRow /\ row.batch = upload[u].batch /\ row.st # "absent"
  <2>1. (IF first THEN clock + 1 ELSE upload[u].verifiedAt) \in Nat
    BY <1>1 DEF UploadRow
  <2>2. (IF good THEN "verified" ELSE "size_mismatch") \in UploadStates \ {"absent"}
    BY DEF UploadStates
  <2> QED
    BY <1>1, <2>1, <2>2 DEF UploadRow
<1>3. UploadsBecome([upload EXCEPT ![u] = row], batch, {upload[u].batch})
  BY DEF Verify
<1>4. clock' \in Nat
  BY <1>1 DEF Verify
<1>5. Exists(upload[u])
  BY DEF Verify
<1> HIDE DEF row
<1> QED
  BY <1>2, <1>3, <1>4, <1>5, RowUpdate

\* De-duplication over several batches keeps GateInv.
LEMMA ResolveDuplicateGate ==
    ASSUME GateInv, NEW u \in Uploads, ResolveDuplicate(u)
    PROVE  GateInv'
<1> DEFINE hashed == [upload EXCEPT ![u].hashed = TRUE, ![u].fresh = FALSE]
           copies == Copies(hashed, ContentOf[u])
           B == {upload[v].batch : v \in copies}
<1>1. PICK c \in Uploads :
        IsLatest(hashed, c, copies) /\ UploadsBecome(Resolved(hashed, c, copies), batch, B)
  BY DEF ResolveDuplicate
<1> DEFINE us == Resolved(hashed, c, copies)
<1>2. upload \in [Uploads -> UploadRow] /\ Placed(upload) /\ clock' \in Nat
  BY Unpacked DEF ResolveDuplicate
<1>3. /\ hashed \in [Uploads -> UploadRow]
      /\ \A v \in Uploads : /\ hashed[v].batch = upload[v].batch
                            /\ hashed[v].st = upload[v].st
                            /\ hashed[v].verifiedAt = upload[v].verifiedAt
                            /\ v # u => hashed[v] = upload[v]
      /\ hashed[u].hashed
  BY <1>2 DEF UploadRow
<1>4. u \in copies /\ copies \subseteq Uploads /\ c \in copies
  BY <1>1, <1>3 DEF Copies, ResolveDuplicate, IsLatest
<1> HIDE DEF hashed, copies
<1>5. us \in [Uploads -> UploadRow]
  <2>1. ASSUME NEW v \in Uploads PROVE us[v] \in UploadRow
    <3>1. hashed[v] \in UploadRow
      BY <1>3
    <3>2. [hashed[v] EXCEPT !.st = "verified", !.superseded = FALSE] \in UploadRow
      BY <3>1 DEF UploadRow, UploadStates
    <3>3. [hashed[v] EXCEPT !.st = "superseded", !.superseded = TRUE] \in UploadRow
      BY <3>1 DEF UploadRow, UploadStates
    <3> QED
      BY <3>1, <3>2, <3>3 DEF Resolved
  <2> QED
    BY <2>1 DEF Resolved
<1>6. \A v \in Uploads : us[v].batch = upload[v].batch
  BY <1>3 DEF Resolved, UploadRow
<1>7. \A v \in Uploads \ copies : us[v] = upload[v]
  BY <1>3, <1>4 DEF Resolved
<1>8. \A v \in Uploads : v \in copies => us[v].st # "absent" /\ upload[v].st # "absent"
  BY <1>1, <1>3, <1>4 DEF Resolved, Copies, UploadRow, copies
<1> HIDE DEF us
<1>9. Framed(upload, us, B)
  BY <1>6, <1>7 DEF Framed
<1>10. Placed(us)
  BY <1>2, <1>6, <1>7, <1>8 DEF Placed
<1>11. UploadsBecome(us, batch, B)
  BY <1>1 DEF us
<1> HIDE DEF B
<1>12. /\ upload' = us
       /\ batch' \in [Batches -> BatchRow]
       /\ \A b \in Batches : RowOK(upload', batch'[b], b)
  BY <1>2, <1>5, <1>9, <1>11, Unpacked, UploadsBecomeRowOK
<1> QED
  BY <1>2, <1>5, <1>10, <1>12 DEF GateInv, TypeOK

\* A batch row that is written and refreshed in one transaction keeps GateInv.
LEMMA RefreshOneGate ==
    ASSUME GateInv, NEW b \in Batches, NEW row \in BatchRow, row.st # "none",
           batch' = Refresh([batch EXCEPT ![b] = row], upload, {b}),
           UNCHANGED <<upload, clock>>
    PROVE  GateInv'
<1> DEFINE new == Refreshed(row, upload, b)
<1>1. new \in BatchRow /\ RowOK(upload, new, b)
  BY Unpacked, RefreshedType, RefreshedRowOK
<1>2. batch' = [batch EXCEPT ![b] = new]
  BY Unpacked DEF Refresh
<1> HIDE DEF new
<1> QED
  BY <1>1, <1>2, BatchWrite

\* A registration, refreshed or not, keeps GateInv.
LEMMA RegisterBatchGate ==
    ASSUME GateInv, NEW b \in Batches, NEW n \in Nat, NEW refreshed \in BOOLEAN,
           RegisterBatch(b, n, refreshed)
    PROVE  GateInv'
<1> DEFINE row == Registered(batch[b], n)
<1>1. row \in BatchRow /\ row.st # "none" /\ RowOK(upload, row, b)
  BY Unpacked, RegisteredRow
<1>2. CASE refreshed
  <2>1. batch' = Refresh([batch EXCEPT ![b] = row], upload, {b}) /\ UNCHANGED <<upload, clock>>
    BY <1>2 DEF RegisterBatch
  <2> HIDE DEF row
  <2> QED
    BY <1>1, <2>1, RefreshOneGate
<1>3. CASE ~refreshed
  <2>1. batch' = [batch EXCEPT ![b] = row] /\ UNCHANGED <<upload, clock>>
    BY <1>3 DEF RegisterBatch
  <2> HIDE DEF row
  <2> QED
    BY <1>1, <2>1, BatchWrite
<1> QED
  BY <1>2, <1>3

\* refresh_upload_batch_state called by itself keeps GateInv.
LEMMA RefreshBatchGate ==
    ASSUME GateInv, NEW b \in Batches, RefreshBatch(b)
    PROVE  GateInv'
<1>1. batch' = Refresh(batch, upload, {b}) /\ UNCHANGED <<upload, clock>>
  BY DEF RefreshBatch
<1>2. CASE batch[b].st = "none"
  <2>1. batch' = batch
    BY <1>1, <1>2, Unpacked DEF Refresh
  <2> QED
    BY <1>1, <2>1 DEF GateInv, TypeOK, RowOK, Complete
<1>3. CASE batch[b].st # "none"
  <2>1. [batch EXCEPT ![b] = batch[b]] = batch /\ batch[b] \in BatchRow
    BY Unpacked
  <2> QED
    BY <1>1, <1>3, <2>1, RefreshOneGate
<1> QED
  BY <1>2, <1>3

\* A batch that takes a state outside the open ones and keeps its manifest.
LEMMA StateChangeGate ==
    ASSUME GateInv, NEW b \in Batches, NEW st \in BatchStates, NEW r \in Runs \cup {NoRun},
           st \notin OpenStates \cup {"cancelled"},
           batch' = [batch EXCEPT ![b].st = st, ![b].run = r],
           UNCHANGED <<upload, clock>>
    PROVE  GateInv'
<1> DEFINE row == [batch[b] EXCEPT !.st = st, !.run = r]
<1>1. batch[b] \in BatchRow /\ RowOK(upload, batch[b], b)
  BY Unpacked
<1>2. /\ row \in BatchRow
      /\ row.st = st /\ row.expected = batch[b].expected
      /\ row.manifest = batch[b].manifest
  BY <1>1 DEF BatchRow
<1>3. batch' = [batch EXCEPT ![b] = row]
  BY Unpacked
<1> HIDE DEF row
<1>4. RowOK(upload, row, b)
  BY <1>1, <1>2 DEF RowOK, OpenStates
<1> QED
  BY <1>2, <1>3, <1>4, BatchWrite

\* Locking, releasing and closing a batch keep GateInv.
LEMMA RunActionsGate ==
    ASSUME GateInv, NEW b \in Batches, NEW r \in Runs,
           NEW outcome \in {"completed", "failed"},
           MarkRunning(b, r) \/ Release(b, r) \/ Finalize(b, r, outcome)
    PROVE  GateInv'
<1> USE DEF BatchStates, OpenStates
<1>1. CASE MarkRunning(b, r)
  BY <1>1, StateChangeGate DEF MarkRunning
<1>2. CASE Release(b, r)
  BY <1>2, StateChangeGate DEF Release
<1>3. CASE Finalize(b, r, outcome)
  <2>1. batch[b].run \in Runs \cup {NoRun}
    BY Unpacked DEF BatchRow
  <2>2. batch' = [batch EXCEPT ![b].st = outcome, ![b].run = batch[b].run]
    BY <1>3, Unpacked DEF Finalize, BatchRow
  <2>3. UNCHANGED <<upload, clock>>
    BY <1>3 DEF Finalize
  <2> QED
    BY <2>1, <2>2, <2>3, StateChangeGate
<1> QED
  BY <1>1, <1>2, <1>3

\* A rerun, which recounts and locks, keeps GateInv.
LEMMA PrepareRerunGate ==
    ASSUME GateInv, NEW b \in Batches, NEW r \in Runs, PrepareRerun(b, r)
    PROVE  GateInv'
<1> DEFINE row == [batch[b] EXCEPT !.st = "running", !.run = r,
                                   !.manifest = Admitted(upload, b)]
<1>1. batch[b] \in BatchRow /\ Admitted(upload, b) \in SUBSET Uploads
  BY Unpacked DEF Admitted, Live
<1>2. /\ row \in BatchRow
      /\ row.st = "running" /\ row.expected = batch[b].expected
      /\ row.manifest = Admitted(upload, b)
  BY <1>1 DEF BatchRow, BatchStates
<1>3. batch' = [batch EXCEPT ![b] = row] /\ UNCHANGED <<upload, clock>>
  BY Unpacked DEF PrepareRerun
<1> HIDE DEF row
<1>4. RowOK(upload, row, b)
  BY <1>2 DEF RowOK, OpenStates, PrepareRerun, Complete
<1> QED
  BY <1>2, <1>3, <1>4, BatchWrite

\* Clean Video Storage keeps GateInv.
LEMMA NeutralizeGate ==
    ASSUME GateInv, Neutralize
    PROVE  GateInv'
<1> DEFINE bs == [b \in Batches |->
                    IF batch[b].st \in ActiveBatchStates
                      THEN [batch[b] EXCEPT !.st = "cancelled", !.manifest = {}]
                      ELSE batch[b]]
           hit == {u \in Uploads : upload[u].st \in ActiveUploadStates}
           us == [u \in Uploads |->
                    IF u \in hit THEN [upload[u] EXCEPT !.st = "aborted", !.removed = TRUE]
                                 ELSE upload[u]]
           B == {upload[u].batch : u \in hit}
<1>1. UploadsBecome(us, bs, B) /\ clock' \in Nat
  BY Unpacked DEF Neutralize
<1>2. us \in [Uploads -> UploadRow] /\ Placed(us)
  <2>1. ASSUME NEW u \in Uploads
        PROVE  /\ us[u] \in UploadRow
               /\ us[u].batch = upload[u].batch
               /\ us[u].st = "absent" <=> upload[u].st = "absent"
    <3>1. upload[u] \in UploadRow
      BY Unpacked
    <3>2. [upload[u] EXCEPT !.st = "aborted", !.removed = TRUE] \in UploadRow
      BY <3>1 DEF UploadRow, UploadStates
    <3> QED
      BY <3>1, <3>2 DEF ActiveUploadStates, UploadRow
  <2> HIDE DEF hit
  <2>2. us \in [Uploads -> UploadRow]
    BY <2>1
  <2> QED
    BY <2>1, <2>2, Unpacked DEF Placed
<1>3. Framed(upload, us, B)
  <2>1. ASSUME NEW u \in hit PROVE us[u].batch = upload[u].batch
    BY Unpacked, <2>1 DEF UploadRow
  <2> QED
    BY <2>1 DEF Framed
<1>4. ASSUME NEW b \in Batches
      PROVE  /\ bs[b] \in BatchRow
             /\ bs[b].st = "none" => bs[b].manifest = {}
             /\ RowOK(upload, bs[b], b)
  <2>1. batch[b] \in BatchRow /\ RowOK(upload, batch[b], b)
    BY Unpacked
  <2>2. CASE batch[b].st \in ActiveBatchStates
    <3>1. /\ bs[b] \in BatchRow
          /\ bs[b].st = "cancelled" /\ bs[b].manifest = {}
      BY <2>1, <2>2 DEF BatchRow, BatchStates
    <3> HIDE DEF bs
    <3> QED
      BY <3>1 DEF RowOK
  <2>3. CASE batch[b].st \notin ActiveBatchStates
    BY <2>1, <2>3, Unpacked
  <2> QED
    BY <2>2, <2>3
<1>5. bs \in [Batches -> BatchRow]
  BY <1>4
<1>6. upload \in [Uploads -> UploadRow]
  BY Unpacked
<1> HIDE DEF us, bs, B
<1>7. /\ upload' = us
      /\ batch' \in [Batches -> BatchRow]
      /\ \A b \in Batches : RowOK(upload', batch'[b], b)
  BY <1>1, <1>2, <1>3, <1>4, <1>5, <1>6, UploadsBecomeRowOK
<1> QED
  BY <1>1, <1>2, <1>7 DEF GateInv, TypeOK

\* The empty database satisfies GateInv.
LEMMA GateInit ==
    Init => GateInv
<1> SUFFICES ASSUME Init PROVE GateInv
  OBVIOUS
<1>1. NoUpload \in UploadRow /\ NoUpload.st = "absent" /\ NoUpload.batch = NoBatch
  BY DEF NoUpload, UploadRow, UploadStates
<1>2. /\ NoBatchRow \in BatchRow
      /\ NoBatchRow.st = "none" /\ NoBatchRow.manifest = {}
  BY DEF NoBatchRow, BatchRow, BatchStates
<1>3. \A b \in Batches : RowOK(upload, NoBatchRow, b)
  BY <1>2 DEF RowOK
<1> QED
  BY <1>1, <1>2, <1>3 DEF Init, GateInv, TypeOK, Placed

\* Every transaction keeps GateInv.
LEMMA GateNext ==
    GateInv /\ [Next]_vars => GateInv'
<1> SUFFICES ASSUME GateInv, [Next]_vars PROVE GateInv'
  OBVIOUS
<1>1. CASE UNCHANGED vars
  <2>1. upload' = upload /\ batch' = batch /\ clock' = clock
    BY <1>1 DEF vars
  <2> QED
    BY <2>1 DEF GateInv, TypeOK, Placed, RowOK
<1>2. ASSUME NEW u \in Uploads, UploadStep(u)
      PROVE  GateInv'
  BY <1>2, CheckSealGate, InsertUploadGate, RegisterMembershipGate, DeleteAfterSetupFailureGate,
     ColumnUpdatesGate, VerifyGate, ResolveDuplicateGate
     DEF UploadStep
<1>3. ASSUME NEW b \in Batches, BatchStep(b)
      PROVE  GateInv'
  <2>1. 1..MaxFiles \subseteq Nat
    BY ConstantsAssumption
  <2> QED
    BY <1>3, <2>1, RegisterBatchGate, RefreshBatchGate, RunActionsGate, PrepareRerunGate
       DEF BatchStep
<1> QED
  BY <1>1, <1>2, <1>3, NeutralizeGate DEF Next

\* GateInv holds in every reachable state of the database, for any uploads,
\* batches and runs.
THEOREM GateInvariant == Spec => []GateInv
<1> QED
  BY GateInit, GateNext, PTL DEF Spec

\* Every row keeps the type of its table.
THEOREM TypeCorrect == Spec => []TypeOK
<1>1. GateInv => TypeOK
  BY DEF GateInv
<1> QED
  BY <1>1, GateInvariant, PTL

\* For any number of uploads, batches and runs, and any order of requests, a
\* stored manifest is the current one of a complete batch.
THEOREM ManifestCurrent == Spec => []ManifestIsCurrent
<1>1. GateInv => ManifestIsCurrent
  BY DEF GateInv, RowOK, ManifestIsCurrent
<1> QED
  BY <1>1, GateInvariant, PTL

\* No manifest is left on a batch that takes files or was cancelled.
THEOREM OpenWithoutManifest == Spec => []OpenHasNoManifest
<1>1. GateInv => OpenHasNoManifest
  BY DEF GateInv, RowOK, OpenHasNoManifest
<1> QED
  BY <1>1, GateInvariant, PTL

\* No complete batch waits in "uploading".
THEOREM GateOpens == Spec => []GateOpensWhenComplete
<1>1. GateInv => GateOpensWhenComplete
  BY DEF GateInv, RowOK, GateOpensWhenComplete
<1> QED
  BY <1>1, GateInvariant, PTL

----------------------------------------------------------------------------
(* De-duplication.  The inductive invariant adds what the two properties    *)
(* lean on: timestamps are given once, to files of the declared size only;  *)
(* hashed rows are verified, and stay verified or superseded until removed. *)

Stamped(us) ==
    /\ \A u \in Uploads : us[u].verifiedAt > 0 => u \notin Misdeclared
    /\ \A u \in Uploads : us[u].st \in {"verified", "superseded"} => us[u].verifiedAt > 0
    /\ \A u, v \in Uploads : us[u].verifiedAt = us[v].verifiedAt
                               => u = v \/ us[u].verifiedAt = 0

HashedOK(us) ==
    \A u \in Uploads :
        /\ us[u].hashed => us[u].verifiedAt > 0 /\ ~us[u].fresh
        /\ us[u].hashed /\ ~us[u].removed => us[u].st \in {"verified", "superseded"}
        /\ us[u].st = "superseded" => us[u].hashed

ContentKept(us) ==
    \A u \in Uploads : us[u].st = "superseded" =>
        \E v \in Uploads : /\ us[v].st = "verified"
                           /\ ContentOf[v] = ContentOf[u]
                           /\ us[v].hashed
                           /\ us[v].verifiedAt > us[u].verifiedAt

OneInUse(us) ==
    \A u, v \in Uploads :
        /\ us[u].st = "verified" /\ us[u].hashed /\ ~us[u].removed
        /\ us[v].st = "verified" /\ us[v].hashed /\ ~us[v].removed
        /\ ContentOf[u] = ContentOf[v]
        => u = v

Blank(us) ==
    \A u \in Uploads : us[u].st \in {"absent", "inserting"} =>
        us[u].verifiedAt = 0 /\ ~us[u].hashed /\ us[u].removed = FALSE

DedupRows(us) ==
    Blank(us) /\ Stamped(us) /\ HashedOK(us) /\ ContentKept(us) /\ OneInUse(us)

DedupInv ==
    /\ TypeOK
    /\ \A u \in Uploads : upload[u].verifiedAt <= clock
    /\ DedupRows(upload)

\* A write that leaves the timestamp, the hash and the removal of its row alone,
\* and neither takes a hashed row in use out of use nor supersedes it.
PlainRow(us, u, row) ==
    /\ row.verifiedAt = us[u].verifiedAt
    /\ row.hashed = us[u].hashed
    /\ row.removed = us[u].removed
    /\ row.fresh => us[u].fresh \/ ~us[u].hashed
    /\ row.st \in {"absent", "inserting"} => us[u].st \in {"absent", "inserting"}
    /\ \/ row.st = us[u].st
       \/ /\ row.st \notin {"verified", "superseded"}
          /\ ~us[u].hashed \/ (us[u].removed /\ us[u].st # "verified")

\* A write that changes neither hashes nor timestamps, and supersedes or revives
\* no row, keeps DedupInv.
LEMMA PlainWrite ==
    ASSUME NEW us1 \in [Uploads -> UploadRow], DedupRows(us1),
           NEW u \in Uploads, NEW row \in UploadRow, PlainRow(us1, u, row)
    PROVE  DedupRows([us1 EXCEPT ![u] = row])
<1> DEFINE us2 == [us1 EXCEPT ![u] = row]
<1>1. us2[u] = row /\ \A v \in Uploads \ {u} : us2[v] = us1[v]
  OBVIOUS
<1>2. \A v \in Uploads : /\ us2[v].verifiedAt = us1[v].verifiedAt
                         /\ us2[v].hashed = us1[v].hashed
                         /\ us2[v].removed = us1[v].removed
                         /\ us2[v].fresh => us1[v].fresh \/ ~us1[v].hashed
                         /\ \/ us2[v].st = us1[v].st
                            \/ /\ ~us1[v].hashed \/ (us1[v].removed /\ us1[v].st # "verified")
                               /\ us2[v].st \notin {"verified", "superseded"}
  BY <1>1 DEF PlainRow
<1>7. Blank(us2)
  BY <1>1 DEF DedupRows, Blank, PlainRow
<1> HIDE DEF us2
<1>3. Stamped(us2)
  BY <1>2 DEF DedupRows, Stamped
<1>4. HashedOK(us2)
  BY <1>2 DEF DedupRows, HashedOK
<1>5. ContentKept(us2)
  <2>1. ASSUME NEW v \in Uploads, us2[v].st = "superseded"
        PROVE  \E w \in Uploads : /\ us2[w].st = "verified"
                                  /\ ContentOf[w] = ContentOf[v]
                                  /\ us2[w].hashed
                                  /\ us2[w].verifiedAt > us2[v].verifiedAt
    <3>1. us1[v].st = "superseded"
      BY <1>2, <2>1
    <3>2. PICK w \in Uploads : /\ us1[w].st = "verified"
                               /\ ContentOf[w] = ContentOf[v]
                               /\ us1[w].hashed
                               /\ us1[w].verifiedAt > us1[v].verifiedAt
      BY <3>1 DEF DedupRows, ContentKept
    <3>3. us2[w].st = "verified"
      BY <1>2, <3>2
    <3> QED
      BY <1>2, <3>2, <3>3
  <2> QED
    BY <2>1 DEF ContentKept
<1>6. OneInUse(us2)
  BY <1>2 DEF DedupRows, OneInUse
<1> QED
  BY <1>3, <1>4, <1>5, <1>6, <1>7 DEF DedupRows, us2

\* The actions that leave timestamps and hashes alone.
LEMMA PlainActionsDedup ==
    ASSUME TypeOK, DedupRows(upload), NEW u \in Uploads,
           \/ \E b \in Batches : CheckSeal(u, b)
           \/ InsertUpload(u)
           \/ \E own \in BOOLEAN : RegisterMembership(u, own)
           \/ DeleteAfterSetupFailure(u)
           \/ TouchUpload(u)
           \/ BeginCompletion(u)
           \/ RecoverableError(u)
           \/ Abort(u)
           \/ \E gone \in BOOLEAN : ReportCleanup(u, gone)
    PROVE  DedupRows(upload') /\ clock' = clock
           /\ \A v \in Uploads : upload'[v].verifiedAt = upload[v].verifiedAt
<1>0. /\ upload \in [Uploads -> UploadRow]
      /\ upload[u] \in UploadRow
      /\ upload[u].hashed => upload[u].removed \/ upload[u].st \in {"verified", "superseded"}
      /\ upload[u].hashed => ~upload[u].fresh
  BY DEF TypeOK, DedupRows, HashedOK
<1>1. \E row \in UploadRow : /\ PlainRow(upload, u, row)
                            /\ upload' = [upload EXCEPT ![u] = row]
                            /\ clock' = clock
  <2>0. ASSUME NEW row \in UploadRow, row.verifiedAt = 0, row.hashed = FALSE, row.removed = FALSE,
               row.st \in {"inserting", "uploading"},
               upload[u].st \in {"absent", "inserting"},
               upload' = [upload EXCEPT ![u] = row], clock' = clock
        PROVE  \E r \in UploadRow : /\ PlainRow(upload, u, r)
                                    /\ upload' = [upload EXCEPT ![u] = r]
                                    /\ clock' = clock
    <3>1. upload[u].verifiedAt = 0 /\ upload[u].hashed = FALSE /\ upload[u].removed = FALSE
      BY <1>0, <2>0 DEF DedupRows, Blank, UploadRow
    <3>2. PlainRow(upload, u, row)
      BY <2>0, <3>1 DEF PlainRow
    <3> QED
      BY <2>0, <3>2
  <2>1. CASE InsertUpload(u)
    <3> DEFINE row == [NoUpload EXCEPT !.st = "uploading", !.batch = upload[u].batch,
                                       !.fresh = u \notin Multipart]
    <3>1. /\ row \in UploadRow /\ row.st = "uploading"
          /\ row.verifiedAt = 0 /\ row.hashed = FALSE /\ row.removed = FALSE
      BY <1>0 DEF NoUpload, UploadRow, UploadStates
    <3>2. /\ upload[u].st = "inserting"
          /\ upload' = [upload EXCEPT ![u] = row] /\ clock' = clock
      BY <2>1 DEF InsertUpload, UploadsBecome
    <3> HIDE DEF row
    <3> QED
      BY <2>0, <3>1, <3>2
  <2>7. ASSUME NEW b \in Batches, CheckSeal(u, b)
        PROVE  \E row \in UploadRow : /\ PlainRow(upload, u, row)
                                      /\ upload' = [upload EXCEPT ![u] = row]
                                      /\ clock' = clock
    <3> DEFINE row == [NoUpload EXCEPT !.st = "inserting", !.batch = b]
    <3>1. /\ row \in UploadRow /\ row.st = "inserting"
          /\ row.verifiedAt = 0 /\ row.hashed = FALSE /\ row.removed = FALSE
      BY DEF NoUpload, UploadRow, UploadStates
    <3>2. /\ upload[u].st = "absent"
          /\ upload' = [upload EXCEPT ![u] = row] /\ clock' = clock
      BY <2>7 DEF CheckSeal, InsertBegins
    <3> HIDE DEF row
    <3> QED
      BY <2>0, <3>1, <3>2
  <2>2. ASSUME NEW own \in BOOLEAN, RegisterMembership(u, own)
        PROVE  \E row \in UploadRow : /\ PlainRow(upload, u, row)
                                      /\ upload' = [upload EXCEPT ![u] = row]
                                      /\ clock' = clock
    <3> DEFINE row == [upload[u] EXCEPT !.member = TRUE, !.fresh = @ /\ ~own]
    <3>1. /\ row \in UploadRow /\ row.st = upload[u].st
          /\ row.verifiedAt = upload[u].verifiedAt /\ row.hashed = upload[u].hashed
          /\ row.removed = upload[u].removed /\ (row.fresh => upload[u].fresh)
      BY <1>0 DEF UploadRow
    <3>2. upload' = [upload EXCEPT ![u] = row] /\ clock' = clock /\ upload[u].st # "absent"
      BY <2>2 DEF RegisterMembership, UploadsBecome, Exists
    <3> HIDE DEF row
    <3> QED
      BY <1>0, <3>1, <3>2 DEF PlainRow
  <2>3. CASE DeleteAfterSetupFailure(u)
    <3> DEFINE row == [upload[u] EXCEPT !.st = "deleted"]
    <3>1. /\ row \in UploadRow /\ row.st = "deleted"
          /\ row.verifiedAt = upload[u].verifiedAt /\ row.hashed = upload[u].hashed
          /\ row.removed = upload[u].removed /\ row.fresh = upload[u].fresh
      BY <1>0 DEF UploadRow, UploadStates
    <3>2. upload' = [upload EXCEPT ![u] = row] /\ clock' = clock /\ ~upload[u].hashed
      BY <1>0, <2>3 DEF DeleteAfterSetupFailure, UploadsBecome
    <3> HIDE DEF row
    <3> QED
      BY <1>0, <3>1, <3>2 DEF PlainRow
  <2>4. CASE TouchUpload(u)
    <3>1. upload' = [upload EXCEPT ![u] = upload[u]] /\ clock' = clock /\ upload[u].st # "absent"
      BY <2>4 DEF TouchUpload, RowBecomes, UploadsBecome, Exists
    <3> QED
      BY <1>0, <3>1 DEF PlainRow
  <2>5. CASE BeginCompletion(u) \/ RecoverableError(u) \/ Abort(u)
    <3>1. PICK st \in {"completing", "uploading", "aborted"} :
            upload' = [upload EXCEPT ![u] = [upload[u] EXCEPT !.st = st]]
      BY <2>5 DEF BeginCompletion, RecoverableError, Abort, RowBecomes, UploadsBecome
    <3> DEFINE row == [upload[u] EXCEPT !.st = st]
    <3>2. /\ row \in UploadRow /\ row.st \in {"completing", "uploading", "aborted"}
          /\ row.verifiedAt = upload[u].verifiedAt /\ row.hashed = upload[u].hashed
          /\ row.removed = upload[u].removed /\ row.fresh = upload[u].fresh
      BY <1>0, <3>1 DEF UploadRow, UploadStates
    <3>3. clock' = clock /\ upload[u].st \notin {"verified", "superseded"}
      BY <2>5 DEF BeginCompletion, RecoverableError, Abort, RowBecomes
    <3>4. upload' = [upload EXCEPT ![u] = row]
      BY <3>1
    <3> HIDE DEF row
    <3> QED
      BY <1>0, <3>2, <3>3, <3>4 DEF PlainRow
  <2>6. ASSUME NEW gone \in BOOLEAN, ReportCleanup(u, gone)
        PROVE  \E row \in UploadRow : /\ PlainRow(upload, u, row)
                                      /\ upload' = [upload EXCEPT ![u] = row]
                                      /\ clock' = clock
    <3> DEFINE row == [upload[u] EXCEPT !.cleaned = gone]
    <3>1. /\ row \in UploadRow /\ row.st = upload[u].st
          /\ row.verifiedAt = upload[u].verifiedAt /\ row.hashed = upload[u].hashed
          /\ row.removed = upload[u].removed /\ row.fresh = upload[u].fresh
      BY <1>0 DEF UploadRow
    <3>2. upload' = [upload EXCEPT ![u] = row] /\ clock' = clock /\ upload[u].st # "absent"
      BY <2>6 DEF ReportCleanup, RowBecomes, UploadsBecome, Exists
    <3> HIDE DEF row
    <3> QED
      BY <1>0, <3>1, <3>2 DEF PlainRow
  <2> QED
    BY <2>1, <2>2, <2>3, <2>4, <2>5, <2>6, <2>7
<1>2. PICK row \in UploadRow : /\ PlainRow(upload, u, row)
                              /\ upload' = [upload EXCEPT ![u] = row]
                              /\ clock' = clock
  BY <1>1
<1>3. DedupRows(upload')
  BY <1>0, <1>2, PlainWrite
<1> QED
  BY <1>0, <1>2, <1>3 DEF PlainRow

\* Verification keeps DedupInv: a new timestamp is later than all others.
LEMMA VerifyDedup ==
    ASSUME DedupInv, NEW u \in Uploads, Verify(u)
    PROVE  /\ DedupRows(upload')
           /\ \A v \in Uploads : upload'[v].verifiedAt <= clock'
<1> DEFINE good == u \notin Misdeclared
           first == good /\ upload[u].verifiedAt = 0
           row == [upload[u] EXCEPT !.st = IF good THEN "verified" ELSE "size_mismatch",
                                    !.verifiedAt = IF first THEN clock + 1 ELSE @]
<1>1. /\ upload \in [Uploads -> UploadRow] /\ clock \in Nat
      /\ \A v \in Uploads : upload[v].verifiedAt \in Nat /\ upload[v].verifiedAt <= clock
  BY DEF DedupInv, TypeOK, UploadRow
<1>2. /\ upload' = [upload EXCEPT ![u] = row]
      /\ clock' = IF first THEN clock + 1 ELSE clock
      /\ upload[u].st # "superseded"
      /\ upload[u].st # "absent"
  BY DEF Verify, UploadsBecome, Exists
<1>3. /\ row.st = IF good THEN "verified" ELSE "size_mismatch"
      /\ row.verifiedAt = IF first THEN clock + 1 ELSE upload[u].verifiedAt
      /\ row.hashed = upload[u].hashed
      /\ row.removed = upload[u].removed
      /\ row.fresh = upload[u].fresh
  BY <1>1 DEF UploadRow
<1> HIDE DEF row
<1>4. upload'[u] = row /\ \A v \in Uploads \ {u} : upload'[v] = upload[v]
  BY <1>1, <1>2
<1>5. upload[u].hashed => good /\ ~first
  BY DEF DedupInv, DedupRows, HashedOK, Stamped
<1>6. Blank(upload')
  BY <1>3, <1>4 DEF DedupInv, DedupRows, Blank
<1>7. Stamped(upload')
  <2>1. \A v \in Uploads : upload'[v].verifiedAt > 0 => v \notin Misdeclared
    BY <1>1, <1>3, <1>4 DEF DedupInv, DedupRows, Stamped
  <2>2. \A v \in Uploads : upload'[v].st \in {"verified", "superseded"}
                             => upload'[v].verifiedAt > 0
    BY <1>1, <1>3, <1>4 DEF DedupInv, DedupRows, Stamped
  <2>3. \A v, w \in Uploads : upload'[v].verifiedAt = upload'[w].verifiedAt
                                => v = w \/ upload'[v].verifiedAt = 0
    BY <1>1, <1>3, <1>4 DEF DedupInv, DedupRows, Stamped
  <2> QED
    BY <2>1, <2>2, <2>3 DEF Stamped
<1>8. HashedOK(upload')
  <2>1. upload[u].hashed => upload[u].verifiedAt > 0
    BY DEF DedupInv, DedupRows, HashedOK
  <2> QED
    BY <1>1, <1>2, <1>3, <1>4, <1>5, <2>1 DEF DedupInv, DedupRows, HashedOK
<1>9. ContentKept(upload')
  <2>1. ASSUME NEW v \in Uploads, upload'[v].st = "superseded"
        PROVE  \E w \in Uploads : /\ upload'[w].st = "verified"
                                  /\ ContentOf[w] = ContentOf[v]
                                  /\ upload'[w].hashed
                                  /\ upload'[w].verifiedAt > upload'[v].verifiedAt
    <3>1. v # u /\ upload[v].st = "superseded" /\ upload'[v] = upload[v]
      BY <1>3, <1>4, <2>1
    <3>2. PICK w \in Uploads : /\ upload[w].st = "verified"
                               /\ ContentOf[w] = ContentOf[v]
                               /\ upload[w].hashed
                               /\ upload[w].verifiedAt > upload[v].verifiedAt
      BY <3>1 DEF DedupInv, DedupRows, ContentKept
    <3>3. /\ upload'[w].st = "verified" /\ upload'[w].hashed
          /\ upload'[w].verifiedAt = upload[w].verifiedAt
      BY <1>3, <1>4, <1>5, <3>2
    <3> QED
      BY <3>1, <3>2, <3>3
  <2> QED
    BY <2>1 DEF ContentKept
<1>10. OneInUse(upload')
  <2>1. upload[u].hashed /\ ~upload[u].removed => upload[u].st = "verified"
    BY <1>2 DEF DedupInv, DedupRows, HashedOK
  <2>2. \A v \in Uploads : upload'[v].st = "verified" /\ upload'[v].hashed /\ ~upload'[v].removed
                             => upload[v].st = "verified" /\ upload[v].hashed /\ ~upload[v].removed
    BY <1>3, <1>4, <2>1
  <2> QED
    BY <2>2 DEF DedupInv, DedupRows, OneInUse
<1>11. \A v \in Uploads : upload'[v].verifiedAt <= clock'
  BY <1>1, <1>2, <1>3, <1>4
<1> QED
  BY <1>6, <1>7, <1>8, <1>9, <1>10, <1>11 DEF DedupRows

\* De-duplication establishes what DedupInv says of its content and leaves the
\* other contents alone.
LEMMA ResolveDuplicateDedup ==
    ASSUME DedupInv, NEW u \in Uploads, ResolveDuplicate(u)
    PROVE  /\ DedupRows(upload')
           /\ \A v \in Uploads : upload'[v].verifiedAt = upload[v].verifiedAt
<1> DEFINE x == ContentOf[u]
           hashed == [upload EXCEPT ![u].hashed = TRUE, ![u].fresh = FALSE]
           copies == Copies(hashed, x)
<1>1. /\ upload \in [Uploads -> UploadRow]
      /\ upload[u].verifiedAt > 0
      /\ upload[u].st \in {"verified", "superseded"}
  BY DEF DedupInv, TypeOK, ResolveDuplicate
<1>2. PICK c \in Uploads : IsLatest(hashed, c, copies) /\ upload' = Resolved(hashed, c, copies)
  BY DEF ResolveDuplicate, UploadsBecome
<1>3. /\ hashed \in [Uploads -> UploadRow]
      /\ \A v \in Uploads : /\ hashed[v].st = upload[v].st
                            /\ hashed[v].verifiedAt = upload[v].verifiedAt
                            /\ hashed[v].removed = upload[v].removed
                            /\ hashed[v].hashed = (v = u \/ upload[v].hashed)
                            /\ hashed[v].fresh = (v # u /\ upload[v].fresh)
                            /\ v # u => hashed[v] = upload[v]
  BY <1>1 DEF UploadRow
<1> HIDE DEF hashed
\* The copies are the hashed rows of this content still verified or superseded.
<1>4. \A v \in Uploads : v \in copies <=> /\ v = u \/ upload[v].hashed
                                          /\ ContentOf[v] = x
                                          /\ upload[v].verifiedAt > 0
                                          /\ upload[v].st \in {"verified", "superseded"}
  BY <1>3 DEF Copies
<1>5. /\ u \in copies /\ c \in copies /\ copies \subseteq Uploads
      /\ \A v \in copies : upload[v].verifiedAt <= upload[c].verifiedAt
  <2>1. copies \subseteq Uploads
    BY DEF Copies
  <2> QED
    BY <1>1, <1>2, <1>3, <1>4, <2>1 DEF IsLatest
<1> HIDE DEF copies, x
<1>6. \A v \in Uploads :
        /\ upload'[v].verifiedAt = upload[v].verifiedAt
        /\ upload'[v].removed = upload[v].removed
        /\ upload'[v].hashed = (v = u \/ upload[v].hashed)
        /\ upload'[v].fresh = (v # u /\ upload[v].fresh)
        /\ upload'[v].st = IF v = c THEN "verified"
                           ELSE IF v \in copies THEN "superseded" ELSE upload[v].st
        /\ v \notin copies => upload'[v] = upload[v]
  BY <1>2, <1>3, <1>5 DEF Resolved, UploadRow
<1>7. Blank(upload')
  BY <1>5, <1>6 DEF DedupInv, DedupRows, Blank
<1>8. Stamped(upload')
  BY <1>4, <1>5, <1>6 DEF DedupInv, DedupRows, Stamped
<1>9. HashedOK(upload')
  BY <1>1, <1>4, <1>5, <1>6 DEF DedupInv, DedupRows, HashedOK
<1>10. ContentKept(upload')
  <2>1. ASSUME NEW v \in Uploads, upload'[v].st = "superseded"
        PROVE  \E w \in Uploads : /\ upload'[w].st = "verified"
                                  /\ ContentOf[w] = ContentOf[v]
                                  /\ upload'[w].hashed
                                  /\ upload'[w].verifiedAt > upload'[v].verifiedAt
    <3>1. CASE v \in copies
      <4>1. v # c /\ upload[v].verifiedAt > 0
        BY <1>4, <1>6, <2>1, <3>1
      <4>2. upload[c].verifiedAt > upload[v].verifiedAt
        <5>1. upload[c].verifiedAt \in Nat /\ upload[v].verifiedAt \in Nat
          BY <1>1 DEF UploadRow
        <5>2. upload[c].verifiedAt # upload[v].verifiedAt
          BY <4>1 DEF DedupInv, DedupRows, Stamped
        <5> QED
          BY <1>5, <3>1, <5>1, <5>2
      <4> QED
        BY <1>4, <1>5, <1>6, <3>1, <4>2
    <3>2. CASE v \notin copies
      <4>1. upload[v].st = "superseded" /\ upload[v].hashed /\ upload[v].verifiedAt > 0
        BY <1>5, <1>6, <2>1, <3>2 DEF DedupInv, DedupRows, HashedOK
      <4>2. ContentOf[v] # x
        BY <1>4, <3>2, <4>1
      <4>3. PICK w \in Uploads : /\ upload[w].st = "verified"
                                 /\ ContentOf[w] = ContentOf[v]
                                 /\ upload[w].hashed
                                 /\ upload[w].verifiedAt > upload[v].verifiedAt
        BY <4>1 DEF DedupInv, DedupRows, ContentKept
      <4>4. w \notin copies
        BY <1>4, <4>2, <4>3
      <4> QED
        BY <1>6, <3>2, <4>3, <4>4
    <3> QED
      BY <3>1, <3>2
  <2> QED
    BY <2>1 DEF ContentKept
<1>11. OneInUse(upload')
  <2>1. ASSUME NEW v \in Uploads, NEW w \in Uploads,
               upload'[v].st = "verified", upload'[v].hashed, ~upload'[v].removed,
               upload'[w].st = "verified", upload'[w].hashed, ~upload'[w].removed,
               ContentOf[v] = ContentOf[w]
        PROVE  v = w
    <3>1. \A y \in {v, w} : y \in copies => y = c
      BY <1>6, <2>1
    <3>2. \A y \in {v, w} : y \notin copies
            => upload[y].st = "verified" /\ upload[y].hashed /\ ~upload[y].removed
      BY <1>5, <1>6, <2>1
    <3>3. \A y \in {v, w} : y \notin copies => ContentOf[y] # x
      BY <1>4, <3>2 DEF DedupInv, DedupRows, Stamped
    <3>4. \A y \in {v, w} : y \in copies => ContentOf[y] = x
      BY <1>4
    <3> QED
      BY <2>1, <3>1, <3>2, <3>3, <3>4 DEF DedupInv, DedupRows, OneInUse
  <2> QED
    BY <2>1 DEF OneInUse
<1> QED
  BY <1>6, <1>7, <1>8, <1>9, <1>10, <1>11 DEF DedupRows

\* Clean Video Storage keeps DedupInv.
LEMMA NeutralizeDedup ==
    ASSUME DedupInv, Neutralize
    PROVE  /\ DedupRows(upload')
           /\ \A v \in Uploads : upload'[v].verifiedAt = upload[v].verifiedAt
<1>1. upload \in [Uploads -> UploadRow]
  BY DEF DedupInv, TypeOK
<1>2. \A v \in Uploads :
        /\ upload'[v].verifiedAt = upload[v].verifiedAt
        /\ upload'[v].hashed = upload[v].hashed
        /\ upload'[v].fresh = upload[v].fresh
        /\ upload'[v].st \notin {"verified", "superseded"}
        /\ upload'[v].removed \/ upload[v].st \notin {"verified", "superseded"}
        /\ upload'[v].removed = upload[v].removed \/ upload'[v].removed
        /\ upload'[v].st \in {"absent", "inserting"} => upload'[v] = upload[v]
  BY <1>1 DEF Neutralize, UploadsBecome, ActiveUploadStates, UploadRow
<1>3. Blank(upload') /\ Stamped(upload') /\ ContentKept(upload') /\ OneInUse(upload')
  BY <1>2 DEF DedupInv, DedupRows, Blank, Stamped, ContentKept, OneInUse
<1>4. HashedOK(upload')
  BY <1>2 DEF DedupInv, DedupRows, HashedOK
<1> QED
  BY <1>2, <1>3, <1>4 DEF DedupRows

\* The empty database satisfies DedupInv.
LEMMA DedupInit ==
    Init => DedupInv
<1> SUFFICES ASSUME Init PROVE DedupInv
  OBVIOUS
<1>1. \A u \in Uploads : upload[u] = NoUpload
  BY DEF Init
<1>2. /\ NoUpload.st = "absent" /\ NoUpload.verifiedAt = 0 /\ ~NoUpload.hashed
      /\ NoUpload.removed = FALSE
  BY DEF NoUpload
<1>3. DedupRows(upload)
  BY <1>1, <1>2 DEF DedupRows, Blank, Stamped, HashedOK, ContentKept, OneInUse
<1>4. TypeOK
  BY GateInit DEF GateInv
<1> QED
  BY <1>1, <1>2, <1>3, <1>4 DEF DedupInv, Init

\* Every transaction keeps DedupInv.
LEMMA DedupNext ==
    DedupInv /\ TypeOK' /\ [Next]_vars => DedupInv'
<1> SUFFICES ASSUME DedupInv, TypeOK', [Next]_vars
             PROVE  /\ DedupRows(upload')
                    /\ \A v \in Uploads : upload'[v].verifiedAt <= clock'
  BY DEF DedupInv, DedupRows, Blank, Stamped, HashedOK, ContentKept, OneInUse
<1>1. /\ TypeOK /\ DedupRows(upload)
      /\ \A v \in Uploads : upload[v].verifiedAt <= clock
  BY DEF DedupInv
<1>2. CASE UNCHANGED <<upload, clock>>
  BY <1>1, <1>2
<1>3. ASSUME NEW u \in Uploads, UploadStep(u)
      PROVE  /\ DedupRows(upload')
             /\ \A v \in Uploads : upload'[v].verifiedAt <= clock'
  <2>1. CASE Verify(u)
    BY <2>1, VerifyDedup
  <2>2. CASE ResolveDuplicate(u)
    BY <1>1, <2>2, ResolveDuplicateDedup DEF ResolveDuplicate
  <2>3. CASE ~Verify(u) /\ ~ResolveDuplicate(u)
    BY <1>1, <1>3, <2>3, PlainActionsDedup DEF UploadStep
  <2> QED
    BY <2>1, <2>2, <2>3
<1>4. ASSUME NEW b \in Batches, BatchStep(b)
      PROVE  UNCHANGED <<upload, clock>>
  BY <1>4 DEF BatchStep, RegisterBatch, RefreshBatch, MarkRunning, Release, Finalize, PrepareRerun
<1>5. CASE Neutralize
  BY <1>1, <1>5, NeutralizeDedup DEF Neutralize
<1>6. CASE UNCHANGED vars
  BY <1>2, <1>6 DEF vars
<1> QED
  BY <1>2, <1>3, <1>4, <1>5, <1>6 DEF Next

\* DedupInv holds in every reachable state of the database.
THEOREM DedupInvariant == Spec => []DedupInv
<1> QED
  BY DedupInit, DedupNext, TypeCorrect, PTL DEF Spec

\* However verifications, hashes, aborts, deletions and cleans interleave, a
\* superseded file always leaves a later verified copy of its content.
THEOREM DedupContent == Spec => []DedupKeepsContent
<1>1. DedupInv => DedupKeepsContent
  BY DEF DedupInv, DedupRows, ContentKept, DedupKeepsContent
<1> QED
  BY <1>1, DedupInvariant, PTL

\* At most one row of a hashed content is in use.
THEOREM DedupUnique == Spec => []DedupIsUnique
<1>1. DedupInv => DedupIsUnique
  BY DEF DedupInv, DedupRows, OneInUse, DedupIsUnique
<1> QED
  BY <1>1, DedupInvariant, PTL

----------------------------------------------------------------------------
(* Sealed batches.                                                          *)

\* A refresh keeps the intended count, and the state of a completed or cancelled
\* batch.
LEMMA RefreshKeepsSealed ==
    ASSUME NEW us, NEW bs \in [Batches -> BatchRow], NEW B, NEW b \in Batches,
           batch' = Refresh(bs, us, B)
    PROVE  /\ batch'[b].expected = bs[b].expected
           /\ bs[b].st \in {"completed", "cancelled"} => batch'[b].st = bs[b].st
<1>1. batch'[b] \in {bs[b], Refreshed(bs[b], us, b)}
  BY DEF Refresh
<1>2. bs[b].st \in {"completed", "cancelled"} => NextBatchState(bs[b], us, b) = bs[b].st
  BY DEF NextBatchState
<1>3. /\ Refreshed(bs[b], us, b).expected = bs[b].expected
      /\ Refreshed(bs[b], us, b).st = NextBatchState(bs[b], us, b)
  BY DEF Refreshed, BatchRow
<1> QED
  BY <1>1, <1>2, <1>3

\* What SealedStep asks of batch b.
SealedRow(b) ==
    LET late == RowsOf(upload', b) \ RowsOf(upload, b)
    IN  /\ late \subseteq InFlight(upload, b)
        /\ InFlight(upload', b) \subseteq InFlight(upload, b)
        /\ late # {} => batch'[b].st # "ready" /\ batch'[b].manifest = {}
        /\ batch'[b].expected = batch[b].expected
        /\ batch[b].st \in {"completed", "cancelled"} =>
             batch'[b].st \in {batch[b].st, "running"}

\* A step that commits no row and begins no insert of the batch: its count and
\* state are left to show.
LEMMA KeepingRows ==
    ASSUME NEW b \in Batches,
           \A u \in Uploads :
              /\ Exists(upload'[u])
                   => upload'[u].batch # b \/ (Exists(upload[u]) /\ upload[u].batch = b)
              /\ upload'[u].st = "inserting"
                   => upload'[u].batch # b \/ (upload[u].st = "inserting" /\ upload[u].batch = b)
    PROVE  /\ RowsOf(upload', b) \subseteq RowsOf(upload, b)
           /\ InFlight(upload', b) \subseteq InFlight(upload, b)
  BY DEF RowsOf, InFlight

\* A row that is not verified keeps its batch from being complete.
LEMMA UnverifiedIncomplete ==
    ASSUME NEW us, NEW b, NEW bt, NEW u \in Uploads,
           u \in Live(us, b), u \notin Admitted(us, b)
    PROVE  ~Complete(bt, us, b)
<1>1. IsFiniteSet(Live(us, b))
  BY ConstantsAssumption, FS_Subset DEF Live
<1>2. Admitted(us, b) \subseteq Live(us, b) /\ Admitted(us, b) # Live(us, b)
  BY DEF Admitted
<1>3. Cardinality(Admitted(us, b)) < Cardinality(Live(us, b))
  BY <1>1, <1>2, FS_Subset, FS_CardinalityType
<1> QED
  BY <1>1, <1>3, FS_CardinalityType DEF Complete

\* An insert that was let through commits: a sealed batch gains the row and loses
\* its manifest.
LEMMA InsertUploadSealed ==
    ASSUME GateInv, NEW u \in Uploads, InsertUpload(u),
           NEW b \in Batches, batch[b].st \notin OpenStates
    PROVE  SealedRow(b)
<1> DEFINE c == upload[u].batch
           us == [upload EXCEPT ![u] = [NoUpload EXCEPT !.st = "uploading", !.batch = c,
                                                        !.fresh = u \notin Multipart]]
<1>1. /\ upload \in [Uploads -> UploadRow] /\ batch \in [Batches -> BatchRow]
      /\ upload' = us /\ batch' = Refresh(batch, us, {c})
      /\ upload[u].st = "inserting"
  BY Unpacked DEF InsertUpload, UploadsBecome
<1>2. /\ us[u].st = "uploading" /\ us[u].batch = c
      /\ us[u].removed = FALSE /\ us[u].superseded = FALSE
      /\ \A v \in Uploads \ {u} : us[v] = upload[v]
  BY <1>1 DEF NoUpload
<1> HIDE DEF us
<1>3. /\ RowsOf(us, b) \ RowsOf(upload, b) \subseteq InFlight(upload, b)
      /\ InFlight(us, b) \subseteq InFlight(upload, b)
      /\ c # b => RowsOf(us, b) \subseteq RowsOf(upload, b)
  BY <1>1, <1>2 DEF RowsOf, InFlight
<1>4. /\ batch'[b].expected = batch[b].expected
      /\ batch[b].st \in {"completed", "cancelled"} => batch'[b].st = batch[b].st
  BY <1>1, RefreshKeepsSealed
<1>5. CASE c = b
  <2>1. batch[b].st # "none"
    BY DEF OpenStates
  <2>2. batch'[b] = Refreshed(batch[b], us, b)
    BY <1>1, <1>5, <2>1 DEF Refresh
  <2>3. ~Complete(batch[b], us, b)
    <3>1. u \in Live(us, b) /\ u \notin Admitted(us, b)
      BY <1>2, <1>5 DEF Live, Admitted, Exists
    <3> QED
      BY <3>1, UnverifiedIncomplete
  <2>4. NextBatchState(batch[b], us, b) # "ready"
    BY <2>3 DEF NextBatchState
  <2>5. batch'[b].st # "ready" /\ batch'[b].manifest = {}
    BY <1>1, <2>2, <2>4 DEF Refreshed, BatchRow
  <2> QED
    BY <1>1, <1>3, <1>4, <2>5 DEF SealedRow
<1>6. CASE c # b
  BY <1>1, <1>3, <1>4, <1>6 DEF SealedRow
<1> QED
  BY <1>5, <1>6

\* No step of an upload lets an insert into a sealed batch.
LEMMA UploadStepSealed ==
    ASSUME GateInv, NEW u \in Uploads, UploadStep(u)
    PROVE  SealedStep
<1> SUFFICES ASSUME NEW b \in Batches, batch[b].st \notin OpenStates
             PROVE  SealedRow(b)
  BY DEF SealedStep, SealedRow
<1>1. upload \in [Uploads -> UploadRow] /\ batch \in [Batches -> BatchRow]
  BY Unpacked
<1>2. ASSUME NEW c \in Batches, CheckSeal(u, c)
      PROVE  SealedRow(b)
  <2>1. c # b /\ batch' = batch
    BY <1>2 DEF CheckSeal
  <2>2. /\ upload'[u].batch = c /\ upload'[u].st = "inserting"
        /\ \A v \in Uploads \ {u} : upload'[v] = upload[v]
    BY <1>1, <1>2 DEF CheckSeal, InsertBegins, NoUpload
  <2>3. /\ RowsOf(upload', b) \subseteq RowsOf(upload, b)
        /\ InFlight(upload', b) \subseteq InFlight(upload, b)
    BY <2>1, <2>2, KeepingRows
  <2> QED
    BY <2>1, <2>3 DEF SealedRow
<1>3. ASSUME NEW own \in BOOLEAN, RegisterMembership(u, own)
      PROVE  /\ RowsOf(upload', b) \subseteq RowsOf(upload, b)
             /\ InFlight(upload', b) \subseteq InFlight(upload, b)
             /\ \E us, B : \E bs \in [Batches -> BatchRow] :
                  batch' = Refresh(bs, us, B) /\ bs[b] = batch[b]
  <2> DEFINE c == upload[u].batch
             rows == Cardinality(RowsOf(upload, c))
             n == rows - batch[c].expected
             reserve == ~upload[u].member /\ rows > batch[c].expected
             bs == IF reserve THEN [batch EXCEPT ![c] = Registered(@, n)] ELSE batch
             us == [upload EXCEPT ![u].member = TRUE, ![u].fresh = @ /\ ~own]
  <2>1. c \in Batches /\ Exists(upload[u])
    BY <1>3, Unpacked DEF RegisterMembership, Placed, Exists
  <2>2. \A v \in Uploads : us[v].batch = upload[v].batch /\ us[v].st = upload[v].st
    BY <1>1 DEF UploadRow
  <2>3. UploadsBecome(us, bs, {c})
    BY <1>3 DEF RegisterMembership
  <2>4. reserve => batch[c].st \in OpenStates
    BY <1>3 DEF RegisterMembership, CanRegister
  <2>5. /\ RowsOf(upload', b) \subseteq RowsOf(upload, b)
        /\ InFlight(upload', b) \subseteq InFlight(upload, b)
    BY <2>2, <2>3, KeepingRows DEF UploadsBecome, Exists
  <2>6. bs \in [Batches -> BatchRow] /\ bs[b] = batch[b]
    <3>1. CASE reserve
      <4>1. RowsOf(upload, c) \subseteq Uploads
        BY DEF RowsOf
      <4>2. rows \in Nat
        BY <4>1, FS_Subset, FS_CardinalityType, ConstantsAssumption
      <4>3. batch[c] \in BatchRow /\ batch[c].expected \in Nat
        BY <1>1, <2>1 DEF BatchRow
      <4>4. n \in Nat
        BY <3>1, <4>2, <4>3
      <4>5. Registered(batch[c], n) \in BatchRow
        BY <2>1, <4>3, <4>4, RegisteredRow
      <4> QED
        BY <1>1, <2>1, <2>4, <3>1, <4>5
    <3>2. CASE ~reserve
      BY <1>1, <3>2
    <3> QED
      BY <3>1, <3>2
  <2>7. batch' = Refresh(bs, us, {c})
    BY <2>3 DEF UploadsBecome
  <2> HIDE DEF bs, us
  <2> QED
    BY <2>5, <2>6, <2>7
<1>4. ASSUME \/ DeleteAfterSetupFailure(u) \/ TouchUpload(u) \/ BeginCompletion(u)
             \/ RecoverableError(u) \/ Abort(u) \/ Verify(u)
             \/ \E gone \in BOOLEAN : ReportCleanup(u, gone)
             \/ ResolveDuplicate(u)
      PROVE  /\ RowsOf(upload', b) \subseteq RowsOf(upload, b)
             /\ InFlight(upload', b) \subseteq InFlight(upload, b)
             /\ \E us, B : batch' = Refresh(batch, us, B)
  <2>1. \A v \in Uploads : /\ upload'[v].batch = upload[v].batch
                           /\ Exists(upload'[v]) => Exists(upload[v])
                           /\ upload'[v].st = "inserting" => upload[v].st = "inserting"
    <3>1. CASE DeleteAfterSetupFailure(u)
      BY <1>1, <3>1 DEF DeleteAfterSetupFailure, UploadsBecome, UploadRow
    <3>2. CASE \/ TouchUpload(u) \/ BeginCompletion(u) \/ RecoverableError(u)
               \/ Abort(u) \/ \E gone \in BOOLEAN : ReportCleanup(u, gone)
      <4>1. /\ Exists(upload[u])
            /\ \E row : /\ row.batch = upload[u].batch
                        /\ row.st # "inserting"
                        /\ upload' = [upload EXCEPT ![u] = row]
        <5>1. upload[u] \in UploadRow
          BY <1>1
        <5>2. CASE BeginCompletion(u) \/ RecoverableError(u) \/ Abort(u)
          BY <5>1, <5>2 DEF BeginCompletion, RecoverableError, Abort, RowBecomes,
             UploadsBecome, UploadRow, Exists
        <5>3. CASE TouchUpload(u)
          BY <5>3 DEF TouchUpload, RowBecomes, UploadsBecome, Exists
        <5>4. ASSUME NEW gone \in BOOLEAN, ReportCleanup(u, gone)
              PROVE  /\ Exists(upload[u])
                     /\ \E row : /\ row.batch = upload[u].batch
                                 /\ row.st # "inserting"
                                 /\ upload' = [upload EXCEPT ![u] = row]
          <6>1. /\ [upload[u] EXCEPT !.cleaned = gone].batch = upload[u].batch
                /\ [upload[u] EXCEPT !.cleaned = gone].st = upload[u].st
            BY <5>1 DEF UploadRow
          <6> QED
            BY <5>4, <6>1 DEF ReportCleanup, RowBecomes, UploadsBecome, Exists
        <5> QED
          BY <3>2, <5>2, <5>3, <5>4
      <4> QED
        BY <1>1, <4>1
    <3>3. CASE Verify(u)
      BY <1>1, <3>3 DEF Verify, UploadsBecome, UploadRow
    <3>4. CASE ResolveDuplicate(u)
      <4> DEFINE hashed == [upload EXCEPT ![u].hashed = TRUE, ![u].fresh = FALSE]
                 copies == Copies(hashed, ContentOf[u])
      <4>1. \A v \in Uploads : hashed[v].batch = upload[v].batch /\ hashed[v].st = upload[v].st
        BY <1>1 DEF UploadRow
      <4>2. /\ hashed \in [Uploads -> UploadRow]
            /\ \A v \in copies : v \in Uploads /\ Exists(hashed[v])
        BY <1>1 DEF UploadRow, Copies, Exists
      <4>3. PICK c \in Uploads : c \in copies /\ upload' = Resolved(hashed, c, copies)
        BY <3>4 DEF ResolveDuplicate, UploadsBecome, IsLatest
      <4> HIDE DEF hashed, copies
      <4>4. \A v \in Uploads : /\ upload'[v].batch = hashed[v].batch
                               /\ v \notin copies => upload'[v] = hashed[v]
                               /\ v \in copies => upload'[v].st \in {"verified", "superseded"}
        BY <4>2, <4>3 DEF Resolved, UploadRow
      <4> QED
        BY <4>1, <4>2, <4>4 DEF Exists
    <3> QED
      BY <1>4, <3>1, <3>2, <3>3, <3>4
  <2>2. /\ RowsOf(upload', b) \subseteq RowsOf(upload, b)
        /\ InFlight(upload', b) \subseteq InFlight(upload, b)
    BY <2>1, KeepingRows
  <2>3. \E us, B : UploadsBecome(us, batch, B)
    BY <1>4 DEF DeleteAfterSetupFailure, TouchUpload, BeginCompletion, RecoverableError, Abort,
       Verify, ReportCleanup, ResolveDuplicate, RowBecomes
  <2> QED
    BY <2>2, <2>3 DEF UploadsBecome
<1>5. CASE ~InsertUpload(u) /\ ~\E c \in Batches : CheckSeal(u, c)
  <2>1. /\ RowsOf(upload', b) \subseteq RowsOf(upload, b)
        /\ InFlight(upload', b) \subseteq InFlight(upload, b)
        /\ \E us, B : \E bs \in [Batches -> BatchRow] :
             batch' = Refresh(bs, us, B) /\ bs[b] = batch[b]
    BY <1>1, <1>3, <1>4, <1>5 DEF UploadStep
  <2> QED
    BY <2>1, RefreshKeepsSealed DEF SealedRow
<1> QED
  BY <1>2, <1>5, InsertUploadSealed

\* No step of a batch adds a file to a sealed batch or changes its count.
LEMMA BatchStepSealed ==
    ASSUME GateInv, NEW c \in Batches, BatchStep(c)
    PROVE  SealedStep
<1>1. upload' = upload /\ batch \in [Batches -> BatchRow]
  BY Unpacked DEF BatchStep, RegisterBatch, RefreshBatch, MarkRunning, Release, Finalize, PrepareRerun
<1>2. ASSUME NEW b \in Batches, batch[b].st \notin OpenStates
      PROVE  /\ batch'[b].expected = batch[b].expected
             /\ batch[b].st \in {"completed", "cancelled"} => batch'[b].st \in {batch[b].st, "running"}
  <2>1. ASSUME NEW n \in 1..MaxFiles, NEW refreshed \in BOOLEAN, RegisterBatch(c, n, refreshed)
        PROVE  batch'[b] = batch[b]
    <3>1. b # c
      BY <1>2, <2>1 DEF RegisterBatch, CanRegister
    <3> QED
      BY <1>1, <2>1, <3>1 DEF RegisterBatch, Refresh
  <2>2. CASE RefreshBatch(c)
    BY <1>1, <1>2, <2>2, RefreshKeepsSealed DEF RefreshBatch
  <2>3. ASSUME NEW r \in Runs, NEW outcome \in {"completed", "failed"},
               MarkRunning(c, r) \/ Release(c, r) \/ Finalize(c, r, outcome) \/ PrepareRerun(c, r)
        PROVE  /\ batch'[b].expected = batch[b].expected
               /\ batch[b].st \in {"completed", "cancelled"} => batch'[b].st \in {batch[b].st, "running"}
    BY <1>1, <2>3 DEF MarkRunning, Release, Finalize, HeldBy, PrepareRerun, BatchRow
  <2> QED
    BY <1>2, <2>1, <2>2, <2>3 DEF BatchStep
<1> QED
  BY <1>1, <1>2 DEF SealedStep, RowsOf, InFlight

\* Clean Video Storage adds no file to a sealed batch.
LEMMA NeutralizeSealed ==
    ASSUME GateInv, Neutralize
    PROVE  SealedStep
<1> DEFINE bs == [b \in Batches |->
                    IF batch[b].st \in ActiveBatchStates
                      THEN [batch[b] EXCEPT !.st = "cancelled", !.manifest = {}]
                      ELSE batch[b]]
<1>1. upload \in [Uploads -> UploadRow] /\ batch \in [Batches -> BatchRow]
  BY Unpacked
<1>2. bs \in [Batches -> BatchRow]
  <2>1. ASSUME NEW b \in Batches
        PROVE  [batch[b] EXCEPT !.st = "cancelled", !.manifest = {}] \in BatchRow
    BY <1>1 DEF BatchRow, BatchStates
  <2> QED
    BY <1>1, <2>1
<1>3. \A b \in Batches : /\ bs[b].expected = batch[b].expected
                         /\ batch[b].st \in {"completed", "cancelled"} => bs[b].st = batch[b].st
  BY <1>1 DEF ActiveBatchStates, BatchRow
<1>4. PICK us, B : batch' = Refresh(bs, us, B)
  BY DEF Neutralize, UploadsBecome
<1>5. \A u \in Uploads : /\ upload'[u].batch = upload[u].batch
                         /\ Exists(upload'[u]) => Exists(upload[u])
                         /\ upload'[u].st = "inserting" => upload[u].st = "inserting"
  BY <1>1 DEF Neutralize, UploadsBecome, ActiveUploadStates, Exists, UploadRow
<1>6. \A b \in Batches : /\ RowsOf(upload', b) \subseteq RowsOf(upload, b)
                         /\ InFlight(upload', b) \subseteq InFlight(upload, b)
  BY <1>5, KeepingRows
<1> HIDE DEF bs
<1>7. \A b \in Batches : /\ batch'[b].expected = bs[b].expected
                         /\ bs[b].st \in {"completed", "cancelled"} => batch'[b].st = bs[b].st
  BY <1>2, <1>4, RefreshKeepsSealed
<1> QED
  BY <1>3, <1>6, <1>7 DEF SealedStep

\* Whatever requests, triggers and runs do, a sealed batch lets no insert through and
\* keeps its intended count, one let through before withdraws the manifest, and a
\* completed or cancelled batch is reopened by an explicit rerun only.
THEOREM SealedBatches == Spec => SealedGainsOnlyLateFiles
<1>1. GateInv /\ [Next]_vars => [SealedStep]_vars
  BY UploadStepSealed, BatchStepSealed, NeutralizeSealed DEF Next
<1> QED
  BY <1>1, GateInvariant, PTL DEF Spec, SealedGainsOnlyLateFiles

----------------------------------------------------------------------------
(* Every transaction of UploadBatch is a step of BatchLock, or none.  A      *)
(* write to uploads with its trigger recounts the locks of the batches it    *)
(* touches (SourcesMapped); that a complete batch has inputs to count rests  *)
(* on IntendsFiles, which GateInv does not state.                            *)

\* A batch that is there intends at least one file.
IntendsFiles == \A b \in Batches : batch[b].st # "none" => batch[b].expected > 0

InputsOf(us, bt, b) ==
    IF bt.st # "none" /\ Complete(bt, us, b) THEN Admitted(us, b) ELSE {}

LockRowOf(us, bt, b) ==
    [st |-> IF bt.st \in {"collecting", "uploading"} THEN "open" ELSE bt.st,
     run |-> bt.run, manifest |-> bt.manifest, inputs |-> InputsOf(us, bt, b)]

LEMMA LockIsRow ==
    /\ \A b \in Batches : Locks[b] = LockRowOf(upload, batch[b], b)
    /\ \A b \in Batches : Locks'[b] = LockRowOf(upload', batch'[b], b)
  BY DEF Locks, LockOf, LockRowOf, InputsOf

\* A complete batch has inputs.
LEMMA InputsThere ==
    ASSUME NEW us \in [Uploads -> UploadRow], NEW b \in Batches, NEW bt \in BatchRow,
           bt.st # "none", bt.expected > 0
    PROVE  /\ InputsOf(us, bt, b) \in SUBSET Uploads
           /\ InputsOf(us, bt, b) # {} <=> Complete(bt, us, b)
           /\ Complete(bt, us, b) => InputsOf(us, bt, b) = Admitted(us, b)
<1>1. Admitted(us, b) \in SUBSET Uploads
  BY DEF Admitted, Live
<1>2. Complete(bt, us, b) => Admitted(us, b) # {}
  BY FS_EmptySet DEF Complete, BatchRow
<1> QED
  BY <1>1, <1>2 DEF InputsOf

\* What a recount makes of a lock, column by column.
LEMMA RecountedRow ==
    ASSUME NEW s, NEW r, NEW m, NEW i, NEW in
    PROVE  BL!Recounted([st |-> s, run |-> r, manifest |-> m, inputs |-> i], in) =
             [st |-> IF s \in {"running", "completed", "cancelled"} THEN s
                     ELSE IF in # {} THEN "ready" ELSE "open",
              run |-> r,
              manifest |-> IF s \notin {"running", "completed", "cancelled"} /\ in # {}
                             THEN in ELSE {},
              inputs |-> in]
<1> DEFINE row == [st |-> s, run |-> r, manifest |-> m, inputs |-> i]
           st == IF s \in {"running", "completed", "cancelled"} THEN s
                 ELSE IF in # {} THEN "ready" ELSE "open"
           mf == IF st = "ready" THEN in ELSE {}
           new == [row EXCEPT !.st = st, !.inputs = in, !.manifest = mf]
<1>1. mf = IF s \notin {"running", "completed", "cancelled"} /\ in # {} THEN in ELSE {}
  OBVIOUS
<1>2. row \in [st : {s}, run : {r}, manifest : {m}, inputs : {i}] /\ row.st = s
  OBVIOUS
<1> HIDE DEF row
<1>3. BL!Recounted(row, in) = new
  BY <1>2 DEF BL!Recounted
<1> HIDE DEF st, mf
<1>4. new \in [st : {st}, run : {r}, manifest : {mf}, inputs : {in}]
  BY <1>2
<1> HIDE DEF new
<1>5. /\ new = [st |-> new.st, run |-> new.run, manifest |-> new.manifest, inputs |-> new.inputs]
      /\ new.st = st /\ new.run = r /\ new.manifest = mf /\ new.inputs = in
  BY <1>4
<1>6. BL!Recounted(row, in) = [st |-> st, run |-> r, manifest |-> mf, inputs |-> in]
  BY <1>3, <1>5
<1> QED
  BY <1>1, <1>6 DEF row, st

\* The refresh of a batch is the recount of its lock.
LEMMA RefreshRecounts ==
    ASSUME NEW us \in [Uploads -> UploadRow], NEW us0, NEW b \in Batches, NEW bt \in BatchRow,
           bt.st # "none", bt.expected > 0
    PROVE  /\ LockRowOf(us, Refreshed(bt, us, b), b)
                = BL!Recounted(LockRowOf(us0, bt, b), InputsOf(us, bt, b))
           /\ Refreshed(bt, us, b).st # "none"
<1> DEFINE new == Refreshed(bt, us, b)
           in == InputsOf(us, bt, b)
           s == IF bt.st \in {"collecting", "uploading"} THEN "open" ELSE bt.st
<1>1. /\ new.st = NextBatchState(bt, us, b)
      /\ new.expected = bt.expected
      /\ new.run = bt.run
      /\ new.manifest = IF new.st = "ready" THEN Admitted(us, b) ELSE {}
  BY RefreshedType
<1>2. in # {} <=> Complete(bt, us, b)
  BY InputsThere
<1>3. Complete(bt, us, b) => in = Admitted(us, b)
  BY InputsThere
<1>4. /\ bt.st \in {"running", "completed", "cancelled"} => new.st = bt.st
      /\ bt.st \notin {"running", "completed", "cancelled"} =>
            IF Complete(bt, us, b) THEN new.st = "ready"
                                   ELSE new.st \in {"collecting", "uploading"}
  BY <1>1 DEF NextBatchState
<1>5. Complete(new, us, b) <=> Complete(bt, us, b)
  BY <1>1 DEF Complete
<1>6. new.st # "none"
  BY <1>4
<1>7. InputsOf(us, new, b) = in
  BY <1>5, <1>6 DEF InputsOf
<1> HIDE DEF new, in
<1>8. LockRowOf(us0, bt, b) =
        [st |-> s, run |-> bt.run, manifest |-> bt.manifest, inputs |-> InputsOf(us0, bt, b)]
  BY DEF LockRowOf
<1> HIDE DEF s
<1>9. BL!Recounted(LockRowOf(us0, bt, b), in) =
        [st |-> IF s \in {"running", "completed", "cancelled"} THEN s
                ELSE IF in # {} THEN "ready" ELSE "open",
         run |-> bt.run,
         manifest |-> IF s \notin {"running", "completed", "cancelled"} /\ in # {}
                        THEN in ELSE {},
         inputs |-> in]
  BY <1>8, RecountedRow
<1>10. LockRowOf(us, new, b) =
         [st |-> IF new.st \in {"collecting", "uploading"} THEN "open" ELSE new.st,
          run |-> new.run, manifest |-> new.manifest, inputs |-> in]
  BY <1>7 DEF LockRowOf
<1>11. s \in {"running", "completed", "cancelled"}
         <=> bt.st \in {"running", "completed", "cancelled"}
  BY DEF s
<1>12. (IF new.st \in {"collecting", "uploading"} THEN "open" ELSE new.st) =
         (IF s \in {"running", "completed", "cancelled"} THEN s
          ELSE IF in # {} THEN "ready" ELSE "open")
  BY <1>2, <1>4 DEF s
<1>13. new.manifest = IF s \notin {"running", "completed", "cancelled"} /\ in # {}
                        THEN in ELSE {}
  BY <1>1, <1>2, <1>3, <1>4, <1>11
<1>14. LockRowOf(us, new, b) = BL!Recounted(LockRowOf(us0, bt, b), in)
  BY <1>1, <1>9, <1>10, <1>12, <1>13
<1> QED
  BY <1>6, <1>14 DEF new, in

----------------------------------------------------------------------------
\* The inputs of a batch stay while the uploads of other batches change.
LEMMA FramedInputs ==
    ASSUME NEW us1 \in [Uploads -> UploadRow], NEW us2 \in [Uploads -> UploadRow],
           NEW B, NEW b \in Batches, NEW bt,
           b \notin B, Framed(us1, us2, B)
    PROVE  LockRowOf(us2, bt, b) = LockRowOf(us1, bt, b)
<1>1. b # NoBatch
  BY ConstantsAssumption
<1>2. \A u \in Uploads : \/ us2[u] = us1[u]
                         \/ us1[u].batch # b /\ us2[u].batch # b
                         \/ ~Exists(us1[u]) /\ ~Exists(us2[u])
  BY <1>1 DEF Framed
<1>3. Live(us2, b) = Live(us1, b)
  BY <1>2 DEF Live
<1>4. Admitted(us2, b) = Admitted(us1, b)
  BY <1>2, <1>3 DEF Admitted, Live
<1>5. CleanupOwed(us2, b) = CleanupOwed(us1, b)
  BY <1>2, <1>3 DEF CleanupOwed, Live
<1>6. Complete(bt, us2, b) <=> Complete(bt, us1, b)
  BY <1>3, <1>4, <1>5 DEF Complete
<1> QED
  BY <1>4, <1>6 DEF LockRowOf, InputsOf

\* What a change of the sources is, said of Locks.
LEMMA SourcesChangeIs ==
    ASSUME NEW B, NEW in \in [B -> SUBSET Uploads],
           Locks' = [b \in Batches |-> IF b \in B /\ Locks[b].st # "none"
                                         THEN BL!Recounted(Locks[b], in[b])
                                         ELSE Locks[b]]
    PROVE  BL!SourcesChange(B)
<1> DEFINE there == {b \in B : Locks[b].st # "none"}
           ins == [b \in there |-> in[b]]
<1>1. ins \in [there -> SUBSET Uploads] /\ DOMAIN ins = there
  OBVIOUS
<1>2. Locks' = [b \in Batches |-> IF b \in DOMAIN ins THEN BL!Recounted(Locks[b], ins[b])
                                                     ELSE Locks[b]]
  OBVIOUS
<1> HIDE DEF ins
<1> QED
  BY <1>1, <1>2 DEF BL!SourcesChange

\* A write to uploads and the trigger's refresh of the batches in B are one change
\* of their sources.
LEMMA SourcesMapped ==
    ASSUME GateInv, IntendsFiles, NEW us \in [Uploads -> UploadRow], NEW B \in SUBSET Batches,
           Framed(upload, us, B), UploadsBecome(us, batch, B)
    PROVE  BL!SourcesChange(B) /\ IntendsFiles'
<1> DEFINE in == [b \in B |-> InputsOf(us, batch[b], b)]
<1>1. /\ upload \in [Uploads -> UploadRow] /\ batch \in [Batches -> BatchRow]
      /\ upload' = us /\ batch' = Refresh(batch, us, B)
  BY Unpacked DEF UploadsBecome
<1>2. in \in [B -> SUBSET Uploads]
  BY DEF InputsOf, Admitted, Live
<1>3. ASSUME NEW b \in Batches
      PROVE  /\ Locks'[b] = IF b \in B /\ Locks[b].st # "none"
                              THEN BL!Recounted(Locks[b], in[b]) ELSE Locks[b]
             /\ batch'[b].st # "none" => batch'[b].expected > 0
  <2>1. /\ Locks[b] = LockRowOf(upload, batch[b], b)
        /\ Locks'[b] = LockRowOf(us, batch'[b], b)
        /\ Locks[b].st # "none" <=> batch[b].st # "none"
    BY <1>1, LockIsRow DEF LockRowOf
  <2>2. CASE b \in B /\ batch[b].st # "none"
    <3>1. batch'[b] = Refreshed(batch[b], us, b)
      BY <1>1, <2>2 DEF Refresh
    <3>2. batch[b] \in BatchRow /\ batch[b].expected > 0
      BY <1>1, <2>2 DEF IntendsFiles
    <3>3. LockRowOf(us, batch'[b], b) = BL!Recounted(LockRowOf(upload, batch[b], b), in[b])
      BY <2>2, <3>1, <3>2, RefreshRecounts
    <3>4. batch'[b].expected = batch[b].expected
      BY <3>1, <3>2, RefreshedType
    <3> HIDE DEF in
    <3> QED
      BY <2>1, <2>2, <3>2, <3>3, <3>4
  <2>3. CASE ~(b \in B /\ batch[b].st # "none")
    <3>1. batch'[b] = batch[b]
      BY <1>1, <2>3 DEF Refresh
    <3>2. LockRowOf(us, batch[b], b) = LockRowOf(upload, batch[b], b)
      <4>1. CASE b \notin B
        BY <1>1, <4>1, FramedInputs
      <4>2. CASE batch[b].st = "none"
        BY <4>2 DEF LockRowOf, InputsOf
      <4> QED
        BY <2>3, <4>1, <4>2
    <3> QED
      BY <2>1, <2>3, <3>1, <3>2 DEF IntendsFiles
  <2> QED
    BY <2>2, <2>3
<1> HIDE DEF in
<1>4. Locks' = [b \in Batches |-> IF b \in B /\ Locks[b].st # "none"
                                    THEN BL!Recounted(Locks[b], in[b])
                                    ELSE Locks[b]]
  BY <1>3 DEF Locks
<1>5. IntendsFiles'
  BY <1>3 DEF IntendsFiles
<1> QED
  BY <1>2, <1>4, <1>5, SourcesChangeIs

\* A write to one row, in or newly in batch b, is a change of the sources of b.
LEMMA RowMapped ==
    ASSUME GateInv, IntendsFiles, NEW u \in Uploads, NEW row \in UploadRow, NEW b \in Batches,
           row.batch = b, upload[u].batch \in {b, NoBatch},
           UploadsBecome([upload EXCEPT ![u] = row], batch, {b})
    PROVE  BL!SourcesChange({b}) /\ IntendsFiles'
<1> DEFINE us == [upload EXCEPT ![u] = row]
<1>1. us \in [Uploads -> UploadRow] /\ Framed(upload, us, {b}) /\ {b} \in SUBSET Batches
  BY Unpacked DEF Framed
<1>2. UploadsBecome(us, batch, {b})
  OBVIOUS
<1> HIDE DEF us
<1> QED
  BY <1>1, <1>2, SourcesMapped

\* The same of a row that is there, which is in a batch.
LEMMA RowKeptMapped ==
    ASSUME GateInv, IntendsFiles, NEW u \in Uploads, NEW row \in UploadRow, Exists(upload[u]),
           row.batch = upload[u].batch,
           UploadsBecome([upload EXCEPT ![u] = row], batch, {upload[u].batch})
    PROVE  BL!LockNext /\ IntendsFiles'
<1>1. upload[u].batch \in Batches
  BY Unpacked DEF Placed, Exists
<1>2. BL!SourcesChange({upload[u].batch}) /\ IntendsFiles'
  BY <1>1, RowMapped
<1> QED
  BY <1>1, <1>2 DEF BL!LockNext

----------------------------------------------------------------------------
(* The transactions on single uploads are changes of the sources.           *)

\* An insert that the trigger lets through leaves the locks alone.
LEMMA CheckSealMapped ==
    ASSUME GateInv, IntendsFiles, NEW u \in Uploads, NEW b \in Batches, CheckSeal(u, b)
    PROVE  UNCHANGED Locks /\ IntendsFiles'
<1>1. /\ upload \in [Uploads -> UploadRow] /\ upload' \in [Uploads -> UploadRow]
      /\ Framed(upload, upload', {}) /\ batch' = batch
  BY Unpacked, CheckSealGate
<1>2. ASSUME NEW c \in Batches
      PROVE  Locks'[c] = Locks[c]
  <2>1. LockRowOf(upload', batch[c], c) = LockRowOf(upload, batch[c], c)
    BY <1>1, FramedInputs
  <2> QED
    BY <1>1, <2>1, LockIsRow
<1> QED
  BY <1>1, <1>2 DEF Locks, IntendsFiles

\* A start request that inserts its row.
LEMMA InsertUploadMapped ==
    ASSUME GateInv, IntendsFiles, NEW u \in Uploads, InsertUpload(u)
    PROVE  BL!LockNext /\ IntendsFiles'
<1> DEFINE b == upload[u].batch
           row == [NoUpload EXCEPT !.st = "uploading", !.batch = b,
                                   !.fresh = u \notin Multipart]
<1>1. b \in Batches
  BY Unpacked DEF InsertUpload, Placed
<1>2. row \in UploadRow /\ row.batch = b
  BY <1>1 DEF NoUpload, UploadRow, UploadStates
<1>3. UploadsBecome([upload EXCEPT ![u] = row], batch, {b})
  BY DEF InsertUpload
<1> HIDE DEF row
<1>4. BL!SourcesChange({b}) /\ IntendsFiles'
  BY <1>1, <1>2, <1>3, RowMapped
<1> QED
  BY <1>1, <1>4 DEF BL!LockNext

\* The transactions that write one row of an upload in place.
LEMMA ColumnUpdatesMapped ==
    ASSUME GateInv, IntendsFiles, NEW u \in Uploads, NEW gone \in BOOLEAN,
           \/ DeleteAfterSetupFailure(u)
           \/ TouchUpload(u)
           \/ BeginCompletion(u)
           \/ RecoverableError(u)
           \/ Abort(u)
           \/ ReportCleanup(u, gone)
    PROVE  BL!LockNext /\ IntendsFiles'
<1>1. upload[u] \in UploadRow
  BY Unpacked
<1>2. ASSUME NEW st \in UploadStates, Exists(upload[u]),
             UploadsBecome([upload EXCEPT ![u] = [upload[u] EXCEPT !.st = st]], batch,
                           {upload[u].batch})
      PROVE  BL!LockNext /\ IntendsFiles'
  <2>1. /\ [upload[u] EXCEPT !.st = st] \in UploadRow
        /\ [upload[u] EXCEPT !.st = st].batch = upload[u].batch
    BY <1>1 DEF UploadRow
  <2> QED
    BY <1>2, <2>1, RowKeptMapped
<1>3. CASE DeleteAfterSetupFailure(u)
  BY <1>2, <1>3, Unpacked DEF DeleteAfterSetupFailure, UploadStates
<1>4. CASE TouchUpload(u)
  BY <1>1, <1>4, RowKeptMapped DEF TouchUpload, RowBecomes
<1>5. CASE BeginCompletion(u)
  BY <1>2, <1>5 DEF BeginCompletion, RowBecomes, Exists, UploadStates
<1>6. CASE RecoverableError(u)
  BY <1>2, <1>6 DEF RecoverableError, RowBecomes, Exists, UploadStates
<1>7. CASE Abort(u)
  BY <1>2, <1>7 DEF Abort, RowBecomes, UploadStates
<1>8. CASE ReportCleanup(u, gone)
  <2>1. /\ [upload[u] EXCEPT !.cleaned = gone] \in UploadRow
        /\ [upload[u] EXCEPT !.cleaned = gone].batch = upload[u].batch
    BY <1>1 DEF UploadRow
  <2> QED
    BY <1>8, <2>1, RowKeptMapped DEF ReportCleanup, RowBecomes
<1> QED
  BY <1>3, <1>4, <1>5, <1>6, <1>7, <1>8

\* Verification, matching or not.
LEMMA VerifyMapped ==
    ASSUME GateInv, IntendsFiles, NEW u \in Uploads, Verify(u)
    PROVE  BL!LockNext /\ IntendsFiles'
<1> DEFINE good == u \notin Misdeclared
           first == good /\ upload[u].verifiedAt = 0
           row == [upload[u] EXCEPT !.st = IF good THEN "verified" ELSE "size_mismatch",
                                    !.verifiedAt = IF first THEN clock + 1 ELSE @]
<1>1. upload[u] \in UploadRow /\ clock \in Nat
  BY Unpacked
<1>2. row \in UploadRow /\ row.batch = upload[u].batch
  <2>1. (IF first THEN clock + 1 ELSE upload[u].verifiedAt) \in Nat
    BY <1>1 DEF UploadRow
  <2>2. (IF good THEN "verified" ELSE "size_mismatch") \in UploadStates
    BY DEF UploadStates
  <2> QED
    BY <1>1, <2>1, <2>2 DEF UploadRow
<1>3. UploadsBecome([upload EXCEPT ![u] = row], batch, {upload[u].batch})
  BY DEF Verify
<1>4. Exists(upload[u])
  BY DEF Verify
<1> HIDE DEF row
<1> QED
  BY <1>2, <1>3, <1>4, RowKeptMapped

\* De-duplication, over the batches of all the copies.
LEMMA ResolveDuplicateMapped ==
    ASSUME GateInv, IntendsFiles, NEW u \in Uploads, ResolveDuplicate(u)
    PROVE  BL!LockNext /\ IntendsFiles'
<1> DEFINE hashed == [upload EXCEPT ![u].hashed = TRUE, ![u].fresh = FALSE]
           copies == Copies(hashed, ContentOf[u])
           B == {upload[v].batch : v \in copies}
<1>1. PICK c \in Uploads :
        IsLatest(hashed, c, copies) /\ UploadsBecome(Resolved(hashed, c, copies), batch, B)
  BY DEF ResolveDuplicate
<1> DEFINE us == Resolved(hashed, c, copies)
<1>2. upload \in [Uploads -> UploadRow] /\ Placed(upload)
  BY Unpacked
<1>3. /\ hashed \in [Uploads -> UploadRow]
      /\ \A v \in Uploads : /\ hashed[v].batch = upload[v].batch
                            /\ hashed[v].st = upload[v].st
                            /\ hashed[v].verifiedAt = upload[v].verifiedAt
                            /\ v # u => hashed[v] = upload[v]
      /\ hashed[u].hashed
  BY <1>2 DEF UploadRow
<1>4. u \in copies /\ copies \subseteq Uploads /\ c \in copies
  BY <1>1, <1>3 DEF Copies, ResolveDuplicate, IsLatest
<1>5. \A v \in copies : upload[v].st # "absent"
  BY <1>3 DEF Copies
<1> HIDE DEF hashed, copies
<1>6. us \in [Uploads -> UploadRow]
  <2>1. ASSUME NEW v \in Uploads PROVE us[v] \in UploadRow
    <3>1. hashed[v] \in UploadRow
      BY <1>3
    <3>2. /\ [hashed[v] EXCEPT !.st = "verified", !.superseded = FALSE] \in UploadRow
          /\ [hashed[v] EXCEPT !.st = "superseded", !.superseded = TRUE] \in UploadRow
      BY <3>1 DEF UploadRow, UploadStates
    <3> QED
      BY <3>1, <3>2 DEF Resolved
  <2> QED
    BY <2>1 DEF Resolved
<1>7. \A v \in Uploads : us[v].batch = upload[v].batch
  BY <1>3 DEF Resolved, UploadRow
<1>8. \A v \in Uploads \ copies : us[v] = upload[v]
  BY <1>3, <1>4 DEF Resolved
<1>9. UploadsBecome(us, batch, B)
  BY <1>1 DEF us
<1> HIDE DEF us
<1>10. Framed(upload, us, B)
  BY <1>7, <1>8 DEF Framed
<1>11. B \in SUBSET Batches
  BY <1>2, <1>4, <1>5 DEF Placed
<1> HIDE DEF B
<1>12. BL!SourcesChange(B) /\ IntendsFiles'
  BY <1>6, <1>9, <1>10, <1>11, SourcesMapped
<1> QED
  BY <1>11, <1>12 DEF BL!LockNext

----------------------------------------------------------------------------
(* Registrations.                                                           *)

\* What a registration is, said of Locks.
LEMMA RegisterIs ==
    ASSUME NEW b \in Batches, Locks[b].st \in {"none", "open"}, NEW in \in SUBSET Uploads,
           NEW opened, opened = [st |-> "open", run |-> NoRun, manifest |-> {}, inputs |-> in],
           \/ Locks' = [Locks EXCEPT ![b] = opened]
           \/ Locks' = [Locks EXCEPT ![b] = BL!Recounted(opened, in)]
    PROVE  BL!LockNext
<1>1. BL!Register(b)
  BY DEF BL!Register, Locks
<1> QED
  BY <1>1 DEF BL!LockNext

\* The lock of a batch just enlarged.
LEMMA OpenedRow ==
    ASSUME NEW us, NEW b \in Batches, NEW bt \in BatchRow, NEW n \in Nat \ {0}
    PROVE  /\ LockRowOf(us, Registered(bt, n), b) =
                [st |-> "open", run |-> NoRun, manifest |-> {},
                 inputs |-> InputsOf(us, Registered(bt, n), b)]
           /\ Registered(bt, n) \in BatchRow
           /\ Registered(bt, n).st = "collecting"
           /\ Registered(bt, n).expected > 0
<1>1. /\ Registered(bt, n) \in BatchRow
      /\ Registered(bt, n).st = "collecting"
      /\ Registered(bt, n).manifest = {}
      /\ Registered(bt, n).expected = bt.expected + n
      /\ Registered(bt, n).run = NoRun
  BY RegisteredRow DEF Registered
<1>2. Registered(bt, n).expected > 0
  BY <1>1 DEF BatchRow
<1> QED
  BY <1>1, <1>2 DEF LockRowOf

\* A batch that takes files has no lock or an open one.
LEMMA OpenLock ==
    ASSUME NEW b \in Batches, batch[b].st \in OpenStates
    PROVE  Locks[b].st \in {"none", "open"}
<1>1. Locks[b].st = IF batch[b].st \in {"collecting", "uploading"} THEN "open" ELSE batch[b].st
  BY DEF Locks, LockOf
<1> QED
  BY <1>1 DEF OpenStates

\* A registration and its refresh, with the writes to uploads of the same
\* transaction.
LEMMA EnlargedMapped ==
    ASSUME GateInv, IntendsFiles, NEW us \in [Uploads -> UploadRow], NEW b \in Batches,
           NEW n \in Nat \ {0}, batch[b].st \in OpenStates, Framed(upload, us, {b}),
           upload' = us,
           batch' = Refresh([batch EXCEPT ![b] = Registered(batch[b], n)], us, {b})
    PROVE  BL!LockNext /\ IntendsFiles'
<1> DEFINE reg == Registered(batch[b], n)
           in == InputsOf(us, reg, b)
           opened == LockRowOf(us, reg, b)
<1>1. upload \in [Uploads -> UploadRow] /\ batch \in [Batches -> BatchRow]
  BY Unpacked
<1>2. /\ opened = [st |-> "open", run |-> NoRun, manifest |-> {}, inputs |-> in]
      /\ reg \in BatchRow /\ reg.st = "collecting" /\ reg.expected > 0
  BY <1>1, OpenedRow
<1>3. in \in SUBSET Uploads
  BY DEF InputsOf, Admitted, Live
<1>4. batch' = [batch EXCEPT ![b] = Refreshed(reg, us, b)]
  <2>1. \A c \in Batches : batch'[c] = IF c = b THEN Refreshed(reg, us, b) ELSE batch[c]
    BY <1>1, <1>2 DEF Refresh
  <2> HIDE DEF reg
  <2> QED
    BY <1>1, <2>1 DEF Refresh
<1> HIDE DEF reg
<1>5. /\ LockRowOf(us, Refreshed(reg, us, b), b) = BL!Recounted(opened, in)
      /\ Refreshed(reg, us, b).expected = reg.expected
  <2>1. LockRowOf(us, Refreshed(reg, us, b), b) =
          BL!Recounted(LockRowOf(us, reg, b), InputsOf(us, reg, b))
    BY <1>2, RefreshRecounts
  <2>2. Refreshed(reg, us, b).expected = reg.expected
    BY <1>2, RefreshedType
  <2> QED
    BY <2>1, <2>2
<1> HIDE DEF in, opened
<1>6. ASSUME NEW c \in Batches
      PROVE  Locks'[c] = IF c = b THEN BL!Recounted(opened, in) ELSE Locks[c]
  <2>1. /\ Locks[c] = LockRowOf(upload, batch[c], c)
        /\ Locks'[c] = LockRowOf(us, batch'[c], c)
    BY LockIsRow
  <2>2. CASE c = b
    BY <1>1, <1>4, <1>5, <2>1, <2>2
  <2>3. CASE c # b
    <3>1. batch'[c] = batch[c]
      BY <1>1, <1>4, <2>3
    <3> QED
      BY <1>1, <2>1, <2>3, <3>1, FramedInputs
  <2> QED
    BY <2>2, <2>3
<1>7. Locks' = [Locks EXCEPT ![b] = BL!Recounted(opened, in)]
  BY <1>6 DEF Locks
<1>8. Locks[b].st \in {"none", "open"}
  BY OpenLock
<1>9. BL!LockNext
  BY <1>2, <1>3, <1>7, <1>8, RegisterIs
<1>10. IntendsFiles'
  BY <1>1, <1>2, <1>4, <1>5 DEF IntendsFiles
<1> QED
  BY <1>9, <1>10

\* A write to one batch row writes its lock.
LEMMA LockWritten ==
    ASSUME GateInv, NEW b \in Batches, NEW row,
           batch' = [batch EXCEPT ![b] = row], upload' = upload
    PROVE  Locks' = [Locks EXCEPT ![b] = LockRowOf(upload, row, b)]
<1>1. batch \in [Batches -> BatchRow]
  BY Unpacked
<1>2. \A c \in Batches : Locks'[c] = IF c = b THEN LockRowOf(upload, row, b) ELSE Locks[c]
  BY <1>1, LockIsRow
<1> QED
  BY <1>2 DEF Locks

\* POST /upload/batch, whether or not its second call is lost.
LEMMA RegisterBatchMapped ==
    ASSUME GateInv, IntendsFiles, NEW b \in Batches, NEW n \in Nat \ {0},
           NEW refreshed \in BOOLEAN, RegisterBatch(b, n, refreshed)
    PROVE  BL!LockNext /\ IntendsFiles'
<1>1. /\ upload \in [Uploads -> UploadRow] /\ batch \in [Batches -> BatchRow]
      /\ batch[b].st \in OpenStates /\ upload' = upload
  BY Unpacked DEF RegisterBatch, CanRegister
<1>2. CASE refreshed
  <2>1. batch' = Refresh([batch EXCEPT ![b] = Registered(batch[b], n)], upload, {b})
    BY <1>1, <1>2 DEF RegisterBatch
  <2>2. Framed(upload, upload, {b})
    BY DEF Framed
  <2> QED
    BY <1>1, <2>1, <2>2, EnlargedMapped
<1>3. CASE ~refreshed
  <2> DEFINE reg == Registered(batch[b], n)
             opened == LockRowOf(upload, reg, b)
             in == InputsOf(upload, reg, b)
  <2>1. /\ opened = [st |-> "open", run |-> NoRun, manifest |-> {}, inputs |-> in]
        /\ reg.expected > 0
    <3>1. batch[b] \in BatchRow
      BY <1>1
    <3> QED
      BY <3>1, OpenedRow
  <2>2. in \in SUBSET Uploads
    BY DEF InputsOf, Admitted, Live
  <2>3. batch' = [batch EXCEPT ![b] = reg]
    BY <1>1, <1>3 DEF RegisterBatch
  <2> HIDE DEF reg
  <2>4. Locks' = [Locks EXCEPT ![b] = opened]
    BY <1>1, <2>3, LockWritten
  <2>5. Locks[b].st \in {"none", "open"}
    BY <1>1, OpenLock
  <2> HIDE DEF in, opened
  <2>6. BL!LockNext
    BY <2>1, <2>2, <2>4, <2>5, RegisterIs
  <2> QED
    BY <1>1, <2>1, <2>3, <2>6 DEF IntendsFiles
<1> QED
  BY <1>2, <1>3

\* Registering membership, with or without an enlargement.
LEMMA RegisterMembershipMapped ==
    ASSUME GateInv, IntendsFiles, NEW u \in Uploads, NEW own \in BOOLEAN,
           RegisterMembership(u, own)
    PROVE  BL!LockNext /\ IntendsFiles'
<1> DEFINE b == upload[u].batch
           rows == Cardinality(RowsOf(upload, b))
           n == rows - batch[b].expected
           reserve == ~upload[u].member /\ rows > batch[b].expected
           row == [upload[u] EXCEPT !.member = TRUE, !.fresh = @ /\ ~own]
           bs == IF reserve THEN [batch EXCEPT ![b] = Registered(@, n)] ELSE batch
           us == [upload EXCEPT ![u] = row]
<1>1. /\ b \in Batches /\ Exists(upload[u]) /\ upload[u] \in UploadRow
      /\ upload \in [Uploads -> UploadRow] /\ batch \in [Batches -> BatchRow]
  BY Unpacked DEF RegisterMembership, Placed, Exists
<1>2. row \in UploadRow /\ row.batch = b
  BY <1>1 DEF UploadRow
<1>3. UploadsBecome(us, bs, {b})
  BY Unpacked DEF RegisterMembership
<1>4. CASE reserve
  <2>1. rows \in Nat
    <3>1. RowsOf(upload, b) \subseteq Uploads
      BY DEF RowsOf
    <3> QED
      BY <3>1, FS_Subset, FS_CardinalityType, ConstantsAssumption
  <2>2. batch[b].expected \in Nat
    BY <1>1 DEF BatchRow
  <2>3. n \in Nat \ {0}
    BY <1>4, <2>1, <2>2
  <2>4. batch[b].st \in OpenStates
    BY <1>4 DEF RegisterMembership, CanRegister
  <2>5. bs = [batch EXCEPT ![b] = Registered(batch[b], n)]
    BY <1>4
  <2> HIDE DEF n, rows, reserve, bs, row, b
  <2>6. us \in [Uploads -> UploadRow]
    BY <1>1, <1>2
  <2>7. Framed(upload, us, {b})
    <3>1. upload[u].batch = b
      BY DEF b
    <3> QED
      BY <1>1, <1>2, <3>1 DEF Framed
  <2> HIDE DEF us
  <2>8. upload' = us /\ batch' = Refresh([batch EXCEPT ![b] = Registered(batch[b], n)], us, {b})
    BY <1>3, <2>5 DEF UploadsBecome
  <2> QED
    BY <1>1, <2>3, <2>4, <2>6, <2>7, <2>8, EnlargedMapped
<1>5. CASE ~reserve
  <2>1. UploadsBecome([upload EXCEPT ![u] = row], batch, {upload[u].batch})
    BY <1>3, <1>5
  <2> HIDE DEF row
  <2> QED
    BY <1>1, <1>2, <2>1, RowKeptMapped
<1> QED
  BY <1>4, <1>5

----------------------------------------------------------------------------
(* The transactions that run a batch.                                       *)

\* A lock is made of a state, a run, a manifest and inputs.
LEMMA LockTyped ==
    ASSUME GateInv
    PROVE  Locks \in [Batches -> BL!LockRow]
<1>1. ASSUME NEW b \in Batches PROVE LockRowOf(upload, batch[b], b) \in BL!LockRow
  <2>1. batch[b] \in BatchRow
    BY Unpacked
  <2>2. InputsOf(upload, batch[b], b) \in SUBSET Uploads
    BY DEF InputsOf, Admitted, Live
  <2>3. (IF batch[b].st \in {"collecting", "uploading"} THEN "open" ELSE batch[b].st)
          \in BL!LockStates
    BY <2>1 DEF BatchRow, BatchStates, BL!LockStates
  <2> HIDE DEF InputsOf
  <2> QED
    BY <2>1, <2>2, <2>3 DEF LockRowOf, BL!LockRow, BatchRow
<1> QED
  BY <1>1, LockIsRow DEF Locks

\* A batch row that keeps its intended count keeps its inputs.
LEMMA KeptInputs ==
    ASSUME NEW us, NEW b, NEW bt, NEW row,
           bt.st # "none", row.st # "none", row.expected = bt.expected
    PROVE  InputsOf(us, row, b) = InputsOf(us, bt, b)
  BY DEF InputsOf, Complete

\* A write of state, run and manifest to a batch is one to its lock.
LEMMA RunWritten ==
    ASSUME GateInv, IntendsFiles, NEW b \in Batches, NEW row \in BatchRow,
           batch[b].st # "none", row.st \notin OpenStates, row.expected = batch[b].expected,
           batch' = [batch EXCEPT ![b] = row], UNCHANGED <<upload, clock>>
    PROVE  /\ Locks' = [Locks EXCEPT ![b] =
                 [st |-> row.st, run |-> row.run, manifest |-> row.manifest,
                  inputs |-> Locks[b].inputs]]
           /\ IntendsFiles'
<1>1. batch \in [Batches -> BatchRow] /\ upload' = upload
  BY Unpacked
<1>2. row.st \notin {"none", "collecting", "uploading"}
  BY DEF OpenStates
<1>3. Locks[b].inputs = InputsOf(upload, batch[b], b)
  BY DEF Locks, LockOf, InputsOf
<1>4. InputsOf(upload, row, b) = InputsOf(upload, batch[b], b)
  BY <1>2, KeptInputs
<1>5. LockRowOf(upload, row, b) =
        [st |-> row.st, run |-> row.run, manifest |-> row.manifest, inputs |-> Locks[b].inputs]
  BY <1>2, <1>3, <1>4 DEF LockRowOf
<1>6. Locks' = [Locks EXCEPT ![b] = LockRowOf(upload, row, b)]
  BY <1>1, LockWritten
<1>7. IntendsFiles'
  BY <1>1 DEF IntendsFiles
<1> QED
  BY <1>5, <1>6, <1>7

\* The writes of Lock and Unlock, of Close and of Relock.
Held(b, st, r) == [Locks EXCEPT ![b].st = st, ![b].run = r]
Closed(b, st) == [Locks EXCEPT ![b].st = st]
Retaken(b, st, r) == [Locks EXCEPT ![b].st = st, ![b].run = r, ![b].manifest = Locks[b].inputs]

\* They write a whole row.
LEMMA LockRowWritten ==
    ASSUME GateInv, NEW b \in Batches, NEW st \in BL!LockStates, NEW r \in Runs \cup {NoRun}
    PROVE  /\ Held(b, st, r)
                = [Locks EXCEPT ![b] = [st |-> st, run |-> r, manifest |-> Locks[b].manifest,
                                        inputs |-> Locks[b].inputs]]
           /\ Closed(b, st)
                = [Locks EXCEPT ![b] = [st |-> st, run |-> Locks[b].run,
                                        manifest |-> Locks[b].manifest,
                                        inputs |-> Locks[b].inputs]]
           /\ Retaken(b, st, r)
                = [Locks EXCEPT ![b] = [st |-> st, run |-> r, manifest |-> Locks[b].inputs,
                                        inputs |-> Locks[b].inputs]]
<1>1. Locks \in [Batches -> BL!LockRow]
  BY LockTyped
<1>2. ASSUME NEW g \in [Batches -> BL!LockRow], \A c \in Batches : c # b => g[c] = Locks[c]
      PROVE  g = [Locks EXCEPT ![b] = [st |-> g[b].st, run |-> g[b].run,
                                       manifest |-> g[b].manifest, inputs |-> g[b].inputs]]
  <2>1. g[b] = [st |-> g[b].st, run |-> g[b].run, manifest |-> g[b].manifest,
                inputs |-> g[b].inputs]
    BY DEF BL!LockRow
  <2> QED
    BY <1>1, <1>2, <2>1
<1> DEFINE g1 == [Locks EXCEPT ![b].st = st, ![b].run = r]
           g2 == [Locks EXCEPT ![b].st = st]
           g3 == [Locks EXCEPT ![b].st = st, ![b].run = r, ![b].manifest = Locks[b].inputs]
<1>3. /\ g1 \in [Batches -> BL!LockRow]
      /\ g1[b].st = st /\ g1[b].run = r
      /\ g1[b].manifest = Locks[b].manifest /\ g1[b].inputs = Locks[b].inputs
      /\ \A c \in Batches : c # b => g1[c] = Locks[c]
  BY <1>1 DEF BL!LockRow
<1>4. /\ g2 \in [Batches -> BL!LockRow]
      /\ g2[b].st = st /\ g2[b].run = Locks[b].run
      /\ g2[b].manifest = Locks[b].manifest /\ g2[b].inputs = Locks[b].inputs
      /\ \A c \in Batches : c # b => g2[c] = Locks[c]
  BY <1>1 DEF BL!LockRow
<1>5. /\ g3 \in [Batches -> BL!LockRow]
      /\ g3[b].st = st /\ g3[b].run = r
      /\ g3[b].manifest = Locks[b].inputs /\ g3[b].inputs = Locks[b].inputs
      /\ \A c \in Batches : c # b => g3[c] = Locks[c]
  BY <1>1 DEF BL!LockRow
<1> HIDE DEF g1, g2, g3
<1>6. g1 = [Locks EXCEPT ![b] = [st |-> st, run |-> r, manifest |-> Locks[b].manifest,
                                 inputs |-> Locks[b].inputs]]
  BY <1>2, <1>3
<1>7. g2 = [Locks EXCEPT ![b] = [st |-> st, run |-> Locks[b].run,
                                 manifest |-> Locks[b].manifest, inputs |-> Locks[b].inputs]]
  BY <1>2, <1>4
<1>8. g3 = [Locks EXCEPT ![b] = [st |-> st, run |-> r, manifest |-> Locks[b].inputs,
                                 inputs |-> Locks[b].inputs]]
  BY <1>2, <1>5
<1> QED
  BY <1>6, <1>7, <1>8 DEF g1, g2, g3, Held, Closed, Retaken

\* What the lock of a batch says of its row.
LEMMA LockColumns ==
    ASSUME GateInv, NEW b \in Batches
    PROVE  /\ Locks[b].st = IF batch[b].st \in {"collecting", "uploading"} THEN "open"
                                                                           ELSE batch[b].st
           /\ Locks[b].run = batch[b].run
           /\ Locks[b].manifest = batch[b].manifest
           /\ Locks[b] = [st |-> Locks[b].st, run |-> Locks[b].run,
                          manifest |-> Locks[b].manifest, inputs |-> Locks[b].inputs]
  BY DEF Locks, LockOf

\* The trigger's refresh called by itself.
LEMMA RefreshBatchMapped ==
    ASSUME GateInv, IntendsFiles, NEW b \in Batches, RefreshBatch(b)
    PROVE  BL!LockNext /\ IntendsFiles'
<1>1. /\ upload \in [Uploads -> UploadRow] /\ Framed(upload, upload, {b})
      /\ UploadsBecome(upload, batch, {b}) /\ {b} \in SUBSET Batches
  BY Unpacked DEF RefreshBatch, Framed, UploadsBecome
<1>2. BL!SourcesChange({b}) /\ IntendsFiles'
  BY <1>1, SourcesMapped
<1> QED
  BY <1>2 DEF BL!LockNext

\* mark_upload_batch_running takes the lock.
LEMMA MarkRunningMapped ==
    ASSUME GateInv, IntendsFiles, NEW b \in Batches, NEW r \in Runs, MarkRunning(b, r)
    PROVE  BL!LockNext /\ IntendsFiles'
<1>0. "running" \in BL!LockStates /\ r \in Runs \cup {NoRun} /\ NoRun \in Runs \cup {NoRun}
  BY DEF BL!LockStates
<1> DEFINE row == [batch[b] EXCEPT !.st = "running", !.run = r]
           new == Held(b, "running", r)
<1>1. batch \in [Batches -> BatchRow] /\ batch[b] \in BatchRow /\ batch[b].st = "ready"
  BY Unpacked DEF MarkRunning
<1>2. /\ row \in BatchRow /\ row.st = "running" /\ row.run = r
      /\ row.manifest = batch[b].manifest /\ row.expected = batch[b].expected
  BY <1>1 DEF BatchRow, BatchStates
<1>3. batch' = [batch EXCEPT ![b] = row] /\ UNCHANGED <<upload, clock>>
  BY <1>1 DEF MarkRunning
<1> HIDE DEF row
<1>4. /\ Locks' = [Locks EXCEPT ![b] = [st |-> "running", run |-> r,
                     manifest |-> Locks[b].manifest, inputs |-> Locks[b].inputs]]
      /\ IntendsFiles'
  <2>1. Locks[b].run = batch[b].run /\ Locks[b].manifest = batch[b].manifest
    BY LockColumns
  <2>2. batch[b].st # "none" /\ row.st \notin OpenStates
    BY <1>1, <1>2 DEF OpenStates
  <2>3. /\ Locks' = [Locks EXCEPT ![b] = [st |-> row.st, run |-> row.run,
                       manifest |-> row.manifest, inputs |-> Locks[b].inputs]]
        /\ IntendsFiles'
    BY <1>2, <1>3, <2>2, RunWritten
  <2> QED
    BY <1>2, <2>1, <2>3
<1>5. new = [Locks EXCEPT ![b] = [st |-> "running", run |-> r,
               manifest |-> Locks[b].manifest, inputs |-> Locks[b].inputs]]
  BY <1>0, LockRowWritten
<1>6. Locks[b].st = "ready"
  BY <1>1, LockColumns
<1>7. Locks' = new
  BY <1>4, <1>5
<1>8. BL!Lock(b, r)
  BY <1>6, <1>7 DEF BL!Lock, Locks, Held
<1> QED
  BY <1>4, <1>8 DEF BL!LockNext

\* releaseUploadBatchAfterDispatchFailure gives the lock back.
LEMMA ReleaseMapped ==
    ASSUME GateInv, IntendsFiles, NEW b \in Batches, NEW r \in Runs, Release(b, r)
    PROVE  BL!LockNext /\ IntendsFiles'
<1>0. "ready" \in BL!LockStates /\ r \in Runs \cup {NoRun} /\ NoRun \in Runs \cup {NoRun}
  BY DEF BL!LockStates
<1> DEFINE row == [batch[b] EXCEPT !.st = "ready", !.run = NoRun]
           new == Held(b, "ready", NoRun)
<1>1. /\ batch \in [Batches -> BatchRow] /\ batch[b] \in BatchRow
      /\ batch[b].st = "running" /\ batch[b].run = r
  BY Unpacked DEF Release, HeldBy
<1>2. /\ row \in BatchRow /\ row.st = "ready" /\ row.run = NoRun
      /\ row.manifest = batch[b].manifest /\ row.expected = batch[b].expected
  BY <1>1 DEF BatchRow, BatchStates
<1>3. batch' = [batch EXCEPT ![b] = row] /\ UNCHANGED <<upload, clock>>
  BY <1>1 DEF Release
<1> HIDE DEF row
<1>4. /\ Locks' = [Locks EXCEPT ![b] = [st |-> "ready", run |-> NoRun,
                     manifest |-> Locks[b].manifest, inputs |-> Locks[b].inputs]]
      /\ IntendsFiles'
  <2>1. Locks[b].run = batch[b].run /\ Locks[b].manifest = batch[b].manifest
    BY LockColumns
  <2>2. batch[b].st # "none" /\ row.st \notin OpenStates
    BY <1>1, <1>2 DEF OpenStates
  <2>3. /\ Locks' = [Locks EXCEPT ![b] = [st |-> row.st, run |-> row.run,
                       manifest |-> row.manifest, inputs |-> Locks[b].inputs]]
        /\ IntendsFiles'
    BY <1>2, <1>3, <2>2, RunWritten
  <2> QED
    BY <1>2, <2>1, <2>3
<1>5. new = [Locks EXCEPT ![b] = [st |-> "ready", run |-> NoRun,
               manifest |-> Locks[b].manifest, inputs |-> Locks[b].inputs]]
  BY <1>0, LockRowWritten
<1>6. Locks[b].st = "running" /\ Locks[b].run = r
  BY <1>1, LockColumns
<1>7. Locks' = new
  BY <1>4, <1>5
<1>8. BL!Unlock(b, r)
  BY <1>6, <1>7 DEF BL!Unlock, BL!Holds, Locks, Held
<1> QED
  BY <1>4, <1>8 DEF BL!LockNext

\* finalize_upload_batch.py closes the batch its run holds.
LEMMA FinalizeMapped ==
    ASSUME GateInv, IntendsFiles, NEW b \in Batches, NEW r \in Runs,
           NEW outcome \in {"completed", "failed"}, Finalize(b, r, outcome)
    PROVE  BL!LockNext /\ IntendsFiles'
<1> DEFINE row == [batch[b] EXCEPT !.st = outcome]
           new == Closed(b, outcome)
<1>1. /\ batch \in [Batches -> BatchRow] /\ batch[b] \in BatchRow
      /\ batch[b].st = "running" /\ batch[b].run = r
  BY Unpacked DEF Finalize, HeldBy
<1>2. /\ row \in BatchRow /\ row.st = outcome /\ row.run = batch[b].run
      /\ row.manifest = batch[b].manifest /\ row.expected = batch[b].expected
  BY <1>1 DEF BatchRow, BatchStates
<1>3. batch' = [batch EXCEPT ![b] = row] /\ UNCHANGED <<upload, clock>>
  BY <1>1 DEF Finalize
<1> HIDE DEF row
<1>4. /\ Locks' = [Locks EXCEPT ![b] = [st |-> outcome, run |-> Locks[b].run,
                     manifest |-> Locks[b].manifest, inputs |-> Locks[b].inputs]]
      /\ IntendsFiles'
  <2>1. Locks[b].run = batch[b].run /\ Locks[b].manifest = batch[b].manifest
    BY LockColumns
  <2>2. batch[b].st # "none" /\ row.st \notin OpenStates
    BY <1>1, <1>2 DEF OpenStates
  <2>3. /\ Locks' = [Locks EXCEPT ![b] = [st |-> row.st, run |-> row.run,
                       manifest |-> row.manifest, inputs |-> Locks[b].inputs]]
        /\ IntendsFiles'
    BY <1>2, <1>3, <2>2, RunWritten
  <2> QED
    BY <1>2, <2>1, <2>3
<1>5. new = [Locks EXCEPT ![b] = [st |-> outcome, run |-> Locks[b].run,
               manifest |-> Locks[b].manifest, inputs |-> Locks[b].inputs]]
  BY LockRowWritten DEF BL!LockStates
<1>6. Locks[b].st = "running" /\ Locks[b].run = r
  BY <1>1, LockColumns
<1>7. Locks' = new
  BY <1>4, <1>5
<1>8. BL!Close(b, r, outcome)
  BY <1>6, <1>7 DEF BL!Close, BL!Holds, Locks, Closed
<1> QED
  BY <1>4, <1>8 DEF BL!LockNext

\* A rerun recounts and takes the lock.
LEMMA PrepareRerunMapped ==
    ASSUME GateInv, IntendsFiles, NEW b \in Batches, NEW r \in Runs, PrepareRerun(b, r)
    PROVE  BL!LockNext /\ IntendsFiles'
<1>0. "running" \in BL!LockStates /\ r \in Runs \cup {NoRun} /\ NoRun \in Runs \cup {NoRun}
  BY DEF BL!LockStates
<1> DEFINE row == [batch[b] EXCEPT !.st = "running", !.run = r,
                                   !.manifest = Admitted(upload, b)]
           new == Retaken(b, "running", r)
<1>1. /\ upload \in [Uploads -> UploadRow]
      /\ batch \in [Batches -> BatchRow] /\ batch[b] \in BatchRow
      /\ batch[b].st # "none" /\ batch[b].expected > 0 /\ Complete(batch[b], upload, b)
      /\ Admitted(upload, b) \in SUBSET Uploads
  BY Unpacked DEF PrepareRerun, IntendsFiles, Admitted, Live
<1>2. Locks[b].inputs = Admitted(upload, b) /\ Locks[b].inputs # {}
  <2>1. Locks[b].inputs = InputsOf(upload, batch[b], b)
    BY DEF Locks, LockOf, InputsOf
  <2> QED
    BY <1>1, <2>1, InputsThere
<1>3. /\ row \in BatchRow /\ row.st = "running" /\ row.run = r
      /\ row.manifest = Admitted(upload, b) /\ row.expected = batch[b].expected
  BY <1>1 DEF BatchRow, BatchStates
<1>4. batch' = [batch EXCEPT ![b] = row] /\ UNCHANGED <<upload, clock>>
  BY <1>1 DEF PrepareRerun
<1> HIDE DEF row
<1>5. /\ Locks' = [Locks EXCEPT ![b] = [st |-> "running", run |-> r,
                     manifest |-> Locks[b].inputs, inputs |-> Locks[b].inputs]]
      /\ IntendsFiles'
  BY <1>1, <1>2, <1>3, <1>4, RunWritten DEF OpenStates
<1>6. new = [Locks EXCEPT ![b] = [st |-> "running", run |-> r,
               manifest |-> Locks[b].inputs, inputs |-> Locks[b].inputs]]
  BY <1>0, LockRowWritten
<1>7. Locks[b].st # "none"
  BY <1>1, LockColumns
<1>8. Locks' = new
  BY <1>5, <1>6
<1>9. BL!Relock(b, r)
  BY <1>2, <1>7, <1>8 DEF BL!Relock, Locks, Retaken
<1> QED
  BY <1>5, <1>9 DEF BL!LockNext

----------------------------------------------------------------------------
(* Clean Video Storage.                                                     *)

CancelledLock(row) ==
    IF row.st \in {"open", "ready", "running"}
      THEN [row EXCEPT !.st = "cancelled", !.manifest = {}] ELSE row

CancelledBatch(bt) ==
    IF bt.st \in ActiveBatchStates THEN [bt EXCEPT !.st = "cancelled", !.manifest = {}] ELSE bt

\* What a clean is, said of Locks.
LEMMA CancelIs ==
    ASSUME NEW B, \A b \in Batches : Locks[b].inputs # {} => b \in B,
           Locks' = [b \in Batches |->
              IF b \in B /\ CancelledLock(Locks[b]).st # "none"
                THEN BL!Recounted(CancelledLock(Locks[b]), {}) ELSE CancelledLock(Locks[b])]
    PROVE  BL!Cancel(B)
  BY DEF BL!Cancel, Locks, CancelledLock

\* Cancelling a batch cancels its lock.
LEMMA CancelledRow ==
    ASSUME NEW us, NEW b \in Batches, NEW bt \in BatchRow
    PROVE  /\ LockRowOf(us, CancelledBatch(bt), b) = CancelledLock(LockRowOf(us, bt, b))
           /\ CancelledBatch(bt) \in BatchRow
           /\ CancelledBatch(bt).expected = bt.expected
           /\ CancelledBatch(bt).st = "none" <=> bt.st = "none"
<1> DEFINE row == LockRowOf(us, bt, b)
           new == [row EXCEPT !.st = "cancelled", !.manifest = {}]
<1>1. CASE bt.st \in ActiveBatchStates
  <2> DEFINE c == [bt EXCEPT !.st = "cancelled", !.manifest = {}]
  <2>1. /\ c \in BatchRow /\ c.st = "cancelled" /\ c.manifest = {}
        /\ c.run = bt.run /\ c.expected = bt.expected
    BY DEF BatchRow, BatchStates
  <2>2. CancelledBatch(bt) = c /\ bt.st # "none"
    BY <1>1 DEF CancelledBatch, ActiveBatchStates
  <2> HIDE DEF c
  <2>3. InputsOf(us, c, b) = InputsOf(us, bt, b)
    BY <2>1, <2>2, KeptInputs
  <2>4. LockRowOf(us, c, b) = [st |-> "cancelled", run |-> bt.run, manifest |-> {},
                               inputs |-> InputsOf(us, bt, b)]
    BY <2>1, <2>3 DEF LockRowOf
  <2>5. /\ row \in [st : {row.st}, run : {bt.run}, manifest : {bt.manifest},
                    inputs : {InputsOf(us, bt, b)}]
        /\ row.st \in {"open", "ready", "running"}
    BY <1>1 DEF LockRowOf, ActiveBatchStates
  <2> HIDE DEF row
  <2>6. new \in [st : {"cancelled"}, run : {bt.run}, manifest : {{}},
                 inputs : {InputsOf(us, bt, b)}]
    BY <2>5
  <2> HIDE DEF new
  <2>7. new = [st |-> "cancelled", run |-> bt.run, manifest |-> {},
               inputs |-> InputsOf(us, bt, b)]
    BY <2>6
  <2>8. CancelledLock(row) = new
    BY <2>5 DEF CancelledLock, new
  <2> QED
    BY <2>1, <2>2, <2>4, <2>7, <2>8 DEF row
<1>2. CASE bt.st \notin ActiveBatchStates
  <2>1. CancelledBatch(bt) = bt
    BY <1>2 DEF CancelledBatch
  <2>2. row.st \notin {"open", "ready", "running"}
    BY <1>2 DEF LockRowOf, ActiveBatchStates, BatchRow, BatchStates
  <2>3. CancelledLock(row) = row
    BY <2>2 DEF CancelledLock
  <2> QED
    BY <2>1, <2>3
<1> QED
  BY <1>1, <1>2

\* neutralize_active_video_state cancels the locks and empties the inputs of all.
LEMMA NeutralizeMapped ==
    ASSUME GateInv, IntendsFiles, Neutralize
    PROVE  BL!LockNext /\ IntendsFiles'
<1> DEFINE bs == [b \in Batches |-> CancelledBatch(batch[b])]
           hit == {u \in Uploads : upload[u].st \in ActiveUploadStates}
           us == [u \in Uploads |->
                    IF u \in hit THEN [upload[u] EXCEPT !.st = "aborted", !.removed = TRUE]
                                 ELSE upload[u]]
           B == {upload[u].batch : u \in hit}
<1>1. upload \in [Uploads -> UploadRow] /\ batch \in [Batches -> BatchRow] /\ Placed(upload)
  BY Unpacked
<1>2. upload' = us /\ batch' = Refresh(bs, us, B)
  BY DEF Neutralize, UploadsBecome, CancelledBatch
<1>3. us \in [Uploads -> UploadRow] /\ \A u \in hit : us[u].removed
  <2>1. ASSUME NEW u \in Uploads
        PROVE  us[u] \in UploadRow /\ (u \in hit => us[u].removed)
    <3>1. upload[u] \in UploadRow
      BY <1>1
    <3>2. /\ [upload[u] EXCEPT !.st = "aborted", !.removed = TRUE] \in UploadRow
          /\ [upload[u] EXCEPT !.st = "aborted", !.removed = TRUE].removed
      BY <3>1 DEF UploadRow, UploadStates
    <3> HIDE DEF hit
    <3> QED
      BY <3>1, <3>2
  <2> QED
    BY <2>1
<1>4. ASSUME NEW b \in Batches PROVE Admitted(us, b) = {}
  <2>1. ASSUME NEW u \in Admitted(us, b) PROVE FALSE
    <3>1. u \in Uploads /\ ~us[u].removed /\ us[u].st = "verified"
      BY <2>1 DEF Admitted, Live
    <3>2. u \notin hit
      BY <1>3, <3>1
    <3>3. upload[u].st = "verified"
      BY <3>1, <3>2
    <3> QED
      BY <3>1, <3>2, <3>3 DEF ActiveUploadStates
  <2> QED
    BY <2>1
<1>5. ASSUME NEW b \in Batches, b \notin B PROVE Admitted(upload, b) = {}
  BY <1>5 DEF Admitted, Live, ActiveUploadStates
<1>6. B \in SUBSET Batches
  BY <1>1 DEF Placed, ActiveUploadStates
<1> HIDE DEF hit, us, B
<1>7. ASSUME NEW b \in Batches
      PROVE  /\ Locks'[b] = IF b \in B /\ CancelledLock(Locks[b]).st # "none"
                              THEN BL!Recounted(CancelledLock(Locks[b]), {})
                              ELSE CancelledLock(Locks[b])
             /\ batch'[b].st # "none" => batch'[b].expected > 0
  <2> DEFINE c == CancelledBatch(batch[b])
  <2>1. /\ Locks[b] = LockRowOf(upload, batch[b], b)
        /\ Locks'[b] = LockRowOf(us, batch'[b], b)
    BY <1>2, LockIsRow
  <2>2. /\ LockRowOf(upload, c, b) = CancelledLock(Locks[b])
        /\ c \in BatchRow
        /\ c.st # "none" => c.expected > 0
    BY <1>1, <2>1, CancelledRow DEF IntendsFiles
  <2>3. CancelledLock(Locks[b]).st # "none" <=> c.st # "none"
    <3>1. LockRowOf(upload, c, b).st = IF c.st \in {"collecting", "uploading"} THEN "open"
                                                                               ELSE c.st
      BY DEF LockRowOf
    <3> HIDE DEF c
    <3> QED
      BY <2>2, <3>1
  <2>4. bs[b] = c
    OBVIOUS
  <2> HIDE DEF c, bs
  <2>5. InputsOf(us, c, b) = {}
    BY <1>4 DEF InputsOf
  <2>6. CASE b \in B /\ c.st # "none"
    <3>1. batch'[b] = Refreshed(c, us, b)
      BY <1>2, <2>4, <2>6 DEF Refresh
    <3>2. LockRowOf(us, Refreshed(c, us, b), b) =
            BL!Recounted(LockRowOf(upload, c, b), InputsOf(us, c, b))
      BY <1>3, <2>2, <2>6, RefreshRecounts
    <3>3. batch'[b].expected = c.expected
      BY <1>3, <2>2, <3>1, RefreshedType
    <3> QED
      BY <2>1, <2>2, <2>3, <2>5, <2>6, <3>1, <3>2, <3>3
  <2>7. CASE ~(b \in B /\ c.st # "none")
    <3>1. batch'[b] = c
      BY <1>2, <2>4, <2>7 DEF Refresh
    <3>2. InputsOf(upload, c, b) = {}
      BY <1>5, <2>7 DEF InputsOf
    <3>3. LockRowOf(us, c, b) = LockRowOf(upload, c, b)
      BY <2>5, <3>2 DEF LockRowOf
    <3> QED
      BY <2>1, <2>2, <2>3, <2>7, <3>1, <3>3
  <2> QED
    BY <2>6, <2>7
<1>8. Locks' = [b \in Batches |->
        IF b \in B /\ CancelledLock(Locks[b]).st # "none"
          THEN BL!Recounted(CancelledLock(Locks[b]), {}) ELSE CancelledLock(Locks[b])]
  BY <1>7 DEF Locks
<1>9. ASSUME NEW b \in Batches, Locks[b].inputs # {} PROVE b \in B
  BY <1>5, <1>9 DEF Locks, LockOf
<1>10. BL!Cancel(B)
  BY <1>8, <1>9, CancelIs
<1> QED
  BY <1>6, <1>7, <1>10 DEF BL!LockNext, IntendsFiles

----------------------------------------------------------------------------
\* Every transaction is a step of the lock or leaves it alone.
LEMMA StepMapped ==
    ASSUME GateInv, IntendsFiles, [Next]_vars
    PROVE  IntendsFiles' /\ (BL!LockNext \/ UNCHANGED Locks)
<1>1. ASSUME NEW u \in Uploads, UploadStep(u)
      PROVE  IntendsFiles' /\ (BL!LockNext \/ UNCHANGED Locks)
  BY <1>1, CheckSealMapped, InsertUploadMapped, RegisterMembershipMapped, ColumnUpdatesMapped, VerifyMapped,
     ResolveDuplicateMapped DEF UploadStep
<1>2. ASSUME NEW b \in Batches, BatchStep(b) PROVE BL!LockNext /\ IntendsFiles'
  <2>1. \A n \in 1..MaxFiles : n \in Nat \ {0}
    BY ConstantsAssumption
  <2> QED
    BY <1>2, <2>1, RegisterBatchMapped, RefreshBatchMapped, MarkRunningMapped, ReleaseMapped,
       FinalizeMapped, PrepareRerunMapped DEF BatchStep
<1>3. CASE UNCHANGED vars
  BY <1>3, LockIsRow DEF vars, IntendsFiles, Locks, LockOf
<1> QED
  BY <1>1, <1>2, <1>3, NeutralizeMapped DEF Next

\* The empty tables are batches without a lock.
LEMMA InitMapped ==
    ASSUME Init
    PROVE  BL!LockInit /\ IntendsFiles
<1>1. Locks = [b \in Batches |-> [st |-> "none", run |-> NoRun, manifest |-> {}, inputs |-> {}]]
  BY DEF Init, NoBatchRow, Locks, LockOf
<1> QED
  BY <1>1 DEF Init, NoBatchRow, IntendsFiles, BL!LockInit, Locks

\* In every reachable state a batch that is there intends at least one file:
\* what makes NextBatchState's "ready" mean that there is something to run.
THEOREM IntendsInvariant == Spec => []IntendsFiles
<1>1. Init => IntendsFiles
  BY InitMapped
<1>2. GateInv /\ IntendsFiles /\ [Next]_vars => IntendsFiles'
  BY StepMapped
<1> QED
  BY <1>1, <1>2, GateInvariant, PTL DEF Spec

\* UploadBatch implements BatchLock: whatever the phones, the pipeline and the
\* cleaner do to single uploads, a batch behaves as the lock on which the start,
\* reset and retry routes rely (upload_batches and its functions).
THEOREM Refinement == Spec => ImplementsBatchLock
<1>1. Init => BL!LockInit
  BY InitMapped
<1>2. GateInv /\ IntendsFiles /\ [Next]_vars => [BL!LockNext]_Locks
  BY StepMapped
<1> QED
  BY <1>1, <1>2, GateInvariant, IntendsInvariant, PTL
  DEF Spec, ImplementsBatchLock, BL!LockSpec, Locks
=============================================================================
