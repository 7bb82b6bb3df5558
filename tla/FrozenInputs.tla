---------------------------- MODULE FrozenInputs ----------------------------
(***************************************************************************)
(* The original videos in R2 and the jobs that bring them back: the         *)
(* reconciliation of raw/<batch>/ with a frozen manifest                    *)
(* (pipeline/r2_batch_restore.py, scripts/preflight_frozen_inputs.py), the  *)
(* admission of sources (pipeline/r2_batch_scope.py), the batchless reset   *)
(* (scripts/reset_and_rerun.py) and the manual recovery                     *)
(* (scripts/raw_recovery.py), over the copies and markers of                *)
(* integrations/r2_storage.py.                                              *)
(*                                                                         *)
(* A job is a list of phases, each of one or more steps; it may die between *)
(* any two of them, and later jobs find the bucket as it left it.  Bytes    *)
(* are identities, all of one size; Torn is a copy that came out short.     *)
(***************************************************************************)
EXTENDS Naturals, Sequences, FiniteSets, SequencesExt, Functions

CONSTANTS Names,       \* file names of sources
          Batches, Batch,    \* the batch directories; the one jobs name
          Frozen,      \* Batches \X Names -> the bytes its upload verified
          Hashed,      \* uploads whose SHA-256 is on record
          Large,       \* names of objects above the single-copy limit
          Kinds,       \* the jobs considered
          Manifests,   \* manifests a run may carry
          Stores,      \* initial contents of the bucket
          Statuses,    \* initial upload -> status
          MaxJobs, MaxTorn   \* bounds: jobs, copies that come out short

ASSUME FrozenInputsAssumption ==
    /\ Batch \in Batches /\ "flat" \notin Batches
    /\ {"none", "torn"} \cap Range(Frozen) = {}
    /\ Frozen \in [Batches \X Names -> Range(Frozen)]
    /\ Kinds \subseteq {"run", "reset", "audit", "legacy", "rawrun", "rawreset"}
    /\ \A m \in Manifests : \A i \in DOMAIN m : m[i].name \in Names
    /\ \A s \in Stores : s \in [{"raw", "processed"} \X (Batches \cup {"flat"}) \X Names
                                  -> Range(Frozen) \cup {"none", "torn"}]
    /\ \A s \in Statuses : s \in [Batches \X Names -> STRING]
    /\ MaxJobs \in Nat /\ MaxTorn \in Nat

VARIABLES store, origin,   \* key -> bytes now; the same at the start
          markers,         \* raw key -> the bytes its processed marker pins
          rows,            \* source_uploads: upload -> [key, status, hashed]
          drafts,          \* review/ holds drafts of an earlier run
          job,             \* the pipeline job at work
          recovery,        \* scripts/raw_recovery.py, run by hand
          torn,            \* history: raw keys whose copy came out short
          overwritten,     \* history: keys a copy found free and did not find so
          analysed,        \* history: <<key, bytes>> a run has taken in
          jobs             \* jobs started

vars == <<store, origin, markers, rows, drafts, job, recovery, torn, overwritten, analysed, jobs>>

None == "none"
Torn == "torn"
Flat == "flat"
Key(stage, dir, n) == <<stage, dir, n>>
NoKey == Key(None, None, None)
Raw(n) == Key("raw", Batch, n)
Processed(n) == Key("processed", Batch, n)
FlatRaw(n) == Key("raw", Flat, n)
FlatProcessed(n) == Key("processed", Flat, n)
Keys == {"raw", "processed"} \X (Batches \cup {Flat}) \X Names
RawKeys == {k \in Keys : k[1] = "raw"}
Uploads == Batches \X Names
RightSize(bytes) == bytes \notin {None, Torn}
Entries(m) == {m[i].name : i \in DOMAIN m}

\* parse_manifest: entries of this batch, each once, of a verified size.
WellFormed(m) ==
    /\ m # <<>>
    /\ \A i \in DOMAIN m : m[i].dir = Batch /\ m[i].declared = m[i].verified /\ m[i].verified > 0
    /\ \A i, j \in DOMAIN m : m[i] = m[j] => i = j

NoRow == [key |-> NoKey, status |-> None, hashed |-> FALSE]
RowAt(k) == IF \E u \in Uploads : rows[u].key = k
            THEN rows[CHOOSE u \in Uploads : rows[u].key = k] ELSE NoRow
Sha(n) == IF <<Batch, n>> \in Hashed THEN Frozen[<<Batch, n>>] ELSE None

Idle == [kind |-> None, todo |-> <<>>, manifest |-> <<>>, left |-> [k \in {} |-> None],
         made |-> NoKey, admitted |-> {}, why |-> None]

Reconcile == <<"examine", "copy", "confirm">>
Fetch == <<"admit", "prepare", "mark">>
Batched == <<"preflight">> \o Reconcile \o <<"requeue">> \o Reconcile \o Fetch

\* What a job of each kind goes through; the manual kinds stop after the preflight.
Phases(kind) ==
    CASE kind = "run"      -> Batched
      [] kind = "reset"    -> Reconcile \o <<"drafts">> \o Batched
      [] kind = "audit"    -> <<"preflight", "examine">>
      [] kind = "legacy"   -> <<"preflight">> \o Reconcile
      [] kind = "rawrun"   -> <<"requeue">> \o Fetch
      [] kind = "rawreset" -> <<"plan", "restore", "rekey", "forget", "drafts", "requeue">> \o Fetch

Scoped == job.kind \in {"run", "reset", "audit", "legacy"}
Verifying == job.kind = "audit"
Legacy == job.kind = "legacy" 
At(p) == job.todo # <<>> /\ Head(job.todo) = p
Next1 == [job EXCEPT !.todo = Tail(@)]
Fail(why) == job' = [job EXCEPT !.todo = <<>>, !.why = why]
bucket == <<store, overwritten, markers, drafts, torn>>
others == <<origin, rows, recovery, analysed, jobs>>

Init ==
    /\ store \in Stores
    /\ origin = store
    /\ markers = [k \in RawKeys |-> None]
    /\ \E s \in Statuses :
           rows = [u \in Uploads |-> [key |-> IF s[u] = None THEN NoKey ELSE Key("raw", u[1], u[2]),
                                      status |-> s[u], hashed |-> u \in Hashed]]
    /\ drafts = TRUE
    /\ job = Idle
    /\ recovery = [step |-> None, left |-> {}]
    /\ torn = {} /\ overwritten = {} /\ analysed = {} /\ jobs = 0

StartJob(kind, m) ==
    /\ job.todo = <<>>
    /\ kind \in {"rawrun", "rawreset"} => Entries(m) = Names
    /\ jobs < MaxJobs
    /\ jobs' = jobs + 1
    /\ job' = [Idle EXCEPT !.kind = kind, !.todo = Phases(kind), !.manifest = m]
    /\ UNCHANGED <<bucket, origin, rows, recovery, analysed>>

\* A lost runner, at any point: nothing of the job survives but the bucket.
Crash ==
    /\ job.todo # <<>>
    /\ Fail("crash")
    /\ UNCHANGED <<bucket, others>>
-----------------------------------------------------------------------------
(* The preflight and the reconciliation of a batch.                         *)

\* _db_hashes: with content checks on, every entry needs its verified row
\* under the key the manifest gives.
IdentitiesKnown ==
    \A n \in Entries(job.manifest) : LET r == rows[<<Batch, n>>]
                                     IN  r.status = "verified" /\ r.key = Raw(n)

\* The rows' keys are what the batch's durable manifest lists.
Preflight ==
    /\ At("preflight")
    /\ IF /\ WellFormed(job.manifest)
          /\ \A n \in Entries(job.manifest) : rows[<<Batch, n>>].key = Raw(n)
          /\ Verifying \/ Legacy => IdentitiesKnown
       THEN job' = Next1 ELSE Fail("preflight")
    /\ UNCHANGED <<bucket, others>>

\* Where the bytes of an absent raw object may be taken from, in order.
FlatSources(n) == {k \in {FlatRaw(n), FlatProcessed(n)} : Legacy /\ RightSize(store[k])}
SourceOf(n) ==
    CASE store[Processed(n)] # None -> Processed(n)
      [] store[Processed(n)] = None /\ FlatRaw(n) \in FlatSources(n) -> FlatRaw(n)
      [] store[Processed(n)] = None /\ FlatSources(n) = {FlatProcessed(n)} -> FlatProcessed(n)
      [] OTHER -> NoKey
IsFlat(n) == SourceOf(n) # NoKey /\ SourceOf(n)[2] = Flat

\* A file in both places is a conflict.
ItemStateOnePlace(n) ==
    IF store[Raw(n)] # None /\ SourceOf(n) # NoKey THEN "conflict"
    ELSE IF store[Raw(n)] # None THEN "raw_ok"
    ELSE IF SourceOf(n) = NoKey THEN "missing" ELSE "restorable"

ItemState(n) ==
    CASE store[Raw(n)] # None -> IF RightSize(store[Raw(n)]) THEN "raw_ok" ELSE "size_mismatch"
      [] store[Raw(n)] = None /\ SourceOf(n) = NoKey -> "missing"
      [] store[Raw(n)] = None /\ SourceOf(n) # NoKey ->
            IF ~RightSize(store[SourceOf(n)]) THEN "size_mismatch"
            ELSE IF IsFlat(n) /\ (n \in Large \/ Sha(n) = None) THEN "missing"
            ELSE IF n \in Large THEN "conflict" ELSE "restorable"

Unexpected == {n \in Names : store[Raw(n)] # None} \ Entries(job.manifest)

\* A flat copy is believed for its size.
ContentProvenBySize(n) == ~Verifying \/ store[Raw(n)] = Sha(n)

\* The content check of the items it applies to: all, or the flat ones.
ContentProven(n) ==
    \/ ~Verifying /\ ~(ItemState(n) = "restorable" /\ IsFlat(n))
    \/ /\ Sha(n) # None
       /\ store[IF ItemState(n) = "raw_ok" THEN Raw(n) ELSE SourceOf(n)] = Sha(n)

Recoverable ==
    /\ WellFormed(job.manifest)
    /\ Unexpected = {}
    /\ \A n \in Entries(job.manifest) : ItemState(n) \in {"raw_ok", "restorable"} /\ ContentProven(n)

Examine ==
    /\ At("examine")
    /\ IF Recoverable
       THEN job' = [Next1 EXCEPT !.left = [k \in {Raw(n) : n \in {m \in Entries(job.manifest) :
                                                      ItemState(m) = "restorable"}} |-> SourceOf(k[3])]]
       ELSE Fail("frozen")
    /\ UNCHANGED <<bucket, others>>

\* A server-side copy lands whole or not at all, and takes the place of what is there.
CopyObject(from, to) ==
    /\ store' = [store EXCEPT ![to] = store[from]]
    /\ overwritten' = IF store[to] = None THEN overwritten ELSE overwritten \cup {to}
NoCopy == UNCHANGED <<store, overwritten>>

\* A streamed write that finds the place taken writes nothing.
CopyIfAbsent(from, to) == store[to] = None /\ CopyObject(from, to)

\* copy_object_verified, after its look: only large objects are copied on a condition.
CopyVerified(from, to) ==
    IF to[3] \in Large THEN CopyIfAbsent(from, to) ELSE CopyObject(from, to)

\* same_object_bytes
SameBytes(k, l) == store[k] # None /\ store[k] = store[l]

\* The restore moves, as it once did.
RestoreMoves(k) ==
    /\ At("copy") /\ job.made = NoKey /\ k \in DOMAIN job.left
    /\ store' = [store EXCEPT ![k] = store[job.left[k]], ![job.left[k]] = None]
    /\ job' = [job EXCEPT !.made = k]
    /\ UNCHANGED <<torn, overwritten, markers, drafts, others>>

\* R2Store.copy: never over an existing object.  The copy may come out short.
Restore(k) ==
    /\ At("copy") /\ job.made = NoKey /\ k \in DOMAIN job.left
    /\ IF store[k] # None
       THEN Fail("frozen") /\ NoCopy /\ UNCHANGED torn
       ELSE /\ job' = [job EXCEPT !.made = k]
            /\ \/ CopyObject(job.left[k], k) /\ torn' = torn
               \/ /\ Cardinality(torn) < MaxTorn
                  /\ store' = [store EXCEPT ![k] = Torn] /\ torn' = torn \cup {k}
                  /\ UNCHANGED overwritten
    /\ UNCHANGED <<markers, drafts, others>>

\* The copy is checked and, when faulty, discarded.
CheckRestored ==
    /\ At("copy") /\ job.made # NoKey
    /\ LET k == job.made
           proof == Sha(k[3]) # None /\ job.left[k][2] = Flat
       IN  IF RightSize(store[k]) /\ (proof => store[k] = Sha(k[3]))
           THEN /\ job' = [job EXCEPT !.made = NoKey, !.left = Restrict(@, DOMAIN @ \ {k})]
                /\ store' = store
           ELSE Fail("copy") /\ store' = [store EXCEPT ![k] = None]
    /\ UNCHANGED <<overwritten, markers, drafts, torn, others>>

Restored ==
    /\ At("copy") /\ job.made = NoKey /\ DOMAIN job.left = {}
    /\ job' = Next1
    /\ UNCHANGED <<bucket, others>>

\* The listing and the sizes afterwards are those of the manifest, exactly.
Confirm ==
    /\ At("confirm")
    /\ IF /\ {n \in Names : store[Raw(n)] # None} = Entries(job.manifest)
          /\ \A n \in Entries(job.manifest) : RightSize(store[Raw(n)])
       THEN job' = Next1 ELSE Fail("frozen")
    /\ UNCHANGED <<bucket, others>>
-----------------------------------------------------------------------------
(* The admission of sources and what a run leaves behind.                   *)

Marked(k) == markers[k] = store[k]

Candidates == IF Scoped THEN {Raw(n) : n \in Entries(job.manifest)}
              ELSE {k \in RawKeys : store[k] # None /\ ~Marked(k)}

Admit ==
    /\ At("admit")
    /\ IF Scoped /\ \E k \in Candidates : store[k] = None
       THEN Fail("frozen") ELSE job' = [Next1 EXCEPT !.admitted = Candidates]
    /\ UNCHANGED <<bucket, others>>

\* The uploads whose object this run downloads and hashes.
HashedNow == {u \in Uploads : rows[u].key \in job.admitted /\ rows[u].status = "verified"}
Later(u, v) == u = v \/ v[1] = Batch
Bytes(u) == IF u \in HashedNow THEN store[rows[u].key] ELSE Frozen[u]
Known == {u \in Uploads : rows[u].status = "verified" /\ (rows[u].hashed \/ u \in HashedNow)}

\* resolve_exact_source_duplicate: of equal uploads one stays, the latest; here
\* those of another batch are later, and names of one batch are never equal.
Canonical(u) == \A v \in Known : Bytes(v) = Bytes(u) => Later(u, v)

\* Everything admitted is marked, the excluded duplicates too.
PrepareMarkingAll ==
    /\ At("prepare")
    /\ job' = Next1
    /\ analysed' = analysed \cup {<<k, store[k]>> : k \in {l \in job.admitted :
                          RowAt(l) = NoRow \/ \E u \in HashedNow : rows[u].key = l /\ Canonical(u)}}
    /\ UNCHANGED <<bucket, origin, rows, recovery, jobs>>

Prepare ==
    /\ At("prepare")
    /\ LET sources == {k \in job.admitted :
                          \/ RowAt(k) = NoRow
                          \/ \E u \in HashedNow : rows[u].key = k /\ Canonical(u)}
       IN  IF \E u \in HashedNow : ~RightSize(store[rows[u].key])
           THEN Fail("changed") /\ UNCHANGED <<rows, analysed>>
           ELSE /\ job' = [Next1 EXCEPT !.admitted = sources]
                /\ rows' = [u \in Uploads |->
                       IF u \in Known /\ ~Canonical(u)
                           /\ \E v \in HashedNow : Bytes(v) = Bytes(u)
                       THEN [rows[u] EXCEPT !.status = "superseded", !.hashed = TRUE]
                       ELSE IF u \in HashedNow THEN [rows[u] EXCEPT !.hashed = TRUE] ELSE rows[u]]
                /\ analysed' = analysed \cup {<<k, store[k]>> : k \in sources}
    /\ UNCHANGED <<bucket, origin, recovery, jobs>>

\* One marker per source, pinned to the object it finds; the video stays.
Mark(k) ==
    /\ At("mark") /\ k \in job.admitted
    /\ markers' = [markers EXCEPT ![k] = store[k]]
    /\ job' = [job EXCEPT !.admitted = @ \ {k}]
    /\ UNCHANGED <<store, overwritten, drafts, torn, others>>

EndJob ==
    /\ At("mark") /\ job.admitted = {}
    /\ job' = [Next1 EXCEPT !.why = "done"]
    /\ UNCHANGED <<bucket, others>>

\* Reset: the drafts of the earlier run go once the originals are back.
DeleteDrafts ==
    /\ At("drafts")
    /\ drafts' = FALSE /\ job' = Next1
    /\ UNCHANGED <<store, overwritten, markers, torn, others>>

\* Sources a reprocess request names are queued again before the fetch: the
\* marker goes, and one that is only in processed/<file> is copied back first,
\* after a look at its destination.
LookToRequeue(k) ==
    /\ At("requeue") /\ job.made = NoKey
    /\ store[k] = None /\ store[FlatProcessed(k[3])] # None
    /\ job' = [job EXCEPT !.made = k]
    /\ UNCHANGED <<bucket, others>>

Requeue(k) ==
    /\ At("requeue")
    /\ \/ job.made = NoKey /\ store[k] # None /\ NoCopy
       \/ job.made = k /\ CopyVerified(FlatProcessed(k[3]), k)
    /\ markers' = [markers EXCEPT ![k] = None]
    /\ job' = [Next1 EXCEPT !.made = NoKey]
    /\ UNCHANGED <<drafts, torn, others>>

\* What fails there, before the copy or after it, is one source not found.
RequeueFails ==
    /\ At("requeue") /\ job.made # NoKey
    /\ NoCopy \/ CopyVerified(FlatProcessed(job.made[3]), job.made)
    /\ job' = [Next1 EXCEPT !.made = NoKey]
    /\ UNCHANGED <<markers, drafts, torn, others>>

NothingToRequeue ==
    /\ At("requeue") /\ job.made = NoKey
    /\ job' = Next1
    /\ UNCHANGED <<bucket, others>>
-----------------------------------------------------------------------------
(* The batchless reset: every tracked source of processed/ to raw/<file>.   *)

Tracked(k) ==
    LET r == IF RowAt(FlatRaw(k[3])) # NoRow THEN RowAt(FlatRaw(k[3])) ELSE RowAt(Key("raw", k[2], k[3]))
    IN  r.status \in {"verified", "superseded", "removed"}
Tracks == {k \in Keys : k[1] = "processed" /\ store[k] # None /\ Tracked(k)}
Collides == \/ \E k, l \in Tracks : k # l /\ k[3] = l[3]
            \/ \E k \in Tracks : store[FlatRaw(k[3])] \notin {None, store[k]}

PlanReset ==
    /\ At("plan")
    /\ IF Collides THEN Fail("collision")
       ELSE job' = [Next1 EXCEPT !.left = [k \in Tracks |-> "todo"]]
    /\ UNCHANGED <<bucket, others>>

\* copy_object_verified looks at its destination first ...
LookAtRaw(k) ==
    /\ At("restore") /\ k \in DOMAIN job.left /\ job.left[k] = "todo"
    /\ job' = [job EXCEPT !.left[k] =
                  CASE store[FlatRaw(k[3])] = None -> "absent"
                    [] SameBytes(FlatRaw(k[3]), k) -> "done"
                    [] OTHER -> "error"]
    /\ UNCHANGED <<bucket, others>>

\* ... and copies, at that size with nothing to stop it; the bytes are compared afterwards.
CopyToRaw(k) ==
    /\ At("restore") /\ k \in DOMAIN job.left /\ job.left[k] = "absent"
    /\ \/ CopyVerified(k, FlatRaw(k[3])) /\ job' = [job EXCEPT !.left[k] = "done"]
       \/ NoCopy /\ job' = [job EXCEPT !.left[k] = "error"]
    /\ UNCHANGED <<markers, drafts, torn, others>>

AllRestored ==
    /\ At("restore") /\ \A k \in DOMAIN job.left : job.left[k] \in {"done", "error"}
    /\ IF \E k \in DOMAIN job.left : job.left[k] = "error" THEN Fail("restore") ELSE job' = Next1
    /\ UNCHANGED <<bucket, others>>

\* Row and object change places.
RekeyToSource ==
    /\ At("rekey")
    /\ rows' = [u \in Uploads |-> IF \E k \in DOMAIN job.left : rows[u].key = Key("raw", k[2], k[3])
                                  THEN [rows[u] EXCEPT !.key = Processed(u[2])] ELSE rows[u]]
    /\ job' = Next1
    /\ UNCHANGED <<bucket, origin, recovery, analysed, jobs>>

\* The rows follow their objects; a second row under one key is refused.
Rekey ==
    /\ At("rekey")
    /\ rows' = [u \in Uploads |-> IF \E k \in DOMAIN job.left : rows[u].key = Key("raw", k[2], k[3])
                                  THEN [rows[u] EXCEPT !.key = FlatRaw(u[2])] ELSE rows[u]]
    /\ job' = Next1
    /\ UNCHANGED <<bucket, origin, recovery, analysed, jobs>>

Forget ==
    /\ At("forget")
    /\ markers' = [k \in RawKeys |-> None]
    /\ job' = Next1
    /\ UNCHANGED <<store, overwritten, drafts, torn, others>>
-----------------------------------------------------------------------------
(* raw_recovery.py plan and apply, by hand beside the job.                  *)

SameFile(u) == {k \in Keys : k[3] = u[2] /\ RightSize(store[k])}
ProcessedOnly(u) ==
    /\ rows[u].status \in {"verified", "superseded"}
    /\ ~\E k \in SameFile(u) : k[1] = "raw"
    /\ \E k \in SameFile(u) : k[1] = "processed"
Places(u) == {k \in SameFile(u) : k[1] = "processed"}

\* Of several places the listing's first is taken; it is copied only when its
\* bytes have the recorded SHA-256 and raw/<file> is free.
RecoveryPlan ==
    /\ recovery.step = None
    /\ \E found \in [{u \in Uploads : ProcessedOnly(u)} -> Keys] :
          /\ \A u \in DOMAIN found : found[u] \in Places(u)
          /\ LET good == {u \in DOMAIN found : /\ store[FlatRaw(u[2])] = None
                                               /\ rows[u].hashed /\ store[found[u]] = Frozen[u]}
             IN  /\ good # {}
                 /\ recovery' = [step |-> "planned", left |->
                       {[from |-> found[u], to |-> FlatRaw(u[2]), bytes |-> Frozen[u], seen |-> FALSE] : u \in good}]
    /\ UNCHANGED <<bucket, origin, rows, job, analysed, jobs>>

RecoveryEnd == recovery' = [step |-> "done", left |-> {}]

\* Every action is looked at again before the first copy.
RecoveryValidate ==
    /\ recovery.step = "planned"
    /\ IF \A a \in recovery.left : store[a.from] = a.bytes /\ store[a.to] = None
       THEN recovery' = [recovery EXCEPT !.step = "copying"] ELSE RecoveryEnd
    /\ UNCHANGED <<bucket, origin, rows, job, analysed, jobs>>

RecoveryLook(a) ==
    /\ recovery.step = "copying" /\ ~\E b \in recovery.left : b.seen
    /\ CASE store[a.to] = None -> recovery' = [recovery EXCEPT !.left = (@ \ {a}) \cup {[a EXCEPT !.seen = TRUE]}]
         [] SameBytes(a.to, a.from) -> recovery' = [recovery EXCEPT !.left = @ \ {a}]
         [] OTHER -> RecoveryEnd
    /\ UNCHANGED <<bucket, origin, rows, job, analysed, jobs>>

RecoveryCopy(a) ==
    /\ recovery.step = "copying" /\ a \in recovery.left /\ a.seen
    /\ \/ CopyVerified(a.from, a.to) /\ recovery' = [recovery EXCEPT !.left = @ \ {a}]
       \/ NoCopy /\ RecoveryEnd
    /\ UNCHANGED <<markers, drafts, torn, origin, rows, job, analysed, jobs>>
-----------------------------------------------------------------------------
JobStep ==
    \/ Preflight \/ Examine \/ CheckRestored \/ Restored \/ Confirm \/ Admit \/ Prepare
    \/ EndJob \/ DeleteDrafts \/ PlanReset \/ AllRestored \/ Rekey \/ Forget
    \/ NothingToRequeue \/ RequeueFails \/ \E k \in RawKeys : LookToRequeue(k) \/ Requeue(k)
    \/ \E k \in Keys : Restore(k) \/ Mark(k) \/ LookAtRaw(k) \/ CopyToRaw(k)

Next ==
    \/ \E kind \in Kinds, m \in Manifests : StartJob(kind, m)
    \/ Crash
    \/ JobStep
    \/ RecoveryPlan \/ RecoveryValidate
    \/ \E a \in recovery.left : RecoveryLook(a) \/ RecoveryCopy(a)

Spec == Init /\ [][Next]_vars
-----------------------------------------------------------------------------
TypeOK ==
    /\ store \in [Keys -> Range(Frozen) \cup {None, Torn}]
    /\ markers \in [RawKeys -> Range(Frozen) \cup {None, Torn}]
    /\ DOMAIN rows = Uploads
    /\ \A u \in Uploads : rows[u].key \in RawKeys \cup {NoKey}
    /\ job.admitted \subseteq RawKeys
    /\ job.made \in RawKeys \cup {NoKey} /\ torn \subseteq RawKeys

\* Whatever jobs, crashes, resets and recoveries follow one another or run side
\* by side, no object that was there before is overwritten, moved or deleted, in
\* raw/ or in processed/ (the rule of integrations/r2_storage.py:305-319).
OriginalsUntouched == \A k \in Keys : origin[k] # None => store[k] = origin[k]

\* What is under the keys that are believed for their size is of this upload: its
\* own two, and processed/<file>, which a reprocess request brings back unseen.
Attested(n) ==
    \A k \in {Raw(n), Processed(n), FlatProcessed(n)} :
        origin[k] \in {None, Torn, Frozen[<<Batch, n>>]}

\* A batch run takes in its manifest's files and no others, with the bytes
\* their uploads verified, wherever the restore had to take them from
\* (r2_batch_scope.py:109-127, the proof asked of flat copies).  The exception is
\* a flat copy that was replaced, by a copy that met it, after it was proved.
AdmitsFrozenBytes ==
    Scoped /\ At("prepare") =>
        /\ job.admitted = {Raw(n) : n \in Entries(job.manifest)}
        /\ \A n \in Entries(job.manifest) :
              Attested(n) => store[Raw(n)] = Frozen[<<Batch, n>>] \/ FlatRaw(n) \in overwritten

\* What reconcile_frozen_inputs says of a flat source: "accepted only with a matching
\* size AND a verified SHA-256", also after a copy no runner lived to check.
ProvesWhatItAdmits ==
    Scoped /\ At("prepare") =>
        \A n \in Entries(job.manifest) : Attested(n) => store[Raw(n)] = Frozen[<<Batch, n>>]

\* Sources that could be restored at the start can be restored still, whatever
\* jobs were interrupted and wherever: the reconciliation refuses a batch only
\* over files that were lost before it, or over a copy that came out short (one of
\* before, if a reprocess request copies it to raw/).
Intact(n) == \/ origin[Raw(n)] = Frozen[<<Batch, n>>]
             \/ /\ origin[Raw(n)] = None /\ origin[Processed(n)] = Frozen[<<Batch, n>>]
                /\ origin[FlatProcessed(n)] # Torn
InterruptedRunsRecover ==
    job.why = "frozen" =>
        \/ ~WellFormed(job.manifest)
        \/ \E n \in Entries(job.manifest) : ~Intact(n) \/ n \in Large
        \/ Entries(job.manifest) # Names
        \/ torn # {}
        \/ Verifying

\* A source that batchless runs pass over was analysed by a run with the very
\* bytes it has (is_marker_current), and none is passed over for another's sake.
\* The one exception are the keys two copies met at, see NothingOverwritten.
PassedOverWasAnalysed ==
    \A k \in RawKeys :
        Marked(k) /\ store[k] # None => <<k, store[k]>> \in analysed \/ k \in overwritten

\* What copy_object_verified says of itself: "without ever overwriting", since
\* the destination was just checked absent and runs are single-flight.
NothingOverwritten == overwritten = {}
=============================================================================
