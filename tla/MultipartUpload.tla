--------------------------- MODULE MultipartUpload ---------------------------
(***************************************************************************)
(* One video on its way from the phone to R2: the phone's durable job and   *)
(* the engine that works on it, the handlers of the multipart routes, the   *)
(* row of source_uploads with its part ledger, and R2's multipart sessions. *)
(*                                                                         *)
(* The phone waits for one answer at a time, but a handler it no longer      *)
(* waits for runs on, and so does the engine of a worker that Android has   *)
(* stopped until it looks at isStopped.  The batch of the upload is open.   *)
(***************************************************************************)
EXTENDS Naturals, FiniteSets

CONSTANTS
    PartCount,    \* expected_part_count
    Sessions,     \* R2 UploadIds; each has a storage key of its own
    NoSession,
    Calls,        \* places for handlers that run at the same time
    NoCall,
    Workers,      \* threads an engine can run on at the same time
    MaxAttempts,  \* MultipartUploadEngine.MAX_ATTEMPTS
    Operator,     \* what people do: a subset of {"retry", "reopen", "abort"}
    Faults,       \* what may go wrong, see FaultKinds
    MaxFaults     \* ... at most this many times

FaultKinds ==
    {"network",  \* no answer in time, no connection, or a failed read
     "lost",     \* the answer of a finished handler is lost
     "source",   \* the card with the video cannot be read
     "stop",     \* Android stops the worker
     "death",    \* the app's process dies
     "kill",     \* the platform stops a handler
     "db",       \* a database call of a handler fails
     "r2"}       \* an R2 call of a handler fails

ASSUME MultipartAssumption ==
    /\ PartCount \in Nat \ {0}
    /\ NoSession \notin Sessions
    /\ NoCall \notin Calls
    /\ MaxAttempts \in Nat \ {0}
    /\ Operator \subseteq {"retry", "reopen", "abort"}
    /\ Faults \subseteq FaultKinds
    /\ MaxFaults \in Nat

VARIABLES
    row,     \* the row of source_uploads and its ledger source_upload_parts
    r2,      \* R2's multipart sessions; a completed one is an object
    call,    \* the handlers that run
    job,     \* the job in the phone's durable store
    work,    \* what WorkManager thinks of the job's unique work
    worker,  \* the engines that run
    faults   \* how often something went wrong so far, how often in R2 or a handler,
             \* and whether it left the row and its session apart

server == <<row, r2>>
phone == <<job, work, worker>>
vars == <<row, r2, call, job, work, worker, faults>>

----------------------------------------------------------------------------
Parts == 1..PartCount

Row == [st : {"none", "uploading", "completing", "verified", "aborted"},
        session : Sessions \cup {NoSession},  \* multipart_upload_id
        parts : SUBSET Parts,                 \* the ledger
        cleaned : BOOLEAN]                    \* local_cleanup_status = 'confirmed'

NoRow == [st |-> "none", session |-> NoSession, parts |-> {}, cleaned |-> FALSE]

R2Session == [st : {"none", "open", "object", "gone"}, parts : SUBSET Parts]

CallPCs == {"free", "start_find", "start_create", "start_insert", "start_discard", "start_undo",
            "record",
            "complete_begin", "complete_head", "complete_r2", "complete_rehead",
            "complete_verify", "complete_error",
            "cleanup",
            "abort_read", "abort_r2", "abort_mark"}

Answers == {"ok", "conflict", "error"}  \* 2xx; 4xx; 5xx

Call == [pc : CallPCs, session : Sessions \cup {NoSession}, part : Parts \cup {0},
         answer : Answers]               \* what complete_error will answer

Free == [pc |-> "free", session |-> NoSession, part |-> 0, answer |-> "ok"]

Job == [st : {"queued", "uploading", "retry_wait", "completing", "verified", "failed"},
        attempt : 0..MaxAttempts,
        known : BOOLEAN,        \* uploadId is set
        parts : SUBSET Parts]   \* completedParts

WorkerPCs == {"off", "open", "start", "status", "part", "put", "record", "complete", "cleanup"}

Engine == [pc : WorkerPCs,
           call : Calls \cup {NoCall},  \* the handler it waits for
           part : 1..(PartCount + 1),   \* where its loop over the parts is
           stopped : BOOLEAN]           \* isStopped

Off == [pc |-> "off", call |-> NoCall, part |-> 1, stopped |-> FALSE]

\* The operator has enqueued the video.
Init ==
    /\ row = NoRow
    /\ r2 = [s \in Sessions |-> [st |-> "none", parts |-> {}]]
    /\ call = [c \in Calls |-> Free]
    /\ job = [st |-> "queued", attempt |-> 0, known |-> FALSE, parts |-> {}]
    /\ work = "enqueued"
    /\ worker = [w \in Workers |-> Off]
    /\ faults = [all |-> 0, server |-> 0, apart |-> FALSE]

Befalls(kind, apart) ==
    /\ kind \in Faults
    /\ faults.all < MaxFaults
    /\ faults' = [all |-> faults.all + 1,
                  server |-> faults.server + IF kind \in {"kill", "r2"} THEN 1 ELSE 0,
                  apart |-> faults.apart \/ apart]

Fault(kind) == Befalls(kind, FALSE)

\* A fault after which the row and R2 say different things of the session, and no
\* handler is left that would set it right.
FaultApart(kind) == Befalls(kind, TRUE)

----------------------------------------------------------------------------
(* The ends of a run of the engine.  WorkManager ignores the result of a     *)
(* worker it has stopped.                                                    *)

Ends(w, result) ==
    /\ worker' = [worker EXCEPT ![w] = Off]
    /\ work' = IF worker[w].stopped THEN work ELSE result

Succeed(w) ==
    /\ job' = [job EXCEPT !.st = "verified"]
    /\ Ends(w, "ended")

\* fail: an answer 4xx, or a state of the server that cannot be resumed.
Fail(w) ==
    /\ job' = [job EXCEPT !.st = "failed"]
    /\ Ends(w, "ended")

\* retry: no answer, or an answer 5xx.
RetryLater(w) ==
    /\ job' = [job EXCEPT !.st = "retry_wait"]
    /\ Ends(w, "enqueued")

\* A stop, or an IOException of the source, gives the attempt back.
RetryForFree(w) ==
    /\ job' = [job EXCEPT !.st = "retry_wait",
                          !.attempt = IF @ = 0 THEN 0 ELSE @ - 1]
    /\ Ends(w, "enqueued")

----------------------------------------------------------------------------
(* Answers.                                                                  *)

\* Engine w goes on after the answer "ok" of the handler h.
Proceed(w, h) ==
    LET to(pc) == [worker[w] EXCEPT !.pc = pc, !.call = NoCall]
    IN  \/ /\ worker[w].pc = "start"
           /\ job' = [job EXCEPT !.known = TRUE]
           /\ worker' = [worker EXCEPT ![w] = to("status")]
           /\ UNCHANGED work
        \/ /\ worker[w].pc = "record"
           /\ job' = [job EXCEPT !.parts = @ \cup {h.part}]
           /\ worker' = [worker EXCEPT ![w] = [to("part") EXCEPT !.part = h.part + 1]]
           /\ UNCHANGED work
        \/ /\ worker[w].pc = "complete"
           /\ worker' = [worker EXCEPT ![w] = to("cleanup")]
           /\ UNCHANGED <<job, work>>
        \/ worker[w].pc = "cleanup" /\ Succeed(w)

\* The handler in c ends with an answer, for the engine that waits for it.
Delivers(c, answer) ==
    /\ call' = [call EXCEPT ![c] = Free]
    /\ \/ (\A w \in Workers : worker[w].call # c) /\ UNCHANGED phone
       \/ \E w \in Workers :
             /\ worker[w].call = c
             /\ \/ answer = "ok" /\ Proceed(w, call[c])
                \/ answer = "conflict" /\ Fail(w)
                \/ answer = "error" /\ RetryLater(w)

\* The answer may be lost on its way.
Answer(c, answer) ==
    \/ Delivers(c, answer) /\ UNCHANGED faults
    \/ Fault("lost") /\ Delivers(c, "error")

At(c, pc) == call[c].pc = pc

\* The handler in c goes on to its next call.
CallTo(c, pc) == call' = [call EXCEPT ![c].pc = pc] /\ UNCHANGED phone

\* The platform stops the handler; an engine that waits for it gets a 504.
Kill(c) ==
    /\ call[c] # Free
    /\ Befalls("kill", At(c, "abort_mark"))
    /\ Delivers(c, "error")
    /\ UNCHANGED server

\* The handler's last call, or one that only reads, fails without effect and it answers
\* 503 or 502.  A last call that fails after it took effect is the lost answer of the handler.
CallFails(c) ==
    /\ call[c].pc \in {"start_find", "record", "cleanup", "abort_read", "abort_mark"}
    /\ Befalls("db", At(c, "abort_mark"))
    /\ Delivers(c, "error")
    /\ UNCHANGED server

----------------------------------------------------------------------------
(* POST /upload/multipart/start                                              *)

NewRow(s) == [st |-> "uploading", session |-> s, parts |-> {}, cleaned |-> FALSE]

\* createR2MultipartUpload
Opened(s) == [r2 EXCEPT ![s].st = "open"]

\* abortR2MultipartUpload: R2 frees every part; a session that is not open is a 404,
\* which is fine.
Discarded(s) == [r2 EXCEPT ![s] = IF @.st = "open" THEN [st |-> "gone", parts |-> {}] ELSE @]

\* findMultipartSessionByClientUploadId: the same video again is answered at once.
StartFind(c) ==
    /\ At(c, "start_find")
    /\ \/ row # NoRow /\ Answer(c, "ok")
       \/ row = NoRow /\ CallTo(c, "start_create") /\ UNCHANGED faults
    /\ UNCHANGED server

StartCreate(c) ==
    /\ At(c, "start_create")
    /\ \E s \in Sessions :
          /\ r2[s].st = "none"
          /\ \/ /\ r2' = Opened(s)
                /\ call' = [call EXCEPT ![c].pc = "start_insert", ![c].session = s]
                /\ UNCHANGED <<phone, faults>>
             \/ Fault("r2") /\ r2' \in {r2, Opened(s)} /\ CallTo(c, "start_undo")
    /\ UNCHANGED row

\* The insert; client_upload_id is unique.
StartInsert(c) ==
    LET s == call[c].session
    IN  /\ At(c, "start_insert")
        /\ \/ row = NoRow /\ row' = NewRow(s) /\ Answer(c, "ok")
           \/ row # NoRow /\ UNCHANGED <<row, faults>> /\ CallTo(c, "start_discard")
           \/ Fault("db") /\ UNCHANGED row /\ CallTo(c, "start_undo")
           \/ /\ row = NoRow  \* it is committed and its answer lost
              /\ FaultApart("db")
              /\ row' = NewRow(s)
              /\ CallTo(c, "start_undo")
        /\ UNCHANGED r2

\* Mutant: the session of the start that came second is forgotten.
StartDiscardNothing(c) ==
    /\ At(c, "start_discard")
    /\ Answer(c, "ok")
    /\ UNCHANGED server

\* Another start was first: this one gives up its own session.
StartDiscard(c) ==
    /\ At(c, "start_discard")
    /\ \/ r2' = Discarded(call[c].session) /\ Answer(c, "ok")
       \/ Fault("r2") /\ r2' \in {r2, Discarded(call[c].session)} /\ CallTo(c, "start_undo")
    /\ UNCHANGED row

\* The catch block: abort the session that is believed to have no owner, once.
StartUndo(c) ==
    LET s == call[c].session
    IN  /\ At(c, "start_undo")
        /\ \/ r2' = (IF s = NoSession THEN r2 ELSE Discarded(s)) /\ Answer(c, "error")
           \/ /\ s # NoSession
              /\ Fault("r2")
              /\ call' = [call EXCEPT ![c].session = NoSession]
              /\ UNCHANGED <<r2, phone>>
        /\ UNCHANGED row

----------------------------------------------------------------------------
(* The other routes.                                                         *)

\* record_source_upload_part
RecordPart(c) ==
    /\ At(c, "record")
    /\ \/ /\ row.st = "uploading"
          /\ row' = [row EXCEPT !.parts = @ \cup {call[c].part}]
          /\ Answer(c, "ok")
       \/ row.st # "uploading" /\ UNCHANGED row /\ Answer(c, "conflict")
    /\ UNCHANGED r2

\* The catch block of complete comes next.
Fails(c, answer) ==
    /\ call' = [call EXCEPT ![c].pc = "complete_error", ![c].answer = answer]
    /\ UNCHANGED phone

Completable == row.st \in {"uploading", "completing"} /\ row.parts = Parts

\* begin_source_upload_completion
CompleteBegin(c) ==
    LET begun == [row EXCEPT !.st = "completing"]
    IN  /\ At(c, "complete_begin")
        /\ \/ /\ Completable
              /\ row' = begun
              /\ call' = [call EXCEPT ![c].pc = "complete_head", ![c].session = row.session]
              /\ UNCHANGED <<phone, faults>>
           \/ ~Completable /\ UNCHANGED <<row, faults>> /\ Fails(c, "conflict")
           \/ /\ Fault("db")
              /\ row' \in IF Completable THEN {row, begun} ELSE {row}
              /\ Fails(c, "error")
        /\ UNCHANGED r2

ObjectExists(c) == r2[call[c].session].st = "object"

\* Mutant: a HEAD that fails is read as: the object is there.
CompleteHeadTrusting(c) ==
    /\ At(c, "complete_head")
    /\ \/ CallTo(c, IF ObjectExists(c) THEN "complete_verify" ELSE "complete_r2")
          /\ UNCHANGED faults
       \/ Fault("r2") /\ CallTo(c, "complete_verify")
    /\ UNCHANGED server

\* Any answer to the HEAD but a success is read as: there is no object yet.
CompleteHead(c) ==
    /\ At(c, "complete_head")
    /\ \/ CallTo(c, IF ObjectExists(c) THEN "complete_verify" ELSE "complete_r2")
          /\ UNCHANGED faults
       \/ Fault("r2") /\ (CallTo(c, "complete_r2") \/ Fails(c, "error"))
    /\ UNCHANGED server

\* completeR2MultipartUpload
CompleteR2(c) ==
    LET s == call[c].session
        assembled == [r2 EXCEPT ![s].st = "object"]
        possible == r2[s].st = "open" /\ Parts \subseteq r2[s].parts
    IN  /\ At(c, "complete_r2")
        /\ \/ possible /\ r2' = assembled /\ CallTo(c, "complete_rehead") /\ UNCHANGED faults
           \/ ~possible /\ UNCHANGED <<r2, faults>> /\ Fails(c, "error")
           \/ /\ Fault("r2")
              /\ r2' \in IF possible THEN {r2, assembled} ELSE {r2}
              /\ Fails(c, "error")
        /\ UNCHANGED row

\* What R2 has assembled is visible at once.
CompleteRehead(c) ==
    /\ At(c, "complete_rehead")
    /\ \/ ObjectExists(c) /\ CallTo(c, "complete_verify") /\ UNCHANGED faults
       \/ Fault("r2") /\ Fails(c, "error")
    /\ UNCHANGED server

\* verify_source_upload, by the storage key of the object; it looks at nothing else.
CompleteVerify(c) ==
    LET verified == [row EXCEPT !.st = "verified"]
    IN  /\ At(c, "complete_verify")
        /\ \/ row' = verified /\ Answer(c, "ok")
           \/ Fault("db") /\ row' \in {row, verified} /\ Fails(c, "error")
        /\ UNCHANGED r2

\* set_source_upload_recoverable_error; its own failure is swallowed.
CompleteError(c) ==
    /\ At(c, "complete_error")
    /\ \/ /\ row' = [row EXCEPT !.st = IF @ = "completing" THEN "uploading" ELSE @]
          /\ Answer(c, call[c].answer)
       \/ Fault("db") /\ UNCHANGED row /\ Delivers(c, call[c].answer)
    /\ UNCHANGED r2

\* record_source_upload_local_cleanup_evidence, 'confirmed'
ReportCleanup(c) ==
    LET settled == row.st \in {"verified", "aborted"}
    IN  /\ At(c, "cleanup")
        /\ row' = [row EXCEPT !.cleaned = @ \/ settled]
        /\ Answer(c, IF settled THEN "ok" ELSE "conflict")
        /\ UNCHANGED r2

\* The abort route: check, abort the session, then write the row.
AbortRead(c) ==
    /\ At(c, "abort_read")
    /\ \/ /\ row.st \notin {"none", "verified"}
          /\ call' = [call EXCEPT ![c].pc = "abort_r2", ![c].session = row.session]
          /\ UNCHANGED <<phone, faults>>
       \/ row.st \in {"none", "verified"} /\ Answer(c, "conflict")
    /\ UNCHANGED server

AbortR2(c) ==
    /\ At(c, "abort_r2")
    /\ \/ r2' = Discarded(call[c].session) /\ CallTo(c, "abort_mark") /\ UNCHANGED faults
       \/ Fault("r2") /\ UNCHANGED r2 /\ Delivers(c, "error")
       \/ FaultApart("r2") /\ r2' = Discarded(call[c].session) /\ Delivers(c, "error")
    /\ UNCHANGED row

\* mark_source_upload_aborted
AbortMark(c) ==
    /\ At(c, "abort_mark")
    /\ row' = [row EXCEPT !.st = IF @ = "verified" THEN @ ELSE "aborted"]
    /\ Answer(c, "ok")
    /\ UNCHANGED r2

Handler(c) ==
    \/ StartFind(c)
    \/ StartCreate(c)
    \/ StartInsert(c)
    \/ StartDiscard(c)
    \/ StartUndo(c)
    \/ RecordPart(c)
    \/ CompleteBegin(c)
    \/ CompleteHead(c)
    \/ CompleteR2(c)
    \/ CompleteRehead(c)
    \/ CompleteVerify(c)
    \/ CompleteError(c)
    \/ ReportCleanup(c)
    \/ AbortRead(c)
    \/ AbortR2(c)
    \/ AbortMark(c)

\* An operator's call of the abort route; the app itself never makes it.
CallAbort(c) ==
    /\ "abort" \in Operator
    /\ row # NoRow
    /\ call[c] = Free
    /\ call' = [call EXCEPT ![c] = [Free EXCEPT !.pc = "abort_read"]]
    /\ UNCHANGED <<server, phone, faults>>

----------------------------------------------------------------------------
(* The engine.                                                               *)

\* MultipartUploadEngine.run, up to the call of execute.
BeginRun(w) ==
    /\ work = "enqueued"
    /\ worker[w] = Off
    /\ \/ /\ job.st = "verified"
          /\ work' = "ended"
          /\ UNCHANGED <<job, worker>>
       \/ /\ job.st # "verified"
          /\ job.attempt >= MaxAttempts
          /\ job' = [job EXCEPT !.st = "failed"]
          /\ work' = "ended"
          /\ UNCHANGED worker
       \/ /\ job.st # "verified"
          /\ job.attempt < MaxAttempts
          /\ job' = [job EXCEPT !.st = "uploading", !.attempt = @ + 1]
          /\ work' = "running"
          /\ worker' = [worker EXCEPT ![w] = [Off EXCEPT !.pc = "open"]]
    /\ UNCHANGED <<server, call, faults>>

\* Engine w is about to take the step pc.
Ready(w, pc) == worker[w].pc = pc /\ worker[w].call = NoCall

\* checkContinue is called before these steps.
Checked(w) == worker[w].pc \in {"open", "status", "part"} /\ worker[w].call = NoCall

StopRequested(w) ==
    /\ Checked(w)
    /\ worker[w].stopped
    /\ RetryForFree(w)
    /\ UNCHANGED <<server, call, faults>>

Goes(w, pc) == worker' = [worker EXCEPT ![w].pc = pc]

\* Engine w calls a route and waits.
CallServer(w, pc, first, part) ==
    \E c \in Calls :
        /\ call[c] = Free
        /\ call' = [call EXCEPT ![c] = [Free EXCEPT !.pc = first, !.part = part]]
        /\ worker' = [worker EXCEPT ![w].pc = pc, ![w].call = c]

OpenSource(w) ==
    /\ Ready(w, "open")
    /\ ~worker[w].stopped
    /\ Goes(w, IF job.known THEN "status" ELSE "start")
    /\ UNCHANGED <<server, call, job, work, faults>>

Start(w) ==
    /\ Ready(w, "start")
    /\ CallServer(w, "start", "start_find", 0)
    /\ UNCHANGED <<server, job, work, faults>>

\* Mutant: a verified upload is done, whether or not the phone copy is settled.
StatusVerifiedIsDone(w) ==
    /\ Ready(w, "status")
    /\ ~worker[w].stopped
    /\ \/ row.st = "aborted" /\ Fail(w)
       \/ row.st = "verified" /\ Succeed(w)
       \/ /\ row.st \notin {"aborted", "verified"}
          /\ job' = [job EXCEPT !.parts = row.parts]
          /\ Goes(w, "part")
          /\ UNCHANGED work
    /\ UNCHANGED <<server, call, faults>>

\* Server truth wins over local belief.
Status(w) ==
    /\ Ready(w, "status")
    /\ ~worker[w].stopped
    /\ \/ row.st = "aborted" /\ Fail(w)
       \/ /\ row.st = "verified" /\ row.cleaned
          /\ job' = [job EXCEPT !.st = "verified", !.parts = row.parts]
          /\ Ends(w, "ended")
       \/ /\ row.st = "verified" /\ ~row.cleaned
          /\ job' = [job EXCEPT !.st = "completing", !.parts = row.parts]
          /\ Goes(w, "cleanup")
          /\ UNCHANGED work
       \/ /\ row.st \notin {"aborted", "verified"}
          /\ job' = [job EXCEPT !.parts = row.parts]
          /\ Goes(w, "part")
          /\ UNCHANGED work
    /\ UNCHANGED <<server, call, faults>>

\* The parts that the loop still has to upload.
Remaining(w) == {p \in Parts : p >= worker[w].part} \ job.parts

\* The part-url route refuses a row that is not uploading.
PartUrl(w) ==
    /\ Ready(w, "part")
    /\ ~worker[w].stopped
    /\ \E p \in Remaining(w) :
          /\ \A q \in Remaining(w) : p <= q
          /\ \/ /\ row.st = "uploading"
                /\ worker' = [worker EXCEPT ![w].pc = "put", ![w].part = p]
                /\ UNCHANGED <<job, work>>
             \/ row.st # "uploading" /\ Fail(w)
    /\ UNCHANGED <<server, call, faults>>

PartStored(p) == [r2 EXCEPT ![row.session].parts = @ \cup {p}]

\* The PUT to the signed URL; R2 answers 404 when the session is not open.
PutPart(w) ==
    /\ Ready(w, "put")
    /\ \/ /\ r2[row.session].st = "open"
          /\ r2' = PartStored(worker[w].part)
          /\ Goes(w, "record")
          /\ UNCHANGED <<job, work>>
       \/ r2[row.session].st # "open" /\ Fail(w) /\ UNCHANGED r2
    /\ UNCHANGED <<row, call, faults>>

Record(w) ==
    /\ Ready(w, "record")
    /\ CallServer(w, "record", "record", worker[w].part)
    /\ UNCHANGED <<server, job, work, faults>>

Complete(w) ==
    /\ Ready(w, "part")
    /\ ~worker[w].stopped
    /\ Remaining(w) = {}
    /\ job' = [job EXCEPT !.st = "completing"]
    /\ CallServer(w, "complete", "complete_begin", 0)
    /\ UNCHANGED <<server, work, faults>>

ConfirmCleanup(w) ==
    /\ Ready(w, "cleanup")
    /\ CallServer(w, "cleanup", "cleanup", 0)
    /\ UNCHANGED <<server, job, work, faults>>

EngineStep(w) ==
    \/ StopRequested(w)
    \/ OpenSource(w)
    \/ Start(w)
    \/ Status(w)
    \/ PartUrl(w)
    \/ PutPart(w)
    \/ Record(w)
    \/ Complete(w)
    \/ ConfirmCleanup(w)

----------------------------------------------------------------------------
(* What can happen to the phone.                                             *)

\* The source is read when its size is asked for and when a part is sent.
SourceUnreadable(w) ==
    /\ Fault("source")
    /\ \E pc \in {"open", "put", "cleanup"} : Ready(w, pc)
    /\ worker[w].pc = "open" => ~worker[w].stopped
    /\ RetryForFree(w)
    /\ UNCHANGED <<server, call>>

\* A call gets no answer, or status or part-url a 503.  The handler, if it got the call, runs on; a part
\* that was sent may have arrived.
NetworkFails(w) ==
    /\ Fault("network")
    /\ worker[w].pc \notin {"off", "open"}
    /\ ~(Checked(w) /\ worker[w].stopped)
    /\ RetryLater(w)
    /\ r2' \in IF Ready(w, "put") /\ r2[row.session].st = "open"
               THEN {r2, PartStored(worker[w].part)}
               ELSE {r2}
    /\ UNCHANGED <<row, call>>

\* Android stops the worker, at its time limit or when the network is gone.
Stop(w) ==
    /\ Fault("stop")
    /\ worker[w].pc # "off"
    /\ ~worker[w].stopped
    /\ worker' = [worker EXCEPT ![w].stopped = TRUE]
    /\ work' = "enqueued"
    /\ UNCHANGED <<server, call, job>>

\* The store is durable, the threads are not.
Death ==
    /\ Fault("death")
    /\ \E w \in Workers : worker[w] # Off
    /\ worker' = [w \in Workers |-> Off]
    /\ work' = IF work = "running" THEN "enqueued" ELSE work
    /\ UNCHANGED <<server, call, job>>

\* ExistingWorkPolicy.REPLACE: a running worker is stopped, new work enqueued.
Replace ==
    /\ work' = "enqueued"
    /\ worker' = [w \in Workers |->
                     IF worker[w] = Off THEN Off ELSE [worker[w] EXCEPT !.stopped = TRUE]]

\* requeueRetryable
Requeued ==
    IF job.st \in {"failed", "retry_wait"}
    THEN [job EXCEPT !.st = "queued", !.attempt = 0]
    ELSE job

\* The app becomes active: resumeEligible.
Reopen ==
    /\ "reopen" \in Operator
    /\ job.st \notin {"verified", "failed"}
    /\ \/ job.st = "retry_wait" /\ job' = Requeued /\ Replace
       \/ /\ job.st # "retry_wait"
          /\ work' = IF work = "ended" THEN "enqueued" ELSE work  \* KEEP
          /\ UNCHANGED <<job, worker>>
    /\ UNCHANGED <<server, call, faults>>

\* retryBackgroundUpload, offered for a video whose upload has failed.  The job
\* may have been taken up again since the screen was drawn.
Retry ==
    /\ "retry" \in Operator
    /\ job.st # "verified"
    /\ job' = Requeued
    /\ Replace
    /\ UNCHANGED <<server, call, faults>>

----------------------------------------------------------------------------
Next ==
    \/ \E c \in Calls : Handler(c) \/ Kill(c) \/ CallFails(c) \/ CallAbort(c)
    \/ \E w \in Workers :
          \/ BeginRun(w) \/ EngineStep(w)
          \/ SourceUnreadable(w) \/ NetworkFails(w) \/ Stop(w)
    \/ Death \/ Reopen \/ Retry

Spec == Init /\ [][Next]_vars

\* Handlers come to an end, WorkManager runs what is enqueued, an engine goes on.
Fairness ==
    /\ \A c \in Calls : WF_vars(Handler(c))
    /\ \A w \in Workers : WF_vars(BeginRun(w)) /\ WF_vars(EngineStep(w))

FairSpec == Spec /\ Fairness

----------------------------------------------------------------------------
(* Properties.                                                               *)

\* The type of the state; the attempt count stays in its budget.
TypeOK ==
    /\ row \in Row
    /\ r2 \in [Sessions -> R2Session]
    /\ call \in [Calls -> Call]
    /\ job \in Job
    /\ work \in {"enqueued", "running", "ended"}
    /\ worker \in [Workers -> Engine]
    /\ faults \in [all : 0..MaxFaults, server : 0..MaxFaults, apart : BOOLEAN]

\* Sessions that R2 keeps and neither the row owns nor a start that will still
\* hand it to the row or abort it.
Orphans ==
    {s \in Sessions :
        /\ r2[s].st \in {"open", "object"}
        /\ s # row.session
        /\ \A c \in Calls : call[c].session = s =>
              call[c].pc \notin {"start_insert", "start_discard", "start_undo"}}

\* However starts overlap, are repeated or fail: each orphan is the work of one
\* failed R2 call or one killed handler.
OrphansHaveCause == Cardinality(Orphans) <= faults.server

SessionGone == r2[row.session].st = "gone"

\* What the row says of R2 is so, whichever handler wrote it last.  A verified upload has its
\* object: HEAD decides in the complete route, not an earlier answer.  R2 has every part of
\* the ledger, which a resumed upload does not send again, until the session is aborted and
\* every part freed; and while the row of an aborted session still takes parts, the abort
\* route is about to mark it, or a fault took the mark or the session: the handler was stopped
\* or a call failed after R2's abort, or the start that inserted the row never learnt so.
RowIsTrueOfR2 ==
    row # NoRow =>
        /\ row.st = "verified" => r2[row.session].st = "object"
        /\ SessionGone \/ row.parts \subseteq r2[row.session].parts
        /\ SessionGone /\ row.st # "aborted" =>
              faults.apart \/ \E c \in Calls : At(c, "abort_mark")

\* An aborted upload takes no more parts.
AbortedSessionClosed == row.st = "aborted" => r2[row.session].st # "open"

\* What the phone shows as uploaded is verified on the server and its phone copy
\* settled, whichever engine wrote the job last.
PhoneBelievesServer == job.st = "verified" => row.st = "verified" /\ row.cleaned

\* The upload keeps its session and its acknowledged parts through every restart
\* and every repeated start.
SessionKept ==
    [][row # NoRow => row'.session = row.session /\ row.parts \subseteq row'.parts]_vars

\* Lost answers, interrupted handlers and unreadable sources are overcome while
\* the budget of attempts lasts.
UploadGetsThrough == <>(job.st = "verified")

\* The lack of network is a reason to retry, never to give the video up.
NetworkLossIsRetried == [][job.st # "failed" => job'.st # "failed"]_vars
=============================================================================
