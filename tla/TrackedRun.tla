---------------------------- MODULE TrackedRun ----------------------------
(***************************************************************************)
(* What the operator and GitHub are told of a run: scripts/run_tracked.py   *)
(* runs the pipeline (ReelPublication) and writes its end to the run's row  *)
(* in pipeline_runs and to the one pipeline_status signal, as well as it    *)
(* can; run_pipeline_with_diagnostics.sh evaluates the business gate and    *)
(* records a failure of it strictly, with a read-back and an outbox; the    *)
(* workflow then verifies the re-edit tasks and, when a step failed or was  *)
(* cancelled, finalizes a row that is still open.                           *)
(*                                                                         *)
(* The job of GitHub is the process here: st is the step it is at.          *)
(***************************************************************************)
EXTENDS ReelPublication

CONSTANT Faults   \* what may go wrong: a subset of
                  \*   "write"  a write to Supabase raises, stored or not
                  \*   "read"   a read from Supabase raises
                  \*   "cut"    the job is cancelled or times out
                  \*   "runner" the runner dies

VARIABLES st,        \* the step of the workflow job
          tracked,   \* the job was given a PIPELINE_RUN_ID
          ending,    \* the terminal status run_tracked.py arrives at
          row,       \* pipeline_runs: status and stage
          signal,    \* pipeline_status: stage and meta.terminal_status
          gate,      \* what the business gate says
          outbox,    \* terminal_status_outbox.json was written
          result     \* the job: None, "green", "red", or "cut" short

jobVars == <<st, tracked, ending, row, signal, gate, outbox, result>>
allVars == <<vars, jobVars>>

Live == [status |-> "running", stage |-> "running"]
GateFailed == [status |-> "failed", stage |-> "publishable_business_gate_failed"]
SignalFailed == [stage |-> "failed", status |-> "failed"]
TerminalStatuses == {"succeeded", "failed", "no_input", "no_reviewable_drafts"}

\* _global_terminal_signal: the stage the operator's screen shows.
SignalStage(status) == IF status = "succeeded" THEN "done" ELSE status
\* _terminal_payload; a failure's stage, which names its reason, is kept as "failed".
RowStage(status) == IF status = "succeeded" THEN "finished" ELSE status

\* mark_run and write_pipeline_status swallow what goes wrong; a run without an
\* id has no row to write to.
BestEffort(old, new) == {new} \cup (IF "write" \in Faults THEN {old} ELSE {})
MarkRun(new) == row' \in IF tracked THEN BestEffort(row, new) ELSE {row}
WriteStatus(new) == signal' \in BestEffort(signal, new)

JobInit ==
    /\ Init
    /\ st = "work" /\ tracked \in BOOLEAN /\ ending = None
    /\ row = IF tracked THEN Live ELSE [status |-> None, stage |-> None]
    /\ signal = [stage |-> "running", status |-> None]
    /\ gate = None /\ outbox = FALSE /\ result = None

----------------------------------------------------------------------------
(* run_tracked.py. *)

PipelineStep ==
    /\ st = "work" /\ pc # "audit"
    /\ Step
    /\ UNCHANGED jobVars

EndsAs(status) == ending' = status /\ st' = "signal"

\* No new videos: main says so in the run's row itself.
NoInput ==
    /\ st = "work" /\ pc = "render" /\ ver = 0 /\ who = 1
    /\ EndsAs("no_input")
    /\ MarkRun([status |-> "no_input", stage |-> "no_input"])
    /\ UNCHANGED <<vars, tracked, signal, gate, outbox, result>>

\* All candidates were rejected before the first render: an end of its own if
\* selection_filter_events.json can be read, else a failure.
NothingSelected ==
    /\ st = "work" /\ pc = "render" /\ ver = 0 /\ who = 1
    /\ EndsAs("no_reviewable_drafts") \/ EndsAs("failed")
    /\ UNCHANGED <<vars, tracked, row, signal, gate, outbox, result>>

Drafts == {k \in 1..Len(pending) : pending[k].phase = "done"}

\* main returns: with drafts it first reports "done", which the mirror passes
\* on to the row; clearing the operator's notes may still raise.
MainReturns ==
    /\ st = "work" /\ pc = "audit"
    /\ IF Drafts # {}
         THEN /\ WriteStatus([stage |-> "done", status |-> None])
              /\ MarkRun([row EXCEPT !.stage = "done"])
              /\ EndsAs("succeeded") \/ EndsAs("failed")
         ELSE EndsAs("failed") /\ UNCHANGED <<signal, row>>
    /\ UNCHANGED <<vars, tracked, gate, outbox, result>>

MainRaises ==
    /\ st = "work" /\ pc = "done"
    /\ EndsAs("failed")
    /\ UNCHANGED <<vars, tracked, row, signal, gate, outbox, result>>

\* mark_terminal_run: the signal, mirrored in the row's stage, then the row.
TellSignal ==
    /\ st = "signal" /\ st' = "row"
    /\ WriteStatus([stage |-> SignalStage(ending), status |-> ending])
    /\ MarkRun([row EXCEPT !.stage = SignalStage(ending)])
    /\ UNCHANGED <<vars, tracked, ending, gate, outbox, result>>

\* The process exits 1 after a failure, and the job fails with it.
TellRow ==
    /\ st = "row"
    /\ MarkRun([status |-> ending, stage |-> RowStage(ending)])
    /\ IF ending = "failed" THEN st' = "finalize" /\ result' = "red"
                            ELSE st' = "gate" /\ result' = result
    /\ UNCHANGED <<vars, tracked, ending, signal, gate, outbox>>

----------------------------------------------------------------------------
(* run_pipeline_with_diagnostics.sh. *)

\* check_publishable_manifest_empty.py: nobody to publish for.
EmptyManifest == DOMAIN rows = {}

\* The gate of the manifest, unless a report it needs could not be built.  An
\* empty manifest passes when there is no evidence of anybody, or when the
\* coverage report explains everybody.
BusinessGate ==
    /\ st = "gate"
    /\ \/ ending = "succeeded" /\ Audit /\ gate' = outcome'
       \/ ending # "succeeded" /\ EmptyManifest /\ gate' = "complete" /\ UNCHANGED vars
       \/ gate' = "failed" /\ UNCHANGED vars
    /\ st' = IF gate' = "failed" THEN "record_signal" ELSE "verify"
    /\ UNCHANGED <<tracked, ending, row, signal, outbox, result>>

\* A step of record_publishable_business_gate_status.py raises: the outbox is
\* written.  The job fails with the gate either way.
Retained == outbox' = TRUE /\ st' = "finalize" /\ result' = "red"

\* mark_terminal_run_strict: the signal, then the row.
RecordSignal ==
    /\ st = "record_signal"
    /\ \/ signal' = SignalFailed /\ st' = "record_row" /\ UNCHANGED <<outbox, result>>
       \/ "write" \in Faults /\ signal' \in {signal, SignalFailed} /\ Retained
    /\ UNCHANGED <<vars, tracked, ending, row, gate>>

RecordRow ==
    /\ st = "record_row"
    /\ \/ /\ row' = IF tracked THEN GateFailed ELSE row
          /\ st' = "read_back" /\ UNCHANGED <<outbox, result>>
       \/ "write" \in Faults /\ tracked /\ row' \in {row, GateFailed} /\ Retained
    /\ UNCHANGED <<vars, tracked, ending, signal, gate>>

\* verify_terminal_state
Told == row = GateFailed /\ signal = SignalFailed

\* Mutant: the failure is written as well as it can be, and not read back.
ReadBackTrusting ==
    /\ st = "read_back" /\ st' = "finalize" /\ result' = "red"
    /\ UNCHANGED <<vars, tracked, ending, row, signal, gate, outbox>>

ReadBack ==
    /\ st = "read_back"
    /\ \/ Told /\ st' = "finalize" /\ result' = "red" /\ outbox' = FALSE
       \/ (~Told \/ "read" \in Faults) /\ Retained
    /\ UNCHANGED <<vars, tracked, ending, row, signal, gate>>

----------------------------------------------------------------------------
(* The rest of the workflow. *)

\* verify_qa_reedit_tasks.py: each draft its trace shows blocked by QA must
\* have an active task; nothing is read when none is blocked.
Blocked == {k \in Drafts : TaskDue(pending[k])}
TasksAreThere == \A k \in Blocked : pending[k].name \in tasks

\* Mutant: one task is enough.
VerifyAny ==
    /\ st = "verify"
    /\ \/ /\ Blocked = {} \/ \E k \in Blocked : pending[k].name \in tasks
          /\ st' = "over" /\ result' = "green"
       \/ /\ Blocked # {}
          /\ ~TasksAreThere \/ "read" \in Faults
          /\ st' = "finalize" /\ result' = "red"
    /\ UNCHANGED <<vars, tracked, ending, row, signal, gate, outbox>>

Verify ==
    /\ st = "verify"
    /\ \/ TasksAreThere /\ st' = "over" /\ result' = "green"
       \/ /\ Blocked # {}
          /\ ~TasksAreThere \/ "read" \in Faults
          /\ st' = "finalize" /\ result' = "red"
    /\ UNCHANGED <<vars, tracked, ending, row, signal, gate, outbox>>

\* Mutant: any row of a failed job is failed.
FinalizeAny ==
    /\ st = "finalize" /\ st' = "over"
    /\ MarkRun([status |-> "failed", stage |-> "failed"])
    /\ UNCHANGED <<vars, tracked, ending, signal, gate, outbox, result>>

\* finalize_unfinished_run.py: a row that is not terminal has failed.
Finalize ==
    /\ st = "finalize" /\ st' = "over"
    /\ IF row.status \in TerminalStatuses THEN row' = row
       ELSE MarkRun([status |-> "failed", stage |-> "failed"])
    /\ UNCHANGED <<vars, tracked, ending, signal, gate, outbox, result>>

\* Cancelled or timed out: the last steps still run.
Cut ==
    /\ "cut" \in Faults /\ st \notin {"finalize", "over"}
    /\ st' = "finalize" /\ result' = "cut"
    /\ UNCHANGED <<vars, tracked, ending, row, signal, gate, outbox>>

Dies ==
    /\ "runner" \in Faults /\ st # "over"
    /\ st' = "over" /\ result' = "cut"
    /\ UNCHANGED <<vars, tracked, ending, row, signal, gate, outbox>>

JobStep ==
    \/ PipelineStep \/ NoInput \/ NothingSelected \/ MainReturns \/ MainRaises
    \/ TellSignal \/ TellRow \/ BusinessGate \/ RecordSignal \/ RecordRow \/ ReadBack
    \/ Verify \/ Finalize

JobNext == JobStep \/ Cut \/ Dies

JobSpec == JobInit /\ [][JobNext]_allVars

----------------------------------------------------------------------------
(* Properties. *)

JobTypeOK ==
    /\ st \in {"work", "signal", "row", "gate", "record_signal", "record_row", "read_back", "verify",
               "finalize", "over"}
    /\ tracked \in BOOLEAN /\ outbox \in BOOLEAN
    /\ ending \in TerminalStatuses \cup {None}
    /\ row.status \in TerminalStatuses \cup {"running", None}
    /\ gate \in {None, "complete", "partial", "failed"}
    /\ result \in {None, "green", "red", "cut"}

\* A run that wrote its success before the gate failed does not keep it: when
\* the job ends by itself, row and signal say what the gate said, or the outbox
\* holds it (record_gate_failure).
GateFailureIsTold ==
    st = "over" /\ result = "red" /\ gate = "failed" => Told \/ outbox

\* Behind a green job with drafts nobody is missing: every athlete has a draft
\* in review, every draft went all the way, and those QA objected to have their
\* re-edit task (the gate, verify_qa_reedit_tasks.py).
GreenJobIsWhole ==
    result = "green" /\ ending = "succeeded" =>
        /\ \A i \in People : HasDraft(i, LAMBDA a : TRUE)
        /\ \A k \in 1..Len(pending) :
             /\ pending[k].phase = "done"
             /\ TaskDue(pending[k]) => pending[k].name \in tasks

\* How a run ended is not overwritten: only the business gate takes a status
\* back (finalize_unfinished_run.py: "a specific error already written by the
\* tracked entry point is never overwritten").
TerminalStands ==
    [][row.status \in TerminalStatuses /\ row'.status # row.status => row' = GateFailed]_allVars

\* Claimed by docs/audit/cross-layer-logical-consistency-test-basis-20260717.md:
\* "GitHub, durable run status, and operator status converge on one read-back
\* verified terminal state, or a durable retry/outbox record remains."
Converged ==
    st = "over" /\ tracked /\ ~outbox =>
        IF result = "green" THEN row.status = ending /\ signal.status = ending
                            ELSE row.status = "failed" /\ signal.status = "failed"
=============================================================================
