------------------------------ MODULE Delivery ------------------------------
(***************************************************************************)
(* From an approved draft to a published preview and to the final delivery: *)
(* the approve route, the deliver workflow with its one running and one     *)
(* waiting job, services/delivery.py over Drive or R2, and deliver_final    *)
(* on a workstation.                                                       *)
(*                                                                         *)
(* A draft is a file; two drafts of Drive may share a name.  A publication   *)
(* is a row of the reels table.  Every call may fail, before or after it     *)
(* took effect, a runner may be cancelled or lost; each takes one fault.     *)
(***************************************************************************)
EXTENDS Naturals, FiniteSets

CONSTANTS Drafts,
          All,           \* the target of a delivery started by hand
          Worlds         \* what differs between instances, see World

\* The storage backend; is deliver.py run where previewed.json is kept; the drafts
\* there are and their names; those the review policy blocks; bound: calls that
\* fail, cancelled and lost runners.
World == [backend : {"drive", "r2"}, kept : BOOLEAN, drafts : SUBSET Drafts,
          name : [Drafts -> Drafts], blocked : SUBSET Drafts, faults : Nat]

ASSUME DeliveryAssumption ==
    /\ All \notin Drafts
    /\ \A w \in Worlds : w \in World

Folders == {"review", "approved", "payment", "processed"}
Terminal == {"succeeded", "failed", "dispatch_failed"}
Statuses == {"none", "queued", "running", "discover_published"} \cup Terminal

VARIABLES world,
          place,         \* draft -> folders it is in (two during a copy)
          reels,         \* draft -> its rows in the reels table
          row,           \* draft -> status of its delivery_runs row
          route,         \* draft -> step of the approve request
          waiting,       \* targets of the waiting job, at most one
          job,           \* the running job
          previewed,     \* previewed.json
          delivered,     \* delivered.json
          final,         \* deliver_final on the workstation
          missed,        \* history: drafts the last delivery failed or was taken from
          faults

store == <<place, reels>>
vars == <<world, store, row, route, waiting, job, previewed, delivered, final, missed, faults>>

Fault == faults < world.faults /\ faults' = faults + 1
Fine == UNCHANGED faults
NoJob == [pc |-> "off", target |-> All, todo |-> {}, doing |-> {}, failures |-> {}, results |-> {}]
NoFinal == [pc |-> "off", todo |-> {}]

Init ==
    /\ world \in Worlds
    /\ place = [d \in Drafts |-> IF d \in world.drafts THEN {"review"} ELSE {}]
    /\ reels = [d \in Drafts |-> 0]
    /\ row = [d \in Drafts |-> "none"] /\ route = [d \in Drafts |-> "idle"]
    /\ waiting = {} /\ job = NoJob
    /\ previewed = {} /\ delivered = {} /\ final = NoFinal
    /\ missed = {} /\ faults = 0

(***************************************************************************)
(* Approval                                                                *)
(***************************************************************************)
RouteTo(d, step) == route' = [route EXCEPT ![d] = step]

\* A move that fails ends the request with the draft in REVIEW; R2 may have copied.
ApproveMove(d) ==
    /\ route[d] = "idle" /\ "review" \in place[d] /\ d \notin world.blocked
    /\ \/ Fine /\ RouteTo(d, "moved") /\ place' = [place EXCEPT ![d] = {"approved"}]
       \/ Fault /\ UNCHANGED <<place, route>>
       \/ /\ world.backend = "r2" /\ Fault /\ UNCHANGED route
          /\ place' = [place EXCEPT ![d] = @ \cup {"approved"}]
    /\ UNCHANGED <<reels, row, waiting, job, previewed, delivered, final>>

ApproveInsert(d) ==
    /\ route[d] = "moved"
    /\ \/ Fine /\ RouteTo(d, "inserted") /\ row' = [row EXCEPT ![d] = "queued"]
       \/ Fault /\ RouteTo(d, "done") /\ UNCHANGED row
    /\ UNCHANGED <<store, waiting, job, previewed, delivered, final>>

\* The group holds one waiting job; a further one cancels it before its first step.
Dispatch(target) == waiting' = {target}

\* An answer that is lost or late counts as a failure, whatever GitHub did.
ApproveDispatch(d) ==
    /\ route[d] = "inserted"
    /\ \/ Fine /\ Dispatch(d) /\ RouteTo(d, "sent")
       \/ Fault /\ Dispatch(d) /\ RouteTo(d, "refused")
       \/ Fault /\ UNCHANGED waiting /\ RouteTo(d, "refused")
    /\ UNCHANGED <<store, row, job, previewed, delivered, final>>

\* The last write of the request, whatever the job has written since.
ApproveEnd(d) ==
    /\ route[d] \in {"sent", "refused"} /\ RouteTo(d, "done")
    /\ \/ /\ Fine
          /\ row' = [row EXCEPT ![d] = IF route[d] = "sent" THEN "queued" ELSE "dispatch_failed"]
       \/ Fault /\ UNCHANGED row
    /\ UNCHANGED <<store, waiting, job, previewed, delivered, final>>

\* The operator may move a draft in Drive itself, and start the delivery by hand.
ApproveInDrive(d) ==
    /\ world.backend = "drive" /\ route[d] = "idle" /\ place[d] = {"review"}
    /\ place' = [place EXCEPT ![d] = {"approved"}]
    /\ UNCHANGED <<reels, row, route, waiting, job, previewed, delivered, final, faults>>

DeliverByHand ==
    /\ \E d \in Drafts : "approved" \in place[d]
    /\ Dispatch(All)
    /\ UNCHANGED <<store, row, route, job, previewed, delivered, final, faults>>

(***************************************************************************)
(* The deliver job                                                         *)
(***************************************************************************)
\* The job's row, written by jobs that have one; the write is best effort.
Report(status) ==
    LET d == job.target
    IN  \/ Fine /\ row' = IF d = All \/ row[d] = "none" THEN row ELSE [row EXCEPT ![d] = status]
        \/ d # All /\ Fault /\ UNCHANGED row

StartJob ==
    /\ job.pc = "off" /\ waiting # {} /\ waiting' = {}
    /\ job' = [NoJob EXCEPT !.pc = "scan", !.target = CHOOSE t \in waiting : TRUE]
    /\ previewed' = IF world.kept THEN previewed ELSE {}
    /\ UNCHANGED <<store, row, route, delivered, final, faults>>

\* Runner cancelled or timed out: the finalizer still runs.  Runner lost: nothing.
StopJob ==
    /\ job.pc # "off" /\ Fault
    /\ job' \in {[job EXCEPT !.pc = "finalize"], NoJob}
    /\ UNCHANGED <<store, row, route, waiting, previewed, delivered, final>>

Approved == {d \in Drafts : "approved" \in place[d] /\ job.target \in {d, All}}

\* A Drive folder that cannot be read counts as empty, R2 raises.
Scan ==
    /\ job.pc = "scan" /\ Report("running")
    /\ job' = IF Approved = {} THEN [job EXCEPT !.pc = "succeed"]
              ELSE [job EXCEPT !.pc = "draft", !.todo = Approved \ previewed]
    /\ UNCHANGED <<store, route, waiting, previewed, delivered, final>>
ScanFails ==
    /\ job.pc = "scan" /\ Fault
    /\ job' = [job EXCEPT !.pc = IF world.backend = "drive" THEN "succeed" ELSE "fail"]
    /\ UNCHANGED <<store, row, route, waiting, previewed, delivered, final>>

\* Mutant: a draft counts as previewed from the moment it is taken up.
NextDraftMarking(d) ==
    /\ job.pc = "draft" /\ d \in job.todo /\ previewed' = previewed \cup {d}
    /\ job' = [job EXCEPT !.pc = "prepare", !.todo = @ \ {d}, !.doing = {d}]
    /\ UNCHANGED <<store, row, route, waiting, delivered, final, faults>>

NextDraft(d) ==
    /\ job.pc = "draft" /\ d \in job.todo
    /\ job' = [job EXCEPT !.pc = "prepare", !.todo = @ \ {d}, !.doing = {d}]
    /\ UNCHANGED <<store, row, route, waiting, previewed, delivered, final, faults>>

\* Failures are remembered by the draft's name.
Doing(step) == {d \in job.doing : job.pc = step}
GiveUp(d) == job' = [job EXCEPT !.pc = "draft", !.doing = {}, !.failures = @ \cup {world.name[d]}]

\* Download and watermark, then the upload of the preview.
Prepare(d) ==
    /\ d \in Doing("prepare")
    /\ \/ Fine /\ job' = [job EXCEPT !.pc = "upload"]
       \/ Fault /\ GiveUp(d)
    /\ UNCHANGED <<store, row, route, waiting, previewed, delivered, final>>

UploadPreview(d) ==
    /\ d \in Doing("upload")
    /\ \/ Fine /\ job' = [job EXCEPT !.pc = "publish"]
       \/ Fault /\ GiveUp(d)
    /\ UNCHANGED <<store, row, route, waiting, previewed, delivered, final>>

\* Mutant: a failed publication is not recorded among the failures.
PublishUnrecorded(d) ==
    /\ d \in Doing("publish") /\ job' = [job EXCEPT !.pc = "settle"]
    /\ \/ reels' = [reels EXCEPT ![d] = @ + 1] /\ Report("discover_published")
       \/ Fault /\ UNCHANGED <<reels, row>>
    /\ UNCHANGED <<place, route, waiting, previewed, delivered, final>>

\* publish_reel_approved inserts a row under a fresh id every time it is called; the
\* answer to the insert may be lost.
Publish(d) ==
    /\ d \in Doing("publish")
    /\ \/ /\ reels' = [reels EXCEPT ![d] = @ + 1] /\ Report("discover_published")
          /\ job' = [job EXCEPT !.pc = "settle"]
       \/ /\ Fault /\ UNCHANGED row
          /\ reels' \in {reels, [reels EXCEPT ![d] = @ + 1]}
          /\ job' = [job EXCEPT !.pc = "settle", !.failures = @ \cup {world.name[d]}]
    /\ UNCHANGED <<place, route, waiting, previewed, delivered, final>>

\* A failure of this name, even of another draft, leaves the draft where it is.
PassOver(d) ==
    /\ d \in Doing("settle") /\ world.name[d] \in job.failures
    /\ job' = [job EXCEPT !.pc = "draft", !.doing = {}]
    /\ UNCHANGED <<store, row, route, waiting, previewed, delivered, final, faults>>

\* Drive only warns of a move that fails; R2 copies, deletes and raises.
MoveToPayment(d) ==
    /\ d \in Doing("settle") /\ world.name[d] \notin job.failures
    /\ \/ /\ Fine /\ job' = [job EXCEPT !.pc = "mark"]
          /\ place' = [place EXCEPT ![d] = (@ \ {"approved"}) \cup {"payment"}]
       \/ Fault /\ world.backend = "drive" /\ job' = [job EXCEPT !.pc = "mark"] /\ UNCHANGED place
       \/ /\ Fault /\ world.backend = "r2" /\ job' = [job EXCEPT !.pc = "fail"]
          /\ place' \in {place, [place EXCEPT ![d] = @ \cup {"payment"}]}
    /\ UNCHANGED <<reels, row, route, waiting, previewed, delivered, final>>

MarkPreviewed(d) ==
    /\ d \in Doing("mark") /\ previewed' = previewed \cup {d}
    /\ job' = [job EXCEPT !.pc = "draft", !.doing = {}, !.results = @ \cup {d}]
    /\ UNCHANGED <<store, row, route, waiting, delivered, final, faults>>

\* One failure among the drafts of the run, and nobody is mailed.
EndDrafts ==
    /\ job.pc = "draft" /\ job.todo = {}
    /\ job' = [job EXCEPT !.pc = IF job.failures # {} THEN "fail"
                                 ELSE IF job.results # {} THEN "notify" ELSE "succeed"]
    /\ UNCHANGED <<store, row, route, waiting, previewed, delivered, final, faults>>

\* One mail per registered client and one to the owner.  Through the proxy a failure
\* raises, through Gmail it is logged; it is passed over either way.
Notify ==
    /\ job.pc = "notify" /\ job' = [job EXCEPT !.pc = "succeed"]
    /\ Fine \/ Fault
    /\ UNCHANGED <<store, row, route, waiting, previewed, delivered, final>>

Succeed ==
    /\ job.pc = "succeed" /\ job' = NoJob /\ Report("succeeded")
    /\ UNCHANGED <<store, route, waiting, previewed, delivered, final>>

Fail ==
    /\ job.pc = "fail" /\ job' = [job EXCEPT !.pc = "finalize"] /\ Report("failed")
    /\ UNCHANGED <<store, route, waiting, previewed, delivered, final>>

FinalizeRow ==
    /\ job.pc = "finalize" /\ job' = NoJob
    /\ IF job.target # All /\ row[job.target] \in Terminal THEN UNCHANGED row /\ Fine
       ELSE Report("failed")
    /\ UNCHANGED <<store, route, waiting, previewed, delivered, final>>

(***************************************************************************)
(* deliver_final, over Drive                                               *)
(***************************************************************************)
Payable == {d \in Drafts : "payment" \in place[d]}

StartFinal ==
    /\ world.backend = "drive" /\ final.pc = "off" /\ Payable \ delivered # {}
    /\ final' = [pc |-> "save", todo |-> Payable \ delivered]
    /\ UNCHANGED <<store, row, route, waiting, job, previewed, delivered, faults>>

\* The full reel is published only when no row has the draft's name.  Downloads,
\* mails and publications that fail are passed over: the draft counts as delivered.
\* Archiving moves from APPROVED, where the draft is not, and is refused.
HasRow(d) == \E x \in Drafts : world.name[x] = world.name[d] /\ reels[x] > 0
Deliver ==
    /\ final.pc = "save" /\ final' = NoFinal /\ delivered' = delivered \cup final.todo
    /\ \E done \in {final.todo, {}} :
          /\ IF done = {} THEN Fault ELSE Fine
          /\ reels' = [d \in Drafts |-> IF d \in done /\ ~HasRow(d) THEN reels[d] + 1 ELSE reels[d]]
    /\ place' = [d \in Drafts |->
                   IF d \in Payable /\ "approved" \in place[d] THEN {"processed"} ELSE place[d]]
    /\ UNCHANGED <<row, route, waiting, job, previewed>>

FinalDies ==
    /\ final.pc = "save" /\ Fault /\ final' = NoFinal
    /\ UNCHANGED <<store, row, route, waiting, job, previewed, delivered>>

JobStep ==
    \/ StartJob \/ Scan \/ ScanFails \/ EndDrafts \/ Notify \/ Succeed \/ Fail \/ FinalizeRow
    \/ \E d \in Drafts :
          \/ NextDraft(d) \/ Prepare(d) \/ UploadPreview(d) \/ Publish(d)
          \/ PassOver(d) \/ MoveToPayment(d) \/ MarkPreviewed(d)

\* History.  The drafts a waiting or running delivery still has before it, and
\* those it never comes to: another took its place while it waited, a call or the
\* runner failed, or a draft of the name failed.
Covers(targets) == IF All \in targets THEN Drafts ELSE targets
Ahead == IF job.pc \in {"fail", "finalize"} THEN Covers(waiting)
         ELSE Covers(waiting) \cup job.todo \cup job.doing
                \cup (IF job.pc = "scan" THEN Covers({job.target}) ELSE {})
Misses ==
    LET failed == {d \in Drafts : faults' # faults \/ world.name[d] \in job.failures
                                     \/ (waiting' # {} /\ d \in Covers(waiting))}
    IN  missed' = (missed \cup (failed \cap (Ahead \ Ahead'))) \ Covers(waiting')

Request(d) == ApproveMove(d) \/ ApproveInsert(d) \/ ApproveDispatch(d) \/ ApproveEnd(d)
Next ==
    /\ UNCHANGED world
    /\ \/ \E d \in Drafts : Request(d) \/ ApproveInDrive(d)
       \/ DeliverByHand \/ JobStep \/ StopJob \/ StartFinal \/ Deliver \/ FinalDies
    /\ Misses
Spec == Init /\ [][Next]_vars

\* GitHub starts the delivery that waits, and a job goes on while its runner lives.
\* Nobody has to approve a draft, finish a request or start a delivery by hand.
FairSpec == Spec /\ WF_vars(UNCHANGED world /\ JobStep /\ Misses)

(***************************************************************************)
(* Properties                                                              *)
(***************************************************************************)
TypeOK ==
    /\ place \in [Drafts -> SUBSET Folders] /\ reels \in [Drafts -> Nat]
    /\ row \in [Drafts -> Statuses] /\ Cardinality(waiting) <= 1
    /\ faults \in 0..world.faults

\* Nothing waits for payment that is not in Discover: whatever fails, a draft
\* leaves APPROVED after its row in reels only.
PayableIsPublished == \A d \in Payable : reels[d] > 0

\* A delivery run that reports success over R2 has its draft published; over
\* Drive a folder that could not be read is reported as success.
SucceededIsPublished ==
    world.backend = "r2" => \A d \in Drafts : row[d] = "succeeded" => reels[d] > 0

\* Discover comes first: nobody is asked to pay, and the operator is shown no
\* success, before the reel is there.
PublishedFirst == PayableIsPublished /\ SucceededIsPublished

\* The same promise asked of every store.
SucceededIsAlwaysPublished == \A d \in Drafts : row[d] = "succeeded" => reels[d] > 0

\* An approved draft for which a delivery waits is in Discover in the end, and
\* later deliveries make good what earlier ones failed: none comes to its end with
\* the draft left in APPROVED, but one that missed it.
ApprovedIsPublished ==
    \A d \in Drafts :
        "approved" \in place[d] /\ d \in Covers(waiting) ~> reels[d] > 0 \/ d \in missed

\* What the approve route says of every delivery it has dispatched.
DispatchedIsDelivered ==
    \A d \in Drafts : world.faults = 0 /\ route[d] = "sent" ~> reels[d] > 0
=============================================================================
