--------------------------- MODULE DeliveryProofs ---------------------------
(***************************************************************************)
(* Proofs about Delivery, for any number of drafts, any names they share    *)
(* and any number of failing calls.                                        *)
(*                                                                         *)
(* Rows of the reels table are only added, so a draft that is in Discover   *)
(* stays there; the invariant follows the draft a job works on from step    *)
(* to step (PublishedInTime), and over R2 the request that asked for it     *)
(* (AskedInTime, WorkedInTime).                                            *)
(***************************************************************************)
EXTENDS Delivery, FiniteSetTheorems, TLAPS

Steps == {"prepare", "upload", "publish", "settle", "mark"}
JobPCs == {"off", "scan", "draft", "notify", "succeed", "fail", "finalize"} \cup Steps
Routes == {"idle", "moved", "inserted", "sent", "refused", "done"}
Targets == Drafts \cup {All}
Job == [pc : JobPCs, target : Targets, todo : SUBSET Drafts, doing : SUBSET Drafts,
        failures : SUBSET Drafts, results : SUBSET Drafts]

Types ==
    /\ world \in Worlds
    /\ place \in [Drafts -> SUBSET Folders]
    /\ reels \in [Drafts -> Nat]
    /\ row \in [Drafts -> Statuses]
    /\ route \in [Drafts -> Routes]
    /\ waiting \in {{}} \cup {{t} : t \in Targets}
    /\ job \in Job
    /\ previewed \in SUBSET Drafts
    /\ final \in [pc : {"off", "save"}, todo : SUBSET Drafts]
    /\ faults \in 0..world.faults

Published(d) == reels[d] > 0

\* The draft in hand is published before it is moved and before it is marked.
PublishedInTime ==
    /\ \A d, e \in job.doing : d = e
    /\ \A d \in job.doing :
          /\ job.pc = "settle" /\ world.name[d] \notin job.failures => Published(d)
          /\ job.pc = "mark" => Published(d)
    /\ \A d \in previewed : Published(d)
    /\ \A d \in Drafts : "payment" \in place[d] => Published(d)

\* Over R2 a draft that was approved is in APPROVED until it is published, and
\* only drafts that were approved have jobs of their own.
AskedInTime ==
    /\ final.pc = "off"
    /\ \A d \in Drafts : route[d] # "idle" => "approved" \in place[d] \/ Published(d)
    /\ \A d \in Drafts : d \in waiting => route[d] # "idle"
    /\ job.pc # "off" /\ job.target # All => route[job.target] # "idle"

\* The draft a job was asked for is published, still to come, or in its failures.
WorkedInTime ==
    LET d == job.target
    IN  /\ d # All =>
             /\ job.pc \in Steps \cup {"draft"} =>
                  \/ Published(d)
                  \/ d \in job.todo
                  \/ job.pc # "draft" /\ d \in job.doing
                  \/ world.name[d] \in job.failures
             /\ job.pc \in {"notify", "succeed"} => Published(d)
        /\ \A e \in Drafts : row[e] = "succeeded" => Published(e)

DeliveryInv ==
    /\ Types
    /\ PublishedInTime
    /\ world.backend = "r2" => AskedInTime /\ WorkedInTime

----------------------------------------------------------------------------
LEMMA WorldFacts ==
    ASSUME world \in Worlds
    PROVE  /\ world.backend \in {"drive", "r2"} /\ world.name \in [Drafts -> Drafts]
           /\ world.faults \in Nat /\ All \notin Drafts
  BY DeliveryAssumption DEF World

\* A fault is counted within its bound.
LEMMA FaultTypes ==
    ASSUME Types, Fault \/ Fine
    PROVE  faults' \in 0..world.faults
  BY WorldFacts DEF Types, Fault, Fine

\* The job writes its own row, if it has one.
LEMMA ReportTypes ==
    ASSUME Types, NEW status \in Statuses, Report(status)
    PROVE  row' \in [Drafts -> Statuses] /\ faults' \in 0..world.faults
  BY FaultTypes DEF Types, Report, Fine

LEMMA JobTypes ==
    ASSUME Types
    PROVE  /\ \A pc \in JobPCs : [job EXCEPT !.pc = pc] \in Job
           /\ \A d \in Drafts : job.failures \cup {world.name[d]} \in SUBSET Drafts
           /\ NoJob \in Job
  BY WorldFacts DEF Types, Job, JobPCs, NoJob, Targets

LEMMA PlaceTypes ==
    ASSUME Types, NEW d \in Drafts, NEW folders \in SUBSET Folders
    PROVE  [place EXCEPT ![d] = folders] \in [Drafts -> SUBSET Folders]
  BY DEF Types

\* Every step keeps the types: the requests, the job, deliver_final.
LEMMA RequestTypes ==
    ASSUME Types, UNCHANGED world, NEW d \in Drafts, Request(d) \/ ApproveInDrive(d)
    PROVE  Types'
<1>1. CASE ApproveMove(d)
  <2>1. route' \in [Drafts -> Routes] /\ faults' \in 0..world.faults
    BY <1>1, FaultTypes DEF ApproveMove, RouteTo, Types, Routes, Fine
  <2>2. [place EXCEPT ![d] = {"approved"}] \in [Drafts -> SUBSET Folders]
    BY PlaceTypes DEF Folders
  <2>3. [place EXCEPT ![d] = @ \cup {"approved"}] \in [Drafts -> SUBSET Folders]
    <3>1. place[d] \cup {"approved"} \in SUBSET Folders
      BY DEF Types, Folders
    <3> QED
      BY <3>1, PlaceTypes
  <2>4. place' \in [Drafts -> SUBSET Folders]
    BY <1>1, <2>2, <2>3 DEF ApproveMove, Types
  <2> QED
    BY <1>1, <2>1, <2>4 DEF ApproveMove, Types
<1>2. CASE ApproveInsert(d)
  BY <1>2, FaultTypes DEF ApproveInsert, RouteTo, Types, Routes, Statuses, Fine, store
<1>3. CASE ApproveDispatch(d)
  BY <1>3, FaultTypes DEF ApproveDispatch, RouteTo, Dispatch, Types, Routes, Targets, Fine, store
<1>4. CASE ApproveEnd(d)
  BY <1>4, FaultTypes DEF ApproveEnd, RouteTo, Types, Routes, Statuses, Terminal, Fine, store
<1>5. CASE ApproveInDrive(d)
  BY <1>5 DEF ApproveInDrive, Types, Folders
<1> QED
  BY <1>1, <1>2, <1>3, <1>4, <1>5 DEF Request

LEMMA JobStepTypes ==
    ASSUME Types, UNCHANGED world, JobStep \/ StopJob
    PROVE  Types'
<1> USE JobTypes
<1>1. CASE StartJob
  <2>1. (CHOOSE t \in waiting : TRUE) \in Targets
    BY <1>1 DEF StartJob, Types
  <2>2. job' \in Job
    BY <1>1, <2>1 DEF StartJob, NoJob, Job, JobPCs
  <2> QED
    BY <1>1, <2>2 DEF StartJob, Types, store
<1>2. CASE Scan
  <2>1. Approved \ previewed \in SUBSET Drafts
    BY DEF Approved
  <2>2. job' \in Job
    BY <1>2, <2>1 DEF Scan, Job, JobPCs
  <2>3. row' \in [Drafts -> Statuses] /\ faults' \in 0..world.faults
    BY <1>2, ReportTypes DEF Scan, Statuses
  <2> QED
    BY <1>2, <2>2, <2>3 DEF Scan, Types, store
<1>3. CASE ScanFails
  BY <1>3, FaultTypes DEF ScanFails, Types, JobPCs, store
<1>4. CASE EndDrafts
  BY <1>4 DEF EndDrafts, Types, JobPCs, store
<1>5. CASE Notify
  BY <1>5, FaultTypes DEF Notify, Types, JobPCs, store, Fine
<1>6. CASE Succeed
  BY <1>6, ReportTypes DEF Succeed, Types, Statuses, Terminal, store
<1>7. CASE Fail
  BY <1>7, ReportTypes DEF Fail, Types, JobPCs, Statuses, Terminal, store
<1>8. CASE FinalizeRow
  BY <1>8, ReportTypes, FaultTypes DEF FinalizeRow, Types, Statuses, Terminal, store
<1>9. ASSUME NEW d \in Drafts, NextDraft(d) PROVE Types'
  <2>1. job' \in Job
    BY <1>9 DEF NextDraft, Job, JobPCs, Steps
  <2> QED
    BY <1>9, <2>1 DEF NextDraft, Types, store
<1>10. ASSUME NEW d \in Drafts, Prepare(d) \/ UploadPreview(d) PROVE Types'
  <2>1. job.failures \cup {world.name[d]} \in SUBSET Drafts
    BY JobTypes
  <2>2. GiveUp(d) => job' \in Job
    BY <2>1 DEF Types, GiveUp, Job, JobPCs
  <2>3. job' \in Job
    BY <1>10, <2>2 DEF Prepare, UploadPreview, JobPCs, Steps
  <2> QED
    BY <1>10, <2>3, FaultTypes DEF Prepare, UploadPreview, Types, store
<1>11. ASSUME NEW d \in Drafts, Publish(d) PROVE Types'
  <2>1. [job EXCEPT !.pc = "settle"] \in Job
    BY JobTypes DEF JobPCs, Steps
  <2>4. [job EXCEPT !.pc = "settle", !.failures = @ \cup {world.name[d]}] \in Job
    <3>1. job.failures \cup {world.name[d]} \in SUBSET Drafts
      BY JobTypes
    <3> QED
      BY <3>1 DEF Types, Job, JobPCs, Steps
  <2>2. row' \in [Drafts -> Statuses] /\ faults' \in 0..world.faults
    BY <1>11, ReportTypes, FaultTypes DEF Publish, Types, Statuses
  <2>3. reels' \in [Drafts -> Nat]
    BY <1>11 DEF Publish, Types
  <2> QED
    BY <1>11, <2>1, <2>2, <2>3, <2>4 DEF Publish, Types
<1>12. ASSUME NEW d \in Drafts, PassOver(d) PROVE Types'
  <2>1. job' \in Job
    BY <1>12 DEF PassOver, Job, JobPCs
  <2> QED
    BY <1>12, <2>1 DEF PassOver, Types, store
<1>13. ASSUME NEW d \in Drafts, MoveToPayment(d) PROVE Types'
  <2>1. job' \in Job /\ faults' \in 0..world.faults
    BY <1>13, FaultTypes DEF MoveToPayment, JobPCs, Steps
  <2>2. /\ (place[d] \ {"approved"}) \cup {"payment"} \in SUBSET Folders
        /\ place[d] \cup {"payment"} \in SUBSET Folders
    BY DEF Types, Folders
  <2>3. /\ [place EXCEPT ![d] = (@ \ {"approved"}) \cup {"payment"}]
              \in [Drafts -> SUBSET Folders]
        /\ [place EXCEPT ![d] = @ \cup {"payment"}] \in [Drafts -> SUBSET Folders]
    BY <2>2, PlaceTypes
  <2>4. place' \in [Drafts -> SUBSET Folders]
    BY <1>13, <2>3 DEF MoveToPayment, Types
  <2> QED
    BY <1>13, <2>1, <2>4 DEF MoveToPayment, Types
<1>14. ASSUME NEW d \in Drafts, MarkPreviewed(d) PROVE Types'
  <2>1. job' \in Job
    BY <1>14 DEF MarkPreviewed, Job, JobPCs
  <2> QED
    BY <1>14, <2>1 DEF MarkPreviewed, Types, store
<1>15. CASE StopJob
  <2>1. job' \in Job
    BY <1>15, JobTypes DEF StopJob, JobPCs
  <2> QED
    BY <1>15, <2>1, FaultTypes DEF StopJob, Types, store
<1> QED
  BY <1>1, <1>2, <1>3, <1>4, <1>5, <1>6, <1>7, <1>8, <1>9, <1>10, <1>11, <1>12, <1>13,
     <1>14, <1>15 DEF JobStep

LEMMA TypesNext ==
    ASSUME Types, [Next]_vars
    PROVE  Types'
<1> SUFFICES ASSUME UNCHANGED world PROVE Types'
  BY DEF Next, vars
<1>1. CASE DeliverByHand
  BY <1>1 DEF DeliverByHand, Dispatch, Targets, Types, store
<1>2. CASE StartFinal
  <2>1. Payable \ delivered \in SUBSET Drafts
    BY DEF Payable
  <2> QED
    BY <1>2, <2>1 DEF StartFinal, Types, store
<1>3. CASE Deliver
  <2>1. place' \in [Drafts -> SUBSET Folders]
    BY <1>3 DEF Deliver, Types, Folders
  <2>2. reels' \in [Drafts -> Nat] /\ faults' \in 0..world.faults
    BY <1>3, FaultTypes DEF Deliver, Types
  <2> QED
    BY <1>3, <2>1, <2>2 DEF Deliver, NoFinal, Types
<1>4. CASE FinalDies
  BY <1>4, FaultTypes DEF FinalDies, NoFinal, Types, store
<1>5. CASE UNCHANGED vars
  BY <1>5 DEF vars, store, Types
<1> QED
  BY <1>1, <1>2, <1>3, <1>4, <1>5, RequestTypes, JobStepTypes DEF Next

----------------------------------------------------------------------------
\* Rows of the reels table are only added.
LEMMA StaysPublished ==
    ASSUME Types, [Next]_vars, NEW d \in Drafts, Published(d)
    PROVE  Published(d)'
<1> USE DEF Published, store, Types
<1>1. ASSUME NEW e \in Drafts, Request(e) \/ ApproveInDrive(e) PROVE Published(d)'
  BY <1>1 DEF Request, ApproveMove, ApproveInsert, ApproveDispatch, ApproveEnd, ApproveInDrive
<1>2. ASSUME NEW e \in Drafts, Publish(e) PROVE Published(d)'
  BY <1>2 DEF Publish
<1>3. ASSUME NEW e \in Drafts,
             \/ NextDraft(e) \/ Prepare(e) \/ UploadPreview(e)
             \/ PassOver(e) \/ MoveToPayment(e) \/ MarkPreviewed(e)
      PROVE  Published(d)'
  BY <1>3 DEF NextDraft, Prepare, UploadPreview, PassOver, MoveToPayment, MarkPreviewed
<1>4. CASE StartJob \/ Scan \/ ScanFails \/ EndDrafts \/ Notify \/ Succeed \/ Fail
           \/ FinalizeRow \/ StopJob
  BY <1>4 DEF StartJob, Scan, ScanFails, EndDrafts, Notify, Succeed, Fail, FinalizeRow, StopJob
<1>5. CASE DeliverByHand \/ StartFinal \/ FinalDies \/ UNCHANGED vars
  BY <1>5 DEF DeliverByHand, StartFinal, FinalDies, vars
<1>6. CASE Deliver
  BY <1>6 DEF Deliver
<1> QED
  BY <1>1, <1>2, <1>3, <1>4, <1>5, <1>6 DEF Next, JobStep

LEMMA PublishedInTimeNext ==
    ASSUME Types, PublishedInTime, [Next]_vars
    PROVE  PublishedInTime'
<1> SUFFICES ASSUME UNCHANGED world PROVE PublishedInTime'
  BY DEF Next, vars
<1>0. /\ \A d \in Drafts : Published(d) => Published(d)'
      /\ job.doing \subseteq Drafts /\ previewed \subseteq Drafts
  BY StaysPublished DEF Types, Job
<1> USE <1>0 DEF PublishedInTime
<1>1. ASSUME NEW d \in Drafts, Request(d) \/ ApproveInDrive(d) PROVE PublishedInTime'
  <2>1. UNCHANGED <<job, previewed>>
    BY <1>1 DEF Request, ApproveMove, ApproveInsert, ApproveDispatch, ApproveEnd, ApproveInDrive
  <2>2. \A e \in Drafts : "payment" \in place'[e] => "payment" \in place[e]
    BY <1>1 DEF Request, ApproveMove, ApproveInsert, ApproveDispatch, ApproveEnd, ApproveInDrive,
                store, Types
  <2> QED
    BY <2>1, <2>2
<1>2. CASE StartJob
  BY <1>2 DEF StartJob, NoJob, store, Types
<1>3. CASE Scan \/ ScanFails \/ EndDrafts \/ Notify \/ Succeed \/ Fail \/ FinalizeRow \/ StopJob
  <2>1. UNCHANGED <<place, previewed>>
    BY <1>3 DEF Scan, ScanFails, EndDrafts, Notify, Succeed, Fail, FinalizeRow, StopJob, store
  <2>2. CASE Scan \/ ScanFails \/ EndDrafts \/ Notify
    BY <2>1, <2>2 DEF Scan, ScanFails, EndDrafts, Notify, Types, Job
  <2>3. CASE Succeed \/ Fail \/ FinalizeRow \/ StopJob
    BY <2>1, <2>3 DEF Succeed, Fail, FinalizeRow, StopJob, NoJob, Types, Job
  <2> QED
    BY <1>3, <2>2, <2>3
<1>4. ASSUME NEW d \in Drafts, NextDraft(d) \/ Prepare(d) \/ UploadPreview(d) PROVE PublishedInTime'
  BY <1>4 DEF NextDraft, Prepare, UploadPreview, GiveUp, Doing, store, Types, Job
<1>5. ASSUME NEW d \in Drafts, Publish(d) PROVE PublishedInTime'
  <2>1. job.doing = {d}
    BY <1>5 DEF Publish, Doing
  <2>2. job'.doing = {d} /\ job'.pc = "settle"
    BY <1>5, <2>1 DEF Publish, Types, Job
  <2>3. Published(d)' \/ world.name[d] \in job'.failures
    <3>1. reels' = [reels EXCEPT ![d] = @ + 1] => Published(d)'
      BY DEF Published, Types
    <3>2. job' = [job EXCEPT !.pc = "settle", !.failures = @ \cup {world.name[d]}]
            => world.name[d] \in job'.failures
      BY DEF Types, Job
    <3> QED
      BY <1>5, <3>1, <3>2 DEF Publish
  <2> QED
    BY <1>5, <2>2, <2>3 DEF Publish
<1>6. ASSUME NEW d \in Drafts, PassOver(d) \/ MarkPreviewed(d) PROVE PublishedInTime'
  BY <1>6 DEF PassOver, MarkPreviewed, Doing, store, Types, Job
<1>7. ASSUME NEW d \in Drafts, MoveToPayment(d) PROVE PublishedInTime'
  <2>1. job.doing = {d} /\ job'.doing = {d} /\ job'.pc \in {"mark", "fail"} /\ Published(d)
    BY <1>7 DEF MoveToPayment, Doing, Types, Job
  <2>2. \A e \in Drafts \ {d} : place'[e] = place[e]
    BY <1>7 DEF MoveToPayment, Types
  <2> QED
    BY <1>7, <2>1, <2>2 DEF MoveToPayment, Types
<1>8. CASE DeliverByHand \/ StartFinal \/ FinalDies \/ UNCHANGED vars
  <2>1. UNCHANGED <<place, job, previewed>>
    BY <1>8 DEF DeliverByHand, StartFinal, FinalDies, vars, store
  <2> QED
    BY <2>1
<1>9. CASE Deliver
  <2>1. \A e \in Drafts : "payment" \in place'[e] => "payment" \in place[e]
    BY <1>9 DEF Deliver, Types
  <2> QED
    BY <1>9, <2>1 DEF Deliver, Types, Job
<1> QED
  BY <1>1, <1>2, <1>3, <1>4, <1>5, <1>6, <1>7, <1>8, <1>9 DEF Next, JobStep

----------------------------------------------------------------------------
LEMMA AskedInTimeNext ==
    ASSUME DeliveryInv, world.backend = "r2", [Next]_vars
    PROVE  AskedInTime'
<1> SUFFICES ASSUME UNCHANGED world PROVE AskedInTime'
  BY DEF Next, vars
<1>0. /\ \A d \in Drafts : Published(d) => Published(d)'
      /\ Types /\ PublishedInTime /\ AskedInTime
      /\ job.target \in Drafts \cup {All} /\ All \notin Drafts
  BY StaysPublished, WorldFacts DEF DeliveryInv, Types, Job, Targets
<1> USE <1>0 DEF AskedInTime
<1>1. ASSUME NEW d \in Drafts, ApproveMove(d) PROVE AskedInTime'
  <2>1. UNCHANGED <<waiting, job, final>>
    BY <1>1 DEF ApproveMove
  <2>2. \A e \in Drafts : route[e] # "idle" => route'[e] # "idle"
    BY <1>1 DEF ApproveMove, RouteTo, Types
  <2>3. \A e \in Drafts : "approved" \in place[e] => "approved" \in place'[e]
    BY <1>1 DEF ApproveMove, Types
  <2>4. \A e \in Drafts : route'[e] # route[e] => "approved" \in place'[e]
    BY <1>1 DEF ApproveMove, RouteTo, Types
  <2> QED
    BY <2>1, <2>2, <2>3, <2>4
<1>2. ASSUME NEW d \in Drafts, ApproveInsert(d) \/ ApproveDispatch(d) \/ ApproveEnd(d)
      PROVE  AskedInTime'
  <2>1. UNCHANGED <<place, job, final>>
    BY <1>2 DEF ApproveInsert, ApproveDispatch, ApproveEnd, store
  <2>2. \A e \in Drafts : route'[e] # "idle" <=> route[e] # "idle"
    BY <1>2 DEF ApproveInsert, ApproveDispatch, ApproveEnd, RouteTo, Types
  <2>3. waiting' = waiting \/ (waiting' = {d} /\ route[d] # "idle")
    BY <1>2 DEF ApproveInsert, ApproveDispatch, ApproveEnd, Dispatch
  <2> QED
    BY <2>1, <2>2, <2>3
<1>3. CASE StartJob
  <2>1. UNCHANGED <<place, route, final>> /\ waiting' = {} /\ job'.target \in waiting
    BY <1>3 DEF StartJob, NoJob, store, Types
  <2>2. job'.target \in Drafts \cup {All}
    BY TypesNext, <1>3 DEF Types, Job, Targets
  <2> QED
    BY <2>1, <2>2
<1>4. ASSUME NEW d \in Drafts, MoveToPayment(d) PROVE AskedInTime'
  <2>1. Published(d) /\ job'.target = job.target /\ job.pc # "off"
    BY <1>4 DEF MoveToPayment, Doing, PublishedInTime, Types, Job
  <2>2. \A e \in Drafts \ {d} : place'[e] = place[e]
    BY <1>4 DEF MoveToPayment, Types
  <2> QED
    BY <1>4, <2>1, <2>2 DEF MoveToPayment
<1>5. CASE Scan \/ ScanFails \/ EndDrafts \/ Notify
  BY <1>5 DEF Scan, ScanFails, EndDrafts, Notify, store, Types, Job
<1>6. CASE Succeed \/ Fail \/ FinalizeRow \/ StopJob
  BY <1>6 DEF Succeed, Fail, FinalizeRow, StopJob, NoJob, store, Types, Job
<1>7. ASSUME NEW d \in Drafts,
             NextDraft(d) \/ Prepare(d) \/ UploadPreview(d) \/ PassOver(d) \/ MarkPreviewed(d)
      PROVE  AskedInTime'
  BY <1>7 DEF NextDraft, Prepare, UploadPreview, PassOver, MarkPreviewed, GiveUp, Doing, store,
              Types, Job
<1>8. ASSUME NEW d \in Drafts, Publish(d) PROVE AskedInTime'
  <2>1. job'.target = job.target /\ job.pc # "off"
    BY <1>8 DEF Publish, Doing, Types, Job
  <2> QED
    BY <1>8, <2>1 DEF Publish
<1>9. CASE DeliverByHand \/ FinalDies \/ UNCHANGED vars
  BY <1>9 DEF DeliverByHand, Dispatch, FinalDies, vars, store
<1> QED
  BY <1>1, <1>2, <1>3, <1>4, <1>5, <1>6, <1>7, <1>8, <1>9
     DEF Next, JobStep, Request, ApproveInDrive, StartFinal, Deliver

\* What the job's row says: only Succeed writes "succeeded".
LEMMA ReportSays ==
    ASSUME Types, NEW status \in Statuses, Report(status), NEW e \in Drafts, row'[e] = "succeeded"
    PROVE  row[e] = "succeeded" \/ (e = job.target /\ status = "succeeded")
<1>1. row' = row \/ row' = [row EXCEPT ![job.target] = status]
  BY DEF Report
<1>2. row \in [Drafts -> Statuses]
  BY DEF Types
<1> QED
  BY <1>1, <1>2

LEMMA WorkedInTimeNext ==
    ASSUME DeliveryInv, world.backend = "r2", [Next]_vars
    PROVE  WorkedInTime'
<1> SUFFICES ASSUME UNCHANGED world PROVE WorkedInTime'
  BY DEF Next, vars
<1>0. /\ \A d \in Drafts : Published(d) => Published(d)'
      /\ Types /\ PublishedInTime /\ AskedInTime /\ WorkedInTime
      /\ job.target \in Drafts \cup {All} /\ All \notin Drafts
  BY StaysPublished, WorldFacts DEF DeliveryInv, Types, Job, Targets
<1> USE <1>0 DEF WorkedInTime
<1>1. ASSUME NEW d \in Drafts, Request(d) PROVE WorkedInTime'
  <2>1. UNCHANGED job
    BY <1>1 DEF Request, ApproveMove, ApproveInsert, ApproveDispatch, ApproveEnd
  <2>2. \A e \in Drafts : row'[e] = "succeeded" => row[e] = "succeeded"
    BY <1>1 DEF Request, ApproveMove, ApproveInsert, ApproveDispatch, ApproveEnd, Types
  <2> QED
    BY <2>1, <2>2
<1>2. CASE StartJob
  BY <1>2 DEF StartJob, NoJob, Steps
<1>3. CASE Scan
  <2>1. \A e \in Drafts : row'[e] = "succeeded" => row[e] = "succeeded"
    BY <1>3, ReportSays DEF Scan, Statuses
  <2>2. job'.target = job.target
    BY <1>3 DEF Scan, Types, Job
  <2>3. ASSUME job.target # All
        PROVE  job.target \in Approved \/ Published(job.target)
    BY <1>3, <2>3 DEF Scan, AskedInTime, Approved
  <2>4. ASSUME job.target # All
        PROVE  /\ job'.pc = "draft" => Published(job.target) \/ job.target \in job'.todo
               /\ job'.pc = "succeed" => Published(job.target)
               /\ job'.pc \in {"draft", "succeed"}
    BY <1>3, <2>3, <2>4 DEF Scan, PublishedInTime, Types, Job
  <2> QED
    BY <2>1, <2>2, <2>4 DEF Steps
<1>4. CASE ScanFails
  BY <1>4 DEF ScanFails, store, Types, Job, Steps
<1>5. CASE EndDrafts
  <2>1. job'.pc = IF job.failures # {} THEN "fail"
                  ELSE IF job.results # {} THEN "notify" ELSE "succeed"
    BY <1>5 DEF EndDrafts, Types, Job
  <2>2. job'.target = job.target
    BY <1>5 DEF EndDrafts, Types, Job
  <2>3. job.target # All /\ job.failures = {} => Published(job.target)
    BY <1>5 DEF EndDrafts
  <2> QED
    BY <1>5, <2>1, <2>2, <2>3 DEF EndDrafts, Steps
<1>6. CASE Notify
  BY <1>6 DEF Notify, store, Types, Job, Steps
<1>7. CASE Succeed \/ Fail \/ FinalizeRow
  <2>1. \A e \in Drafts : row'[e] = "succeeded" => Published(e)
    <3>1. CASE Succeed
      BY <3>1, ReportSays DEF Succeed, Statuses, Terminal
    <3>2. CASE Fail \/ FinalizeRow
      BY <3>2, ReportSays DEF Fail, FinalizeRow, Statuses, Terminal
    <3> QED
      BY <1>7, <3>1, <3>2
  <2>2. job'.pc \in {"off", "finalize"}
    BY <1>7 DEF Succeed, Fail, FinalizeRow, NoJob, Types, Job
  <2> QED
    BY <2>1, <2>2 DEF Steps
<1>8. CASE StopJob
  BY <1>8 DEF StopJob, NoJob, store, Types, Job, Steps
<1>9. ASSUME NEW d \in Drafts, NextDraft(d) PROVE WorkedInTime'
  BY <1>9 DEF NextDraft, store, Types, Job, Steps
<1>10. ASSUME NEW d \in Drafts, Prepare(d) \/ UploadPreview(d) PROVE WorkedInTime'
  <2>1. d \in job.doing /\ job.pc \in Steps /\ job'.target = job.target
    BY <1>10 DEF Prepare, UploadPreview, GiveUp, Doing, Steps, Types, Job
  <2>2. \/ job'.pc \in {"upload", "publish"} /\ UNCHANGED <<job.todo, job.doing, job.failures>>
        \/ /\ job'.pc = "draft" /\ job'.todo = job.todo
           /\ job'.failures = job.failures \cup {world.name[d]}
    BY <1>10 DEF Prepare, UploadPreview, GiveUp, Doing, Types, Job
  <2>3. UNCHANGED row
    BY <1>10 DEF Prepare, UploadPreview
  <2> QED
    BY <2>1, <2>2, <2>3 DEF PublishedInTime, Steps
<1>11. ASSUME NEW d \in Drafts, Publish(d) PROVE WorkedInTime'
  <2>1. job.pc = "publish" /\ job'.target = job.target /\ job'.todo = job.todo
        /\ job'.doing = job.doing /\ job.failures \subseteq job'.failures /\ job'.pc = "settle"
    <3>1. job' \in {[job EXCEPT !.pc = "settle"],
                     [job EXCEPT !.pc = "settle", !.failures = @ \cup {world.name[d]}]}
      BY <1>11 DEF Publish
    <3>2. job \in Job /\ job.pc = "publish"
      BY <1>11 DEF Publish, Doing, Types
    <3>3. CASE job' = [job EXCEPT !.pc = "settle"]
      BY <3>2, <3>3 DEF Job
    <3>4. CASE job' = [job EXCEPT !.pc = "settle", !.failures = @ \cup {world.name[d]}]
      BY <3>2, <3>4 DEF Job
    <3> QED
      BY <3>1, <3>3, <3>4
  <2>2. \A e \in Drafts : row'[e] = "succeeded" => row[e] = "succeeded"
    BY <1>11, ReportSays DEF Publish, Statuses
  <2> QED
    BY <2>1, <2>2 DEF Steps
<1>12. ASSUME NEW d \in Drafts, PassOver(d) \/ MarkPreviewed(d) PROVE WorkedInTime'
  <2>1. /\ d \in job.doing /\ job.pc \in Steps
        /\ job'.target = job.target /\ job'.todo = job.todo /\ job'.failures = job.failures
        /\ job'.pc = "draft" /\ UNCHANGED row
    BY <1>12 DEF PassOver, MarkPreviewed, Doing, Steps, Types, Job
  <2>2. Published(d) \/ world.name[d] \in job.failures
    BY <1>12 DEF PassOver, MarkPreviewed, Doing, PublishedInTime
  <2> QED
    BY <2>1, <2>2 DEF PublishedInTime, Steps
<1>13. ASSUME NEW d \in Drafts, MoveToPayment(d) PROVE WorkedInTime'
  <2>1. /\ job.pc = "settle" /\ UNCHANGED row
        /\ job'.target = job.target /\ job'.todo = job.todo /\ job'.failures = job.failures
        /\ job'.doing = job.doing /\ job'.pc \in {"mark", "fail"}
    BY <1>13 DEF MoveToPayment, Doing, Types, Job
  <2> QED
    BY <2>1 DEF Steps
<1>14. CASE DeliverByHand \/ FinalDies \/ UNCHANGED vars
  BY <1>14 DEF DeliverByHand, FinalDies, vars, store
<1> QED
  BY <1>1, <1>2, <1>3, <1>4, <1>5, <1>6, <1>7, <1>8, <1>9, <1>10, <1>11, <1>12, <1>13, <1>14
     DEF Next, JobStep, ApproveInDrive, StartFinal, Deliver, AskedInTime

----------------------------------------------------------------------------
LEMMA DeliveryInvInit == Init => DeliveryInv
<1> SUFFICES ASSUME Init PROVE DeliveryInv
  OBVIOUS
<1>1. Types
  BY WorldFacts DEF Init, Types, Folders, Statuses, Routes, Job, JobPCs, Targets, NoJob, NoFinal
<1>2. PublishedInTime /\ AskedInTime /\ WorkedInTime
  BY WorldFacts DEF Init, PublishedInTime, AskedInTime, WorkedInTime, NoJob, NoFinal, Steps
<1> QED
  BY <1>1, <1>2 DEF DeliveryInv

LEMMA DeliveryInvNext == DeliveryInv /\ [Next]_vars => DeliveryInv'
<1> SUFFICES ASSUME DeliveryInv, [Next]_vars PROVE DeliveryInv'
  OBVIOUS
<1>1. UNCHANGED world
  BY DEF Next, vars
<1> QED
  BY <1>1, TypesNext, PublishedInTimeNext, AskedInTimeNext, WorkedInTimeNext DEF DeliveryInv

\* The inductive invariant of the delivery.
THEOREM DeliveryInvariant == Spec => []DeliveryInv
  BY DeliveryInvInit, DeliveryInvNext, PTL DEF Spec

\* The state keeps its types, and at most one delivery waits.
THEOREM TypeCorrect == Spec => []TypeOK
<1>1. DeliveryInv => TypeOK
  <2> SUFFICES ASSUME Types PROVE TypeOK
    BY DEF DeliveryInv
  <2>1. Cardinality(waiting) <= 1
    <3>1. CASE waiting = {}
      BY <3>1, FS_EmptySet
    <3>2. ASSUME NEW t \in Targets, waiting = {t} PROVE Cardinality(waiting) <= 1
      BY <3>2, FS_Singleton
    <3> QED
      BY <3>1, <3>2 DEF Types
  <2> QED
    BY <2>1 DEF Types, TypeOK
<1> QED
  BY <1>1, DeliveryInvariant, PTL

\* Nothing waits for payment that is not in Discover, over Drive and over R2,
\* with the backlog of a workstation and with drafts that share a name.
THEOREM PayablePublished == Spec => []PayableIsPublished
<1>1. DeliveryInv => PayableIsPublished
  BY DEF DeliveryInv, PublishedInTime, PayableIsPublished, Payable, Published
<1> QED
  BY <1>1, DeliveryInvariant, PTL

\* Over R2 a run that reports success has published its draft.
THEOREM SucceededPublished == Spec => []SucceededIsPublished
<1>1. DeliveryInv => SucceededIsPublished
  BY DEF DeliveryInv, WorkedInTime, SucceededIsPublished, Published
<1> QED
  BY <1>1, DeliveryInvariant, PTL

\* Payment is asked for and success is shown only of what Discover has.
THEOREM PublishedComesFirst == Spec => []PublishedFirst
  BY PayablePublished, SucceededPublished, PTL DEF PublishedFirst
=============================================================================
