----------------------- MODULE MultipartUploadProofs -----------------------
(***************************************************************************)
(* Proofs about MultipartUpload, for any number of parts, sessions, handlers *)
(* and engines at the same time, every fault and any number of them.        *)
(*                                                                         *)
(* The row is the anchor: it is inserted once and keeps its session          *)
(* (RowStays), a handler that has read the row works on that session         *)
(* (HandlersKnow), and an engine is past its start only when there is a row  *)
(* (EnginesKnow).                                                          *)
(***************************************************************************)
EXTENDS MultipartUpload, FiniteSetTheorems, TLAPS

HasRow == row # NoRow

StartPCs == {"start_find", "start_create", "start_insert", "start_discard", "start_undo"}
\* The handlers of complete that work on a session.
OnSession == {"complete_head", "complete_r2", "complete_rehead", "complete_verify"}
CompletePCs == OnSession \cup {"complete_begin", "complete_error"}
AbortPCs == {"abort_read", "abort_r2", "abort_mark"}

\* The handlers an engine may wait for at a step.
AnswersTo(pc) ==
    CASE pc = "start" -> StartPCs
      [] pc = "record" -> {"record"}
      [] pc = "complete" -> CompletePCs
      [] pc = "cleanup" -> {"cleanup"}
      [] OTHER -> {}

\* The row's session has part p, or it is gone with every part it had.
Stored(p) == SessionGone \/ p \in r2[row.session].parts

RowOK ==
    /\ row.st = "none" => ~HasRow
    /\ HasRow => row.session \in Sessions /\ \A p \in row.parts : Stored(p)
    /\ row.st = "verified" => r2[row.session].st = "object"
    /\ \A s \in Sessions : r2[s].st = "object" => s = row.session

HandlerOK(c) ==
    LET h == call[c]
    IN  /\ h.pc \in OnSession => HasRow /\ h.session = row.session
        /\ h.pc = "complete_verify" => r2[h.session].st = "object"
        /\ h.pc = "complete_error" => h.answer # "ok"
        /\ h.pc \in AbortPCs \cup {"start_discard"} => HasRow
        /\ h.pc \in {"start_find", "start_create"} => h.session = NoSession
        /\ h.pc \in {"start_insert", "start_discard"} => h.session \in Sessions
        /\ h.pc = "abort_r2" => h.session = row.session
        /\ h.pc = "record" => HasRow /\ h.part \in Parts /\ Stored(h.part)

EngineOK(w) ==
    LET e == worker[w]
    IN  /\ e.call # NoCall => call[e.call].pc \in AnswersTo(e.pc)
        /\ e.pc \notin {"off", "open", "start"} => HasRow
        /\ e.pc \in {"put", "record"} => e.part \in Parts
        /\ e.pc = "record" => Stored(e.part)
        /\ e.pc = "cleanup" => row.st = "verified"

\* No two engines wait for the same handler.
WaitApart ==
    \A v, w \in Workers : v # w /\ worker[v].call = worker[w].call => worker[v].call = NoCall

JobOK ==
    /\ job.known => HasRow
    /\ job.st = "verified" => row.st = "verified" /\ row.cleaned

MultipartInv ==
    /\ TypeOK
    /\ faults.server <= faults.all
    /\ RowOK
    /\ \A c \in Calls : HandlerOK(c)
    /\ \A w \in Workers : EngineOK(w)
    /\ WaitApart
    /\ JobOK

\* R2 keeps the parts of a session until it is aborted, and what it has assembled.
Keeps(s) ==
    /\ r2[s].st \in {"object", "gone"} => r2'[s].st = r2[s].st
    /\ r2'[s].st = "gone" \/ r2[s].parts \subseteq r2'[s].parts

\* What no step takes back.
Grown ==
    /\ HasRow => HasRow' /\ row'.session = row.session
    /\ row.st = "verified" => row'.st = "verified"
    /\ row.cleaned => row'.cleaned
    /\ \A s \in Sessions : Keeps(s)

ServerTypes == row \in Row /\ r2 \in [Sessions -> R2Session]

ServerStep == ServerTypes' /\ Grown /\ RowOK'

----------------------------------------------------------------------------
(* The server: writes to the row and to R2.                                  *)

\* A write to a row that is there keeps its session.
LEMMA RowWrite ==
    ASSUME TypeOK, RowOK, UNCHANGED r2, HasRow, row' \in Row,
           row'.st # "none", row'.session = row.session,
           \A p \in row'.parts : Stored(p),
           row'.st = "verified" => r2[row.session].st = "object",
           row.st = "verified" => row'.st = "verified",
           row.cleaned => row'.cleaned
    PROVE  ServerStep
<1>1. HasRow'
  BY DEF HasRow, NoRow
<1>2. Grown
  BY <1>1 DEF Grown, Keeps
<1>3. RowOK'
  BY <1>1 DEF RowOK, HasRow, Stored, SessionGone
<1> QED
  BY <1>2, <1>3 DEF ServerStep, ServerTypes, TypeOK

\* R2 keeps what it has stored and what it has assembled.
LEMMA R2Write ==
    ASSUME TypeOK, RowOK, UNCHANGED row, r2' \in [Sessions -> R2Session],
           \A s \in Sessions : /\ Keeps(s)
                               /\ r2'[s].st = "object" => r2[s].st = "object" \/ s = row.session
    PROVE  ServerStep
<1>1. Grown
  BY DEF Grown, HasRow
<1>2. RowOK'
  <2>1. HasRow' <=> HasRow
    BY DEF HasRow
  <2>2. row.st = "verified" => HasRow
    BY DEF HasRow, NoRow
  <2>3. HasRow => row.session \in Sessions /\ Keeps(row.session)
    BY DEF RowOK
  <2>4. HasRow => \A p \in row.parts : Stored(p)'
    BY <2>3 DEF RowOK, Stored, SessionGone, Keeps
  <2> QED
    BY <2>1, <2>2, <2>3, <2>4 DEF RowOK, Keeps
<1> QED
  BY <1>1, <1>2 DEF ServerStep, ServerTypes, TypeOK

LEMMA ServerStays ==
    ASSUME TypeOK, RowOK, UNCHANGED server
    PROVE  ServerStep
  BY DEF ServerStep, ServerTypes, Grown, Keeps, server, TypeOK, RowOK, HasRow, Stored, SessionGone

LEMMA DiscardedWrite ==
    ASSUME TypeOK, RowOK, UNCHANGED row, NEW s \in Sessions, r2' = Discarded(s) \/ UNCHANGED r2
    PROVE  ServerStep
<1>1. r2 \in [Sessions -> R2Session]
  BY DEF TypeOK
<1>2. CASE r2' = Discarded(s)
  <2>1. r2' \in [Sessions -> R2Session]
    BY <1>1, <1>2 DEF Discarded, R2Session
  <2>2. \A t \in Sessions : Keeps(t) /\ (r2[t].st = "object" <=> r2'[t].st = "object")
    BY <1>1, <1>2 DEF Discarded, R2Session, Keeps
  <2> QED
    BY <2>1, <2>2, R2Write
<1>3. CASE UNCHANGED r2
  BY <1>3, ServerStays DEF server
<1> QED
  BY <1>2, <1>3

LEMMA PartStoredWrite ==
    ASSUME TypeOK, RowOK, UNCHANGED row, HasRow, NEW p \in Parts, r2' = PartStored(p)
    PROVE  ServerStep /\ Stored(p)'
<1>1. r2 \in [Sessions -> R2Session] /\ row.session \in Sessions
  BY DEF TypeOK, RowOK
<1>2. r2' \in [Sessions -> R2Session]
  BY <1>1 DEF PartStored, R2Session
<1>3. \A t \in Sessions : Keeps(t) /\ r2[t].st = r2'[t].st
  BY <1>1 DEF PartStored, R2Session, Keeps
<1>4. Stored(p)'
  BY <1>1 DEF PartStored, R2Session, Stored
<1> QED
  BY <1>2, <1>3, <1>4, R2Write

\* The handlers, one by one.
LEMMA HandlerServer ==
    ASSUME MultipartInv, NEW c \in Calls, Handler(c)
    PROVE  ServerStep
<1> USE DEF At
<1>0. /\ TypeOK /\ RowOK /\ HandlerOK(c)
      /\ row \in Row /\ r2 \in [Sessions -> R2Session]
      /\ call[c].session \in Sessions \cup {NoSession}
      /\ call[c].part \in Parts \cup {0}
  BY DEF MultipartInv, TypeOK, Call
<1> USE <1>0
<1>1. CASE \/ StartFind(c) \/ CompleteHead(c) \/ CompleteRehead(c) \/ AbortRead(c)
  BY <1>1, ServerStays DEF StartFind, CompleteHead, CompleteRehead, AbortRead
<1>2. CASE StartCreate(c)
  <2>1. PICK s \in Sessions : r2[s].st = "none" /\ r2' \in {r2, Opened(s)} /\ UNCHANGED row
    BY <1>2 DEF StartCreate
  <2>2. CASE r2' = Opened(s)
    <3>1. r2' \in [Sessions -> R2Session]
      BY <2>2 DEF Opened, R2Session
    <3>2. \A t \in Sessions : Keeps(t) /\ (r2[t].st = "object" <=> r2'[t].st = "object")
      BY <2>1, <2>2 DEF Opened, R2Session, Keeps
    <3> QED
      BY <2>1, <3>1, <3>2, R2Write
  <2> QED
    BY <2>1, <2>2, ServerStays DEF server
<1>3. CASE StartInsert(c)
  <2>1. CASE row' = row
    BY <1>3, <2>1, ServerStays DEF StartInsert, server
  <2>2. CASE row = NoRow /\ row' = NewRow(call[c].session)
    <3>1. call[c].session \in Sessions
      BY <1>3 DEF StartInsert, HandlerOK
    <3>2. row' \in Row /\ row' # NoRow /\ UNCHANGED r2
      BY <1>3, <2>2, <3>1 DEF StartInsert, NewRow, Row, NoRow
    <3>3. Grown
      BY <2>2, <3>2 DEF Grown, Keeps, HasRow, NoRow
    <3>4. NoSession \notin Sessions
      BY MultipartAssumption
    <3>5. \A s \in Sessions : r2[s].st # "object"
      BY <2>2, <3>4 DEF RowOK, NoRow
    <3>6. RowOK'
      BY <2>2, <3>1, <3>2, <3>5 DEF RowOK, HasRow, NewRow
    <3> QED
      BY <3>2, <3>3, <3>6 DEF ServerStep, ServerTypes
  <2> QED
    BY <1>3, <2>1, <2>2 DEF StartInsert
<1>4. CASE StartDiscard(c)
  BY <1>4, DiscardedWrite DEF StartDiscard, HandlerOK
<1>5. CASE StartUndo(c)
  BY <1>5, DiscardedWrite, ServerStays DEF StartUndo, server
<1>6. CASE RecordPart(c)
  <2>1. CASE UNCHANGED row
    BY <1>6, <2>1, ServerStays DEF RecordPart, server
  <2>2. CASE row.st = "uploading" /\ row' = [row EXCEPT !.parts = @ \cup {call[c].part}]
    <3>1. HasRow /\ call[c].part \in Parts /\ Stored(call[c].part) /\ UNCHANGED r2
      BY <1>6 DEF RecordPart, HandlerOK
    <3>2. row.session \in Sessions /\ \A p \in row.parts : Stored(p)
      BY <3>1 DEF RowOK
    <3>3. /\ row' \in Row /\ row'.st = row.st /\ row'.session = row.session
          /\ row'.cleaned = row.cleaned /\ row'.parts = row.parts \cup {call[c].part}
      BY <2>2, <3>1, <3>2 DEF Row, R2Session
    <3> QED
      BY <2>2, <3>1, <3>2, <3>3, RowWrite
  <2> QED
    BY <1>6, <2>1, <2>2 DEF RecordPart
<1>7. ASSUME NEW st \in {"uploading", "completing", "verified", "aborted"}, HasRow,
             row' = [row EXCEPT !.st = st], UNCHANGED r2,
             st = "verified" => r2[row.session].st = "object",
             row.st = "verified" => st = "verified"
      PROVE  ServerStep
  <2>1. /\ row' \in Row /\ row'.st = st /\ row'.session = row.session
        /\ row'.cleaned = row.cleaned /\ row'.parts = row.parts
    BY <1>7 DEF Row
  <2>2. \A p \in row.parts : Stored(p)
    BY <1>7 DEF RowOK
  <2> QED
    BY <1>7, <2>1, <2>2, RowWrite
<1>8. CASE CompleteBegin(c)
  <2>1. CASE UNCHANGED row
    BY <1>8, <2>1, ServerStays DEF CompleteBegin, server
  <2>2. CASE Completable /\ row' = [row EXCEPT !.st = "completing"]
    BY <1>7, <1>8, <2>2 DEF CompleteBegin, Completable, HasRow, NoRow
  <2> QED
    BY <1>8, <2>1, <2>2 DEF CompleteBegin
<1>9. CASE CompleteR2(c)
  <2>1. UNCHANGED row /\ HasRow /\ call[c].session = row.session /\ row.session \in Sessions
    BY <1>9 DEF CompleteR2, HandlerOK, OnSession, RowOK
  <2>2. CASE UNCHANGED r2
    BY <2>1, <2>2, ServerStays DEF server
  <2>3. CASE r2[row.session].st = "open" /\ r2' = [r2 EXCEPT ![row.session].st = "object"]
    <3>1. r2' \in [Sessions -> R2Session]
      BY <2>1, <2>3 DEF R2Session
    <3>2. \A t \in Sessions : /\ Keeps(t)
                              /\ r2'[t].st = "object" => r2[t].st = "object" \/ t = row.session
      BY <1>9, <2>1, <2>3 DEF CompleteR2, R2Session, Keeps
    <3> QED
      BY <2>1, <3>1, <3>2, R2Write
  <2> QED
    BY <1>9, <2>1, <2>2, <2>3 DEF CompleteR2
<1>10. CASE CompleteVerify(c)
  <2>1. HasRow /\ r2[row.session].st = "object" /\ UNCHANGED r2
    BY <1>10 DEF CompleteVerify, HandlerOK, OnSession
  <2>2. row' \in {row, [row EXCEPT !.st = "verified"]}
    BY <1>10 DEF CompleteVerify
  <2> QED
    BY <1>7, <2>1, <2>2, ServerStays DEF server
<1>11. CASE CompleteError(c)
  <2>1. UNCHANGED r2 /\ (row' = row \/ (row.st = "completing" /\ row' = [row EXCEPT !.st = "uploading"]))
    BY <1>11 DEF CompleteError, Row
  <2> QED
    BY <1>7, <2>1, ServerStays DEF server, HasRow, NoRow
<1>12. CASE ReportCleanup(c)
  <2>1. CASE row.st \in {"verified", "aborted"}
    <3>1. /\ row' \in Row /\ row'.st = row.st /\ row'.session = row.session
          /\ row'.cleaned /\ row'.parts = row.parts /\ UNCHANGED r2
      BY <1>12, <2>1 DEF ReportCleanup, Row
    <3>2. HasRow
      BY <2>1 DEF HasRow, NoRow
    <3> QED
      BY <2>1, <3>1, <3>2, RowWrite DEF RowOK
  <2>2. CASE row.st \notin {"verified", "aborted"}
    <3>1. row' = row
      BY <1>12, <2>2 DEF ReportCleanup, Row
    <3> QED
      BY <1>12, <3>1, ServerStays DEF ReportCleanup, server
  <2> QED
    BY <2>1, <2>2
<1>13. CASE AbortR2(c)
  <2>1. UNCHANGED row /\ call[c].session \in Sessions
    BY <1>13 DEF AbortR2, HandlerOK, AbortPCs, RowOK
  <2> QED
    BY <1>13, <2>1, DiscardedWrite DEF AbortR2
<1>14. CASE AbortMark(c)
  <2>1. HasRow /\ UNCHANGED r2
    BY <1>14 DEF AbortMark, HandlerOK, AbortPCs
  <2>2. row' = [row EXCEPT !.st = IF @ = "verified" THEN @ ELSE "aborted"]
    BY <1>14 DEF AbortMark
  <2>3. CASE row.st = "verified"
    <3>1. row' = row
      BY <2>2, <2>3 DEF Row
    <3> QED
      BY <2>1, <3>1, ServerStays DEF server
  <2>4. CASE row.st # "verified"
    BY <1>7, <2>1, <2>2, <2>4
  <2> QED
    BY <2>3, <2>4
<1> QED
  BY <1>1, <1>2, <1>3, <1>4, <1>5, <1>6, <1>8, <1>9, <1>10, <1>11, <1>12, <1>13, <1>14 DEF Handler

\* Of the phone's steps only the PUT of a part reaches R2.
LEMMA ServerNext ==
    ASSUME MultipartInv, [Next]_vars
    PROVE  ServerStep
<1>0. TypeOK /\ RowOK
  BY DEF MultipartInv
<1>1. ASSUME NEW c \in Calls, Handler(c) PROVE ServerStep
  BY <1>1, HandlerServer
<1>2. ASSUME NEW c \in Calls, Kill(c) \/ CallFails(c) \/ CallAbort(c) PROVE ServerStep
  BY <1>0, <1>2, ServerStays DEF Kill, CallFails, CallAbort
<1>3. ASSUME NEW w \in Workers, PutPart(w) \/ NetworkFails(w) PROVE ServerStep
  <2>1. UNCHANGED row
    BY <1>3 DEF PutPart, NetworkFails
  <2>2. CASE UNCHANGED r2
    BY <1>0, <2>1, <2>2, ServerStays DEF server
  <2>3. CASE worker[w].pc = "put" /\ r2' = PartStored(worker[w].part)
    <3>1. HasRow /\ worker[w].part \in Parts
      BY <2>3 DEF MultipartInv, EngineOK
    <3> QED
      BY <1>0, <2>1, <2>3, <3>1, PartStoredWrite
  <2> QED
    BY <1>3, <2>2, <2>3 DEF PutPart, NetworkFails, Ready
<1>4. ASSUME NEW w \in Workers,
             \/ BeginRun(w) \/ StopRequested(w) \/ OpenSource(w) \/ Start(w) \/ Status(w)
             \/ PartUrl(w) \/ Record(w) \/ Complete(w) \/ ConfirmCleanup(w)
             \/ SourceUnreadable(w) \/ Stop(w)
      PROVE  ServerStep
  BY <1>0, <1>4, ServerStays
     DEF BeginRun, StopRequested, OpenSource, Start, Status, PartUrl, Record, Complete,
         ConfirmCleanup, SourceUnreadable, Stop
<1>5. CASE Death \/ Reopen \/ Retry \/ UNCHANGED vars
  BY <1>0, <1>5, ServerStays DEF Death, Reopen, Retry, vars, server
<1> QED
  BY <1>1, <1>2, <1>3, <1>4, <1>5 DEF Next, EngineStep

----------------------------------------------------------------------------
(* The handlers that run.                                                    *)

\* What was stored stays so.
LEMMA StoredStays ==
    ASSUME RowOK, ServerStep, HasRow, NEW p, Stored(p)
    PROVE  Stored(p)'
<1>1. row.session \in Sessions /\ row'.session = row.session /\ Keeps(row.session)
  BY DEF RowOK, ServerStep, Grown
<1> QED
  BY <1>1 DEF Stored, SessionGone, Keeps

\* A handler that does not move knows what it knew.
LEMMA HandlerKnows ==
    ASSUME MultipartInv, ServerStep, NEW d \in Calls, call'[d] = call[d]
    PROVE  HandlerOK(d)'
<1>1. /\ HandlerOK(d) /\ call[d] \in Call /\ RowOK
      /\ HasRow => row.session \in Sessions /\ HasRow' /\ row'.session = row.session
      /\ \A s \in Sessions : r2[s].st = "object" => r2'[s].st = "object"
  BY DEF MultipartInv, TypeOK, RowOK, ServerStep, Grown, Keeps
<1>2. call[d].pc = "record" => Stored(call[d].part)'
  BY <1>1, StoredStays DEF HandlerOK
<1> QED
  BY <1>1, <1>2 DEF HandlerOK, OnSession, AbortPCs

\* The handler in c goes on, or another takes its place; what the others know
\* stays so.
LEMMA OneHandler ==
    ASSUME MultipartInv, ServerStep, NEW c \in Calls, NEW h \in Call,
           call' = [call EXCEPT ![c] = h], HandlerOK(c)'
    PROVE  call' \in [Calls -> Call] /\ \A d \in Calls : HandlerOK(d)'
<1>1. call \in [Calls -> Call]
  BY DEF MultipartInv, TypeOK
<1>2. ASSUME NEW d \in Calls, d # c PROVE HandlerOK(d)'
  <2>1. call'[d] = call[d] /\ HandlerOK(d) /\ call[d] \in Call
    BY <1>1, <1>2 DEF MultipartInv
  <2> QED
    BY <2>1, HandlerKnows
<1> QED
  BY <1>1, <1>2

LEMMA FreeHandler ==
    ASSUME NEW c \in Calls, call'[c] = Free
    PROVE  HandlerOK(c)'
  BY DEF HandlerOK, Free, OnSession, AbortPCs

\* A handler goes on without an answer, still one its engine may wait for.
Silent(c) ==
    /\ UNCHANGED phone
    /\ \E h \in Call :
          /\ call' = [call EXCEPT ![c] = h]
          /\ \A pcs \in {StartPCs, CompletePCs, {"record"}, {"cleanup"}} :
                call[c].pc \in pcs => h.pc \in pcs
    /\ HandlerOK(c)'

\* What an engine may believe when it is told "ok".
Promise(c, answer) ==
    answer = "ok" =>
       /\ call[c].pc \in StartPCs => HasRow'
       /\ call[c].pc \in CompletePCs => row'.st = "verified"
       /\ call[c].pc = "cleanup" => row'.st \in {"verified", "aborted"} /\ row'.cleaned

Answered(c) == \E answer \in Answers : Delivers(c, answer) /\ Promise(c, answer)

LEMMA AnswerDelivers ==
    ASSUME NEW c \in Calls, NEW answer \in Answers, Answer(c, answer), Promise(c, answer)
    PROVE  Answered(c)
  BY DEF Answer, Answered, Promise, Answers

LEMMA HandlerGoesOn ==
    ASSUME MultipartInv, ServerStep, NEW c \in Calls, Handler(c) \/ Kill(c) \/ CallFails(c)
    PROVE  Silent(c) \/ Answered(c)
<1> USE DEF At
<1>0. /\ call[c] \in Call /\ call \in [Calls -> Call] /\ row \in Row
      /\ HandlerOK(c) /\ RowOK
  BY DEF MultipartInv, TypeOK
<1> USE <1>0
<1>1. CASE Kill(c) \/ CallFails(c)
  BY <1>1 DEF Kill, CallFails, Answered, Promise, Answers
<1>2. ASSUME NEW pc \in CallPCs, CallTo(c, pc),
             \A pcs \in {StartPCs, CompletePCs, {"record"}, {"cleanup"}} :
                call[c].pc \in pcs => pc \in pcs,
             [call[c] EXCEPT !.pc = pc] = call'[c] => HandlerOK(c)'
      PROVE  Silent(c)
  <2>1. [call[c] EXCEPT !.pc = pc] \in Call /\ [call[c] EXCEPT !.pc = pc].pc = pc
    BY DEF Call
  <2>2. call' = [call EXCEPT ![c] = [call[c] EXCEPT !.pc = pc]] /\ UNCHANGED phone
    BY <1>2 DEF CallTo
  <2> QED
    BY <1>2, <2>1, <2>2 DEF Silent
<1>18. ASSUME NEW pc \in StartPCs \ {"start_insert"}, CallTo(c, pc), call[c].pc \in StartPCs,
              pc = "start_discard" => HasRow' /\ call[c].session \in Sessions,
              pc \in {"start_find", "start_create"} => call[c].session = NoSession
       PROVE  Silent(c)
  <2>1. [call[c] EXCEPT !.pc = pc] = call'[c] => HandlerOK(c)'
    BY <1>18 DEF HandlerOK, OnSession, AbortPCs, StartPCs, Call
  <2>2. \A pcs \in {StartPCs, CompletePCs, {"record"}, {"cleanup"}} :
           call[c].pc \in pcs => pc \in pcs
    BY <1>18 DEF OnSession, StartPCs, CompletePCs
  <2> QED
    BY <1>2, <1>18, <2>1, <2>2 DEF StartPCs, CallPCs
<1>3. ASSUME NEW answer \in Answers, answer # "ok", Fails(c, answer), call[c].pc \in CompletePCs
      PROVE  Silent(c)
  <2> DEFINE h == [call[c] EXCEPT !.pc = "complete_error", !.answer = answer]
  <2>1. h \in Call /\ h.pc = "complete_error" /\ h.answer = answer
    BY DEF Call, CallPCs
  <2>2. call' = [call EXCEPT ![c] = h] /\ UNCHANGED phone
    BY <1>3 DEF Fails
  <2>3. HandlerOK(c)'
    BY <1>3, <2>1, <2>2 DEF HandlerOK, OnSession, AbortPCs
  <2>4. call[c].pc \notin StartPCs \cup {"record", "cleanup"} /\ h.pc \in CompletePCs
    BY <1>3, <2>1 DEF CompletePCs, OnSession, StartPCs
  <2> HIDE DEF h
  <2> QED
    BY <2>1, <2>2, <2>3, <2>4 DEF Silent
<1>4. CASE StartFind(c)
  <2>1. CASE HasRow /\ Answer(c, "ok")
    <3>1. Promise(c, "ok")
      BY <1>4, <2>1 DEF StartFind, Promise, ServerStep, Grown, CompletePCs, OnSession
    <3> QED
      BY <2>1, <3>1, AnswerDelivers DEF Answers
  <2>2. CASE CallTo(c, "start_create")
    BY <1>4, <1>18, <2>2 DEF StartFind, HandlerOK, ServerStep, Grown, StartPCs
  <2> QED
    BY <1>4, <2>1, <2>2 DEF StartFind, HasRow
<1>5. CASE StartCreate(c)
  <2>1. CASE CallTo(c, "start_undo")
    BY <1>5, <1>18, <2>1 DEF StartCreate, HandlerOK, ServerStep, Grown, StartPCs
  <2>2. ASSUME NEW s \in Sessions, UNCHANGED phone,
               call' = [call EXCEPT ![c].pc = "start_insert", ![c].session = s]
        PROVE  Silent(c)
    <3> DEFINE h == [call[c] EXCEPT !.pc = "start_insert", !.session = s]
    <3>1. h \in Call /\ h.pc = "start_insert" /\ h.session = s
      BY DEF Call, CallPCs
    <3>2. call' = [call EXCEPT ![c] = h] /\ UNCHANGED phone
      BY <2>2
    <3>3. HandlerOK(c)'
      BY <3>1, <3>2 DEF HandlerOK, OnSession, AbortPCs
    <3>4. call[c].pc \notin CompletePCs \cup {"record", "cleanup"} /\ h.pc \in StartPCs
      BY <1>5, <3>1 DEF StartCreate, CompletePCs, OnSession, StartPCs
    <3> HIDE DEF h
    <3> QED
      BY <3>1, <3>2, <3>3, <3>4 DEF Silent
  <2> QED
    BY <1>5, <2>1, <2>2 DEF StartCreate
<1>6. CASE StartInsert(c)
  <2>1. CASE HasRow' /\ Answer(c, "ok")
    <3>1. Promise(c, "ok")
      BY <1>6, <2>1 DEF StartInsert, Promise, CompletePCs, OnSession
    <3> QED
      BY <2>1, <3>1, AnswerDelivers DEF Answers
  <2>2. CASE HasRow /\ CallTo(c, "start_discard")
    BY <1>6, <1>18, <2>2 DEF StartInsert, HandlerOK, ServerStep, Grown, StartPCs
  <2>3. CASE CallTo(c, "start_undo")
    BY <1>6, <1>18, <2>3 DEF StartInsert, HandlerOK, ServerStep, Grown, StartPCs
  <2> QED
    BY <1>6, <2>1, <2>2, <2>3 DEF StartInsert, HasRow, NewRow, NoRow
<1>7. CASE StartDiscard(c)
  <2>1. CASE Answer(c, "ok")
    <3>1. Promise(c, "ok")
      BY <1>7, <2>1 DEF StartDiscard, HandlerOK, Promise, ServerStep, Grown, CompletePCs, OnSession
    <3> QED
      BY <2>1, <3>1, AnswerDelivers DEF Answers
  <2>2. CASE CallTo(c, "start_undo")
    BY <1>7, <1>18, <2>2 DEF StartDiscard, HandlerOK, ServerStep, Grown, StartPCs
  <2> QED
    BY <1>7, <2>1, <2>2 DEF StartDiscard
<1>8. CASE StartUndo(c)
  <2>1. CASE Answer(c, "error")
    BY <2>1, AnswerDelivers DEF Answers, Promise
  <2>2. CASE call' = [call EXCEPT ![c].session = NoSession] /\ UNCHANGED phone
    <3> DEFINE h == [call[c] EXCEPT !.session = NoSession]
    <3>1. h \in Call /\ h.pc = "start_undo"
      BY <1>8 DEF StartUndo, Call
    <3>2. call' = [call EXCEPT ![c] = h] /\ UNCHANGED phone
      BY <2>2
    <3>3. HandlerOK(c)'
      BY <3>1, <3>2 DEF HandlerOK, OnSession, AbortPCs
    <3>4. call[c].pc \notin CompletePCs \cup {"record", "cleanup"} /\ h.pc \in StartPCs
      BY <1>8, <3>1 DEF StartUndo, CompletePCs, OnSession, StartPCs
    <3> HIDE DEF h
    <3> QED
      BY <3>1, <3>2, <3>3, <3>4 DEF Silent
  <2> QED
    BY <1>8, <2>1, <2>2 DEF StartUndo
<1>9. CASE RecordPart(c)
  <2>1. Promise(c, "ok") /\ Promise(c, "conflict")
    BY <1>9 DEF RecordPart, Promise, StartPCs, CompletePCs, OnSession
  <2> QED
    BY <1>9, <2>1, AnswerDelivers DEF RecordPart, Answers
<1>10. CASE CompleteBegin(c)
  <2>1. CASE \E answer \in {"conflict", "error"} : Fails(c, answer)
    BY <1>3, <1>10, <2>1 DEF CompleteBegin, Answers, CompletePCs
  <2>2. CASE /\ Completable /\ UNCHANGED phone
             /\ call' = [call EXCEPT ![c].pc = "complete_head", ![c].session = row.session]
    <3> DEFINE h == [call[c] EXCEPT !.pc = "complete_head", !.session = row.session]
    <3>1. HasRow /\ HasRow' /\ row'.session = row.session
      BY <2>2 DEF Completable, HasRow, NoRow, ServerStep, Grown
    <3>2. h \in Call /\ h.pc = "complete_head" /\ h.session = row.session
      BY <3>1 DEF Call, CallPCs, Row
    <3>3. call' = [call EXCEPT ![c] = h] /\ UNCHANGED phone
      BY <2>2
    <3>4. HandlerOK(c)'
      BY <3>1, <3>2, <3>3 DEF HandlerOK, AbortPCs
    <3>5. call[c].pc \notin StartPCs \cup {"record", "cleanup"} /\ h.pc \in CompletePCs
      BY <1>10, <3>2 DEF CompleteBegin, CompletePCs, OnSession, StartPCs
    <3> HIDE DEF h
    <3> QED
      BY <3>2, <3>3, <3>4, <3>5 DEF Silent
  <2> QED
    BY <1>10, <2>1, <2>2 DEF CompleteBegin
<1>11. CASE CompleteHead(c) \/ CompleteR2(c) \/ CompleteRehead(c)
  <2>1. CASE \E answer \in {"conflict", "error"} : Fails(c, answer)
    BY <1>3, <1>11, <2>1 DEF CompleteHead, CompleteR2, CompleteRehead, Answers, CompletePCs, OnSession
  <2>2. HasRow' /\ call[c].session = row'.session
    BY <1>11 DEF CompleteHead, CompleteR2, CompleteRehead, HandlerOK, OnSession, ServerStep, Grown
  <2>3. call[c].pc \in OnSession
    BY <1>11 DEF CompleteHead, CompleteR2, CompleteRehead, OnSession
  <2>4. ASSUME NEW pc \in OnSession, CallTo(c, pc),
               pc = "complete_verify" => r2'[call[c].session].st = "object"
        PROVE  Silent(c)
    <3>1. [call[c] EXCEPT !.pc = pc] = call'[c] => HandlerOK(c)'
      BY <2>2, <2>4 DEF HandlerOK, OnSession, AbortPCs, Call
    <3>2. \A pcs \in {StartPCs, CompletePCs, {"record"}, {"cleanup"}} :
                call[c].pc \in pcs => pc \in pcs
      BY <2>3 DEF OnSession, StartPCs, CompletePCs
    <3> QED
      BY <1>2, <2>4, <3>1, <3>2 DEF OnSession, CallPCs
  <2> QED
    BY <1>11, <2>1, <2>4 DEF CompleteHead, CompleteR2, CompleteRehead, ObjectExists, OnSession, server
<1>12. CASE CompleteVerify(c)
  <2>1. CASE Fails(c, "error")
    BY <1>3, <1>12, <2>1 DEF CompleteVerify, Answers, CompletePCs, OnSession
  <2>2. CASE row' = [row EXCEPT !.st = "verified"] /\ Answer(c, "ok")
    <3>1. Promise(c, "ok")
      BY <1>12, <2>2 DEF CompleteVerify, Promise, StartPCs, Row
    <3> QED
      BY <2>2, <3>1, AnswerDelivers DEF Answers
  <2> QED
    BY <1>12, <2>1, <2>2 DEF CompleteVerify
<1>13. CASE CompleteError(c)
  <2>1. call[c].answer \in Answers /\ Promise(c, call[c].answer)
    BY <1>13 DEF CompleteError, HandlerOK, Promise, Call
  <2> QED
    BY <1>13, <2>1, AnswerDelivers DEF CompleteError, Answered
<1>14. CASE ReportCleanup(c)
  <2>1. row.st \in {"verified", "aborted"} => row'.st = row.st /\ row'.cleaned
    BY <1>14 DEF ReportCleanup, Row
  <2>2. row.st \in {"verified", "aborted"} => Promise(c, "ok")
    BY <1>14, <2>1 DEF ReportCleanup, Promise, StartPCs, CompletePCs, OnSession
  <2>3. Promise(c, "conflict")
    BY DEF Promise
  <2> QED
    BY <1>14, <2>2, <2>3, AnswerDelivers DEF ReportCleanup, Answers
<1>15. CASE AbortRead(c)
  <2>1. CASE Answer(c, "conflict")
    BY <2>1, AnswerDelivers DEF Answers, Promise
  <2>2. CASE /\ row.st \notin {"none", "verified"} /\ UNCHANGED phone
             /\ call' = [call EXCEPT ![c].pc = "abort_r2", ![c].session = row.session]
    <3> DEFINE h == [call[c] EXCEPT !.pc = "abort_r2", !.session = row.session]
    <3>1. HasRow /\ HasRow' /\ row.session \in Sessions
      BY <2>2 DEF HasRow, NoRow, ServerStep, Grown, RowOK
    <3>2. h \in Call /\ h.pc = "abort_r2" /\ h.session = row.session
      BY <3>1 DEF Call, CallPCs
    <3>3. call' = [call EXCEPT ![c] = h] /\ UNCHANGED phone
      BY <2>2
    <3>4. HandlerOK(c)'
      BY <3>1, <3>2, <3>3 DEF HandlerOK, OnSession, ServerStep, Grown
    <3>5. call[c].pc \notin StartPCs \cup CompletePCs \cup {"record", "cleanup"}
      BY <1>15 DEF AbortRead, CompletePCs, OnSession, StartPCs
    <3> HIDE DEF h
    <3> QED
      BY <3>2, <3>3, <3>4, <3>5 DEF Silent
  <2> QED
    BY <1>15, <2>1, <2>2 DEF AbortRead
<1>16. CASE AbortR2(c)
  <2>1. HasRow'
    BY <1>16 DEF AbortR2, HandlerOK, AbortPCs, ServerStep, Grown
  <2>2. CASE Delivers(c, "error")
    BY <2>2 DEF Answered, Promise, Answers
  <2>3. CASE CallTo(c, "abort_mark")
    <3>1. [call[c] EXCEPT !.pc = "abort_mark"] = call'[c] => HandlerOK(c)'
      BY <2>1 DEF HandlerOK, OnSession, Call
    <3>2. call[c].pc = "abort_r2"
      BY <1>16 DEF AbortR2
    <3> QED
      BY <1>2, <2>3, <3>1, <3>2 DEF StartPCs, CompletePCs, OnSession, CallPCs
  <2> QED
    BY <1>16, <2>2, <2>3 DEF AbortR2
<1>17. CASE AbortMark(c)
  <2>1. Promise(c, "ok")
    BY <1>17 DEF AbortMark, Promise, StartPCs, CompletePCs, OnSession
  <2> QED
    BY <1>17, <2>1, AnswerDelivers DEF AbortMark, Answers
<1> QED
  BY <1>1, <1>4, <1>5, <1>6, <1>7, <1>8, <1>9, <1>10, <1>11, <1>12, <1>13, <1>14, <1>15, <1>16,
     <1>17 DEF Handler

----------------------------------------------------------------------------
(* The engines.                                                              *)

PhoneTypes ==
    /\ job \in Job /\ work \in {"enqueued", "running", "ended"}
    /\ worker \in [Workers -> Engine]

PhoneOK ==
    /\ PhoneTypes
    /\ \A w \in Workers : EngineOK(w)
    /\ WaitApart
    /\ JobOK

\* What an engine knows of the server stays so.
EngineKnows(e) ==
    /\ e.pc \notin {"off", "open", "start"} => HasRow
    /\ e.pc \in {"put", "record"} => e.part \in Parts
    /\ e.pc = "record" => Stored(e.part)
    /\ e.pc = "cleanup" => row.st = "verified"

LEMMA KnowsStays ==
    ASSUME MultipartInv, ServerStep, NEW e, EngineKnows(e)
    PROVE  EngineKnows(e)'
<1>1. e.pc = "record" => Stored(e.part)'
  BY StoredStays DEF MultipartInv, EngineKnows
<1> QED
  BY <1>1 DEF EngineKnows, ServerStep, Grown

LEMMA JobStays ==
    ASSUME MultipartInv, ServerStep, job'.known => job.known \/ HasRow',
           job'.st = "verified" => job.st = "verified" \/ (row'.st = "verified" /\ row'.cleaned)
    PROVE  JobOK'
  BY DEF MultipartInv, JobOK, ServerStep, Grown

\* One engine moves and waits for nobody new.
LEMMA OneEngine ==
    ASSUME MultipartInv, ServerStep, NEW w \in Workers, NEW e \in Engine,
           worker' = [worker EXCEPT ![w] = e],
           e.call = NoCall \/ (e.call = worker[w].call /\ e.pc = worker[w].pc),
           EngineKnows(e)',
           \A v \in Workers : (v # w \/ e.call # NoCall) /\ worker[v].call # NoCall =>
              call'[worker[v].call].pc \in AnswersTo(worker[v].pc)
    PROVE  worker' \in [Workers -> Engine] /\ (\A v \in Workers : EngineOK(v)') /\ WaitApart'
<1>0. worker \in [Workers -> Engine] /\ WaitApart
  BY DEF MultipartInv, TypeOK
<1>1. worker' \in [Workers -> Engine]
  BY <1>0
<1>2. EngineOK(w)'
  BY <1>0 DEF EngineOK, EngineKnows
<1>3. ASSUME NEW v \in Workers, v # w PROVE EngineOK(v)'
  <2>1. worker'[v] = worker[v]
    BY <1>0, <1>3
  <2>2. EngineKnows(worker[v])
    BY DEF MultipartInv, EngineOK, EngineKnows
  <2>3. EngineKnows(worker[v])'
    BY <2>2, KnowsStays DEF EngineKnows
  <2> QED
    BY <1>3, <2>1, <2>3 DEF EngineOK, EngineKnows
<1>4. WaitApart'
  BY <1>0 DEF WaitApart
<1> QED
  BY <1>1, <1>2, <1>3, <1>4

LEMMA PhoneStays ==
    ASSUME MultipartInv, ServerStep, UNCHANGED phone,
           \A v \in Workers : worker[v].call # NoCall =>
              call'[worker[v].call].pc \in AnswersTo(worker[v].pc)
    PROVE  PhoneOK'
<1>1. UNCHANGED <<job, work, worker>>
  BY DEF phone
<1>2. ASSUME NEW v \in Workers PROVE EngineOK(v)'
  <2>1. EngineKnows(worker[v])
    BY DEF MultipartInv, EngineOK, EngineKnows
  <2>2. EngineKnows(worker[v])'
    BY <1>1, <2>1, KnowsStays
  <2> QED
    BY <1>1, <2>2 DEF EngineOK, EngineKnows
<1>3. JobOK'
  BY <1>1, JobStays
<1> QED
  BY <1>1, <1>2, <1>3 DEF PhoneOK, PhoneTypes, WaitApart, MultipartInv, TypeOK

\* A run of the engine ends.
LEMMA RunEnds ==
    ASSUME MultipartInv, ServerStep, NEW w \in Workers,
           \A v \in Workers : v # w /\ worker[v].call # NoCall =>
              call'[worker[v].call].pc \in AnswersTo(worker[v].pc),
           \/ Fail(w) \/ RetryLater(w) \/ RetryForFree(w)
           \/ Succeed(w) /\ row'.st = "verified" /\ row'.cleaned
    PROVE  PhoneOK'
<1>0. job \in Job /\ work \in {"enqueued", "running", "ended"} /\ worker[w] \in Engine
  BY DEF MultipartInv, TypeOK
<1>1. job' \in Job /\ job'.known = job.known
  <2>1. CASE Fail(w) \/ RetryLater(w) \/ Succeed(w)
    BY <1>0, <2>1 DEF Fail, RetryLater, Succeed, Job
  <2>2. CASE RetryForFree(w)
    <3>1. (IF job.attempt = 0 THEN 0 ELSE job.attempt - 1) \in 0..MaxAttempts
      BY <1>0, MultipartAssumption DEF Job
    <3> QED
      BY <1>0, <2>2, <3>1 DEF RetryForFree, Job
  <2> QED
    BY <2>1, <2>2
<1>2. job'.st = "verified" => row'.st = "verified" /\ row'.cleaned
  BY <1>0 DEF Fail, RetryLater, RetryForFree, Succeed, Job
<1>3. worker' = [worker EXCEPT ![w] = Off] /\ work' \in {"enqueued", "running", "ended"}
  BY <1>0 DEF Fail, RetryLater, RetryForFree, Succeed, Ends
<1>4. Off \in Engine /\ Off.call = NoCall /\ EngineKnows(Off)'
  BY MultipartAssumption DEF Off, Engine, WorkerPCs, EngineKnows
<1>5. worker' \in [Workers -> Engine] /\ (\A v \in Workers : EngineOK(v)') /\ WaitApart'
  BY <1>3, <1>4, OneEngine
<1>6. JobOK'
  BY <1>1, <1>2, JobStays
<1> QED
  BY <1>1, <1>3, <1>5, <1>6 DEF PhoneOK, PhoneTypes

Going(e, pc) == [e EXCEPT !.pc = pc, !.call = NoCall]
Counting(e, p) == [e EXCEPT !.part = p]

\* How Proceed changes an engine.
LEMMA EngineGoing ==
    ASSUME NEW e \in Engine, NEW pc \in WorkerPCs
    PROVE  /\ Going(e, pc) \in Engine
           /\ Going(e, pc).pc = pc /\ Going(e, pc).call = NoCall
  BY DEF Engine, Going

LEMMA EngineCounting ==
    ASSUME NEW e \in Engine, NEW p \in 1..(PartCount + 1)
    PROVE  /\ Counting(e, p) \in Engine
           /\ Counting(e, p).pc = e.pc /\ Counting(e, p).call = e.call
           /\ Counting(e, p).part = p
  BY DEF Engine, Counting

\* An answer reaches the engine that waits for it, if one does.
LEMMA AnswerReaches ==
    ASSUME MultipartInv, ServerStep, NEW c \in Calls, Answered(c)
    PROVE  PhoneOK'
<1>1. PICK answer \in Answers : Delivers(c, answer) /\ Promise(c, answer)
  BY DEF Answered
<1>0. /\ call \in [Calls -> Call] /\ worker \in [Workers -> Engine] /\ job \in Job
      /\ work \in {"enqueued", "running", "ended"} /\ NoCall \notin Calls
  BY MultipartAssumption DEF MultipartInv, TypeOK
<1>2. call' = [call EXCEPT ![c] = Free]
  BY <1>1 DEF Delivers
<1>3. ASSUME NEW v \in Workers, worker[v].call # NoCall, worker[v].call # c
      PROVE  call'[worker[v].call].pc \in AnswersTo(worker[v].pc)
  <2>1. worker[v].call \in Calls
    BY <1>0, <1>3 DEF Engine
  <2> QED
    BY <1>0, <1>2, <1>3, <2>1 DEF MultipartInv, EngineOK
<1>4. CASE (\A w \in Workers : worker[w].call # c) /\ UNCHANGED phone
  BY <1>3, <1>4, PhoneStays
<1>5. ASSUME NEW w \in Workers, worker[w].call = c,
             \/ answer = "ok" /\ Proceed(w, call[c])
             \/ answer = "conflict" /\ Fail(w)
             \/ answer = "error" /\ RetryLater(w)
      PROVE  PhoneOK'
  <2>1. ASSUME NEW v \in Workers, v # w, worker[v].call # NoCall
        PROVE  call'[worker[v].call].pc \in AnswersTo(worker[v].pc)
    <3>1. worker[v].call # c
      BY <1>0, <1>5, <2>1 DEF MultipartInv, WaitApart
    <3> QED
      BY <1>3, <2>1, <3>1
  <2>2. call[c].pc \in AnswersTo(worker[w].pc)
    BY <1>0, <1>5 DEF MultipartInv, EngineOK
  <2>3. CASE Fail(w) \/ RetryLater(w)
    BY <2>1, <2>3, RunEnds
  <2>4. CASE worker[w].pc = "cleanup" /\ answer = "ok" /\ Succeed(w)
    <3>1. row.st = "verified"
      BY <2>4 DEF MultipartInv, EngineOK
    <3>2. row'.st = "verified" /\ row'.cleaned
      BY <1>1, <2>2, <2>4, <3>1 DEF Promise, AnswersTo, ServerStep, Grown
    <3> QED
      BY <2>1, <2>4, <3>2, RunEnds
  <2>5. ASSUME NEW e \in Engine, worker' = [worker EXCEPT ![w] = e], e.call = NoCall,
               EngineKnows(e)', UNCHANGED work, job' \in Job, job'.st = job.st,
               job'.known => job.known \/ HasRow'
        PROVE  PhoneOK'
    <3>1. worker' \in [Workers -> Engine] /\ (\A v \in Workers : EngineOK(v)') /\ WaitApart'
      BY <2>1, <2>5, OneEngine
    <3>2. JobOK'
      BY <2>5, JobStays
    <3> QED
      BY <1>0, <2>5, <3>1, <3>2 DEF PhoneOK, PhoneTypes
  <2>6. CASE worker[w].pc = "start" /\ answer = "ok" /\ Proceed(w, call[c])
    <3>1. PICK e \in Engine : e = Going(worker[w], "status") /\ e.pc = "status" /\ e.call = NoCall
      BY <1>0, EngineGoing DEF WorkerPCs
    <3>2. HasRow'
      BY <1>1, <2>2, <2>6 DEF Promise, AnswersTo
    <3>3. worker' = [worker EXCEPT ![w] = e] /\ UNCHANGED work /\ job' = [job EXCEPT !.known = TRUE]
      BY <2>6, <3>1 DEF Proceed, Going
    <3>4. job' \in Job /\ job'.st = job.st
      BY <1>0, <3>3 DEF Job
    <3>5. EngineKnows(e)'
      BY <3>1, <3>2 DEF EngineKnows
    <3> QED
      BY <2>5, <3>1, <3>2, <3>3, <3>4, <3>5
  <2>7. CASE worker[w].pc = "record" /\ answer = "ok" /\ Proceed(w, call[c])
    <3> DEFINE p == call[c].part
    <3>1. call[c].pc = "record"
      BY <2>2, <2>7 DEF AnswersTo
    <3>2. HasRow
      BY <3>1 DEF MultipartInv, HandlerOK
    <3>3. p \in Parts
      BY <3>1 DEF MultipartInv, HandlerOK
    <3>8. p + 1 \in 1..(PartCount + 1)
      BY <3>3, MultipartAssumption DEF Parts
    <3>9. PICK f \in Engine : f = Going(worker[w], "part") /\ f.pc = "part" /\ f.call = NoCall
      BY <1>0, EngineGoing DEF WorkerPCs
    <3>4. PICK e \in Engine : e = Counting(f, p + 1) /\ e.pc = "part" /\ e.call = NoCall
      BY <3>8, <3>9, EngineCounting
    <3>5. worker' = [worker EXCEPT ![w] = e] /\ UNCHANGED work /\ job' = [job EXCEPT !.parts = @ \cup {p}]
      BY <2>7, <3>4, <3>9 DEF Proceed, Going, Counting
    <3>6. job' \in Job /\ job'.st = job.st /\ job'.known = job.known
      BY <1>0, <3>3, <3>5 DEF Job
    <3>7. EngineKnows(e)'
      BY <3>2, <3>4 DEF EngineKnows, ServerStep, Grown
    <3> QED
      BY <2>5, <3>4, <3>5, <3>6, <3>7
  <2>8. CASE worker[w].pc = "complete" /\ answer = "ok" /\ Proceed(w, call[c])
    <3>1. PICK e \in Engine : e = Going(worker[w], "cleanup") /\ e.pc = "cleanup" /\ e.call = NoCall
      BY <1>0, EngineGoing DEF WorkerPCs
    <3>2. HasRow' /\ row'.st = "verified"
      BY <1>1, <2>2, <2>8 DEF Promise, AnswersTo, HasRow, NoRow
    <3>3. worker' = [worker EXCEPT ![w] = e] /\ UNCHANGED <<work, job>>
      BY <2>8, <3>1 DEF Proceed, Going
    <3>4. EngineKnows(e)'
      BY <3>1, <3>2 DEF EngineKnows
    <3> QED
      BY <1>0, <2>5, <3>1, <3>3, <3>4
  <2> QED
    BY <1>5, <2>3, <2>4, <2>6, <2>7, <2>8 DEF Proceed
<1> QED
  BY <1>1, <1>4, <1>5 DEF Delivers

----------------------------------------------------------------------------
(* The steps of the phone.                                                   *)

CallsOK == call \in [Calls -> Call] /\ \A c \in Calls : HandlerOK(c)

LEMMA HandlersStay ==
    ASSUME MultipartInv, ServerStep, UNCHANGED call
    PROVE  /\ CallsOK'
           /\ \A v \in Workers : worker[v].call # NoCall =>
                 call'[worker[v].call].pc \in AnswersTo(worker[v].pc)
<1>1. ASSUME NEW c \in Calls PROVE HandlerOK(c)'
  BY HandlerKnows
<1> QED
  BY <1>1 DEF MultipartInv, TypeOK, CallsOK, EngineOK

\* The engine goes on by itself.
LEMMA EngineMoves ==
    ASSUME MultipartInv, ServerStep, UNCHANGED call, NEW w \in Workers, NEW e \in Engine,
           worker' = [worker EXCEPT ![w] = e],
           e.call = NoCall \/ (e.call = worker[w].call /\ e.pc = worker[w].pc),
           EngineKnows(e)', JobOK', job' \in Job, work' \in {"enqueued", "running", "ended"}
    PROVE  CallsOK' /\ PhoneOK'
<1>1. CallsOK' /\ \A v \in Workers : worker[v].call # NoCall =>
                 call'[worker[v].call].pc \in AnswersTo(worker[v].pc)
  BY HandlersStay
<1>2. worker' \in [Workers -> Engine] /\ (\A v \in Workers : EngineOK(v)') /\ WaitApart'
  BY <1>1, OneEngine
<1> QED
  BY <1>1, <1>2 DEF PhoneOK, PhoneTypes

\* The engine calls a route and waits for a handler that nobody waits for.
LEMMA EngineCalls ==
    ASSUME MultipartInv, ServerStep, NEW w \in Workers, NEW pc \in WorkerPCs,
           NEW first \in {"start_find", "record", "complete_begin", "cleanup"},
           NEW part \in Parts \cup {0},
           CallServer(w, pc, first, part), first \in AnswersTo(pc),
           pc # "start" => HasRow,
           pc = "cleanup" => row.st = "verified",
           pc = "record" => worker[w].part \in Parts /\ Stored(worker[w].part),
           first = "record" => HasRow /\ part \in Parts /\ Stored(part),
           pc # "put",
           JobOK', job' \in Job, UNCHANGED work
    PROVE  CallsOK' /\ PhoneOK'
<1>0. /\ call \in [Calls -> Call] /\ worker \in [Workers -> Engine] /\ WaitApart
      /\ work \in {"enqueued", "running", "ended"} /\ NoCall \notin Calls
      /\ HasRow => row.session \in Sessions
  BY MultipartAssumption DEF MultipartInv, TypeOK, RowOK
<1>1. PICK c \in Calls :
         /\ call[c] = Free
         /\ call' = [call EXCEPT ![c] = [Free EXCEPT !.pc = first, !.part = part]]
         /\ worker' = [worker EXCEPT ![w].pc = pc, ![w].call = c]
  BY DEF CallServer
<1>2. /\ call'[c] \in Call /\ call'[c].pc = first /\ call'[c].part = part
      /\ call'[c].session = NoSession
      /\ call' \in [Calls -> Call] /\ \A d \in Calls \ {c} : call'[d] = call[d]
  BY <1>0, <1>1 DEF Free, Call, CallPCs
<1>3. /\ worker' \in [Workers -> Engine]
      /\ worker'[w].pc = pc /\ worker'[w].call = c /\ worker'[w].part = worker[w].part
      /\ \A v \in Workers \ {w} : worker'[v] = worker[v]
  BY <1>0, <1>1 DEF Engine
<1>4. \A v \in Workers : worker[v].call # c
  <2> SUFFICES ASSUME NEW v \in Workers, worker[v].call = c PROVE FALSE
    OBVIOUS
  <2>1. "free" \in AnswersTo(worker[v].pc)
    BY <1>0, <1>1 DEF MultipartInv, EngineOK, Free
  <2> QED
    BY <2>1 DEF AnswersTo, StartPCs, CompletePCs, OnSession
<1>5. CallsOK'
  <2>1. HandlerOK(c)'
    <3>1. first = "record" => Stored(part)'
      BY StoredStays DEF MultipartInv
    <3> QED
      BY <1>0, <1>2, <3>1 DEF HandlerOK, OnSession, AbortPCs, ServerStep, Grown
  <2>2. ASSUME NEW d \in Calls, d # c PROVE HandlerOK(d)'
    BY <1>2, <2>2, HandlerKnows
  <2> QED
    BY <1>2, <2>1, <2>2 DEF CallsOK
<1>6. ASSUME NEW v \in Workers PROVE EngineOK(v)'
  <2>1. CASE v = w
    <3>1. pc # "start" => HasRow'
      BY DEF ServerStep, Grown
    <3>2. PICK p : p = worker[w].part
      OBVIOUS
    <3>3. pc = "record" => Stored(p)'
      BY <3>2, StoredStays DEF MultipartInv
    <3> QED
      BY <1>2, <1>3, <2>1, <3>1, <3>2, <3>3 DEF EngineOK, ServerStep, Grown
  <2>2. CASE v # w
    <3>1. worker'[v] = worker[v] /\ worker[v] \in Engine
      BY <1>0, <1>3, <2>2
    <3>2. EngineKnows(worker[v])
      BY DEF MultipartInv, EngineOK, EngineKnows
    <3>3. EngineKnows(worker[v])'
      BY <3>1, <3>2, KnowsStays DEF EngineKnows
    <3>4. worker[v].call # NoCall =>
             /\ call'[worker[v].call] = call[worker[v].call]
             /\ call[worker[v].call].pc \in AnswersTo(worker[v].pc)
      BY <1>2, <1>4, <3>1 DEF MultipartInv, EngineOK, Engine
    <3> QED
      BY <3>1, <3>3, <3>4 DEF EngineOK, EngineKnows
  <2> QED
    BY <2>1, <2>2
<1>7. WaitApart'
  BY <1>0, <1>1, <1>3, <1>4 DEF WaitApart
<1> QED
  BY <1>0, <1>3, <1>5, <1>6, <1>7 DEF PhoneOK, PhoneTypes

LEMMA EngineStepOK ==
    ASSUME MultipartInv, ServerStep, NEW w \in Workers,
           BeginRun(w) \/ EngineStep(w) \/ SourceUnreadable(w) \/ NetworkFails(w) \/ Stop(w)
    PROVE  CallsOK' /\ PhoneOK'
<1>0. /\ worker[w] \in Engine /\ job \in Job /\ work \in {"enqueued", "running", "ended"}
      /\ worker \in [Workers -> Engine] /\ EngineOK(w) /\ JobOK /\ row \in Row
  BY DEF MultipartInv, TypeOK
<1> USE <1>0
<1>1. ASSUME Fail(w) \/ RetryLater(w) \/ RetryForFree(w), UNCHANGED call PROVE CallsOK' /\ PhoneOK'
  BY <1>1, HandlersStay, RunEnds
<1>2. CASE StopRequested(w) \/ SourceUnreadable(w) \/ NetworkFails(w)
  BY <1>1, <1>2 DEF StopRequested, SourceUnreadable, NetworkFails
<1>3. UNCHANGED job => JobOK'
  BY JobStays
<1>4. CASE BeginRun(w)
  <2>1. CASE UNCHANGED worker
    <3>1. JobOK' /\ job' \in Job /\ work' \in {"enqueued", "running", "ended"}
      <4>1. CASE UNCHANGED job
        BY <1>3, <1>4, <4>1 DEF BeginRun
      <4>2. CASE job' = [job EXCEPT !.st = "failed"] /\ work' = "ended"
        <5>1. job' \in Job /\ job'.known = job.known /\ job'.st = "failed"
          BY <4>2 DEF Job
        <5> QED
          BY <4>2, <5>1, JobStays
      <4>3. CASE worker' = [worker EXCEPT ![w] = [Off EXCEPT !.pc = "open"]] /\ worker[w] = Off
        <5>1. worker'[w].pc = "open" /\ worker[w].pc = "off"
          BY <4>3 DEF Off
        <5> QED
          BY <2>1, <5>1
      <4> QED
        BY <1>4, <4>1, <4>2, <4>3 DEF BeginRun
    <3>2. EngineKnows(worker[w])'
      <4>1. EngineKnows(worker[w])
        BY DEF EngineOK, EngineKnows
      <4> QED
        BY <2>1, <4>1, KnowsStays DEF EngineKnows
    <3>3. worker' = [worker EXCEPT ![w] = worker[w]]
      BY <2>1
    <3>4. PICK e \in Engine : e = worker[w]
      OBVIOUS
    <3> QED
      BY <1>4, <2>1, <3>1, <3>2, <3>3, <3>4, EngineMoves DEF BeginRun
  <2>2. CASE /\ job.attempt < MaxAttempts
             /\ job' = [job EXCEPT !.st = "uploading", !.attempt = @ + 1]
             /\ work' = "running"
             /\ worker' = [worker EXCEPT ![w] = [Off EXCEPT !.pc = "open"]]
    <3>1. job.attempt + 1 \in 0..MaxAttempts
      BY <2>2, MultipartAssumption DEF Job
    <3>2. job' \in Job /\ job'.known = job.known /\ job'.st = "uploading"
      BY <2>2, <3>1 DEF Job
    <3>3. /\ [Off EXCEPT !.pc = "open"] \in Engine
          /\ [Off EXCEPT !.pc = "open"].call = NoCall
          /\ [Off EXCEPT !.pc = "open"].pc = "open"
      <4>1. Off \in Engine /\ Off.call = NoCall
        BY MultipartAssumption DEF Off, Engine, WorkerPCs
      <4> QED
        BY <4>1 DEF Engine, WorkerPCs
    <3>4. PICK e \in Engine : e = [Off EXCEPT !.pc = "open"]
      BY <3>3
    <3>5. EngineKnows(e)'
      BY <3>3, <3>4 DEF EngineKnows
    <3>6. JobOK'
      BY <3>2, JobStays
    <3> QED
      BY <1>4, <2>2, <3>2, <3>3, <3>4, <3>5, <3>6, EngineMoves DEF BeginRun
  <2> QED
    BY <1>4, <2>1, <2>2 DEF BeginRun
\* An engine at a step of its own.
<1>5. ASSUME NEW pc \in WorkerPCs, NEW q \in 1..(PartCount + 1), worker[w].call = NoCall,
             worker' = [worker EXCEPT ![w] = Counting(Going(worker[w], pc), q)],
             pc \notin {"off", "open", "start"} => HasRow,
             pc \in {"put", "record"} => q \in Parts,
             pc = "record" => Stored(q)',
             pc = "cleanup" => row.st = "verified",
             JobOK', job' \in Job, UNCHANGED <<call, work>>
      PROVE  CallsOK' /\ PhoneOK'
  <2>1. PICK e \in Engine : /\ e = Counting(Going(worker[w], pc), q)
                            /\ e.pc = pc /\ e.call = NoCall /\ e.part = q
    <3>1. Going(worker[w], pc) \in Engine
          /\ Going(worker[w], pc).pc = pc /\ Going(worker[w], pc).call = NoCall
      BY EngineGoing
    <3>2. Counting(Going(worker[w], pc), q) \in Engine
          /\ Counting(Going(worker[w], pc), q).pc = Going(worker[w], pc).pc
          /\ Counting(Going(worker[w], pc), q).call = Going(worker[w], pc).call
          /\ Counting(Going(worker[w], pc), q).part = q
      BY <3>1, EngineCounting
    <3> QED
      BY <3>1, <3>2
  <2>2. EngineKnows(e)'
    BY <1>5, <2>1 DEF EngineKnows, ServerStep, Grown
  <2> QED
    BY <1>5, <2>1, <2>2, EngineMoves
<1>6. ASSUME NEW pc \in WorkerPCs, Goes(w, pc), worker[w].call = NoCall
      PROVE  worker' = [worker EXCEPT ![w] = Counting(Going(worker[w], pc), worker[w].part)]
  BY <1>6 DEF Goes, Going, Counting, Engine
<1>7. worker[w].part \in 1..(PartCount + 1)
  BY DEF Engine
<1>8. CASE OpenSource(w)
  <2>1. Goes(w, IF job.known THEN "status" ELSE "start") /\ Ready(w, "open") /\ UNCHANGED <<call, job, work>>
    BY <1>8 DEF OpenSource
  <2>2. job.known => HasRow
    BY DEF JobOK
  <2> QED
    BY <1>3, <1>5, <1>6, <1>7, <2>1, <2>2 DEF Ready, WorkerPCs
<1>9. CASE Status(w)
  <2>1. HasRow /\ row.parts \in SUBSET Parts /\ Ready(w, "status") /\ UNCHANGED <<call, row, r2>>
    BY <1>9 DEF Status, Ready, EngineOK, Row, server
  <2>2. CASE Fail(w)
    BY <1>1, <1>9, <2>2 DEF Status
  <2>3. CASE /\ row.st = "verified" /\ row.cleaned /\ Ends(w, "ended")
             /\ job' = [job EXCEPT !.st = "verified", !.parts = row.parts]
    <3>1. job' \in Job /\ job'.known = job.known
      BY <2>1, <2>3 DEF Job
    <3>2. JobOK'
      BY <2>1, <2>3, <3>1, JobStays
    <3>3. Off \in Engine /\ Off.call = NoCall /\ EngineKnows(Off)'
      BY MultipartAssumption DEF Off, Engine, WorkerPCs, EngineKnows
    <3> QED
      BY <2>1, <2>3, <3>1, <3>2, <3>3, EngineMoves DEF Ends
  <2>4. CASE /\ row.st = "verified" /\ Goes(w, "cleanup") /\ UNCHANGED work
             /\ job' = [job EXCEPT !.st = "completing", !.parts = row.parts]
    <3>1. job' \in Job /\ job'.known = job.known /\ job'.st = "completing"
      BY <2>1, <2>4 DEF Job
    <3>2. JobOK'
      BY <3>1, JobStays
    <3> QED
      BY <1>5, <1>6, <1>7, <2>1, <2>4, <3>1, <3>2 DEF Ready, WorkerPCs
  <2>5. CASE /\ row.st \notin {"aborted", "verified"} /\ Goes(w, "part") /\ UNCHANGED work
             /\ job' = [job EXCEPT !.parts = row.parts]
    <3>1. job' \in Job /\ job'.known = job.known /\ job'.st = job.st
      BY <2>1, <2>5 DEF Job
    <3>2. JobOK'
      BY <3>1, JobStays
    <3> QED
      BY <1>5, <1>6, <1>7, <2>1, <2>5, <3>1, <3>2 DEF Ready, WorkerPCs
  <2> QED
    BY <1>9, <2>2, <2>3, <2>4, <2>5 DEF Status
<1>10. CASE PartUrl(w)
  <2>1. PICK p \in Remaining(w) :
           \/ /\ worker' = [worker EXCEPT ![w].pc = "put", ![w].part = p]
              /\ UNCHANGED <<job, work>>
           \/ Fail(w)
    BY <1>10 DEF PartUrl
  <2>2. /\ p \in Parts /\ HasRow /\ Ready(w, "part") /\ UNCHANGED call
        /\ p \in 1..(PartCount + 1)
    BY <1>10, MultipartAssumption DEF PartUrl, Remaining, Ready, EngineOK, Parts
  <2>3. CASE worker' = [worker EXCEPT ![w].pc = "put", ![w].part = p] /\ UNCHANGED <<job, work>>
    <3>1. worker' = [worker EXCEPT ![w] = Counting(Going(worker[w], "put"), p)]
      BY <2>2, <2>3 DEF Ready, Going, Counting, Engine
    <3> QED
      BY <1>3, <1>5, <2>2, <2>3, <3>1 DEF Ready, WorkerPCs
  <2> QED
    BY <1>1, <2>1, <2>2, <2>3
<1>11. CASE PutPart(w)
  <2>1. CASE Fail(w)
    BY <1>1, <1>11, <2>1 DEF PutPart
  <2>2. CASE r2' = PartStored(worker[w].part) /\ Goes(w, "record") /\ UNCHANGED <<job, work>>
    <3>1. /\ HasRow /\ worker[w].part \in Parts /\ worker[w].call = NoCall
          /\ UNCHANGED <<row, call>> /\ TypeOK /\ RowOK
      BY <1>11 DEF PutPart, Ready, EngineOK, MultipartInv
    <3>2. PICK p : p = worker[w].part
      OBVIOUS
    <3>3. Stored(p)'
      BY <2>2, <3>1, <3>2, PartStoredWrite
    <3>4. p \in 1..(PartCount + 1) /\ p \in Parts
      BY <1>7, <3>1, <3>2
    <3>5. worker' = [worker EXCEPT ![w] = Counting(Going(worker[w], "record"), p)]
      BY <1>6, <2>2, <3>1, <3>2 DEF WorkerPCs
    <3> QED
      BY <1>3, <1>5, <2>2, <3>1, <3>3, <3>4, <3>5 DEF WorkerPCs
  <2> QED
    BY <1>11, <2>1, <2>2 DEF PutPart
<1>12. CASE Start(w)
  <2>1. CallServer(w, "start", "start_find", 0) /\ UNCHANGED <<job, work>>
    BY <1>12 DEF Start
  <2> QED
    BY <1>3, <2>1, EngineCalls DEF WorkerPCs, AnswersTo, StartPCs
<1>13. CASE Record(w)
  <2>1. /\ CallServer(w, "record", "record", worker[w].part) /\ UNCHANGED <<job, work>>
        /\ HasRow /\ worker[w].part \in Parts /\ Stored(worker[w].part)
    BY <1>13 DEF Record, Ready, EngineOK
  <2> QED
    BY <1>3, <2>1, EngineCalls DEF WorkerPCs, AnswersTo
<1>14. CASE Complete(w)
  <2>1. /\ CallServer(w, "complete", "complete_begin", 0) /\ UNCHANGED work
        /\ HasRow /\ job' = [job EXCEPT !.st = "completing"]
    BY <1>14 DEF Complete, Ready, EngineOK
  <2>2. job' \in Job /\ job'.known = job.known /\ job'.st = "completing"
    BY <2>1 DEF Job
  <2>3. JobOK'
    BY <2>2, JobStays
  <2> QED
    BY <2>1, <2>2, <2>3, EngineCalls DEF WorkerPCs, AnswersTo, CompletePCs
<1>15. CASE ConfirmCleanup(w)
  <2>1. /\ CallServer(w, "cleanup", "cleanup", 0) /\ UNCHANGED <<job, work>>
        /\ HasRow /\ row.st = "verified"
    BY <1>15 DEF ConfirmCleanup, Ready, EngineOK
  <2> QED
    BY <1>3, <2>1, EngineCalls DEF WorkerPCs, AnswersTo
<1>16. CASE Stop(w)
  <2>1. PICK e \in Engine : /\ e = [worker[w] EXCEPT !.stopped = TRUE]
                            /\ e.call = worker[w].call /\ e.pc = worker[w].pc /\ e.part = worker[w].part
    <3> DEFINE f == [worker[w] EXCEPT !.stopped = TRUE]
    <3>1. f \in Engine
      BY DEF Engine
    <3>2. f.call = worker[w].call /\ f.pc = worker[w].pc /\ f.part = worker[w].part
      BY DEF Engine
    <3> HIDE DEF f
    <3>3. PICK e \in Engine : e = f
      BY <3>1
    <3> QED
      BY <3>2, <3>3 DEF f
  <2>2. worker' = [worker EXCEPT ![w] = e] /\ work' = "enqueued" /\ UNCHANGED <<call, job>>
    BY <1>16, <2>1 DEF Stop
  <2>3. EngineKnows(e)
    BY <2>1 DEF EngineOK, EngineKnows
  <2> QED
    BY <1>3, <2>1, <2>2, <2>3, KnowsStays, EngineMoves
<1> QED
  BY <1>2, <1>4, <1>8, <1>9, <1>10, <1>11, <1>12, <1>13, <1>14, <1>15, <1>16 DEF EngineStep

\* The death of the app and the operator's hand.
LEMMA PhoneEventOK ==
    ASSUME MultipartInv, ServerStep, Death \/ Reopen \/ Retry
    PROVE  CallsOK' /\ PhoneOK'
<1>0. /\ worker \in [Workers -> Engine] /\ job \in Job /\ work \in {"enqueued", "running", "ended"}
      /\ WaitApart /\ JobOK
  BY DEF MultipartInv, TypeOK
<1>1. UNCHANGED call
  BY DEF Death, Reopen, Retry
<1>2. CallsOK' /\ \A v \in Workers : worker[v].call # NoCall =>
                 call'[worker[v].call].pc \in AnswersTo(worker[v].pc)
  BY <1>1, HandlersStay
<1>3. ASSUME UNCHANGED worker
      PROVE  (\A v \in Workers : EngineOK(v)') /\ WaitApart' /\ worker' \in [Workers -> Engine]
  <2>1. ASSUME NEW v \in Workers PROVE EngineOK(v)'
    <3>1. EngineKnows(worker[v])
      BY DEF MultipartInv, EngineOK, EngineKnows
    <3>2. EngineKnows(worker[v])'
      BY <1>3, <3>1, KnowsStays
    <3> QED
      BY <1>2, <1>3, <3>2 DEF EngineOK, EngineKnows
  <2> QED
    BY <1>0, <1>3, <2>1 DEF WaitApart
<1>4. ASSUME worker' = [w \in Workers |-> Off]
      PROVE  (\A v \in Workers : EngineOK(v)') /\ WaitApart' /\ worker' \in [Workers -> Engine]
  <2>1. Off \in Engine /\ Off.call = NoCall /\ Off.pc = "off"
    BY MultipartAssumption DEF Off, Engine, WorkerPCs
  <2> QED
    BY <1>4, <2>1 DEF EngineOK, WaitApart
<1>5. ASSUME Replace
      PROVE  (\A v \in Workers : EngineOK(v)') /\ WaitApart' /\ worker' \in [Workers -> Engine]
  <2>1. ASSUME NEW v \in Workers
        PROVE  /\ worker'[v] \in Engine /\ worker'[v].call = worker[v].call
               /\ worker'[v].pc = worker[v].pc /\ worker'[v].part = worker[v].part
    BY <1>0, <1>5 DEF Replace, Engine
  <2>2. worker' \in [Workers -> Engine]
    BY <1>5, <2>1 DEF Replace
  <2>3. ASSUME NEW v \in Workers PROVE EngineOK(v)'
    <3>1. EngineKnows(worker[v])
      BY DEF MultipartInv, EngineOK, EngineKnows
    <3>2. PICK e \in Engine : e = worker[v]
      BY <1>0
    <3>3. EngineKnows(e)'
      BY <3>1, <3>2, KnowsStays
    <3> QED
      BY <1>1, <1>2, <2>1, <3>2, <3>3 DEF EngineOK, EngineKnows
  <2> QED
    BY <1>0, <2>1, <2>2, <2>3 DEF WaitApart
<1>6. (\A v \in Workers : EngineOK(v)') /\ WaitApart' /\ worker' \in [Workers -> Engine]
  BY <1>3, <1>4, <1>5 DEF Death, Reopen, Retry
<1>7. Requeued \in Job /\ Requeued.known = job.known
      /\ (Requeued.st = "verified" => job.st = "verified")
  <2>1. CASE job.st \in {"failed", "retry_wait"}
    <3>1. Requeued = [job EXCEPT !.st = "queued", !.attempt = 0]
      BY <2>1 DEF Requeued
    <3>2. 0 \in 0..MaxAttempts
      BY MultipartAssumption
    <3> QED
      BY <1>0, <3>1, <3>2 DEF Job
  <2>2. CASE job.st \notin {"failed", "retry_wait"}
    BY <1>0, <2>2 DEF Requeued
  <2> QED
    BY <2>1, <2>2
<1>8. job' = job \/ job' = Requeued
  BY DEF Death, Reopen, Retry
<1>9. JobOK' /\ job' \in Job
  BY <1>0, <1>7, <1>8, JobStays
<1>10. work' \in {"enqueued", "running", "ended"}
  BY <1>0 DEF Death, Reopen, Retry, Replace
<1> QED
  BY <1>2, <1>6, <1>9, <1>10 DEF PhoneOK, PhoneTypes

AnyFault == \E kind \in FaultKinds, apart \in BOOLEAN : Befalls(kind, apart)

\* Faults are counted, those of R2 and of the platform among them.
LEMMA FaultCounted ==
    ASSUME MultipartInv, AnyFault \/ UNCHANGED faults
    PROVE  /\ faults' \in [all : 0..MaxFaults, server : 0..MaxFaults, apart : BOOLEAN]
           /\ faults'.server <= faults'.all
<1>0. /\ faults \in [all : 0..MaxFaults, server : 0..MaxFaults, apart : BOOLEAN] /\ faults.server <= faults.all
      /\ MaxFaults \in Nat
  BY MultipartAssumption DEF MultipartInv, TypeOK
<1>1. ASSUME NEW kind \in FaultKinds, NEW apart \in BOOLEAN, Befalls(kind, apart)
      PROVE  /\ faults' \in [all : 0..MaxFaults, server : 0..MaxFaults, apart : BOOLEAN]
             /\ faults'.server <= faults'.all
  <2>1. PICK n \in {0, 1} :
           faults' = [all |-> faults.all + 1, server |-> faults.server + n,
                      apart |-> faults.apart \/ apart]
    BY <1>1 DEF Befalls
  <2>2. faults.all < MaxFaults
    BY <1>1 DEF Befalls
  <2> QED
    BY <1>0, <2>1, <2>2
<1> QED
  BY <1>0, <1>1 DEF AnyFault

LEMMA FaultsNext ==
    ASSUME [Next]_vars
    PROVE  AnyFault \/ UNCHANGED faults
<1> USE DEF FaultKinds, AnyFault, Fault, FaultApart
<1>1. ASSUME NEW c \in Calls, Handler(c)
      PROVE  AnyFault \/ UNCHANGED faults
  BY <1>1 DEF Handler, StartFind, StartCreate, StartInsert, StartDiscard, StartUndo, RecordPart,
              CompleteBegin, CompleteHead, CompleteR2, CompleteRehead, CompleteVerify,
              CompleteError, ReportCleanup, AbortRead, AbortR2, AbortMark, Answer
<1>2. ASSUME NEW c \in Calls, Kill(c) \/ CallFails(c) \/ CallAbort(c)
      PROVE  AnyFault \/ UNCHANGED faults
  <2>1. At(c, "abort_mark") \in BOOLEAN
    BY DEF At
  <2> QED
    BY <1>2, <2>1 DEF Kill, CallFails, CallAbort
<1>3. ASSUME NEW w \in Workers,
             BeginRun(w) \/ EngineStep(w) \/ SourceUnreadable(w) \/ NetworkFails(w) \/ Stop(w)
      PROVE  AnyFault \/ UNCHANGED faults
  BY <1>3 DEF BeginRun, EngineStep, SourceUnreadable, NetworkFails, Stop, StopRequested,
              OpenSource, Start, Status, PartUrl, PutPart, Record, Complete, ConfirmCleanup
<1>4. CASE Death \/ Reopen \/ Retry \/ UNCHANGED vars
  BY <1>4 DEF Death, Reopen, Retry, vars
<1> QED
  BY <1>1, <1>2, <1>3, <1>4 DEF Next

----------------------------------------------------------------------------
LEMMA MultipartInvInit == Init => MultipartInv
<1> SUFFICES ASSUME Init PROVE MultipartInv
  OBVIOUS
<1> USE MultipartAssumption
<1>1. row \in Row /\ r2 \in [Sessions -> R2Session]
  BY DEF Init, Row, NoRow, R2Session
<1>2. call \in [Calls -> Call]
  BY DEF Init, Call, Free, CallPCs, Answers
<1>3. job \in Job /\ work \in {"enqueued", "running", "ended"}
  BY DEF Init, Job
<1>4. worker \in [Workers -> Engine]
  BY DEF Init, Engine, Off, WorkerPCs
<1>5. faults \in [all : 0..MaxFaults, server : 0..MaxFaults, apart : BOOLEAN] /\ faults.server <= faults.all
  BY DEF Init
<1>6. RowOK /\ JobOK
  BY DEF Init, RowOK, JobOK, HasRow, NoRow
<1>7. \A c \in Calls : HandlerOK(c)
  BY DEF Init, HandlerOK, Free, OnSession, AbortPCs
<1>8. (\A w \in Workers : EngineOK(w)) /\ WaitApart
  BY DEF Init, EngineOK, Off, WaitApart
<1> QED
  BY <1>1, <1>2, <1>3, <1>4, <1>5, <1>6, <1>7, <1>8 DEF MultipartInv, TypeOK

LEMMA MultipartInvNext == MultipartInv /\ [Next]_vars => MultipartInv'
<1> SUFFICES ASSUME MultipartInv, [Next]_vars PROVE MultipartInv'
  OBVIOUS
<1>1. ServerStep
  BY ServerNext
<1>2. /\ faults' \in [all : 0..MaxFaults, server : 0..MaxFaults, apart : BOOLEAN]
      /\ faults'.server <= faults'.all
  BY FaultsNext, FaultCounted
<1>3. ASSUME NEW c \in Calls, Handler(c) \/ Kill(c) \/ CallFails(c)
      PROVE  CallsOK' /\ PhoneOK'
  <2>1. CASE Silent(c)
    <3>1. PICK h \in Call :
             /\ call' = [call EXCEPT ![c] = h]
             /\ \A pcs \in {StartPCs, CompletePCs, {"record"}, {"cleanup"}} :
                   call[c].pc \in pcs => h.pc \in pcs
      BY <2>1 DEF Silent
    <3>2. CallsOK'
      BY <1>1, <2>1, <3>1, OneHandler DEF Silent, CallsOK
    <3>3. ASSUME NEW v \in Workers, worker[v].call # NoCall
          PROVE  call'[worker[v].call].pc \in AnswersTo(worker[v].pc)
      <4>1. /\ call[worker[v].call].pc \in AnswersTo(worker[v].pc)
            /\ worker[v].call \in Calls /\ call \in [Calls -> Call]
        BY <3>3 DEF MultipartInv, EngineOK, TypeOK, Engine
      <4> QED
        BY <3>1, <4>1 DEF AnswersTo
    <3> QED
      BY <1>1, <2>1, <3>2, <3>3, PhoneStays DEF Silent
  <2>2. CASE Answered(c)
    <3>1. call' = [call EXCEPT ![c] = Free]
      BY <2>2 DEF Answered, Delivers
    <3>2. Free \in Call
      BY MultipartAssumption DEF Free, Call, CallPCs, Answers
    <3>3. call'[c] = Free
      BY <3>1 DEF MultipartInv, TypeOK
    <3>4. CallsOK'
      BY <1>1, <3>1, <3>2, <3>3, FreeHandler, OneHandler DEF CallsOK
    <3> QED
      BY <1>1, <2>2, <3>4, AnswerReaches
  <2> QED
    BY <1>1, <1>3, <2>1, <2>2, HandlerGoesOn
<1>4. ASSUME NEW c \in Calls, CallAbort(c) PROVE CallsOK' /\ PhoneOK'
  <2>1. /\ call[c] = Free /\ HasRow
        /\ call' = [call EXCEPT ![c] = [Free EXCEPT !.pc = "abort_read"]] /\ UNCHANGED phone
    BY <1>4 DEF CallAbort, HasRow
  <2>2. [Free EXCEPT !.pc = "abort_read"] \in Call
    BY MultipartAssumption DEF Free, Call, CallPCs, Answers
  <2>3. call'[c].pc = "abort_read"
    BY <2>1 DEF MultipartInv, TypeOK, Free
  <2>4. HandlerOK(c)'
    BY <1>1, <2>1, <2>3 DEF HandlerOK, OnSession, ServerStep, Grown
  <2>5. CallsOK'
    BY <1>1, <2>1, <2>2, <2>4, OneHandler DEF CallsOK
  <2>6. ASSUME NEW v \in Workers, worker[v].call # NoCall
        PROVE  call'[worker[v].call].pc \in AnswersTo(worker[v].pc)
    <3>1. /\ call[worker[v].call].pc \in AnswersTo(worker[v].pc)
          /\ worker[v].call \in Calls /\ call \in [Calls -> Call]
      BY <2>6 DEF MultipartInv, EngineOK, TypeOK, Engine
    <3>2. "free" \notin AnswersTo(worker[v].pc)
      BY DEF AnswersTo, StartPCs, CompletePCs, OnSession
    <3> QED
      BY <2>1, <3>1, <3>2 DEF Free
  <2> QED
    BY <1>1, <2>1, <2>5, <2>6, PhoneStays
<1>5. ASSUME UNCHANGED vars PROVE CallsOK' /\ PhoneOK'
  <2>1. UNCHANGED call /\ UNCHANGED phone
    BY <1>5 DEF vars, phone
  <2>2. CallsOK' /\ \A v \in Workers : worker[v].call # NoCall =>
                       call'[worker[v].call].pc \in AnswersTo(worker[v].pc)
    BY <1>1, <2>1, HandlersStay
  <2> QED
    BY <1>1, <2>1, <2>2, PhoneStays
<1>6. ASSUME NEW w \in Workers,
             BeginRun(w) \/ EngineStep(w) \/ SourceUnreadable(w) \/ NetworkFails(w) \/ Stop(w)
      PROVE  CallsOK' /\ PhoneOK'
  BY <1>1, <1>6, EngineStepOK
<1>7. ASSUME Death \/ Reopen \/ Retry PROVE CallsOK' /\ PhoneOK'
  BY <1>1, <1>7, PhoneEventOK
<1>8. CallsOK' /\ PhoneOK'
  BY <1>3, <1>4, <1>5, <1>6, <1>7 DEF Next
<1> QED
  BY <1>1, <1>2, <1>8 DEF MultipartInv, TypeOK, ServerStep, ServerTypes, CallsOK, PhoneOK, PhoneTypes

\* The inductive invariant of the upload.
THEOREM MultipartInvariant == Spec => []MultipartInv
  BY MultipartInvInit, MultipartInvNext, PTL DEF Spec

\* Every reachable state is well typed, the phone's attempts within their budget.
THEOREM TypeCorrect == Spec => []TypeOK
<1>1. MultipartInv => TypeOK
  BY DEF MultipartInv
<1> QED
  BY <1>1, MultipartInvariant, PTL

\* What the phone shows as uploaded is verified and its copy settled, whichever of
\* its engines wrote the job last.
THEOREM PhoneBelieves == Spec => []PhoneBelievesServer
<1>1. MultipartInv => PhoneBelievesServer
  BY DEF MultipartInv, JobOK, PhoneBelievesServer
<1> QED
  BY <1>1, MultipartInvariant, PTL

----------------------------------------------------------------------------
(* The row and its session.  A start holds a session that is nobody else's,  *)
(* so that only the abort route, and a start that has inserted the row        *)
(* without knowing it, take the row's session away.                         *)

InCharge == {"start_insert", "start_discard", "start_undo"}

\* Handler c holds session s.
Holds(c, s) == call[c].session = s /\ call[c].pc \in InCharge

HeldApart ==
    /\ \A s \in Sessions, c \in Calls :
          Holds(c, s) =>
             /\ r2[s].st # "none"
             /\ call[c].pc = "start_insert" => r2[s].st = "open"
             /\ s = row.session => call[c].pc = "start_undo" /\ faults.apart
    /\ \A s \in Sessions, c, d \in Calls : Holds(c, s) /\ Holds(d, s) => c = d
    /\ HasRow => r2[row.session].st # "none"

GoneIsTold ==
    HasRow /\ SessionGone /\ row.st # "aborted" =>
       faults.apart \/ \E c \in Calls : At(c, "abort_mark")

ApartInv == HeldApart /\ GoneIsTold

\* The step of handler c closes no session but the row's or its own.
OthersOpen(c) ==
    \A s \in Sessions : r2[s].st = "open" => r2'[s].st = "open" \/ s = row.session \/ Holds(c, s)

LEMMA BefallsApart ==
    ASSUME NEW kind, NEW apart, Befalls(kind, apart)
    PROVE  faults'.apart = (faults.apart \/ apart)
  BY Zenon DEF Befalls

LEMMA FaultsKept ==
    ASSUME [Next]_vars
    PROVE  faults.apart => faults'.apart
<1>1. AnyFault \/ UNCHANGED faults
  BY FaultsNext
<1> QED
  BY <1>1, BefallsApart, Zenon DEF AnyFault

LEMMA RowSession ==
    ASSUME MultipartInv
    PROVE  /\ HasRow => row.session \in Sessions
           /\ ~HasRow => row.session \notin Sessions
  BY MultipartAssumption DEF MultipartInv, RowOK, HasRow, NoRow

\* No handler moves, and R2 only stores parts.
LEMMA ApartQuiet ==
    ASSUME MultipartInv, ApartInv, faults.apart => faults'.apart, UNCHANGED <<row, call>>,
           \A s \in Sessions : r2'[s].st = r2[s].st
    PROVE  ApartInv'
<1>1. HeldApart'
  BY RowSession DEF ApartInv, HeldApart, Holds, HasRow
<1>2. GoneIsTold'
  BY RowSession DEF ApartInv, GoneIsTold, SessionGone, HasRow, At
<1> QED
  BY <1>1, <1>2 DEF ApartInv

\* One handler moves and no row is inserted.
LEMMA ApartMoves ==
    ASSUME MultipartInv, ServerStep, ApartInv, faults.apart => faults'.apart,
           NEW c \in Calls, NEW h, call' = [call EXCEPT ![c] = h],
           HasRow' => HasRow,
           \A s \in Sessions : r2[s].st # "none" => r2'[s].st # "none",
           OthersOpen(c),
           h.pc = "start_insert" => r2'[h.session].st = "open",
           \A s \in Sessions : h.session = s /\ h.pc \in InCharge =>
              \/ Holds(c, s) /\ (s = row.session => h.pc = "start_undo")
              \/ r2[s].st = "none" /\ r2'[s].st # "none",
           HasRow /\ SessionGone' /\ row'.st # "aborted" =>
              \/ faults'.apart
              \/ h.pc = "abort_mark"
              \/ SessionGone /\ row.st # "aborted" /\ call[c].pc # "abort_mark"
    PROVE  ApartInv'
<1>0. /\ call'[c] = h /\ \A d \in Calls \ {c} : call'[d] = call[d]
      /\ HasRow <=> HasRow'
      /\ HasRow => row'.session = row.session /\ row.session \in Sessions
      /\ ~HasRow' => row'.session \notin Sessions
  BY RowSession, MultipartAssumption
     DEF MultipartInv, TypeOK, ServerStep, Grown, HasRow, NoRow
<1>1. ASSUME NEW s \in Sessions, NEW d \in Calls, Holds(d, s)'
      PROVE  \/ Holds(d, s) /\ (d = c /\ s = row.session => call'[d].pc = "start_undo")
             \/ d = c /\ r2[s].st = "none" /\ r2'[s].st # "none"
  BY <1>0, <1>1 DEF Holds
<1>2. ASSUME NEW s \in Sessions, r2[s].st = "none"
      PROVE  (\A d \in Calls : ~Holds(d, s)) /\ s # row'.session
  BY <1>0, <1>2 DEF ApartInv, HeldApart
<1>3. HeldApart'
  <2>1. ASSUME NEW s \in Sessions, NEW d \in Calls, Holds(d, s)'
        PROVE  r2'[s].st # "none" /\ (s = row'.session => call'[d].pc = "start_undo" /\ faults'.apart)
    <3>1. CASE Holds(d, s) /\ (d = c /\ s = row.session => call'[d].pc = "start_undo")
      BY <1>0, <2>1, <3>1 DEF ApartInv, HeldApart
    <3>2. CASE d = c /\ r2[s].st = "none" /\ r2'[s].st # "none"
      BY <1>2, <3>2
    <3> QED
      BY <1>1, <2>1, <3>1, <3>2
  <2>4. ASSUME NEW s \in Sessions, NEW d \in Calls, Holds(d, s)', call'[d].pc = "start_insert"
        PROVE  r2'[s].st = "open"
    <3>1. CASE d = c
      BY <1>0, <2>4, <3>1 DEF Holds
    <3>2. CASE d # c
      <4>1. Holds(d, s) /\ call[d].pc = "start_insert"
        BY <1>0, <2>4, <3>2 DEF Holds
      <4>2. r2[s].st = "open" /\ s # row.session /\ ~Holds(c, s)
        BY <3>2, <4>1 DEF ApartInv, HeldApart
      <4> QED
        BY <4>2 DEF OthersOpen
    <3> QED
      BY <3>1, <3>2
  <2>2. \A s \in Sessions, d, e \in Calls : Holds(d, s)' /\ Holds(e, s)' => d = e
    BY <1>1, <1>2 DEF ApartInv, HeldApart
  <2>3. HasRow' => r2'[row'.session].st # "none"
    BY <1>0 DEF ApartInv, HeldApart
  <2> QED
    BY <2>1, <2>2, <2>3, <2>4 DEF HeldApart
<1>4. GoneIsTold'
  <2> SUFFICES ASSUME HasRow', SessionGone', row'.st # "aborted"
               PROVE  faults'.apart \/ \E d \in Calls : At(d, "abort_mark")'
    BY DEF GoneIsTold
  <2>1. CASE h.pc = "abort_mark"
    BY <1>0, <2>1 DEF At
  <2>2. CASE SessionGone /\ row.st # "aborted" /\ call[c].pc # "abort_mark"
    <3>1. faults.apart \/ \E d \in Calls : At(d, "abort_mark")
      BY <1>0, <2>2 DEF ApartInv, GoneIsTold
    <3> QED
      BY <1>0, <2>2, <3>1 DEF At
  <2> QED
    BY <1>0, <2>1, <2>2
<1> QED
  BY <1>3, <1>4 DEF ApartInv

LEMMA ApartHandler ==
    ASSUME MultipartInv, ServerStep, ApartInv, faults.apart => faults'.apart,
           NEW c \in Calls, Handler(c) \/ Kill(c) \/ CallFails(c)
    PROVE  ApartInv'
<1> USE DEF At
<1>0. /\ call \in [Calls -> Call] /\ call[c] \in Call /\ HandlerOK(c) /\ RowOK
      /\ row \in Row /\ r2 \in [Sessions -> R2Session] /\ NoSession \notin Sessions
  BY MultipartAssumption DEF MultipartInv, TypeOK
<1> USE <1>0
<1>1. \A answer : Answer(c, answer) \/ Delivers(c, answer) => call' = [call EXCEPT ![c] = Free]
  BY DEF Answer, Delivers
<1>2. Free.pc \notin InCharge /\ Free.pc # "abort_mark"
  BY DEF Free, InCharge
\* A handler that holds nothing goes on, and R2 aborts nothing.
<1>3. ASSUME NEW h, call' = [call EXCEPT ![c] = h], h.pc \notin InCharge, HasRow' => HasRow,
             \A s \in Sessions : r2[s].st # "none" => r2'[s].st # "none",
             OthersOpen(c),
             HasRow /\ SessionGone' => SessionGone,
             HasRow /\ SessionGone' /\ row'.st # "aborted" => row.st # "aborted",
             call[c].pc # "abort_mark" \/ row'.st = "aborted" \/ faults'.apart \/ ~SessionGone'
      PROVE  ApartInv'
  <2>1. h.pc # "start_insert"
    BY <1>3 DEF InCharge
  <2> QED
    BY <1>3, <2>1, ApartMoves
<1>4. ASSUME UNCHANGED server, NEW h, call' = [call EXCEPT ![c] = h], h.pc \notin InCharge,
             call[c].pc # "abort_mark" \/ faults'.apart
      PROVE  ApartInv'
  <2>1. UNCHANGED <<row, r2>>
    BY <1>4 DEF server
  <2> QED
    BY <1>3, <1>4, <2>1 DEF SessionGone, HasRow, OthersOpen
<1>5. CASE Kill(c) \/ CallFails(c)
  <2>1. UNCHANGED server /\ call' = [call EXCEPT ![c] = Free]
    BY <1>1, <1>5 DEF Kill, CallFails
  <2>2. \E kind : Befalls(kind, At(c, "abort_mark"))
    BY <1>5, Zenon DEF Kill, CallFails
  <2>3. call[c].pc # "abort_mark" \/ faults'.apart
    <3>1. PICK kind : Befalls(kind, At(c, "abort_mark"))
      BY <2>2
    <3>2. PICK apart : apart = At(c, "abort_mark")
      OBVIOUS
    <3>3. Befalls(kind, apart)
      BY <3>1, <3>2
    <3>4. faults'.apart = (faults.apart \/ apart)
      BY <3>3, BefallsApart
    <3> QED
      BY <3>2, <3>4, Zenon DEF At
  <2> QED
    BY <1>2, <1>4, <2>1, <2>3
<1>8. ASSUME NEW answer, Fails(c, answer)
      PROVE  \E h : call' = [call EXCEPT ![c] = h] /\ h.pc \notin InCharge
  <2> DEFINE g == [call[c] EXCEPT !.pc = "complete_error", !.answer = answer]
  <2>1. g.pc \notin InCharge /\ call' = [call EXCEPT ![c] = g]
    BY <1>8 DEF Fails, Call, InCharge
  <2> HIDE DEF g
  <2> QED
    BY <2>1
<1>18. \A pc \in CallPCs : CallTo(c, pc) =>
          \E h : call' = [call EXCEPT ![c] = h] /\ h.pc = pc /\ h.session = call[c].session
  <2> SUFFICES ASSUME NEW pc \in CallPCs, CallTo(c, pc)
               PROVE  \E h : call' = [call EXCEPT ![c] = h] /\ h.pc = pc /\ h.session = call[c].session
    OBVIOUS
  <2> DEFINE g == [call[c] EXCEPT !.pc = pc]
  <2>1. g.session = call[c].session /\ g.pc = pc /\ call' = [call EXCEPT ![c] = g]
    BY DEF Call, CallTo
  <2> HIDE DEF g
  <2> QED
    BY <2>1
<1>6. CASE StartFind(c) \/ CompleteHead(c) \/ CompleteRehead(c) \/ AbortRead(c)
  <2>1. \E h : call' = [call EXCEPT ![c] = h] /\ h.pc \notin InCharge
    <3>1. CASE call' = [call EXCEPT ![c] = Free]
      BY <1>2, <3>1
    <3>2. CASE \E pc \in {"start_create", "complete_verify", "complete_r2"} : CallTo(c, pc)
      BY <1>18, <3>2 DEF CallPCs, InCharge
    <3>3. CASE call' = [call EXCEPT ![c].pc = "abort_r2", ![c].session = row.session]
      <4> DEFINE g == [call[c] EXCEPT !.pc = "abort_r2", !.session = row.session]
      <4>1. g.pc \notin InCharge /\ call' = [call EXCEPT ![c] = g]
        BY <3>3 DEF Call, InCharge
      <4> HIDE DEF g
      <4> QED
        BY <4>1
    <3> QED
      BY <1>1, <1>6, <1>8, <3>1, <3>2, <3>3 DEF StartFind, CompleteHead, CompleteRehead, AbortRead
  <2>2. UNCHANGED server /\ call[c].pc # "abort_mark"
    BY <1>6 DEF StartFind, CompleteHead, CompleteRehead, AbortRead
  <2> QED
    BY <1>4, <2>1, <2>2
<1>7. ASSUME NEW pc \in CallPCs \ (InCharge \cup {"abort_mark"}), call[c].pc = pc, UNCHANGED r2,
             row'.st = row.st \/ (row.st # "aborted" /\ HasRow) \/ ~SessionGone', HasRow' => HasRow,
             NEW h, call' = [call EXCEPT ![c] = h], h.pc \notin InCharge
      PROVE  ApartInv'
  <2>1. HasRow => row'.session = row.session
    BY DEF ServerStep, Grown
  <2> QED
    BY <1>3, <1>7, <2>1 DEF SessionGone, OthersOpen
<1>9. CASE RecordPart(c) \/ ReportCleanup(c) \/ CompleteError(c)
  <2>1. UNCHANGED r2 /\ call' = [call EXCEPT ![c] = Free]
    BY <1>1, <1>9 DEF RecordPart, ReportCleanup, CompleteError
  <2>2. row'.st = row.st \/ row.st = "completing"
    BY <1>9 DEF RecordPart, ReportCleanup, CompleteError, Row
  <2>3. HasRow' => HasRow
    <3>1. ~HasRow => row.st = "none" /\ row.cleaned = FALSE
      BY DEF HasRow, NoRow
    <3>2. ~HasRow => row' = row
      BY <1>9, <3>1 DEF RecordPart, ReportCleanup, CompleteError, Row
    <3> QED
      BY <3>2 DEF HasRow
  <2>4. row.st = "completing" => HasRow /\ row.st # "aborted"
    BY DEF HasRow, NoRow
  <2>5. call[c].pc \in {"record", "cleanup", "complete_error"}
    BY <1>9 DEF RecordPart, ReportCleanup, CompleteError
  <2> QED
    BY <1>2, <1>7, <2>1, <2>2, <2>3, <2>4, <2>5 DEF CallPCs, InCharge
<1>10. CASE CompleteBegin(c)
  <2>1. UNCHANGED r2 /\ call[c].pc = "complete_begin"
    BY <1>10 DEF CompleteBegin
  <2>2. row' = row \/ (row.st \in {"uploading", "completing"} /\ HasRow)
    BY <1>10 DEF CompleteBegin, Completable, HasRow, NoRow
  <2>3. \E h : call' = [call EXCEPT ![c] = h] /\ h.pc \notin InCharge
    <3> DEFINE g == [call[c] EXCEPT !.pc = "complete_head", !.session = row.session]
    <3>1. g.pc \notin InCharge
      BY DEF Call, InCharge
    <3>2. call' = [call EXCEPT ![c] = g] \/ Fails(c, "conflict") \/ Fails(c, "error")
      BY <1>10 DEF CompleteBegin
    <3> HIDE DEF g
    <3> QED
      BY <1>8, <3>1, <3>2
  <2> QED
    BY <1>7, <2>1, <2>2, <2>3 DEF HasRow, CallPCs, InCharge
<1>11. CASE CompleteVerify(c)
  <2>1. UNCHANGED r2 /\ HasRow /\ ~SessionGone'
    BY <1>11 DEF CompleteVerify, HandlerOK, OnSession, SessionGone, ServerStep, Grown
  <2>2. call[c].pc = "complete_verify"
    BY <1>11 DEF CompleteVerify
  <2>3. \E h : call' = [call EXCEPT ![c] = h] /\ h.pc \notin InCharge
    BY <1>1, <1>2, <1>8, <1>11 DEF CompleteVerify
  <2> QED
    BY <1>7, <2>1, <2>2, <2>3 DEF CallPCs, InCharge
<1>12. CASE CompleteR2(c)
  <2>1. UNCHANGED row /\ call[c].pc = "complete_r2"
    BY <1>12 DEF CompleteR2
  <2>2. \E h : call' = [call EXCEPT ![c] = h] /\ h.pc \notin InCharge
    <3> DEFINE g == [call[c] EXCEPT !.pc = "complete_rehead"]
    <3>1. g.pc \notin InCharge
      BY DEF Call, InCharge
    <3>2. call' = [call EXCEPT ![c] = g] \/ Fails(c, "error")
      BY <1>12 DEF CompleteR2, CallTo
    <3> HIDE DEF g
    <3> QED
      BY <1>8, <3>1, <3>2
  <2>3. \A s \in Sessions : r2'[s].st \in {r2[s].st, "object"}
    BY <1>12 DEF CompleteR2, R2Session
  <2>5. OthersOpen(c)
    BY <1>12 DEF CompleteR2, OthersOpen, HandlerOK, OnSession
  <2>4. HasRow /\ SessionGone' => SessionGone
    BY <2>1, <2>3, RowSession DEF SessionGone
  <2> QED
    BY <1>3, <2>1, <2>2, <2>3, <2>4, <2>5 DEF HasRow
<1>13. CASE AbortMark(c)
  <2>1. UNCHANGED r2 /\ HasRow /\ call' = [call EXCEPT ![c] = Free]
    BY <1>1, <1>13 DEF AbortMark, HandlerOK, AbortPCs
  <2>2. row'.st = "aborted" \/ (row.st = "verified" /\ row' = row)
    BY <1>13 DEF AbortMark, Row
  <2>3. row.st = "verified" => ~SessionGone
    BY DEF RowOK, SessionGone
  <2>4. SessionGone' = SessionGone /\ OthersOpen(c)
    BY <2>1 DEF ServerStep, Grown, SessionGone, OthersOpen
  <2> QED
    BY <1>2, <1>3, <2>1, <2>2, <2>3, <2>4
<1>14. CASE AbortR2(c)
  <2>1. UNCHANGED row /\ HasRow /\ call[c].session = row.session /\ row.session \in Sessions
    BY <1>14 DEF AbortR2, HandlerOK, AbortPCs, RowOK
  <2>6. OthersOpen(c)
    BY <1>14, <2>1 DEF AbortR2, Discarded, OthersOpen
  <2>2. CASE Fault("r2") /\ UNCHANGED r2 /\ Delivers(c, "error")
    BY <1>1, <1>2, <1>4, <1>14, <2>1, <2>2 DEF AbortR2, server
  <2>3. \A s \in Sessions : r2[s].st # "none" => r2'[s].st # "none"
    BY <1>14, <2>1 DEF AbortR2, Discarded
  <2>4. CASE CallTo(c, "abort_mark")
    <3> DEFINE g == [call[c] EXCEPT !.pc = "abort_mark"]
    <3>1. g.pc = "abort_mark" /\ g.pc \notin InCharge /\ call' = [call EXCEPT ![c] = g]
      BY <2>4 DEF Call, InCharge, CallTo
    <3> HIDE DEF g
    <3>2. g.pc # "start_insert"
      BY <3>1 DEF InCharge
    <3> QED
      BY <2>1, <2>3, <2>6, <3>1, <3>2, ApartMoves
  <2>5. CASE FaultApart("r2") /\ Delivers(c, "error")
    <3>1. faults'.apart
      BY <2>5, BefallsApart DEF FaultApart
    <3> QED
      BY <1>1, <1>2, <2>1, <2>3, <2>5, <2>6, <3>1, ApartMoves DEF InCharge
  <2> QED
    BY <1>14, <2>2, <2>4, <2>5 DEF AbortR2
<1>15. CASE StartCreate(c)
  <2>1. PICK s \in Sessions :
           /\ r2[s].st = "none"
           /\ \/ /\ r2' = Opened(s)
                 /\ call' = [call EXCEPT ![c].pc = "start_insert", ![c].session = s]
              \/ r2' \in {r2, Opened(s)} /\ CallTo(c, "start_undo")
    BY <1>15 DEF StartCreate
  <2>2. UNCHANGED row /\ call[c].pc = "start_create"
    BY <1>15 DEF StartCreate
  <2>3. /\ \A t \in Sessions : r2[t].st # "none" => r2'[t].st # "none"
        /\ \A t \in Sessions : r2'[t].st = "gone" => r2[t].st = "gone"
    BY <2>1 DEF Opened, R2Session
  <2>4. HasRow /\ SessionGone' => SessionGone
    BY <2>2, <2>3, RowSession DEF SessionGone
  <2>7. OthersOpen(c) /\ (HasRow' => HasRow)
    BY <2>1, <2>2 DEF Opened, OthersOpen, HasRow
  <2>8. HasRow /\ SessionGone' /\ row'.st # "aborted" =>
           SessionGone /\ row.st # "aborted" /\ call[c].pc # "abort_mark"
    BY <2>2, <2>4
  <2>5. CASE /\ r2' = Opened(s)
             /\ call' = [call EXCEPT ![c].pc = "start_insert", ![c].session = s]
    <3> DEFINE g == [call[c] EXCEPT !.pc = "start_insert", !.session = s]
    <3>1. g.session = s /\ call' = [call EXCEPT ![c] = g]
      BY <2>5 DEF Call
    <3>2. r2'[s].st = "open"
      BY <2>5 DEF Opened, R2Session
    <3> HIDE DEF g
    <3>3. \A t \in Sessions : g.session = t /\ g.pc \in InCharge =>
             r2[t].st = "none" /\ r2'[t].st # "none"
      BY <2>1, <3>1, <3>2
    <3> QED
      BY <2>3, <2>7, <2>8, <3>1, <3>2, <3>3, ApartMoves
  <2>6. CASE CallTo(c, "start_undo")
    <3> DEFINE g == [call[c] EXCEPT !.pc = "start_undo"]
    <3>1. /\ g.session = call[c].session /\ g.pc # "start_insert"
          /\ call' = [call EXCEPT ![c] = g]
      BY <2>6 DEF Call, CallTo
    <3>2. call[c].session \notin Sessions
      BY <2>2 DEF HandlerOK
    <3> HIDE DEF g
    <3>3. \A t \in Sessions : g.session # t
      BY <3>1, <3>2
    <3>4. HasRow /\ SessionGone' /\ row'.st # "aborted" =>
             faults'.apart \/ g.pc = "abort_mark"
               \/ (SessionGone /\ row.st # "aborted" /\ call[c].pc # "abort_mark")
      BY <2>8
    <3> QED
      BY <2>3, <2>7, <3>1, <3>3, <3>4, ApartMoves
  <2> QED
    BY <2>1, <2>5, <2>6
\* A start goes on with its session, or lets it go.
<1>16. ASSUME NEW h, call' = [call EXCEPT ![c] = h], UNCHANGED row,
              h.pc \notin InCharge \/ h.session = NoSession
                 \/ (h.session = call[c].session /\ call[c].pc \in InCharge /\ h.pc = "start_undo"),
              h.pc # "start_insert", call[c].pc # "abort_mark", OthersOpen(c),
              \A t \in Sessions : r2[t].st # "none" => r2'[t].st # "none",
              HasRow /\ SessionGone' => SessionGone \/ faults'.apart
       PROVE  ApartInv'
  <2>1. HasRow' => HasRow
    BY <1>16 DEF HasRow
  <2>2. \A s \in Sessions : h.session = s /\ h.pc \in InCharge =>
           Holds(c, s) /\ h.pc = "start_undo"
    BY <1>16 DEF Holds
  <2>3. HasRow /\ SessionGone' /\ row'.st # "aborted" =>
           faults'.apart \/ (SessionGone /\ row.st # "aborted" /\ call[c].pc # "abort_mark")
    BY <1>16
  <2> QED
    BY <1>16, <2>1, <2>2, <2>3, ApartMoves
<1>17. ASSUME NEW s \in Sessions, r2' = Discarded(s)
       PROVE  /\ \A t \in Sessions : r2[t].st # "none" => r2'[t].st # "none"
              /\ Holds(c, s) => OthersOpen(c)
              /\ UNCHANGED row /\ HasRow /\ SessionGone' => SessionGone \/ s = row.session
  BY <1>17, RowSession DEF Discarded, SessionGone, OthersOpen
<1>19. CASE StartDiscard(c)
  <2>1. PICK s \in Sessions : s = call[c].session
    BY <1>19 DEF StartDiscard, HandlerOK
  <2>2. UNCHANGED row /\ call[c].pc = "start_discard" /\ (UNCHANGED r2 \/ r2' = Discarded(s))
    BY <1>19, <2>1 DEF StartDiscard
  <2>3. s # row.session /\ Holds(c, s)
    BY <2>1, <2>2 DEF ApartInv, HeldApart, Holds, InCharge
  <2>4. /\ OthersOpen(c)
        /\ \A t \in Sessions : r2[t].st # "none" => r2'[t].st # "none"
        /\ HasRow /\ SessionGone' => SessionGone
    BY <1>17, <2>2, <2>3 DEF SessionGone, OthersOpen
  <2>5. \E h : /\ call' = [call EXCEPT ![c] = h]
               /\ h.pc # "start_insert"
               /\ h.pc \notin InCharge \/ (h.pc = "start_undo" /\ h.session = call[c].session)
    BY <1>1, <1>2, <1>18, <1>19 DEF StartDiscard, CallPCs, InCharge
  <2> QED
    BY <1>16, <2>2, <2>4, <2>5 DEF InCharge
<1>20. CASE StartUndo(c)
  <2>1. UNCHANGED row /\ call[c].pc = "start_undo"
    BY <1>20 DEF StartUndo
  <2>2. \E h : /\ call' = [call EXCEPT ![c] = h]
               /\ h.pc # "start_insert"
               /\ h.pc \notin InCharge \/ h.session = NoSession
    <3>1. CASE call' = [call EXCEPT ![c].session = NoSession]
      <4> DEFINE g == [call[c] EXCEPT !.session = NoSession]
      <4>1. g.session = NoSession /\ g.pc # "start_insert" /\ call' = [call EXCEPT ![c] = g]
        BY <2>1, <3>1 DEF Call
      <4> HIDE DEF g
      <4> QED
        BY <4>1
    <3> QED
      BY <1>1, <1>2, <1>20, <3>1 DEF StartUndo, InCharge
  <2>3. CASE UNCHANGED r2
    BY <1>16, <2>1, <2>2, <2>3 DEF SessionGone, OthersOpen
  <2>4. CASE call[c].session # NoSession /\ r2' = Discarded(call[c].session)
    <3>1. PICK s \in Sessions : s = call[c].session
      BY <2>4 DEF Call
    <3>2. s = row.session => faults'.apart
      BY <2>1, <3>1 DEF ApartInv, HeldApart, Holds, InCharge
    <3>3. /\ \A t \in Sessions : r2[t].st # "none" => r2'[t].st # "none"
          /\ HasRow /\ SessionGone' => SessionGone \/ faults'.apart
          /\ OthersOpen(c)
      BY <1>17, <2>1, <2>4, <3>1, <3>2 DEF Holds, InCharge
    <3> QED
      BY <1>16, <2>1, <2>2, <3>3
  <2> QED
    BY <1>20, <2>3, <2>4 DEF StartUndo
<1>21. CASE StartInsert(c)
  <2>1. UNCHANGED r2 /\ call[c].pc = "start_insert"
    BY <1>21 DEF StartInsert
  <2>2. PICK s \in Sessions : s = call[c].session
    BY <2>1 DEF HandlerOK
  <2>3. Holds(c, s)
    BY <2>1, <2>2 DEF Holds, InCharge
  <2>4. CASE UNCHANGED row
    <3>1. s # row.session
      BY <2>1, <2>3 DEF ApartInv, HeldApart
    <3>2. PICK h : /\ call' = [call EXCEPT ![c] = h]
                   /\ h.pc # "start_insert"
                   /\ h.pc \notin InCharge \/ h.session = s
      BY <1>1, <1>2, <1>18, <1>21, <2>2 DEF StartInsert, CallPCs, InCharge
    <3>3. (HasRow /\ SessionGone' => SessionGone) /\ OthersOpen(c)
      BY <2>1, <2>4 DEF SessionGone, OthersOpen
    <3>4. HasRow' => HasRow
      BY <2>4 DEF HasRow
    <3> QED
      BY <2>1, <2>3, <2>4, <3>1, <3>2, <3>3, <3>4, ApartMoves
  <2>5. CASE row = NoRow /\ row' = NewRow(s)
    <3>1. r2[s].st = "open" /\ \A d \in Calls : Holds(d, s) => d = c
      BY <2>1, <2>3 DEF ApartInv, HeldApart
    <3>2. \E h : /\ call' = [call EXCEPT ![c] = h]
                 /\ h.pc \notin InCharge \/ (h.pc = "start_undo" /\ h.session = s /\ faults'.apart)
      <4>1. row' # row
        BY <2>5 DEF NewRow, NoRow
      <4>2. Answer(c, "ok") \/ (FaultApart("db") /\ CallTo(c, "start_undo"))
        BY <1>21, <2>5, <4>1 DEF StartInsert
      <4>3. FaultApart("db") => faults'.apart
        BY BefallsApart DEF FaultApart
      <4>4. CallTo(c, "start_undo") =>
               \E h : /\ call' = [call EXCEPT ![c] = h]
                     /\ h.pc = "start_undo" /\ h.session = s
        BY <1>18, <2>2 DEF CallPCs
      <4> QED
        BY <1>1, <1>2, <4>2, <4>3, <4>4
    <3>3. PICK h : /\ call' = [call EXCEPT ![c] = h]
                   /\ h.pc \notin InCharge \/ (h.pc = "start_undo" /\ h.session = s /\ faults'.apart)
      BY <3>2
    <3>4. /\ call'[c] = h /\ \A d \in Calls \ {c} : call'[d] = call[d]
          /\ row'.session = s /\ row'.st = "uploading"
      BY <2>5, <3>3 DEF NewRow
    <3>5. \A d \in Calls, t \in Sessions : Holds(d, t)' => Holds(d, t)
      BY <2>3, <3>3, <3>4 DEF Holds
    <3>6. HeldApart'
      BY <2>1, <3>1, <3>3, <3>4, <3>5 DEF ApartInv, HeldApart, Holds
    <3>7. GoneIsTold'
      BY <2>1, <3>1, <3>4 DEF GoneIsTold, SessionGone
    <3> QED
      BY <3>6, <3>7 DEF ApartInv
  <2> QED
    BY <1>21, <2>2, <2>4, <2>5 DEF StartInsert
<1> QED
  BY <1>5, <1>6, <1>9, <1>10, <1>11, <1>12, <1>13, <1>14, <1>15, <1>19, <1>20, <1>21 DEF Handler

LEMMA ApartNext ==
    ASSUME MultipartInv, ApartInv, [Next]_vars
    PROVE  ApartInv'
<1>0. ServerStep /\ (faults.apart => faults'.apart)
  BY ServerNext, FaultsKept
<1>1. ASSUME NEW c \in Calls, Handler(c) \/ Kill(c) \/ CallFails(c) PROVE ApartInv'
  BY <1>0, <1>1, ApartHandler
\* A handler takes a free place.
<1>2. ASSUME NEW c \in Calls, call[c] = Free, NEW h, call' = [call EXCEPT ![c] = h],
             h.pc \notin InCharge, UNCHANGED <<row, r2>>
      PROVE  ApartInv'
  <2>1. /\ HasRow' = HasRow /\ SessionGone' = SessionGone
        /\ call[c].pc # "abort_mark" /\ h.pc # "start_insert" /\ OthersOpen(c)
    BY <1>2 DEF Free, HasRow, SessionGone, OthersOpen, InCharge
  <2> QED
    BY <1>0, <1>2, <2>1, ApartMoves
<1>3. ASSUME NEW c \in Calls, CallAbort(c) PROVE ApartInv'
  <2> DEFINE g == [Free EXCEPT !.pc = "abort_read"]
  <2>1. g.pc \notin InCharge
    BY DEF Free, InCharge
  <2>2. call[c] = Free /\ call' = [call EXCEPT ![c] = g] /\ UNCHANGED <<row, r2>>
    BY <1>3 DEF CallAbort, server
  <2> HIDE DEF g
  <2> QED
    BY <1>2, <2>1, <2>2
<1>4. ASSUME NEW w \in Workers, Start(w) \/ Record(w) \/ Complete(w) \/ ConfirmCleanup(w)
      PROVE  ApartInv'
  <2>4. PICK c \in Calls, first \in {"start_find", "record", "complete_begin", "cleanup"} :
           /\ call[c] = Free
           /\ \E part : call' = [call EXCEPT ![c] = [Free EXCEPT !.pc = first, !.part = part]]
    BY <1>4 DEF Start, Record, Complete, ConfirmCleanup, CallServer
  <2>1. PICK part : call' = [call EXCEPT ![c] = [Free EXCEPT !.pc = first, !.part = part]]
    BY <2>4
  <2>2. UNCHANGED <<row, r2>>
    BY <1>4 DEF Start, Record, Complete, ConfirmCleanup, server
  <2> DEFINE g == [Free EXCEPT !.pc = first, !.part = part]
  <2>3. g.pc \notin InCharge
    BY DEF Free, InCharge
  <2> HIDE DEF g
  <2> QED
    BY <1>2, <2>1, <2>2, <2>3, <2>4 DEF g
<1>5. ASSUME NEW w \in Workers, PutPart(w) \/ NetworkFails(w) PROVE ApartInv'
  <2>1. UNCHANGED <<row, call>> /\ (UNCHANGED r2 \/ r2' = PartStored(worker[w].part))
    BY <1>5 DEF PutPart, NetworkFails
  <2>2. \A s \in Sessions : r2'[s].st = r2[s].st
    BY <2>1 DEF PartStored, MultipartInv, TypeOK, R2Session
  <2> QED
    BY <1>0, <2>1, <2>2, ApartQuiet
<1>6. ASSUME UNCHANGED <<row, r2, call>> PROVE ApartInv'
  BY <1>0, <1>6, ApartQuiet
<1>7. ASSUME NEW w \in Workers,
             \/ BeginRun(w) \/ StopRequested(w) \/ OpenSource(w) \/ Status(w) \/ PartUrl(w)
             \/ SourceUnreadable(w) \/ Stop(w)
      PROVE  ApartInv'
  BY <1>6, <1>7
     DEF BeginRun, StopRequested, OpenSource, Status, PartUrl, SourceUnreadable, Stop, server
<1>8. ASSUME Death \/ Reopen \/ Retry \/ UNCHANGED vars PROVE ApartInv'
  BY <1>6, <1>8 DEF Death, Reopen, Retry, vars, server
<1> QED
  BY <1>1, <1>3, <1>4, <1>5, <1>7, <1>8 DEF Next, EngineStep

\* Whatever handlers overlap, are lost or killed: a verified row has its object, R2 has
\* every part of the ledger until it aborts the session, and a row that still takes parts
\* of an aborted one is about to be marked, or a fault left the two apart.
THEOREM RowTrue == Spec => []RowIsTrueOfR2
<1>1. Init => ApartInv
  BY MultipartAssumption
     DEF Init, ApartInv, HeldApart, GoneIsTold, Holds, Free, InCharge, HasRow, NoRow
<1>2. MultipartInv /\ ApartInv /\ [Next]_vars => ApartInv'
  BY ApartNext
<1>3. MultipartInv /\ ApartInv => RowIsTrueOfR2
  BY DEF MultipartInv, RowOK, Stored, ApartInv, GoneIsTold, RowIsTrueOfR2, HasRow
<1> QED
  BY <1>1, <1>2, <1>3, MultipartInvariant, PTL DEF Spec

----------------------------------------------------------------------------
(* Orphans.  A session is in charge of the row that owns it or of a start     *)
(* that still holds it; a handler lets go of its session by handing it to the *)
(* row or by discarding it, unless R2 or the platform fails it.              *)

Kept == {"open", "object"}

LEMMA OrphansShrink ==
    ASSUME MultipartInv, ServerStep, NEW X,
           \A s \in Sessions \ X : r2'[s].st \in Kept => r2[s].st \in Kept,
           \A s \in Sessions \ X, c \in Calls :
              call[c].session = s /\ call[c].pc \in InCharge =>
                 \/ call'[c].session = s /\ call'[c].pc \in InCharge
                 \/ s = row'.session
                 \/ r2'[s].st \notin Kept
    PROVE  Orphans' \subseteq Orphans \cup X
<1> SUFFICES ASSUME NEW s \in Orphans', s \notin X PROVE s \in Orphans
  OBVIOUS
<1>1. /\ s \in Sessions /\ r2'[s].st \in Kept /\ s # row'.session
      /\ \A c \in Calls : call'[c].session = s => call'[c].pc \notin InCharge
  BY DEF Orphans, Kept, InCharge
<1>2. s # row.session
  <2>1. ~HasRow => row.session = NoSession
    BY DEF HasRow, NoRow
  <2> QED
    BY <1>1, <2>1, MultipartAssumption DEF ServerStep, Grown
<1>3. \A c \in Calls : call[c].session = s => call[c].pc \notin InCharge
  BY <1>1
<1>4. r2[s].st \in Kept
  BY <1>1
<1> QED
  BY <1>1, <1>2, <1>3, <1>4 DEF Orphans, Kept, InCharge

LEMMA OneCharge ==
    ASSUME MultipartInv, ServerStep, NEW X, NEW c \in Calls, NEW h,
           call' = [call EXCEPT ![c] = h],
           \A s \in Sessions \ X : r2'[s].st \in Kept => r2[s].st \in Kept,
           call[c].pc \in InCharge /\ call[c].session \in Sessions \ X =>
              \/ h.session = call[c].session /\ h.pc \in InCharge
              \/ call[c].session = row'.session
              \/ r2'[call[c].session].st \notin Kept
    PROVE  Orphans' \subseteq Orphans \cup X
<1>1. call \in [Calls -> Call]
  BY DEF MultipartInv, TypeOK
<1>2. ASSUME NEW s \in Sessions \ X, NEW d \in Calls, call[d].session = s, call[d].pc \in InCharge
      PROVE  \/ call'[d].session = s /\ call'[d].pc \in InCharge
             \/ s = row'.session
             \/ r2'[s].st \notin Kept
  BY <1>1, <1>2
<1> QED
  BY <1>2, OrphansShrink

\* A discarded session is gone, or it is an object, and then it is the row's.
LEMMA DiscardedGone ==
    ASSUME MultipartInv, ServerStep, NEW s \in Sessions, r2' = Discarded(s)
    PROVE  /\ r2'[s].st \notin Kept \/ s = row'.session
           /\ \A t \in Sessions : r2'[t].st \in Kept => r2[t].st \in Kept
<1>0. r2 \in [Sessions -> R2Session]
  BY DEF MultipartInv, TypeOK
<1>1. r2'[s].st = IF r2[s].st = "open" THEN "gone" ELSE r2[s].st
  BY <1>0 DEF Discarded, R2Session
<1>2. r2'[s].st = "object" => s = row'.session
  BY DEF ServerStep, RowOK
<1>3. \A t \in Sessions : t # s => r2'[t] = r2[t]
  BY <1>0 DEF Discarded
<1> QED
  BY <1>1, <1>2, <1>3 DEF Kept

\* Faults of R2 and of the platform are counted.
LEMMA ServerFaults ==
    ASSUME MultipartInv
    PROVE  /\ faults.server \in Nat
           /\ \A kind \in {"kill", "r2"}, apart \in BOOLEAN :
                 Befalls(kind, apart) => faults'.server = faults.server + 1
           /\ [Next]_vars => faults'.server \in Nat /\ faults'.server >= faults.server
<1>1. /\ faults.server \in Nat
      /\ \A kind \in {"kill", "r2"}, apart \in BOOLEAN :
            Befalls(kind, apart) => faults'.server = faults.server + 1
  BY MultipartAssumption DEF MultipartInv, TypeOK, Befalls
<1>2. ASSUME [Next]_vars
      PROVE  faults'.server \in Nat /\ faults'.server >= faults.server
  <2>1. AnyFault \/ UNCHANGED faults
    BY <1>2, FaultsNext
  <2>2. ASSUME NEW kind \in FaultKinds, NEW apart \in BOOLEAN, Befalls(kind, apart)
        PROVE  faults'.server \in {faults.server, faults.server + 1}
    BY <1>1, <2>2 DEF Befalls
  <2> QED
    BY <1>1, <2>1, <2>2 DEF AnyFault
<1> QED
  BY <1>1, <1>2

OrphanStep ==
    \/ Orphans' \subseteq Orphans
    \/ /\ faults'.server = faults.server + 1
       /\ \E s : Orphans' \subseteq Orphans \cup {s}

LEMMA HandlerOrphans ==
    ASSUME MultipartInv, ServerStep, NEW c \in Calls, Handler(c) \/ Kill(c) \/ CallFails(c)
    PROVE  OrphanStep
<1> USE DEF At
<1>0. /\ call \in [Calls -> Call] /\ call[c] \in Call /\ HandlerOK(c) /\ RowOK
      /\ r2 \in [Sessions -> R2Session] /\ NoSession \notin Sessions
  BY MultipartAssumption DEF MultipartInv, TypeOK
<1> USE <1>0
<1>1. \A answer : Answer(c, answer) \/ Delivers(c, answer) => call' = [call EXCEPT ![c] = Free]
  BY DEF Answer, Delivers
<1>2. ASSUME NEW h, call' = [call EXCEPT ![c] = h],
             \A s \in Sessions : r2'[s].st \in Kept => r2[s].st \in Kept,
             call[c].pc \in InCharge /\ call[c].session \in Sessions =>
                \/ h.session = call[c].session /\ h.pc \in InCharge
                \/ call[c].session = row'.session
                \/ r2'[call[c].session].st \notin Kept
      PROVE  OrphanStep
  <2>1. Orphans' \subseteq Orphans \cup {}
    BY <1>2, OneCharge
  <2> QED
    BY <2>1 DEF OrphanStep
\* A start goes on with its session.
<1>3. ASSUME NEW pc \in InCharge, CallTo(c, pc),
             \A s \in Sessions : r2'[s].st \in Kept => r2[s].st \in Kept
      PROVE  OrphanStep
  <2>1. call' = [call EXCEPT ![c] = [call[c] EXCEPT !.pc = pc]]
    BY <1>3 DEF CallTo
  <2>2. [call[c] EXCEPT !.pc = pc].pc = pc /\ [call[c] EXCEPT !.pc = pc].session = call[c].session
    BY DEF Call
  <2> QED
    BY <1>2, <1>3, <2>1, <2>2
\* The handler that R2 or the platform failed lets go of its session.
<1>4. ASSUME NEW kind \in {"kill", "r2"}, NEW apart \in BOOLEAN, Befalls(kind, apart), NEW h, call' = [call EXCEPT ![c] = h], NEW s,
             call[c].session \in Sessions /\ call[c].pc \in InCharge => call[c].session = s,
             \A t \in Sessions \ {s} : r2'[t].st \in Kept => r2[t].st \in Kept
      PROVE  OrphanStep
  <2>1. Orphans' \subseteq Orphans \cup {s}
    BY <1>4, OneCharge
  <2>2. faults'.server = faults.server + 1
    BY <1>4, ServerFaults
  <2> QED
    BY <2>1, <2>2 DEF OrphanStep
<1>5. CASE Kill(c)
  <2>1. /\ call' = [call EXCEPT ![c] = Free] /\ UNCHANGED r2
        /\ \E apart \in BOOLEAN : Befalls("kill", apart)
    BY <1>1, <1>5 DEF Kill, server
  <2>2. PICK s : s = call[c].session
    OBVIOUS
  <2> QED
    BY <1>4, <2>1, <2>2
<1>6. CASE CallFails(c)
  <2>1. call' = [call EXCEPT ![c] = Free] /\ UNCHANGED r2 /\ call[c].pc \notin InCharge
    BY <1>1, <1>6 DEF CallFails, server, InCharge
  <2> QED
    BY <1>2, <2>1
<1>7. CASE StartFind(c)
  <2>1. call[c].pc \notin InCharge /\ UNCHANGED r2
    BY <1>7 DEF StartFind, server, InCharge
  <2>2. \E h : call' = [call EXCEPT ![c] = h]
    BY <1>1, <1>7 DEF StartFind, CallTo
  <2> QED
    BY <1>2, <2>1, <2>2
<1>8. CASE StartCreate(c)
  <2>1. PICK s \in Sessions :
           /\ r2[s].st = "none"
           /\ \/ /\ r2' = Opened(s)
                 /\ call' = [call EXCEPT ![c].pc = "start_insert", ![c].session = s]
              \/ Fault("r2") /\ r2' \in {r2, Opened(s)} /\ CallTo(c, "start_undo")
    BY <1>8 DEF StartCreate
  <2>2. call[c].pc \notin InCharge
    BY <1>8 DEF StartCreate, InCharge
  <2>3. \A t \in Sessions \ {s} : r2'[t].st \in Kept => r2[t].st \in Kept
    BY <2>1 DEF Opened
  <2>4. CASE call' = [call EXCEPT ![c].pc = "start_insert", ![c].session = s]
    <3> DEFINE h == [call[c] EXCEPT !.pc = "start_insert", !.session = s]
    <3>1. call' = [call EXCEPT ![c] = h] /\ h.pc = "start_insert" /\ h.session = s
      BY <2>4 DEF Call
    <3>2. PICK g : g = h
      OBVIOUS
    <3>3. call' = [call EXCEPT ![c] = g]
      BY <3>1, <3>2
    <3>4. Orphans' \subseteq Orphans \cup {s}
      BY <2>2, <2>3, <3>3, OneCharge
    <3>5. call'[c].session = s /\ call'[c].pc \in InCharge
      BY <3>1 DEF InCharge
    <3>6. s \notin Orphans'
      BY <3>5 DEF Orphans, InCharge
    <3> QED
      BY <3>4, <3>6 DEF OrphanStep
  <2>5. CASE Fault("r2") /\ CallTo(c, "start_undo")
    <3>1. \E h : call' = [call EXCEPT ![c] = h]
      BY <2>5 DEF CallTo
    <3> QED
      BY <1>4, <2>2, <2>3, <2>5, <3>1 DEF Fault
  <2> QED
    BY <2>1, <2>4, <2>5
<1>9. CASE StartInsert(c)
  <2>1. UNCHANGED r2 /\ call[c].session \in Sessions
    BY <1>9 DEF StartInsert, HandlerOK
  <2>2. CASE row' = NewRow(call[c].session) /\ Answer(c, "ok")
    BY <1>1, <1>2, <2>1, <2>2 DEF NewRow
  <2>3. CASE CallTo(c, "start_discard") \/ CallTo(c, "start_undo")
    BY <1>3, <2>1, <2>3 DEF InCharge
  <2> QED
    BY <1>9, <2>2, <2>3 DEF StartInsert
<1>10. ASSUME NEW s \in Sessions, s = call[c].session, r2' = Discarded(s),
              call' = [call EXCEPT ![c] = Free]
       PROVE  OrphanStep
  BY <1>2, <1>10, DiscardedGone
<1>11. CASE StartDiscard(c)
  <2>1. PICK s \in Sessions : s = call[c].session
    BY <1>11 DEF StartDiscard, HandlerOK
  <2>2. CASE r2' = Discarded(s) /\ Answer(c, "ok")
    BY <1>1, <1>10, <2>1, <2>2
  <2>3. CASE r2' \in {r2, Discarded(s)} /\ CallTo(c, "start_undo")
    BY <1>3, <2>3, DiscardedGone DEF InCharge
  <2> QED
    BY <1>11, <2>1, <2>2, <2>3 DEF StartDiscard
<1>12. CASE StartUndo(c)
  <2>1. CASE call[c].session = NoSession /\ UNCHANGED r2 /\ Answer(c, "error")
    BY <1>1, <1>2, <2>1
  <2>2. CASE call[c].session # NoSession /\ r2' = Discarded(call[c].session) /\ Answer(c, "error")
    <3>1. PICK s \in Sessions : s = call[c].session
      BY <2>2 DEF Call
    <3> QED
      BY <1>1, <1>10, <2>2, <3>1
  <2>3. CASE Fault("r2") /\ UNCHANGED r2 /\ call' = [call EXCEPT ![c].session = NoSession]
    <3>1. PICK s : s = call[c].session
      OBVIOUS
    <3>2. \E h : call' = [call EXCEPT ![c] = h]
      BY <2>3
    <3> QED
      BY <1>4, <2>3, <3>1, <3>2 DEF Fault
  <2> QED
    BY <1>12, <2>1, <2>2, <2>3 DEF StartUndo
\* The other handlers hold no session that is not the row's.
<1>13. CASE \/ RecordPart(c) \/ CompleteBegin(c) \/ CompleteHead(c) \/ CompleteRehead(c)
            \/ CompleteVerify(c) \/ CompleteError(c) \/ ReportCleanup(c) \/ AbortRead(c) \/ AbortMark(c)
  <2>1. UNCHANGED r2
    BY <1>13 DEF RecordPart, CompleteBegin, CompleteHead, CompleteRehead, CompleteVerify,
                 CompleteError, ReportCleanup, AbortRead, AbortMark, server
  <2>2. call[c].pc \notin InCharge
    BY <1>13 DEF RecordPart, CompleteBegin, CompleteHead, CompleteRehead, CompleteVerify,
                 CompleteError, ReportCleanup, AbortRead, AbortMark, InCharge
  <2>3. \E h : call' = [call EXCEPT ![c] = h]
    BY <1>1, <1>13 DEF RecordPart, CompleteBegin, CompleteHead, CompleteRehead, CompleteVerify,
                 CompleteError, ReportCleanup, AbortRead, AbortMark, CallTo, Fails
  <2> QED
    BY <1>2, <2>1, <2>2, <2>3
<1>14. CASE CompleteR2(c)
  <2>1. call[c].pc \notin InCharge
    BY <1>14 DEF CompleteR2, InCharge
  <2>2. \A s \in Sessions : r2'[s].st \in Kept => r2[s].st \in Kept
    BY <1>14 DEF CompleteR2, Kept
  <2>3. \E h : call' = [call EXCEPT ![c] = h]
    BY <1>14 DEF CompleteR2, CallTo, Fails
  <2> QED
    BY <1>2, <2>1, <2>2, <2>3
<1>15. CASE AbortR2(c)
  <2>1. call[c].pc \notin InCharge
    BY <1>15 DEF AbortR2, InCharge
  <2>2. \A s \in Sessions : r2'[s].st \in Kept => r2[s].st \in Kept
    <3>1. call[c].session \in Sessions
      BY <1>15 DEF AbortR2, HandlerOK, AbortPCs, RowOK
    <3> QED
      BY <1>15, <3>1, DiscardedGone DEF AbortR2
  <2>3. \E h : call' = [call EXCEPT ![c] = h]
    BY <1>1, <1>15 DEF AbortR2, CallTo
  <2> QED
    BY <1>2, <2>1, <2>2, <2>3
<1> QED
  BY <1>5, <1>6, <1>7, <1>8, <1>9, <1>11, <1>12, <1>13, <1>14, <1>15 DEF Handler

LEMMA OrphansNext ==
    ASSUME MultipartInv, ServerStep, [Next]_vars
    PROVE  OrphanStep
<1>0. /\ call \in [Calls -> Call] /\ r2 \in [Sessions -> R2Session]
      /\ HasRow => row.session \in Sessions
  BY DEF MultipartInv, TypeOK, RowOK
<1>1. ASSUME NEW c \in Calls, Handler(c) \/ Kill(c) \/ CallFails(c) PROVE OrphanStep
  BY <1>1, HandlerOrphans
\* A free place is in charge of nothing.
<1>2. ASSUME NEW c \in Calls, call[c] = Free, NEW h, call' = [call EXCEPT ![c] = h], UNCHANGED r2
      PROVE  OrphanStep
  <2>1. Orphans' \subseteq Orphans \cup {}
    <3>1. call[c].pc \notin InCharge
      BY <1>2 DEF Free, InCharge
    <3> QED
      BY <1>2, <3>1, OneCharge
  <2> QED
    BY <2>1 DEF OrphanStep
<1>3. ASSUME UNCHANGED call, \A s \in Sessions : r2'[s].st \in Kept => r2[s].st \in Kept
      PROVE  OrphanStep
  <2>1. Orphans' \subseteq Orphans \cup {}
    BY <1>3, OrphansShrink
  <2> QED
    BY <2>1 DEF OrphanStep
<1>4. ASSUME NEW c \in Calls, CallAbort(c) PROVE OrphanStep
  BY <1>2, <1>4 DEF CallAbort, server
<1>5. ASSUME NEW w \in Workers, Start(w) \/ Record(w) \/ Complete(w) \/ ConfirmCleanup(w)
      PROVE  OrphanStep
  <2>1. \E c \in Calls : call[c] = Free /\ \E h : call' = [call EXCEPT ![c] = h]
    BY <1>5 DEF Start, Record, Complete, ConfirmCleanup, CallServer
  <2>2. UNCHANGED r2
    BY <1>5 DEF Start, Record, Complete, ConfirmCleanup, server
  <2> QED
    BY <1>2, <2>1, <2>2
<1>6. ASSUME NEW w \in Workers, PutPart(w) \/ NetworkFails(w) PROVE OrphanStep
  <2>1. UNCHANGED call /\ (UNCHANGED r2 \/ (worker[w].pc = "put" /\ r2' = PartStored(worker[w].part)))
    BY <1>6 DEF PutPart, NetworkFails, Ready
  <2>2. \A s \in Sessions : r2'[s].st = r2[s].st
    BY <1>0, <2>1 DEF PartStored, R2Session
  <2> QED
    BY <1>3, <2>1, <2>2
<1>7. ASSUME NEW w \in Workers,
             \/ BeginRun(w) \/ StopRequested(w) \/ OpenSource(w) \/ Status(w) \/ PartUrl(w)
             \/ SourceUnreadable(w) \/ Stop(w)
      PROVE  OrphanStep
  <2>1. UNCHANGED <<r2, call>>
    BY <1>7 DEF BeginRun, StopRequested, OpenSource, Status, PartUrl, SourceUnreadable, Stop, server
  <2> QED
    BY <1>3, <2>1
<1>8. ASSUME Death \/ Reopen \/ Retry \/ UNCHANGED vars PROVE OrphanStep
  <2>1. UNCHANGED <<r2, call>>
    BY <1>8 DEF Death, Reopen, Retry, vars, server
  <2> QED
    BY <1>3, <2>1
<1> QED
  BY <1>1, <1>4, <1>5, <1>6, <1>7, <1>8 DEF Next, EngineStep

OrphansInv == IsFiniteSet(Orphans) /\ OrphansHaveCause

LEMMA OrphansCounted ==
    ASSUME MultipartInv, OrphansInv, [Next]_vars
    PROVE  OrphansInv'
<1>1. OrphanStep
  BY ServerNext, OrphansNext
<1>2. /\ faults.server \in Nat /\ faults'.server \in Nat /\ faults'.server >= faults.server
      /\ IsFiniteSet(Orphans) /\ Cardinality(Orphans) <= faults.server
  BY ServerFaults DEF OrphansInv, OrphansHaveCause
<1>3. Cardinality(Orphans) \in Nat
  BY <1>2, FS_CardinalityType
<1>4. CASE Orphans' \subseteq Orphans
  <2>1. IsFiniteSet(Orphans') /\ Cardinality(Orphans') <= Cardinality(Orphans)
    BY <1>2, <1>4, FS_Subset
  <2>2. Cardinality(Orphans') \in Nat
    BY <2>1, FS_CardinalityType
  <2> QED
    BY <1>2, <1>3, <2>1, <2>2 DEF OrphansInv, OrphansHaveCause
<1>5. ASSUME faults'.server = faults.server + 1, NEW s, Orphans' \subseteq Orphans \cup {s}
      PROVE  OrphansInv'
  <2>1. /\ IsFiniteSet(Orphans \cup {s})
        /\ Cardinality(Orphans \cup {s}) \in {Cardinality(Orphans), Cardinality(Orphans) + 1}
    BY <1>2, FS_AddElement
  <2>2. IsFiniteSet(Orphans') /\ Cardinality(Orphans') <= Cardinality(Orphans \cup {s})
    BY <1>5, <2>1, FS_Subset
  <2>3. Cardinality(Orphans') \in Nat
    BY <2>2, FS_CardinalityType
  <2> QED
    BY <1>2, <1>3, <1>5, <2>1, <2>2, <2>3 DEF OrphansInv, OrphansHaveCause
<1> QED
  BY <1>1, <1>4, <1>5 DEF OrphanStep

\* However starts overlap, are repeated or fail, every session R2 keeps for nobody
\* is the work of an R2 call that failed or of a handler that was killed.
THEOREM OrphansCaused == Spec => []OrphansHaveCause
<1>1. Init => OrphansInv
  <2> SUFFICES ASSUME Init PROVE OrphansInv
    OBVIOUS
  <2>1. Orphans = {}
    BY DEF Init, Orphans
  <2> QED
    BY <2>1, FS_EmptySet DEF Init, OrphansInv, OrphansHaveCause
<1>2. MultipartInv /\ OrphansInv /\ [Next]_vars => OrphansInv'
  BY OrphansCounted
<1>3. OrphansInv => OrphansHaveCause
  BY DEF OrphansInv
<1> QED
  BY <1>1, <1>2, <1>3, MultipartInvariant, PTL DEF Spec
=============================================================================
