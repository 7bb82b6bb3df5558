--------------------------- MODULE DraftRunsProofs ---------------------------
(***************************************************************************)
(* Proofs about DraftRuns, for any sources, people, worlds, requests and    *)
(* limits.                                                                 *)
(*                                                                         *)
(* What a source must be counted for when it leaves RAW is known long       *)
(* before: a worker gives up with a count that never runs ahead of what     *)
(* really failed (CountsOK), and a run archives what it saw once every      *)
(* reel it made is somewhere (SeenOK, ReelsOK).  What a request put back  *)
(* waits in RAW until it is analysed, out of the cache unless its removal   *)
(* was lost, and a source is never left between the move and the removal    *)
(* but by the end of the process (RequestsOK).                              *)
(* The rest says which worker steps go with which step of main (StepsOK)    *)
(* and that a source at work is in RAW (AtWorkInRaw).                       *)
(***************************************************************************)
EXTENDS DraftRuns, FiniteSetTheorems, TLAPS

Reels == [who : People, of : (SUBSET Sources) \ {{}}]
Statuses == {"none", "pending", "queued", "source_not_found", "done"}
RequestRow == [status : Statuses, name : People \cup {"none"}, note : BOOLEAN,
               due : SUBSET Sources, again : SUBSET Sources]
MainSteps == {"idle", "staged", "requests", "list", "download", "analyze", "compile",
              "upload", "close"}
Counting == {"load", "write", "rename"}
WorkerSteps == {"idle", "moved", "back", "stuck", "fetch", "have", "seen", "giveup", "remember",
                "archived", "gone", "fell"} \cup Counting
Counts == [Sources -> Nat]

DriveType ==
    /\ world \in Worlds /\ faults \in 0..world.faults
    /\ place \in [Sources -> {"raw", "processed"}]
    /\ review \subseteq Reels /\ abandoned \subseteq Reels /\ lost \subseteq Reels
    /\ DOMAIN staged \subseteq Reels
    /\ draftOf \in [People -> SUBSET Sources]
    /\ request \in [Requests -> RequestRow]

RunType ==
    /\ cache \subseteq Sources /\ fails \in Counts /\ real \in Counts
    /\ tmp \in Counts /\ snap \in [Sources -> Counts]
    /\ pc \in MainSteps /\ thread \in [Sources -> WorkerSteps]
    /\ found \in [Sources -> SUBSET People] /\ reels \subseteq Reels /\ notes \in BOOLEAN
    /\ last \in [Sources -> (SUBSET People) \cup {{"unseen"}}]

\* The worker steps that go with a step of main.
StepsWith(step) ==
    CASE step \in {"idle", "staged", "list"} -> {"idle"}
      [] step = "requests" -> {"idle", "moved", "back", "stuck"}
      [] step = "download" -> {"idle", "fetch", "have", "giveup", "remember", "gone", "fell"}
                                  \cup Counting
      [] step = "analyze" -> {"idle", "have", "seen", "giveup", "remember", "gone", "fell"}
                                  \cup Counting
      [] step = "compile" -> {"idle", "seen", "gone"}
      [] step = "upload" -> {"idle", "seen", "archived", "gone"}
      [] step = "close" -> {"idle", "gone"}

StepsOK == \A s \in Sources : thread[s] \in StepsWith(pc)

AtWorkInRaw ==
    \A s \in Sources :
        thread[s] \in {"moved", "fetch", "have", "seen", "giveup"} \cup Counting
            => place[s] = "raw"

\* A count of the failures of s that is not ahead of them; one that still lacks
\* the last of them.
Honest(counts, s) == counts[s] <= real[s] \/ real[s] >= FailLimit
Behind(counts, s) == counts[s] + 1 <= real[s] \/ real[s] >= FailLimit

\* The counts there are: in the file, in the temporary file, with the workers.
CountsOK(s) ==
    /\ Honest(fails, s)
    /\ tmp # NoTable => Honest(tmp, s)
    /\ \A x \in Sources : thread[x] \in {"write", "rename"} => Honest(snap[x], s)
    /\ thread[s] = "load" =>
         /\ Behind(fails, s)
         /\ tmp # NoTable => Behind(tmp, s)
         /\ \A x \in Sources : thread[x] \in {"write", "rename"} => Behind(snap[x], s)
    /\ thread[s] \in {"write", "rename"} => Behind(snap[s], s)
    /\ thread[s] \in {"giveup", "remember"} => real[s] >= FailLimit

\* A person of a source has a reel there, or is known to have none.
Kept(p, s, held) == <<p, s>> \in unmade \/ \E r \in held : r.who = p /\ s \in r.of

SeenOK ==
    \A s \in Sources :
        /\ found[s] # {} => thread[s] \in {"seen", "archived", "gone"}
        /\ found[s] # {} /\ pc # "upload" => thread[s] = "seen"
        /\ thread[s] = "seen" => last[s] = found[s]
        /\ pc = "upload" /\ thread[s] = "seen" => \A p \in last[s] : Kept(p, s, Held)

ReelsOK ==
    \A r \in reels : pc = "upload" /\ \A s \in r.of : thread[s] = "seen"

\* What a request put back and has not seen analysed is in RAW, out of the cache
\* unless its removal was lost, or between the two writes of requeue_video.
Waiting(s) == place[s] = "raw" /\ (s \notin cache \/ s \in unforgotten)
BetweenWrites(q, s) == request[q].status = "pending" /\ thread[s] = "moved"
RequestOK(q) ==
    \A s \in request[q].due :
        /\ s \in request[q].again \/ real[s] >= FailLimit \/ Waiting(s) \/ BetweenWrites(q, s)
        /\ thread[s] \in {"seen", "archived"} => s \in request[q].again

RequestsOK ==
    /\ \A q \in Requests : RequestOK(q)
    /\ pc = "requests" => \A q \in todo : q \in Requests /\ request[q].status = "pending"
    /\ pc = "requests" /\ todo = {} => \A s \in Sources : thread[s] = "idle"

DraftInv ==
    /\ DriveType /\ RunType
    /\ StepsOK /\ AtWorkInRaw
    /\ \A s \in Sources : CountsOK(s)
    /\ SeenOK /\ ReelsOK /\ RequestsOK
    /\ ArchivedIsAccounted

----------------------------------------------------------------------------
\* The parts of DraftInv, ready to be cited.
LEMMA Unpacked ==
    ASSUME DraftInv
    PROVE  /\ DriveType /\ RunType
           /\ StepsOK /\ AtWorkInRaw
           /\ \A s \in Sources : CountsOK(s)
           /\ SeenOK /\ ReelsOK /\ RequestsOK
           /\ ArchivedIsAccounted
  BY DEF DraftInv

\* Counts that stay are honest while nobody begins to count.
LEMMA CountsFrame ==
    ASSUME \A s \in Sources : CountsOK(s), UNCHANGED <<real, fails, tmp, snap>>,
           \A s \in Sources : \/ thread'[s] = thread[s]
                              \/ thread'[s] \notin Counting \cup {"giveup", "remember"}
    PROVE  \A s \in Sources : CountsOK(s)'
  BY DEF CountsOK, Honest, Behind, Counting

\* What was accounted for is while no source is archived, no failure forgotten and
\* nothing about the archived sources lost.
LEMMA ArchivedFrame ==
    ASSUME ArchivedIsAccounted,
           real \in Counts, real' \in Counts, \A s \in Sources : real[s] <= real'[s],
           \A s \in Sources : place'[s] = "processed" =>
              /\ place[s] = "processed"
              /\ last'[s] = last[s]
              /\ \A p \in last[s] : <<p, s>> \in unmade => <<p, s>> \in unmade'
              /\ \A r \in Held \ reels : s \in r.of => r \in (Held \ reels)'
    PROVE  ArchivedIsAccounted'
<1> SUFFICES ASSUME NEW s \in Sources, place'[s] = "processed"
             PROVE  Accounted(s)'
  BY DEF ArchivedIsAccounted, Processed
<1>1. Accounted(s) /\ FailLimit \in Nat
  BY DraftRunsAssumption DEF ArchivedIsAccounted, Processed
<1>2. CASE real[s] >= FailLimit
  BY <1>1, <1>2 DEF Accounted, Counts
<1>3. CASE ~(real[s] >= FailLimit)
  <2>1. /\ last[s] # {"unseen"}
        /\ \A p \in last[s] : \/ <<p, s>> \in unmade
                              \/ \E r \in (Held \ reels) : r.who = p /\ s \in r.of
    BY <1>1, <1>3 DEF Accounted
  <2>2. last'[s] = last[s]
    OBVIOUS
  <2>3. ASSUME NEW p \in last[s]
        PROVE  \/ <<p, s>> \in unmade'
               \/ \E r \in (Held \ reels)' : r.who = p /\ s \in r.of
    <3>1. CASE <<p, s>> \in unmade
      BY <3>1
    <3>2. CASE \E r \in (Held \ reels) : r.who = p /\ s \in r.of
      BY <3>2
    <3> QED
      BY <2>1, <3>1, <3>2
  <2> QED
    BY <2>1, <2>2, <2>3 DEF Accounted
<1> QED
  BY <1>2, <1>3

\* A request keeps its sources while they wait and while none slips between the
\* two writes.
LEMMA RequestFrame ==
    ASSUME NEW q \in Requests, RequestOK(q), UNCHANGED real,
           request'[q].due = request[q].due, request'[q].again = request[q].again,
           \A s \in Sources : Waiting(s) => Waiting(s)',
           \A s \in Sources : BetweenWrites(q, s) => BetweenWrites(q, s)' \/ Waiting(s)',
           request[q].due \subseteq Sources,
           \A s \in Sources : thread'[s] \in {thread[s]} \cup (WorkerSteps \ {"seen", "archived"})
    PROVE  RequestOK(q)'
  BY DEF RequestOK

\* The end of a run, whatever ends it: what the step may change besides are the
\* cache, by archived sources, and queued requests, which it may close.
LEMMA RunEnded ==
    ASSUME DraftInv, EndRun, UNCHANGED <<world, place, review, abandoned, lost, staged>>,
           UNCHANGED <<draftOf, fails, real, last, unmade>>,
           faults' \in 0..world.faults,
           cache' \subseteq cache \cup Processed, unforgotten \subseteq unforgotten',
           \A s \in Sources : thread[s] = "moved" => s \in unforgotten',
           request' \in [Requests -> RequestRow],
           \A q \in Requests :
              /\ request'[q].due = request[q].due /\ request'[q].again = request[q].again
              /\ request'[q].status = request[q].status
                   \/ (request[q].status = "queued" /\ request'[q].status = "done")
    PROVE  DraftInv'
<1>1. DriveType /\ RunType
  BY Unpacked
<1>2. DriveType'
  BY <1>1 DEF DriveType
<1>3. RunType'
  <2>1. NoTable \in Counts
    BY DEF NoTable, Counts
  <2>2. cache' \subseteq Sources
    BY <1>1 DEF RunType, Processed
  <2> QED
    BY <1>1, <2>1, <2>2 DEF RunType, EndRun, Goto, MainSteps, WorkerSteps
<1>4. \A s \in Sources : thread'[s] = "idle" /\ found'[s] = {}
  BY DEF EndRun
<1>5. pc' = "idle" /\ reels' = {} /\ tmp' = NoTable
  BY DEF EndRun, Goto
<1>6. StepsOK' /\ AtWorkInRaw'
  BY <1>4, <1>5 DEF StepsOK, StepsWith, AtWorkInRaw, Counting
<1>7. \A s \in Sources : CountsOK(s)'
  BY <1>4, <1>5, Unpacked DEF CountsOK, Honest, Behind
<1>8. SeenOK' /\ ReelsOK'
  BY <1>4, <1>5 DEF SeenOK, ReelsOK
<1>9. RequestsOK'
  <2>1. ASSUME NEW s \in Sources, Waiting(s) PROVE Waiting(s)'
    BY <2>1 DEF Waiting, Processed
  <2>3. ASSUME NEW s \in Sources, thread[s] = "moved" PROVE Waiting(s)'
    BY <2>3, Unpacked DEF Waiting, AtWorkInRaw
  <2>2. ASSUME NEW q \in Requests PROVE RequestOK(q)'
    <3>1. RequestOK(q) /\ request[q].due \subseteq Sources
      BY <1>1, Unpacked DEF RequestsOK, DriveType, RequestRow
    <3>2. \A s \in Sources : BetweenWrites(q, s) => Waiting(s)'
      BY <2>3 DEF BetweenWrites
    <3>3. \A s \in Sources : thread'[s] \in {thread[s]} \cup (WorkerSteps \ {"seen", "archived"})
      BY <1>4 DEF WorkerSteps
    <3> QED
      BY <2>1, <3>1, <3>2, <3>3, RequestFrame
  <2> QED
    BY <1>5, <2>2 DEF RequestsOK
<1>10. ArchivedIsAccounted'
  <2>1. (Held \ reels)' = review' \cup DOMAIN staged' \cup abandoned' \cup lost'
    BY <1>5 DEF Held
  <2>2. \A r \in Held \ reels : r \in (Held \ reels)'
    BY <2>1 DEF Held
  <2>3. real \in Counts /\ \A s \in Sources : real[s] <= real[s]
    BY <1>1 DEF RunType, Counts
  <2> QED
    BY <2>2, <2>3, Unpacked, ArchivedFrame
<1> QED
  BY <1>2, <1>3, <1>6, <1>7, <1>8, <1>9, <1>10 DEF DraftInv

----------------------------------------------------------------------------
(* The operator, the start of a run and its requests.                       *)

\* A request sent back asks for nothing yet.
LEMMA SendBackInv ==
    ASSUME DraftInv, UNCHANGED world, NEW q \in Requests, SendBack(q)
    PROVE  DraftInv'
<1> PICK r \in review, note \in BOOLEAN :
       /\ request[q].status = "none"
       /\ request' = [request EXCEPT ![q] =
             [status |-> "pending", name |-> r.who, note |-> note, due |-> {}, again |-> {}]]
       /\ UNCHANGED <<drive, draftOf, local, pc, todo, pool, made, notes, history, faults>>
  BY DEF SendBack
<1> USE DEF drive, local, pool, made, history
<1>1. DriveType /\ RunType
  BY Unpacked
<1>2. DriveType'
  <2>1. r.who \in People
    BY <1>1 DEF DriveType, Reels
  <2> QED
    BY <1>1, <2>1 DEF DriveType, RequestRow, Statuses
<1>3. RunType' /\ StepsOK' /\ AtWorkInRaw' /\ SeenOK' /\ ReelsOK'
  BY <1>1, Unpacked DEF RunType, StepsOK, AtWorkInRaw, SeenOK, ReelsOK, Held, Kept
<1>4. \A s \in Sources : CountsOK(s)'
  BY Unpacked, CountsFrame
<1>5. RequestsOK'
  <2>1. ASSUME NEW x \in Requests PROVE RequestOK(x)'
    <3>1. RequestOK(x)
      BY Unpacked DEF RequestsOK
    <3>2. CASE x = q
      BY <1>1, <3>2 DEF RequestOK, DriveType
    <3>3. CASE x # q
      BY <1>1, <3>1, <3>3 DEF RequestOK, DriveType, Waiting, BetweenWrites
    <3> QED
      BY <3>2, <3>3
  <2>2. pc = "requests" => \A x \in todo : x \in Requests /\ request[x].status = "pending"
    BY Unpacked DEF RequestsOK
  <2> QED
    BY <1>1, <2>1, <2>2, Unpacked DEF RequestsOK, DriveType
<1>6. ArchivedIsAccounted'
  BY Unpacked DEF ArchivedIsAccounted, Processed, Accounted, Held
<1> QED
  BY <1>2, <1>3, <1>4, <1>5, <1>6 DEF DraftInv

\* A run starts; a fresh runner has no local files.
LEMMA StartRunInv ==
    ASSUME DraftInv, UNCHANGED world, StartRun
    PROVE  DraftInv'
<1> USE DEF drive, tables, local, memory, pool, made, StartRun, Goto
<1>1. DriveType /\ RunType /\ pc = "idle" /\ pc' = "staged"
  BY Unpacked
<1>2. /\ cache' \subseteq cache /\ fails' \in Counts
      /\ \A s \in Sources : fails'[s] = fails[s] \/ fails'[s] = 0
      /\ DOMAIN staged' \subseteq DOMAIN staged
      /\ lost' \cup DOMAIN staged' = lost \cup DOMAIN staged
  <2>1. DOMAIN [r \in {} |-> 0] = {}
    OBVIOUS
  <2> QED
    BY <1>1, <2>1 DEF RunType, Counts
<1>3. DriveType' /\ RunType'
  BY <1>1, <1>2 DEF DriveType, RunType, MainSteps
<1>4. StepsOK' /\ AtWorkInRaw' /\ SeenOK' /\ ReelsOK'
  BY <1>1, Unpacked DEF StepsOK, StepsWith, AtWorkInRaw, SeenOK, ReelsOK
<1>5. \A s \in Sources : CountsOK(s)'
  <2>1. ASSUME NEW s \in Sources PROVE CountsOK(s)'
    <3>1. CountsOK(s) /\ thread[s] = "idle" /\ real[s] \in Nat /\ FailLimit \in Nat
      BY <1>1, Unpacked, DraftRunsAssumption DEF StepsOK, StepsWith, RunType, Counts
    <3>2. fails'[s] <= real[s] \/ real[s] >= FailLimit
      BY <1>2, <3>1 DEF CountsOK, Honest
    <3> QED
      BY <3>1, <3>2 DEF CountsOK, Honest
  <2> QED
    BY <2>1
<1>6. RequestsOK'
  <2>1. ASSUME NEW q \in Requests PROVE RequestOK(q)'
    BY <1>1, <1>2, Unpacked DEF RequestsOK, RequestOK, Waiting, BetweenWrites
  <2> QED
    BY <1>1, <2>1 DEF RequestsOK
<1>7. ArchivedIsAccounted'
  <2>1. (Held \ reels)' = (Held \ reels) \cup ((review \cup abandoned) \ reels)
    BY <1>2 DEF Held
  <2>2. real \in Counts /\ \A s \in Sources : real[s] <= real[s]
    BY <1>1 DEF RunType, Counts
  <2> QED
    BY <2>1, <2>2, Unpacked, ArchivedFrame
<1> QED
  BY <1>3, <1>4, <1>5, <1>6, <1>7 DEF DraftInv

\* A runner is lost.
LEMMA CrashInv ==
    ASSUME DraftInv, UNCHANGED world, Crash
    PROVE  DraftInv'
<1>1. DriveType /\ world.faults \in Nat
  BY Unpacked, DraftRunsAssumption DEF DriveType, World
<1>2. faults' \in 0..world.faults
  BY <1>1 DEF Crash, Fault, DriveType
<1>3. EndRun
  BY DEF Crash
<1> QED
  BY <1>1, <1>2, <1>3, RunEnded DEF Crash, drive, tables, local, history, DriveType

\* A staged reel is uploaded, kept or given up: it stays somewhere.
LEMMA RetryStagedInv ==
    ASSUME DraftInv, UNCHANGED world, NEW r \in DOMAIN staged, RetryStaged(r)
    PROVE  DraftInv'
<1> USE DEF RetryStaged, Unstaged, tables, pool, made, Fine, Fault
<1>1. DriveType /\ RunType /\ r \in Reels /\ pc = "staged" /\ world.faults \in Nat
  BY Unpacked, DraftRunsAssumption DEF DriveType, World
<1>2. /\ review' \cup DOMAIN staged' \cup abandoned' = review \cup DOMAIN staged \cup abandoned
      /\ lost' = lost /\ faults' \in 0..world.faults
      /\ review' \subseteq review \cup {r} /\ abandoned' \subseteq abandoned \cup {r}
      /\ DOMAIN staged' \subseteq DOMAIN staged
  BY <1>1 DEF DriveType
<1>3. UNCHANGED <<place, draftOf, request, cache, fails, pc, thread, snap, tmp, found, reels,
                  notes, real, last, unmade, unforgotten>>
  OBVIOUS
<1>4. DriveType' /\ RunType'
  BY <1>1, <1>2, <1>3 DEF DriveType, RunType
<1>5. StepsOK' /\ AtWorkInRaw' /\ SeenOK' /\ ReelsOK'
  BY <1>1, <1>3, Unpacked DEF StepsOK, AtWorkInRaw, SeenOK, ReelsOK
<1>6. \A s \in Sources : CountsOK(s)'
  BY <1>3, Unpacked, CountsFrame
<1>7. RequestsOK'
  BY <1>1, <1>3, Unpacked DEF RequestsOK, RequestOK, Waiting, BetweenWrites
<1>8. ArchivedIsAccounted'
  <2>1. (Held \ reels)' = Held \ reels
    BY <1>2, <1>3 DEF Held
  <2> QED
    BY <1>3, <2>1, Unpacked DEF ArchivedIsAccounted, Processed, Accounted
<1> QED
  BY <1>4, <1>5, <1>6, <1>7, <1>8 DEF DraftInv

\* Reading the requests puts none of their sources off.
LEMMA FetchRequestsInv ==
    ASSUME DraftInv, UNCHANGED world, FetchRequests
    PROVE  DraftInv'
<1> USE DEF drive, local, memory, pool, made, history, Fine, Goto
<1>1. DriveType /\ RunType /\ pc = "staged" /\ world.faults \in Nat
  BY Unpacked, DraftRunsAssumption DEF FetchRequests, DriveType, World
<1>2. faults' \in 0..world.faults
  BY <1>1 DEF FetchRequests, Fault, DriveType
<1>3. CASE EndRun /\ UNCHANGED request
  <2>1. \A s \in Sources : thread[s] = "idle"
    BY <1>1, Unpacked DEF StepsOK, StepsWith
  <2> QED
    BY <1>1, <1>2, <1>3, <2>1, RunEnded DEF FetchRequests, DriveType, tables
<1>4. CASE ~(EndRun /\ UNCHANGED request)
  <2>1. /\ UNCHANGED <<drive, draftOf, local, memory, history>>
        /\ UNCHANGED request
        /\ \/ pc' = "requests" /\ todo' = {q \in Requests : request[q].status = "pending"}
           \/ pc' = "list"
    BY <1>4 DEF FetchRequests, tables
  <2>3. DriveType' /\ RunType'
    BY <1>1, <1>2, <2>1 DEF DriveType, RunType, MainSteps
  <2>4. \A s \in Sources : thread[s] = "idle"
    BY <1>1, Unpacked DEF StepsOK, StepsWith
  <2>5. StepsOK' /\ AtWorkInRaw' /\ SeenOK' /\ ReelsOK'
    BY <1>1, <2>1, <2>4, Unpacked DEF StepsOK, StepsWith, AtWorkInRaw, SeenOK, ReelsOK
  <2>6. \A s \in Sources : CountsOK(s)'
    BY <2>1, Unpacked, CountsFrame
  <2>7. RequestsOK'
    <3>1. ASSUME NEW q \in Requests PROVE RequestOK(q)'
      BY <1>1, <2>1, Unpacked DEF RequestsOK, RequestOK, Waiting, BetweenWrites
    <3> QED
      BY <2>1, <2>4, <3>1 DEF RequestsOK
  <2>8. ArchivedIsAccounted'
    BY <2>1, Unpacked DEF ArchivedIsAccounted, Processed, Accounted, Held
  <2> QED
    BY <2>3, <2>5, <2>6, <2>7, <2>8 DEF DraftInv
<1> QED
  BY <1>3, <1>4

\* A source a request names is moved back; from here on the request asks for it.
LEMMA RequeueMoveInv ==
    ASSUME DraftInv, UNCHANGED world, NEW q \in Requests, NEW s \in Sources, RequeueMove(q, s)
    PROVE  DraftInv'
<1> USE DEF local, made, history, Fine
<1>1. /\ DriveType /\ RunType /\ pc = "requests" /\ world.faults \in Nat
      /\ \A x \in Sources : thread[x] \in {"idle", "moved", "back", "stuck"}
      /\ q \in todo /\ request[q].status = "pending" /\ thread[s] = "idle"
  BY Unpacked, DraftRunsAssumption DEF RequeueMove, Handled, DriveType, World, StepsOK, StepsWith,
     RequestsOK
<1>2. /\ faults' \in 0..world.faults
      /\ UNCHANGED <<review, draftOf, local, pc, todo, snap, tmp, made, notes, history>>
      /\ \/ /\ place' = [place EXCEPT ![s] = "raw"] /\ thread' = [thread EXCEPT ![s] = "moved"]
            /\ request' = [[request EXCEPT ![q].due = @ \cup {s}] EXCEPT ![q].again = @ \ {s}]
         \/ /\ place' = place /\ thread' = [thread EXCEPT ![s] = "stuck"]
            /\ request' = request
  <2>1. faults' \in 0..world.faults
    BY <1>1 DEF RequeueMove, Fault, DriveType
  <2> QED
    BY <2>1, Zenon DEF RequeueMove, To
<1>3. /\ \A x \in Sources : thread'[x] \in {"idle", "moved", "back", "stuck"}
      /\ \A x \in Sources : thread'[x] = "moved" => thread[x] = "moved" \/ place'[x] = "raw"
      /\ \A x \in Sources : thread[x] = "moved" => thread'[x] = "moved"
      /\ \A x \in Sources : place'[x] = place[x] \/ place'[x] = "raw"
      /\ thread' \in [Sources -> WorkerSteps] /\ place' \in [Sources -> {"raw", "processed"}]
  BY <1>1, <1>2 DEF DriveType, RunType, WorkerSteps
<1>4. /\ request' \in [Requests -> RequestRow]
      /\ \A x \in Requests : request'[x].status = request[x].status
      /\ \A x \in Requests, y \in Sources : x # q \/ y # s =>
            /\ y \in request'[x].due <=> y \in request[x].due
            /\ y \in request'[x].again <=> y \in request[x].again
      /\ thread'[s] = "moved" \/ request' = request
  <2>1. CASE request' = request
    BY <1>1, <2>1 DEF DriveType
  <2>2. CASE request' # request
    <3>1. thread' = [thread EXCEPT ![s] = "moved"]
      BY <1>2, <2>2
    <3>2. request' = [[request EXCEPT ![q].due = @ \cup {s}] EXCEPT ![q].again = @ \ {s}]
      BY <1>2, <2>2
    <3>3. /\ request[q] \in RequestRow /\ request'[q] \in RequestRow
          /\ request'[q].status = request[q].status
          /\ request'[q].due = request[q].due \cup {s}
          /\ request'[q].again = request[q].again \ {s}
      <4>1. request[q] \in RequestRow
        BY <1>1 DEF DriveType
      <4> DEFINE more == [request EXCEPT ![q].due = request[q].due \cup {s}]
      <4>2. more[q] \in RequestRow /\ more \in [Requests -> RequestRow]
        BY <1>1, <4>1 DEF DriveType, RequestRow
      <4>3. /\ more[q].status = request[q].status /\ more[q].again = request[q].again
            /\ more[q].due = request[q].due \cup {s}
        BY <1>1, <4>1 DEF DriveType, RequestRow
      <4>4. request' = [more EXCEPT ![q].again = more[q].again \ {s}]
        BY <3>2
      <4> HIDE DEF more
      <4> QED
        BY <4>1, <4>2, <4>3, <4>4 DEF RequestRow
    <3>4. /\ request' \in [Requests -> RequestRow]
          /\ \A x \in Requests : x # q => request'[x] = request[x]
      BY <1>1, <3>2, <3>3 DEF DriveType
    <3>5. thread'[s] = "moved"
      BY <1>1, <3>1 DEF RunType
    <3> QED
      BY <3>3, <3>4, <3>5
  <2> QED
    BY <2>1, <2>2
<1>5. DriveType' /\ RunType'
  BY <1>1, <1>2, <1>3, <1>4 DEF DriveType, RunType
<1>6. StepsOK' /\ AtWorkInRaw'
  BY <1>1, <1>2, <1>3, Unpacked DEF StepsOK, StepsWith, AtWorkInRaw, Counting
<1>7. SeenOK' /\ ReelsOK'
  BY <1>1, <1>2, <1>3, Unpacked DEF SeenOK, ReelsOK
<1>8. \A x \in Sources : CountsOK(x)'
  BY <1>2, <1>3, Unpacked, CountsFrame DEF Counting
<1>9. RequestsOK'
  <2>1. \A x \in Sources : Waiting(x) => Waiting(x)'
    BY <1>2, <1>3 DEF Waiting
  <2>2. ASSUME NEW x \in Requests, NEW y \in request'[x].due
        PROVE  \/ y \in request'[x].again \/ real'[y] >= FailLimit
               \/ Waiting(y)' \/ BetweenWrites(x, y)'
    <3>1. y \in Sources
      BY <1>4 DEF RequestRow
    <3>2. CASE (x = q /\ y = s) /\ thread'[s] = "moved"
      BY <1>1, <1>4, <3>2 DEF BetweenWrites
    <3>3. CASE (x # q \/ y # s) \/ request' = request
      <4>1. y \in request[x].due /\ (y \in request[x].again => y \in request'[x].again)
        BY <1>4, <3>1, <3>3
      <4>2. \/ y \in request[x].again \/ real[y] >= FailLimit
            \/ Waiting(y) \/ BetweenWrites(x, y)
        BY <4>1, Unpacked DEF RequestsOK, RequestOK
      <4> QED
        BY <1>2, <1>3, <1>4, <2>1, <3>1, <4>1, <4>2 DEF BetweenWrites
    <3> QED
      BY <1>4, <3>2, <3>3
  <2>3. \A x \in Requests : RequestOK(x)'
    <3>1. ASSUME NEW x \in Requests, NEW y \in request'[x].due
          PROVE  thread'[y] \notin {"seen", "archived"}
      BY <1>3, <1>4 DEF RequestRow
    <3> QED
      BY <2>2, <3>1 DEF RequestOK
  <2>4. todo' = todo /\ todo # {} /\ pc' = pc
    BY <1>1, <1>2
  <2> QED
    BY <1>4, <2>3, <2>4, Unpacked DEF RequestsOK
<1>10. ArchivedIsAccounted'
  BY <1>2, <1>3, Unpacked DEF ArchivedIsAccounted, Processed, Accounted, Held
<1> QED
  BY <1>5, <1>6, <1>7, <1>8, <1>9, <1>10 DEF DraftInv

\* ... and taken out of the cache, or known to be still in it: from then on it waits.
LEMMA RequeueForgetInv ==
    ASSUME DraftInv, UNCHANGED world, NEW q \in Requests, NEW s \in Sources, RequeueForget(q, s)
    PROVE  DraftInv'
<1> USE DEF drive, tables, made, Fine
<1>1. /\ DriveType /\ RunType /\ pc = "requests" /\ q \in todo /\ world.faults \in Nat
      /\ \A x \in Sources : thread[x] \in {"idle", "moved", "back", "stuck"}
      /\ thread[s] = "moved" /\ place[s] = "raw"
  BY Unpacked, DraftRunsAssumption DEF RequeueForget, Handled, StepsOK, StepsWith, AtWorkInRaw,
     DriveType, World
<1>2. PICK step \in {"back", "stuck"} : thread' = [thread EXCEPT ![s] = step]
  BY DEF RequeueForget, To
<1>3. /\ faults' \in 0..world.faults /\ cache' \subseteq cache
      /\ s \notin cache' \/ s \in unforgotten'
      /\ \A x \in Sources : x # s => (x \in unforgotten => x \in unforgotten')
      /\ UNCHANGED <<drive, tables, fails, staged, pc, todo, snap, tmp, made, notes, real, last,
                     unmade, abandoned, lost>>
  BY <1>1 DEF RequeueForget, Fault, DriveType
<1>4. /\ \A x \in Sources : thread'[x] \in {"idle", "moved", "back", "stuck"}
      /\ \A x \in Sources : thread'[x] = "moved" => thread[x] = "moved"
      /\ \A x \in Sources : x # s => thread'[x] = thread[x]
      /\ thread' \in [Sources -> WorkerSteps]
  BY <1>1, <1>2 DEF RunType, WorkerSteps
<1>5. DriveType' /\ RunType'
  BY <1>1, <1>2, <1>3, <1>4 DEF DriveType, RunType
<1>6. StepsOK' /\ AtWorkInRaw'
  BY <1>1, <1>3, <1>4, Unpacked DEF StepsOK, StepsWith, AtWorkInRaw, Counting
<1>7. SeenOK' /\ ReelsOK'
  BY <1>1, <1>3, <1>4, Unpacked DEF SeenOK, ReelsOK
<1>8. \A x \in Sources : CountsOK(x)'
  BY <1>3, <1>4, Unpacked, CountsFrame DEF Counting
<1>9. RequestsOK'
  <2>1. Waiting(s)' /\ \A x \in Sources : Waiting(x) => Waiting(x)'
    BY <1>1, <1>3 DEF Waiting
  <2>2. ASSUME NEW x \in Requests PROVE RequestOK(x)'
    <3>1. RequestOK(x) /\ request[x].due \subseteq Sources
      BY <1>1, Unpacked DEF RequestsOK, DriveType, RequestRow
    <3>2. \A y \in Sources : BetweenWrites(x, y) => BetweenWrites(x, y)' \/ Waiting(y)'
      BY <1>3, <1>4, <2>1 DEF BetweenWrites
    <3>3. \A y \in Sources : thread'[y] \in {thread[y]} \cup (WorkerSteps \ {"seen", "archived"})
      BY <1>4 DEF WorkerSteps
    <3> QED
      BY <1>3, <2>1, <3>1, <3>2, <3>3, RequestFrame
  <2> QED
    BY <1>1, <1>3, <2>2, Unpacked DEF RequestsOK
<1>10. ArchivedIsAccounted'
  BY <1>3, Unpacked DEF ArchivedIsAccounted, Processed, Accounted, Held
<1> QED
  BY <1>5, <1>6, <1>7, <1>8, <1>9, <1>10 DEF DraftInv

\* The request is closed as queued, with its sources waiting, or not.
LEMMA MarkRequestInv ==
    ASSUME DraftInv, UNCHANGED world, NEW q \in Requests, MarkRequest(q)
    PROVE  DraftInv'
<1> USE DEF drive, local, made, history, Fine
<1>1. /\ DriveType /\ RunType /\ pc = "requests" /\ world.faults \in Nat
      /\ \A x \in Sources : thread[x] \in {"idle", "back", "stuck"}
      /\ request[q].status = "pending"
  BY Unpacked, DraftRunsAssumption DEF MarkRequest, Handled, StepsOK, StepsWith, RequestsOK,
     DriveType, World
<1>2. faults' \in 0..world.faults /\ UNCHANGED <<drive, draftOf, local, history>>
  BY <1>1 DEF MarkRequest, Fault, DriveType
<1>3. CASE EndRun /\ UNCHANGED request
  BY <1>1, <1>2, <1>3, RunEnded DEF DriveType
<1>4. CASE ~(EndRun /\ UNCHANGED request)
  <2>1. /\ todo' = todo \ {q} /\ UNCHANGED <<pc, snap, tmp, made>>
        /\ thread' = [s \in Sources |-> "idle"]
        /\ request' = [request EXCEPT
               ![q].status = IF PutBack(q) THEN "queued" ELSE "source_not_found"]
        /\ notes' \in BOOLEAN
    <3>1. notes' = (notes \/ (PutBack(q) /\ request[q].note)) => notes' \in BOOLEAN
      BY <1>1 DEF RunType, DriveType, RequestRow
    <3> QED
      BY <1>4, <3>1 DEF MarkRequest
  <2>2. /\ request' \in [Requests -> RequestRow]
        /\ \A x \in Requests : x # q => request'[x] = request[x]
        /\ request'[q].status \in {"queued", "source_not_found"}
        /\ request'[q].due = request[q].due /\ request'[q].again = request[q].again
    BY <1>1, <2>1 DEF DriveType, RequestRow, Statuses
  <2>3. DriveType' /\ RunType'
    BY <1>1, <1>2, <2>1, <2>2 DEF DriveType, RunType, WorkerSteps
  <2>4. StepsOK' /\ AtWorkInRaw' /\ SeenOK' /\ ReelsOK'
    BY <1>1, <1>2, <2>1, Unpacked DEF StepsOK, StepsWith, AtWorkInRaw, Counting, SeenOK, ReelsOK
  <2>5. \A x \in Sources : CountsOK(x)'
    BY <1>2, <2>1, Unpacked, CountsFrame DEF Counting
  <2>6. RequestsOK'
    <3>1. ASSUME NEW x \in Requests PROVE RequestOK(x)'
      <4>1. RequestOK(x) /\ request[x].due \subseteq Sources
        BY <1>1, Unpacked DEF RequestsOK, DriveType, RequestRow
      <4>2. request'[x].due = request[x].due /\ request'[x].again = request[x].again
        BY <2>2
      <4>3. \A s \in Sources : Waiting(s) => Waiting(s)'
        BY <1>2 DEF Waiting
      <4>4. \A s \in Sources : ~BetweenWrites(x, s)
        BY <1>1 DEF BetweenWrites
      <4>5. \A s \in Sources : thread'[s] \in {thread[s]} \cup (WorkerSteps \ {"seen", "archived"})
        BY <2>1 DEF WorkerSteps
      <4> QED
        BY <1>2, <4>1, <4>2, <4>3, <4>4, <4>5, RequestFrame
    <3>2. \A x \in todo' : x \in Requests /\ request'[x].status = "pending"
      BY <1>1, <2>1, <2>2, Unpacked DEF RequestsOK
    <3> QED
      BY <2>1, <3>1, <3>2 DEF RequestsOK
  <2>7. ArchivedIsAccounted'
    BY <1>2, <2>1, Unpacked DEF ArchivedIsAccounted, Processed, Accounted, Held
  <2> QED
    BY <2>3, <2>4, <2>5, <2>6, <2>7 DEF DraftInv
<1> QED
  BY <1>3, <1>4

\* The scan starts the workers on sources of RAW.
LEMMA ListVideosInv ==
    ASSUME DraftInv, UNCHANGED world, ListVideos
    PROVE  DraftInv'
<1> USE DEF drive, tables, made, history, Fine, Goto
<1>1. /\ DriveType /\ RunType /\ pc \in {"list", "requests"} /\ world.faults \in Nat
      /\ \A x \in Sources : thread[x] = "idle"
  BY Unpacked, DraftRunsAssumption DEF ListVideos, StepsOK, StepsWith, RequestsOK, DriveType, World
<1>2. faults' \in 0..world.faults /\ UNCHANGED <<drive, tables, fails, staged, history>>
  BY <1>1 DEF ListVideos, Fault, DriveType
<1>3. CASE EndRun /\ cache' \subseteq cache \cup Processed
  BY <1>1, <1>2, <1>3, RunEnded DEF DriveType
<1>4. CASE ~(EndRun /\ cache' \subseteq cache \cup Processed)
  <2>1. PICK done \in {cache, cache \cup Processed} : Scan(done)
    BY <1>4 DEF ListVideos
  <2>2. cache' = done
    BY <2>1 DEF Scan
  <2>3. /\ pc' = "download" /\ UNCHANGED <<todo, snap, tmp, made, notes>>
        /\ thread' = [s \in Sources |-> IF s \in NewVideos(done) THEN "fetch" ELSE "idle"]
    BY <1>4, <2>1, <2>2 DEF Scan
  <2>4. /\ \A s \in Sources : thread'[s] \in {"fetch", "idle"}
        /\ \A s \in Sources : thread'[s] = "fetch" => place[s] = "raw"
        /\ thread' \in [Sources -> WorkerSteps]
    BY <2>3 DEF NewVideos, WorkerSteps
  <2>5. \A s \in Sources : Waiting(s) => Waiting(s)'
    BY <1>2, <2>2 DEF Waiting, Processed
  <2>6. DriveType' /\ RunType'
    BY <1>1, <1>2, <2>2, <2>3, <2>4 DEF DriveType, RunType, MainSteps, Processed
  <2>7. StepsOK' /\ AtWorkInRaw' /\ SeenOK' /\ ReelsOK'
    BY <1>1, <1>2, <2>3, <2>4, Unpacked DEF StepsOK, StepsWith, AtWorkInRaw, Counting, SeenOK, ReelsOK
  <2>8. \A x \in Sources : CountsOK(x)'
    BY <1>2, <2>3, <2>4, Unpacked, CountsFrame DEF Counting
  <2>9. RequestsOK'
    <3>1. ASSUME NEW q \in Requests PROVE RequestOK(q)'
      <4>1. RequestOK(q) /\ request[q].due \subseteq Sources
        BY <1>1, Unpacked DEF RequestsOK, DriveType, RequestRow
      <4>2. \A s \in Sources : thread'[s] \in {thread[s]} \cup (WorkerSteps \ {"seen", "archived"})
        BY <2>4 DEF WorkerSteps
      <4>3. \A s \in Sources : ~BetweenWrites(q, s)
        BY <1>1 DEF BetweenWrites
      <4> QED
        BY <1>2, <2>3, <2>5, <4>1, <4>2, <4>3, RequestFrame
    <3> QED
      BY <2>3, <3>1 DEF RequestsOK
  <2>10. ArchivedIsAccounted'
    BY <1>2, <2>3, Unpacked DEF ArchivedIsAccounted, Processed, Accounted, Held
  <2> QED
    BY <2>6, <2>7, <2>8, <2>9, <2>10 DEF DraftInv
<1> QED
  BY <1>3, <1>4

----------------------------------------------------------------------------
(* The pools.                                                               *)

\* The step of a worker of s that neither analyses it nor began with it analysed:
\* all but the counts.  What it archives or hides in the cache is at its limit.
LEMMA WorkerFrame ==
    ASSUME DraftInv, pc \in {"download", "analyze"}, NEW s \in Sources,
           NEW step \in StepsWith(pc) \ {"fetch", "seen"}, thread' = [thread EXCEPT ![s] = step],
           thread[s] \notin {"idle", "seen"},
           UNCHANGED <<world, review, abandoned, lost, staged, draftOf, pc, todo, found, reels,
                       notes, last, unmade, request, unforgotten>>,
           place' = place \/ (place' = [place EXCEPT ![s] = "processed"] /\ step = "remember"),
           cache' \subseteq cache \cup {s},
           place' # place \/ cache' # cache => real[s] >= FailLimit,
           step \in {"have", "giveup"} \cup Counting
               => thread[s] \in {"fetch", "have"} \cup Counting,
           faults' \in 0..world.faults,
           fails' \in Counts, tmp' \in Counts, snap' \in [Sources -> Counts], real' \in Counts,
           \A x \in Sources : real[x] <= real'[x],
           \A x \in Sources : CountsOK(x)'
    PROVE  DraftInv'
<1>1. DriveType /\ RunType /\ FailLimit \in Nat
  BY Unpacked, DraftRunsAssumption
<1>2. /\ thread' \in [Sources -> WorkerSteps]
      /\ thread'[s] = step /\ step \notin {"seen", "archived"}
      /\ \A x \in Sources : x # s => thread'[x] = thread[x]
  BY <1>1 DEF RunType, StepsWith, WorkerSteps, Counting
<1>3. /\ place' \in [Sources -> {"raw", "processed"}]
      /\ \A x \in Sources : place'[x] = place[x] \/ (x = s /\ real[s] >= FailLimit /\ step = "remember")
  BY <1>1 DEF DriveType
<1>4. DriveType' /\ RunType'
  BY <1>1, <1>2, <1>3 DEF DriveType, RunType
<1>5. StepsOK'
  BY <1>2, Unpacked DEF StepsOK
<1>a. AtWorkInRaw'
  <2>1. ASSUME NEW x \in Sources, x # s,
               thread'[x] \in {"moved", "fetch", "have", "seen", "giveup"} \cup Counting
        PROVE  place'[x] = "raw"
    BY <1>2, <1>3, <2>1, Unpacked DEF AtWorkInRaw
  <2>2. CASE step \in {"moved", "fetch"}
    BY <2>2, <1>1 DEF StepsWith, Counting
  <2>3. CASE step \in {"have", "giveup"} \cup Counting
    BY <1>2, <1>3, <2>3, Unpacked DEF AtWorkInRaw, Counting
  <2> QED
    BY <1>2, <2>1, <2>2, <2>3 DEF AtWorkInRaw
<1>6. SeenOK' /\ ReelsOK'
  BY <1>1, <1>2, Unpacked DEF SeenOK, ReelsOK, StepsOK, StepsWith, Counting
<1>7. RequestsOK'
  <2>1. ASSUME NEW x \in Sources, Waiting(x) PROVE Waiting(x)' \/ (x = s /\ real[s] >= FailLimit)
    BY <1>3, <2>1 DEF Waiting
  <2>2. ASSUME NEW q \in Requests PROVE RequestOK(q)'
    <3>1. RequestOK(q) /\ request[q].due \subseteq Sources
      BY <1>1, Unpacked DEF RequestsOK, DriveType, RequestRow
    <3>2. ASSUME NEW x \in request[q].due
          PROVE  /\ x \in request[q].again \/ real'[x] >= FailLimit \/ Waiting(x)'
                 /\ thread'[x] \in {"seen", "archived"} => x \in request[q].again
      <4>a. x \in Sources /\ thread[x] # "moved"
        BY <3>1, Unpacked DEF StepsOK, StepsWith, Counting
      <4>1. /\ x \in request[q].again \/ real[x] >= FailLimit \/ Waiting(x)
            /\ thread[x] \in {"seen", "archived"} => x \in request[q].again
        BY <3>1, <4>a DEF RequestOK, BetweenWrites
      <4>2. x \in Sources /\ real[x] \in Nat /\ real'[x] \in Nat /\ real[x] <= real'[x]
        BY <1>1, <3>1 DEF RunType, Counts
      <4>3. real[x] >= FailLimit => real'[x] >= FailLimit
        BY <1>1, <4>2
      <4> QED
        BY <1>2, <2>1, <4>1, <4>2, <4>3
    <3> QED
      BY <3>2 DEF RequestOK
  <2> QED
    BY <2>2, Unpacked DEF RequestsOK
<1>8. ArchivedIsAccounted'
  <2> SUFFICES ASSUME NEW x \in Sources, place'[x] = "processed" PROVE Accounted(x)'
    BY DEF ArchivedIsAccounted, Processed
  <2>1. real[x] \in Nat /\ real'[x] \in Nat /\ real[x] <= real'[x]
    BY <1>1 DEF RunType, Counts
  <2>2. CASE real[x] >= FailLimit
    BY <1>1, <2>1, <2>2 DEF Accounted
  <2>3. CASE ~(real[x] >= FailLimit)
    <3>1. Accounted(x)
      BY <1>3, <2>3, Unpacked DEF ArchivedIsAccounted, Processed
    <3> QED
      BY <2>3, <3>1 DEF Accounted, Held
  <2> QED
    BY <2>2, <2>3
<1> QED
  BY <1>4, <1>5, <1>a, <1>6, <1>7, <1>8 DEF DraftInv

\* A failure leaves every count behind it.
LEMMA FailedCounts ==
    ASSUME DraftInv, NEW s \in Sources, Failed(s), UNCHANGED <<fails, tmp, snap>>,
           thread[s] \notin Counting \cup {"giveup", "remember"}
    PROVE  /\ real' \in Counts /\ \A x \in Sources : real[x] <= real'[x]
           /\ \A x \in Sources : CountsOK(x)'
<1>1. RunType /\ FailLimit \in Nat \ {0} /\ \A x \in Sources : CountsOK(x)
  BY Unpacked, DraftRunsAssumption
<1>2. /\ thread' = [thread EXCEPT ![s] = "load"]
      /\ real' = [real EXCEPT ![s] = IF real[s] < FailLimit THEN real[s] + 1 ELSE real[s]]
  BY DEF Failed, To
<1>3. /\ real' \in Counts /\ \A x \in Sources : x # s => real'[x] = real[x]
      /\ real[s] < FailLimit => real'[s] = real[s] + 1
      /\ real[s] >= FailLimit => real'[s] = real[s]
  BY <1>1, <1>2 DEF RunType, Counts
<1>4. \A x \in Sources : x # s => thread'[x] = thread[x]
  BY <1>1, <1>2 DEF RunType
<1>5. thread'[s] = "load"
  BY <1>1, <1>2 DEF RunType
<1>6. ASSUME NEW counts \in Counts, Honest(counts, s)
      PROVE  counts[s] + 1 <= real'[s] \/ real'[s] >= FailLimit
  <2>1. counts[s] \in Nat /\ real[s] \in Nat
    BY <1>1 DEF RunType, Counts
  <2> QED
    BY <1>1, <1>3, <1>6, <2>1 DEF Honest
<1>7. ASSUME NEW x \in Sources PROVE CountsOK(x)'
  <2>1. CountsOK(x)
    BY <1>1
  <2>2. CASE x # s
    BY <1>3, <1>4, <1>5, <2>1, <2>2 DEF CountsOK, Honest, Behind, Counting
  <2>3. CASE x = s
    <3>1. /\ fails[s] + 1 <= real'[s] \/ real'[s] >= FailLimit
          /\ tmp # NoTable => tmp[s] + 1 <= real'[s] \/ real'[s] >= FailLimit
          /\ \A y \in Sources : thread[y] \in {"write", "rename"}
                => snap[y][s] + 1 <= real'[s] \/ real'[s] >= FailLimit
      BY <1>1, <1>6, <2>1, <2>3 DEF CountsOK, RunType
    <3>2. /\ fails[s] \in Nat /\ tmp[s] \in Nat /\ real'[s] \in Nat
          /\ \A y \in Sources : snap[y][s] \in Nat
      BY <1>1, <1>3 DEF RunType, Counts
    <3>3. \A y \in Sources : thread'[y] \in {"write", "rename"} => thread[y] \in {"write", "rename"}
      BY <1>4, <1>5
    <3>4. /\ Behind(fails, s)' /\ Honest(fails, s)'
          /\ tmp # NoTable => Behind(tmp, s)' /\ Honest(tmp, s)'
      BY <3>1, <3>2 DEF Honest, Behind
    <3>5. ASSUME NEW y \in Sources, thread'[y] \in {"write", "rename"}
          PROVE  Behind(snap[y], s)' /\ Honest(snap[y], s)'
      BY <3>1, <3>2, <3>3, <3>5 DEF Honest, Behind
    <3>6. UNCHANGED NoTable
      BY DEF NoTable
    <3> QED
      BY <1>5, <2>3, <3>4, <3>5, <3>6 DEF CountsOK
  <2> QED
    BY <2>2, <2>3
<1>8. \A x \in Sources : real[x] <= real'[x]
  BY <1>1, <1>3 DEF RunType, Counts
<1> QED
  BY <1>3, <1>7, <1>8

\* A download.
LEMMA DownloadInv ==
    ASSUME DraftInv, UNCHANGED world, NEW s \in Sources, Download(s)
    PROVE  DraftInv'
<1> USE DEF drive, tables, local, made, Fine
<1>1. /\ DriveType /\ RunType /\ world.faults \in Nat /\ pc = "download" /\ thread[s] = "fetch"
      /\ faults' \in 0..world.faults
  BY Unpacked, DraftRunsAssumption DEF Download, DriveType, World, Fault
<1>2. UNCHANGED <<drive, tables, local, pc, todo, snap, tmp, made, notes, last, unmade,
                  abandoned, lost, unforgotten>>
  BY DEF Download
<1>3. CASE To(s, "have") /\ UNCHANGED real
  <2>1. thread' = [thread EXCEPT ![s] = "have"]
    BY <1>3 DEF To
  <2>2. \A x \in Sources : CountsOK(x)'
    BY <1>1, <1>2, <1>3, <2>1, Unpacked, CountsFrame DEF RunType, Counting
  <2>3. real \in Counts /\ \A x \in Sources : real[x] <= real[x]
    BY <1>1 DEF RunType, Counts
  <2> QED
    BY <1>1, <1>2, <1>3, <2>1, <2>2, <2>3, WorkerFrame DEF StepsWith, Counting, RunType
<1>4. CASE Failed(s)
  <2>1. thread' = [thread EXCEPT ![s] = "load"]
    BY <1>4 DEF Failed, To
  <2>2. /\ real' \in Counts /\ \A x \in Sources : real[x] <= real'[x]
        /\ \A x \in Sources : CountsOK(x)'
    BY <1>1, <1>2, <1>4, FailedCounts DEF Counting
  <2> QED
    BY <1>1, <1>2, <2>1, <2>2, WorkerFrame DEF StepsWith, Counting, RunType
<1> QED
  BY <1>3, <1>4 DEF Download

\* The analysis of a source, which the requests that asked for it see.
LEMMA AnalyzeInv ==
    ASSUME DraftInv, UNCHANGED world, NEW s \in Sources, Analyze(s)
    PROVE  DraftInv'
<1> USE DEF drive, local, Fine
<1>1. /\ DriveType /\ RunType /\ pc = "analyze" /\ thread[s] = "have"
      /\ faults' \in 0..world.faults
  BY Unpacked, DraftRunsAssumption DEF Analyze, DriveType, World, Fault
<1>2. UNCHANGED <<drive, draftOf, local, pc, todo, snap, tmp, reels, notes, abandoned, lost,
                  unforgotten>>
  BY DEF Analyze
<1>3. CASE Failed(s) /\ UNCHANGED <<found, last, unmade, request>>
  <2>1. thread' = [thread EXCEPT ![s] = "load"]
    BY <1>3 DEF Failed, To
  <2>2. /\ real' \in Counts /\ \A x \in Sources : real[x] <= real'[x]
        /\ \A x \in Sources : CountsOK(x)'
    BY <1>1, <1>2, <1>3, FailedCounts DEF Counting
  <2> QED
    BY <1>1, <1>2, <1>3, <2>1, <2>2, WorkerFrame DEF StepsWith, Counting, RunType
<1>4. ASSUME To(s, "seen"), UNCHANGED real, NEW people \in SUBSET world.shows[s], Analyzed(s, people)
      PROVE  DraftInv'
  <2>1. /\ thread' = [thread EXCEPT ![s] = "seen"]
        /\ found' = [found EXCEPT ![s] = people] /\ last' = [last EXCEPT ![s] = people]
        /\ unmade' = {u \in unmade : u[2] # s}
        /\ request' = [q \in Requests |->
                         IF s \in request[q].due
                         THEN [request[q] EXCEPT !.again = @ \cup {s}] ELSE request[q]]
    BY <1>4 DEF To, Analyzed
  <2>2. people \in SUBSET People
    BY <1>1, DraftRunsAssumption DEF DriveType, World
  <2>3. /\ thread' \in [Sources -> WorkerSteps] /\ thread'[s] = "seen"
        /\ found' \in [Sources -> SUBSET People] /\ found'[s] = people /\ last'[s] = people
        /\ last' \in [Sources -> (SUBSET People) \cup {{"unseen"}}]
        /\ \A x \in Sources : x # s =>
              thread'[x] = thread[x] /\ found'[x] = found[x] /\ last'[x] = last[x]
    BY <1>1, <2>1, <2>2 DEF RunType, WorkerSteps
  <2>4. /\ request' \in [Requests -> RequestRow]
        /\ \A q \in Requests :
              /\ request'[q].status = request[q].status /\ request'[q].due = request[q].due
              /\ request[q].again \subseteq request'[q].again
              /\ s \in request[q].due => s \in request'[q].again
    <3>1. ASSUME NEW q \in Requests
          PROVE  /\ request'[q] \in RequestRow
                 /\ request'[q].status = request[q].status /\ request'[q].due = request[q].due
                 /\ request[q].again \subseteq request'[q].again
                 /\ s \in request[q].due => s \in request'[q].again
      BY <1>1, <2>1 DEF DriveType, RequestRow
    <3> QED
      BY <2>1, <3>1
  <2>5. DriveType' /\ RunType'
    BY <1>1, <1>2, <1>4, <2>3, <2>4 DEF DriveType, RunType
  <2>6. StepsOK' /\ AtWorkInRaw'
    BY <1>1, <1>2, <2>3, Unpacked DEF StepsOK, StepsWith, AtWorkInRaw, Counting
  <2>7. \A x \in Sources : CountsOK(x)'
    BY <1>2, <1>4, <2>3, Unpacked, CountsFrame DEF Counting
  <2>8. SeenOK' /\ ReelsOK'
    BY <1>1, <1>2, <2>3, Unpacked DEF SeenOK, ReelsOK
  <2>9. RequestsOK'
    <3>1. ASSUME NEW q \in Requests PROVE RequestOK(q)'
      <4>1. RequestOK(q)
        BY Unpacked DEF RequestsOK
      <4>2. ASSUME NEW x \in request[q].due
            PROVE  /\ x \in request'[q].again \/ real[x] >= FailLimit \/ Waiting(x)
                   /\ thread'[x] \in {"seen", "archived"} => x \in request'[q].again
        <5>0. x \in Sources /\ thread[x] # "moved"
          BY <1>1, Unpacked DEF DriveType, RequestRow, StepsOK, StepsWith, Counting
        <5>1. /\ x \in request[q].again \/ real[x] >= FailLimit \/ Waiting(x)
              /\ thread[x] \in {"seen", "archived"} => x \in request[q].again
              /\ x \in Sources
          BY <4>1, <5>0 DEF RequestOK, BetweenWrites
        <5> QED
          BY <2>3, <2>4, <4>2, <5>1
      <4>3. \A x \in Sources : Waiting(x)' <=> Waiting(x)
        BY <1>2 DEF Waiting
      <4>4. request[q].due \subseteq Sources
        BY <1>1 DEF DriveType, RequestRow
      <4> QED
        BY <1>1, <1>2, <1>4, <2>4, <4>2, <4>3, <4>4 DEF RequestOK
    <3> QED
      BY <1>1, <1>2, <3>1 DEF RequestsOK
  <2>10. ArchivedIsAccounted'
    <3>1. place[s] = "raw"
      BY <1>1, Unpacked DEF AtWorkInRaw
    <3>2. /\ real \in Counts /\ \A x \in Sources : real[x] <= real[x]
          /\ (Held \ reels)' = Held \ reels
      BY <1>1, <1>2 DEF RunType, Counts, Held
    <3>3. ASSUME NEW x \in Sources, place[x] = "processed"
          PROVE  x # s /\ \A p \in last[x] : <<p, x>> \in unmade => <<p, x>> \in unmade'
      BY <2>1, <3>1, <3>3
    <3> QED
      BY <1>2, <1>4, <2>3, <3>2, <3>3, Unpacked, ArchivedFrame
  <2> QED
    BY <2>5, <2>6, <2>7, <2>8, <2>9, <2>10 DEF DraftInv
<1> QED
  BY <1>3, <1>4 DEF Analyze

\* A worker counts: it reads the counts, ...
LEMMA RecordLoadInv ==
    ASSUME DraftInv, UNCHANGED world, pc \in {"download", "analyze"},
           NEW s \in Sources, RecordLoad(s)
    PROVE  DraftInv'
<1> USE DEF drive, tables, local, made, history
<1>1. /\ DriveType /\ RunType /\ thread[s] = "load" /\ \A x \in Sources : CountsOK(x)
  BY Unpacked DEF RecordLoad
<1>2. /\ thread' = [thread EXCEPT ![s] = "write"] /\ snap' = [snap EXCEPT ![s] = fails]
      /\ UNCHANGED <<drive, tables, local, pc, todo, tmp, made, notes, history, faults>>
  BY DEF RecordLoad, To
<1>3. /\ snap' \in [Sources -> Counts] /\ snap'[s] = fails /\ thread'[s] = "write"
      /\ \A x \in Sources : x # s => thread'[x] = thread[x] /\ snap'[x] = snap[x]
  BY <1>1, <1>2 DEF RunType
<1>4. ASSUME NEW x \in Sources PROVE CountsOK(x)'
  <2>1. Honest(fails, x) /\ (thread[x] = "load" => Behind(fails, x))
    BY <1>1 DEF CountsOK
  <2>2. /\ Honest(fails, x)' /\ (tmp # NoTable => Honest(tmp, x)')
        /\ thread[x] = "load" => Behind(fails, x)' /\ (tmp # NoTable => Behind(tmp, x)')
    BY <1>1, <1>2 DEF CountsOK, Honest, Behind
  <2>3. ASSUME NEW y \in Sources, thread'[y] \in {"write", "rename"}
        PROVE  Honest(snap[y], x)' /\ (thread[x] = "load" => Behind(snap[y], x)')
    BY <1>1, <1>2, <1>3, <2>1, <2>3 DEF CountsOK, Honest, Behind
  <2>4. thread'[x] \in {"write", "rename"} => Behind(snap[x], x)'
    BY <1>1, <1>2, <1>3, <2>1 DEF CountsOK, Behind
  <2>5. thread'[x] \in {"giveup", "remember"} => real'[x] >= FailLimit
    BY <1>1, <1>2, <1>3 DEF CountsOK
  <2>6. UNCHANGED NoTable /\ (thread'[x] = "load" => thread[x] = "load")
    BY <1>3 DEF NoTable
  <2> QED
    BY <1>2, <2>2, <2>3, <2>4, <2>5, <2>6 DEF CountsOK
<1>5. real \in Counts /\ \A x \in Sources : real[x] <= real[x]
  BY <1>1 DEF RunType, Counts
<1> QED
  BY <1>1, <1>2, <1>3, <1>4, <1>5, WorkerFrame DEF StepsWith, Counting, RunType, DriveType

\* ... writes them with one more, ...
LEMMA RecordWriteInv ==
    ASSUME DraftInv, UNCHANGED world, pc \in {"download", "analyze"},
           NEW s \in Sources, RecordWrite(s)
    PROVE  DraftInv'
<1> USE DEF drive, tables, local, made, history
<1>1. /\ DriveType /\ RunType /\ thread[s] = "write" /\ \A x \in Sources : CountsOK(x)
  BY Unpacked DEF RecordWrite
<1>2. /\ thread' = [thread EXCEPT ![s] = "rename"]
      /\ tmp' = [snap[s] EXCEPT ![s] = @ + 1]
      /\ UNCHANGED <<drive, tables, local, pc, todo, snap, made, notes, history, faults>>
  BY DEF RecordWrite, To
<1>3. /\ tmp' \in Counts /\ tmp'[s] = snap[s][s] + 1 /\ \A x \in Sources : x # s => tmp'[x] = snap[s][x]
      /\ thread'[s] = "rename" /\ \A x \in Sources : x # s => thread'[x] = thread[x]
  BY <1>1, <1>2 DEF RunType, Counts
<1>4. ASSUME NEW x \in Sources PROVE CountsOK(x)'
  <2>1. /\ Honest(snap[s], x) /\ (thread[x] = "load" => Behind(snap[s], x))
        /\ x = s => Behind(snap[s], s)
    BY <1>1 DEF CountsOK
  <2>2. Honest(tmp, x)' /\ (thread[x] = "load" => Behind(tmp, x)')
    BY <1>1, <1>2, <1>3, <2>1 DEF Honest, Behind
  <2>3. /\ Honest(fails, x)' /\ (thread[x] = "load" => Behind(fails, x)')
        /\ thread[x] \in {"write", "rename"} => Behind(snap[x], x)'
        /\ thread[x] \in {"giveup", "remember"} => real'[x] >= FailLimit
    BY <1>1, <1>2 DEF CountsOK, Honest, Behind
  <2>4. ASSUME NEW y \in Sources, thread[y] \in {"write", "rename"}
        PROVE  Honest(snap[y], x)' /\ (thread[x] = "load" => Behind(snap[y], x)')
    BY <1>1, <1>2, <2>4 DEF CountsOK, Honest, Behind
  <2>5. /\ \A y \in Sources : thread'[y] \in {"write", "rename"} <=> thread[y] \in {"write", "rename"}
        /\ thread'[x] = "load" <=> thread[x] = "load"
        /\ thread'[x] \in {"giveup", "remember"} <=> thread[x] \in {"giveup", "remember"}
    BY <1>1, <1>3
  <2> QED
    BY <2>2, <2>3, <2>4, <2>5 DEF CountsOK
<1>5. real \in Counts /\ \A x \in Sources : real[x] <= real[x]
  BY <1>1 DEF RunType, Counts
<1> QED
  BY <1>1, <1>2, <1>3, <1>4, <1>5, WorkerFrame DEF StepsWith, Counting, RunType, DriveType

\* ... and renames the file, which may not be its own; it gives up on its own count.
LEMMA RecordRenameInv ==
    ASSUME DraftInv, UNCHANGED world, pc \in {"download", "analyze"},
           NEW s \in Sources, RecordRename(s)
    PROVE  DraftInv'
<1> USE DEF drive, tables, made, history
<1>1. /\ DriveType /\ RunType /\ thread[s] = "rename" /\ \A x \in Sources : CountsOK(x)
      /\ NoTable \in Counts /\ FailLimit \in Nat
  BY Unpacked, DraftRunsAssumption DEF RecordRename, NoTable, Counts
<1>2. PICK step \in {"fell", "giveup", "gone"} :
        /\ thread' = [thread EXCEPT ![s] = step]
        /\ \/ tmp = NoTable /\ step = "fell" /\ UNCHANGED <<fails, tmp>>
           \/ /\ tmp # NoTable /\ fails' = tmp /\ tmp' = NoTable
              /\ step = "giveup" => LimitReached(s)
  BY DEF RecordRename, To
<1>3. /\ snap' = [snap EXCEPT ![s] = NoTable]
      /\ UNCHANGED <<drive, tables, cache, staged, pc, todo, made, notes, history, faults>>
  BY DEF RecordRename
<1>4. /\ snap' \in [Sources -> Counts]
      /\ thread'[s] = step
      /\ \A x \in Sources : x # s => thread'[x] = thread[x] /\ snap'[x] = snap[x]
      /\ fails' \in Counts /\ tmp' \in Counts
  BY <1>1, <1>2, <1>3 DEF RunType
<1>5. step = "giveup" => real[s] >= FailLimit
  <2>1. snap[s][s] \in Nat /\ real[s] \in Nat
    BY <1>1 DEF RunType, Counts
  <2> QED
    BY <1>1, <1>2, <2>1 DEF CountsOK, Behind, LimitReached
<1>6. ASSUME NEW x \in Sources PROVE CountsOK(x)'
  <2>1. Honest(fails, x)' /\ (thread[x] = "load" => Behind(fails, x)')
    BY <1>1, <1>2, <1>3 DEF CountsOK, Honest, Behind
  <2>2. tmp' # NoTable => Honest(tmp, x)' /\ (thread[x] = "load" => Behind(tmp, x)')
    BY <1>1, <1>2, <1>3 DEF CountsOK, Honest, Behind
  <2>3. ASSUME NEW y \in Sources, thread'[y] \in {"write", "rename"}
        PROVE  Honest(snap[y], x)' /\ (thread[x] = "load" => Behind(snap[y], x)')
    BY <1>1, <1>2, <1>3, <1>4, <2>3 DEF CountsOK, Honest, Behind
  <2>4. thread'[x] \in {"write", "rename"} => Behind(snap[x], x)'
    BY <1>1, <1>2, <1>3, <1>4 DEF CountsOK, Behind
  <2>5. thread'[x] \in {"giveup", "remember"} => real'[x] >= FailLimit
    BY <1>1, <1>2, <1>3, <1>4, <1>5 DEF CountsOK
  <2>6. UNCHANGED NoTable /\ (thread'[x] = "load" => thread[x] = "load")
    BY <1>2, <1>4 DEF NoTable
  <2> QED
    BY <2>1, <2>2, <2>3, <2>4, <2>5, <2>6 DEF CountsOK
<1>7. real \in Counts /\ \A x \in Sources : real[x] <= real[x]
  BY <1>1 DEF RunType, Counts
<1> QED
  BY <1>1, <1>2, <1>3, <1>4, <1>6, <1>7, WorkerFrame DEF StepsWith, Counting, RunType, DriveType

\* A source given up is at its limit, in RAW or in the cache.
LEMMA GiveUpInv ==
    ASSUME DraftInv, UNCHANGED world, pc \in {"download", "analyze"},
           NEW s \in Sources, GiveUp(s)
    PROVE  DraftInv'
<1> USE DEF tables, local, made, history, Fine
<1>1. /\ DriveType /\ RunType /\ thread[s] = "giveup" /\ \A x \in Sources : CountsOK(x)
      /\ real[s] >= FailLimit /\ faults' \in 0..world.faults
  <2>1. world.faults \in Nat /\ DriveType
    BY Unpacked, DraftRunsAssumption DEF DriveType, World
  <2> QED
    BY <2>1, Unpacked DEF GiveUp, CountsOK, DriveType, Fault
<1>2. PICK step \in {"remember", "fell"} :
        /\ thread' = [thread EXCEPT ![s] = step]
        /\ \/ step = "remember" /\ place' = [place EXCEPT ![s] = "processed"]
           \/ step = "fell" /\ UNCHANGED place
  BY DEF GiveUp, To
<1>3. UNCHANGED <<review, tables, local, pc, todo, snap, tmp, made, notes, history>>
  BY DEF GiveUp
<1>4. \A x \in Sources : x # s => thread'[x] = thread[x]
  BY <1>1, <1>2 DEF RunType
<1>5. thread'[s] = step
  BY <1>1, <1>2 DEF RunType
<1>6. \A x \in Sources : CountsOK(x)'
  BY <1>1, <1>3, <1>4, <1>5 DEF CountsOK, Honest, Behind, NoTable
<1>7. real \in Counts /\ \A x \in Sources : real[x] <= real[x]
  BY <1>1 DEF RunType, Counts
<1> QED
  BY <1>1, <1>2, <1>3, <1>6, <1>7, WorkerFrame DEF StepsWith, Counting, RunType

LEMMA RememberInv ==
    ASSUME DraftInv, UNCHANGED world, pc \in {"download", "analyze"},
           NEW s \in Sources, Remember(s)
    PROVE  DraftInv'
<1> USE DEF drive, tables, made, history
<1>1. /\ DriveType /\ RunType /\ thread[s] = "remember" /\ \A x \in Sources : CountsOK(x)
      /\ real[s] >= FailLimit
  BY Unpacked DEF Remember, CountsOK
<1>2. PICK step \in {"gone", "fell"} : thread' = [thread EXCEPT ![s] = step]
  BY DEF Remember, To
<1>3. /\ cache' \subseteq cache \cup {s}
      /\ UNCHANGED <<drive, tables, fails, staged, pc, todo, snap, tmp, made, notes, history, faults>>
  BY DEF Remember
<1>4. \A x \in Sources : x # s => thread'[x] = thread[x]
  BY <1>1, <1>2 DEF RunType
<1>5. thread'[s] = step
  BY <1>1, <1>2 DEF RunType
<1>6. \A x \in Sources : CountsOK(x)'
  BY <1>1, <1>3, <1>4, <1>5, CountsFrame DEF Counting
<1>7. real \in Counts /\ \A x \in Sources : real[x] <= real[x]
  BY <1>1 DEF RunType, Counts
<1> QED
  BY <1>1, <1>2, <1>3, <1>6, <1>7, WorkerFrame DEF StepsWith, Counting, RunType, DriveType

\* A pool ends; what was analysed is what is left of it.
LEMMA PoolEndsInv ==
    ASSUME DraftInv, UNCHANGED world, PoolEnds
    PROVE  DraftInv'
<1> USE DEF drive, tables, local, memory, pool, made, history, Goto
<1>1. /\ DriveType /\ RunType /\ pc \in {"download", "analyze"}
      /\ UNCHANGED <<drive, tables, local, history, faults>>
  BY Unpacked DEF PoolEnds
<1>2. CASE EndRun
  <2>1. \A s \in Sources : thread[s] # "moved"
    BY <1>1, Unpacked DEF StepsOK, StepsWith, Counting
  <2> QED
    BY <1>1, <1>2, <2>1, RunEnded DEF DriveType
<1>3. CASE ~EndRun
  <2>1. /\ \A s \in Sources : thread[s] # "fell" /\ UNCHANGED <<todo, memory>>
        /\ pc' = CASE pc = "download" -> "analyze"
                   [] pc = "analyze" /\ (\E s \in Sources : thread[s] = "seen") -> "compile"
                   [] OTHER -> "close"
    BY <1>3 DEF PoolEnds
  <2>2. /\ UNCHANGED <<todo, memory>> /\ pc' \in {"analyze", "compile", "close"}
        /\ pc = "download" => pc' = "analyze"
        /\ pc' = "close" => \A s \in Sources : thread[s] # "seen"
        /\ pc' = "analyze" => pc = "download"
    <3>1. UNCHANGED <<todo, memory>>
      BY <1>3 DEF PoolEnds
    <3> QED
      BY <1>1, <2>1, <3>1
  <2>3. DriveType' /\ RunType'
    BY <1>1, <2>2 DEF DriveType, RunType, MainSteps
  <2>4. ASSUME NEW s \in Sources PROVE thread[s] \in StepsWith(pc')
    <3>1. thread[s] \in StepsWith(pc) /\ thread[s] # "fell"
      BY <2>1, Unpacked DEF StepsOK
    <3>2. thread[s] \in (IF pc = "download" THEN Resting ELSE Resting \ {"have"})
      BY DEF PoolEnds
    <3>3. CASE pc = "download"
      BY <2>2, <3>1, <3>2, <3>3 DEF StepsWith, Resting, Counting
    <3>4. CASE pc = "analyze"
      <4>1. thread[s] \in {"idle", "seen", "gone"}
        BY <3>1, <3>2, <3>4 DEF Resting
      <4>2. pc' \in {"compile", "close"} /\ (pc' = "close" => thread[s] # "seen")
        BY <2>2, <3>4
      <4> QED
        BY <4>1, <4>2 DEF StepsWith
    <3> QED
      BY <1>1, <3>3, <3>4
  <2>5. StepsOK' /\ AtWorkInRaw' /\ SeenOK' /\ ReelsOK'
    BY <1>1, <2>2, <2>4, Unpacked DEF StepsOK, AtWorkInRaw, SeenOK, ReelsOK
  <2>6. \A x \in Sources : CountsOK(x)'
    BY <1>1, <2>2, Unpacked, CountsFrame
  <2>7. RequestsOK'
    BY <1>1, <2>2, Unpacked DEF RequestsOK, RequestOK, Waiting, BetweenWrites
  <2>8. ArchivedIsAccounted'
    BY <1>1, <2>2, Unpacked DEF ArchivedIsAccounted, Processed, Accounted, Held
  <2> QED
    BY <2>3, <2>5, <2>6, <2>7, <2>8 DEF DraftInv
<1> QED
  BY <1>2, <1>3

----------------------------------------------------------------------------
(* The reels, the archive, the end.                                        *)

\* The reels are of sources that were seen, and with the people left without a
\* reel they are all that was seen.
LEMMA CompileInv ==
    ASSUME DraftInv, UNCHANGED world, Compile
    PROVE  DraftInv'
<1> USE DEF drive, local, pool, Fine, Goto
<1>1. /\ DriveType /\ RunType /\ pc = "compile" /\ faults' \in 0..world.faults
      /\ UNCHANGED <<drive, request, local, real, last, abandoned, lost, unforgotten>>
  BY Unpacked, DraftRunsAssumption DEF Compile, DriveType, World, Fault
<1>2. CASE EndRun /\ UNCHANGED <<unmade, draftOf>>
  <2>1. \A s \in Sources : thread[s] # "moved"
    BY <1>1, Unpacked DEF StepsOK, StepsWith
  <2> QED
    BY <1>1, <1>2, <2>1, RunEnded DEF DriveType
<1>3. CASE ~(EndRun /\ UNCHANGED <<unmade, draftOf>>)
  <2>1. PICK P \in SUBSET Clusters :
          /\ reels' = {[who |-> p, of |-> With(p)] : p \in P}
          /\ unmade' = unmade \cup {u \in (Clusters \ P) \X Sources : u[1] \in found[u[2]]}
          /\ draftOf' = IF Long THEN draftOf
                        ELSE [p \in People |-> IF p \in P THEN With(p) ELSE draftOf[p]]
    BY <1>3 DEF Compile
  <2>2. pc' = "upload" /\ UNCHANGED <<todo, pool, found, notes>>
    BY <1>3 DEF Compile
  <2>3. \A s \in Sources : thread[s] \in {"idle", "seen", "gone"}
    BY <1>1, Unpacked DEF StepsOK, StepsWith
  <2>4. ASSUME NEW r \in reels' PROVE r \in Reels /\ \A s \in r.of : s \in Sources /\ thread[s] = "seen"
    <3>1. PICK p \in P : r = [who |-> p, of |-> With(p)]
      BY <2>1
    <3>2. p \in People /\ With(p) # {} /\ With(p) \subseteq Sources
      BY DEF Clusters, With
    <3>3. ASSUME NEW s \in With(p) PROVE thread[s] = "seen"
      BY <1>1, Unpacked DEF SeenOK, With
    <3>4. r \in Reels
      BY <3>1, <3>2 DEF Reels
    <3>5. r.of = With(p)
      BY <3>1
    <3> QED
      BY <3>2, <3>3, <3>4, <3>5
  <2>5. draftOf' \in [People -> SUBSET Sources]
    <3>1. ASSUME NEW p \in People PROVE With(p) \subseteq Sources
      BY DEF With
    <3> QED
      BY <1>1, <2>1, <3>1 DEF DriveType
  <2>6. DriveType' /\ RunType'
    BY <1>1, <2>2, <2>4, <2>5 DEF DriveType, RunType, MainSteps
  <2>7. StepsOK' /\ AtWorkInRaw'
    BY <1>1, <2>2, <2>3, Unpacked DEF StepsOK, StepsWith, AtWorkInRaw
  <2>8. \A x \in Sources : CountsOK(x)'
    BY <1>1, <2>2, Unpacked, CountsFrame
  <2>9. ReelsOK'
    BY <2>2, <2>4 DEF ReelsOK
  <2>10. SeenOK'
    <3>1. ASSUME NEW s \in Sources
          PROVE  found[s] # {} => thread[s] = "seen"
      BY <1>1, Unpacked DEF SeenOK
    <3>2. ASSUME NEW s \in Sources, thread[s] = "seen", NEW p \in last[s]
          PROVE  Kept(p, s, Held)'
      <4>1. p \in found[s] /\ p \in People
        BY <1>1, <3>2, Unpacked DEF SeenOK, RunType
      <4>2. s \in With(p) /\ p \in Clusters
        BY <4>1 DEF With, Clusters
      <4>3. CASE p \in P
        <5>1. [who |-> p, of |-> With(p)] \in reels'
          BY <2>1, <4>3
        <5> QED
          BY <4>2, <5>1 DEF Kept, Held
      <4>4. CASE p \notin P
        <5>1. <<p, s>> \in (Clusters \ P) \X Sources
          BY <4>2, <4>4
        <5>2. <<p, s>> \in unmade'
          BY <2>1, <4>1, <5>1
        <5> QED
          BY <5>2 DEF Kept
      <4> QED
        BY <4>3, <4>4
    <3>3. \A s \in Sources : thread[s] = "seen" => last[s] = found[s]
      BY Unpacked DEF SeenOK
    <3> QED
      BY <1>1, <2>2, <3>1, <3>2, <3>3 DEF SeenOK
  <2>11. RequestsOK'
    BY <1>1, <2>2, Unpacked DEF RequestsOK, RequestOK, Waiting, BetweenWrites
  <2>12. ArchivedIsAccounted'
    <3>1. /\ real \in Counts /\ \A x \in Sources : real[x] <= real[x]
          /\ \A p \in People, x \in Sources : <<p, x>> \in unmade => <<p, x>> \in unmade'
          /\ \A u \in unmade : u \in unmade'
      BY <1>1, <2>1 DEF RunType, Counts
    <3>2. ASSUME NEW x \in Sources, place[x] = "processed", NEW r \in Held \ reels, x \in r.of
          PROVE  r \in (Held \ reels)'
      <4>1. r \notin reels'
        BY <2>4, <3>2, Unpacked DEF AtWorkInRaw
      <4> QED
        BY <1>1, <4>1 DEF Held
    <3> QED
      BY <1>1, <3>1, <3>2, Unpacked, ArchivedFrame
  <2> QED
    BY <2>6, <2>7, <2>8, <2>9, <2>10, <2>11, <2>12 DEF DraftInv
<1> QED
  BY <1>2, <1>3

\* A reel that is uploaded, staged or lost stays one that was made.
LEMMA UploadInv ==
    ASSUME DraftInv, UNCHANGED world, NEW r \in reels, Upload(r)
    PROVE  DraftInv'
<1> USE DEF pool, Fine
<1>1. /\ DriveType /\ RunType /\ pc = "upload" /\ r \in Reels /\ reels' = reels \ {r}
      /\ UNCHANGED <<place, request, cache, fails, pc, todo, pool, found, notes, real, last,
                     unmade, abandoned, unforgotten>>
  BY Unpacked DEF Upload, RunType
<1>2. faults' \in 0..world.faults
  BY <1>1, DraftRunsAssumption DEF Upload, Delivered, Staged, DriveType, World, Fault
<1>3. /\ review' \cup DOMAIN staged' \cup lost' = review \cup DOMAIN staged \cup lost \cup {r}
      /\ draftOf' = draftOf \/ draftOf' = [draftOf EXCEPT ![r.who] = r.of]
  <2>1. CASE Delivered(r)
    BY <2>1 DEF Delivered
  <2>2. CASE Staged(r)
    <3>1. DOMAIN staged' = DOMAIN staged \cup {r}
      BY <2>2 DEF Staged
    <3> QED
      BY <2>2, <3>1 DEF Staged
  <2>3. CASE Fault /\ lost' = lost \cup {r} /\ UNCHANGED <<review, staged, draftOf>>
    BY <2>3
  <2> QED
    BY <2>1, <2>2, <2>3 DEF Upload
<1>4. draftOf' \in [People -> SUBSET Sources]
  BY <1>1, <1>3 DEF DriveType, Reels
<1>5. DriveType' /\ RunType'
  BY <1>1, <1>2, <1>3, <1>4 DEF DriveType, RunType
<1>6. Held' = Held
  BY <1>1, <1>3 DEF Held
<1>7. StepsOK' /\ AtWorkInRaw' /\ ReelsOK'
  BY <1>1, Unpacked DEF StepsOK, AtWorkInRaw, ReelsOK
<1>8. \A x \in Sources : CountsOK(x)'
  BY <1>1, Unpacked, CountsFrame
<1>9. SeenOK'
  BY <1>1, <1>6, Unpacked DEF SeenOK, Kept
<1>10. RequestsOK'
  BY <1>1, Unpacked DEF RequestsOK, RequestOK, Waiting, BetweenWrites
<1>11. ArchivedIsAccounted'
  <2>1. real \in Counts /\ \A x \in Sources : real[x] <= real[x]
    BY <1>1 DEF RunType, Counts
  <2>2. \A x \in Held \ reels : x \in (Held \ reels)'
    BY <1>1, <1>6
  <2> QED
    BY <1>1, <2>1, <2>2, Unpacked, ArchivedFrame
<1> QED
  BY <1>5, <1>7, <1>8, <1>9, <1>10, <1>11 DEF DraftInv

\* Once no reel is left to upload, a source that was seen is accounted for.
LEMMA ArchiveInv ==
    ASSUME DraftInv, UNCHANGED world, NEW s \in Sources, Archive(s)
    PROVE  DraftInv'
<1> USE DEF tables, local, made, history, Fine
<1>1. /\ DriveType /\ RunType /\ pc = "upload" /\ reels = {} /\ thread[s] = "seen"
      /\ faults' \in 0..world.faults
      /\ UNCHANGED <<review, tables, local, history>>
  BY Unpacked, DraftRunsAssumption DEF Archive, DriveType, World, Fault
<1>2. CASE EndRun /\ UNCHANGED place
  <2>1. \A x \in Sources : thread[x] # "moved"
    BY <1>1, Unpacked DEF StepsOK, StepsWith
  <2> QED
    BY <1>1, <1>2, <2>1, RunEnded DEF DriveType
<1>3. CASE ~(EndRun /\ UNCHANGED place)
  <2>1. /\ place' = [place EXCEPT ![s] = "processed"] /\ thread' = [thread EXCEPT ![s] = "archived"]
        /\ UNCHANGED <<pc, todo, snap, tmp, made, notes>>
    BY <1>3 DEF Archive, To
  <2>2. /\ place' \in [Sources -> {"raw", "processed"}] /\ thread' \in [Sources -> WorkerSteps]
        /\ thread'[s] = "archived"
        /\ \A x \in Sources : x # s => thread'[x] = thread[x] /\ place'[x] = place[x]
    BY <1>1, <2>1 DEF DriveType, RunType, WorkerSteps
  <2>3. DriveType' /\ RunType'
    BY <1>1, <2>1, <2>2 DEF DriveType, RunType
  <2>4. StepsOK' /\ AtWorkInRaw' /\ ReelsOK'
    BY <1>1, <2>1, <2>2, Unpacked DEF StepsOK, StepsWith, AtWorkInRaw, Counting, ReelsOK
  <2>5. \A x \in Sources : CountsOK(x)'
    BY <1>1, <2>1, <2>2, Unpacked, CountsFrame DEF Counting
  <2>6. SeenOK'
    BY <1>1, <2>1, <2>2, Unpacked DEF SeenOK, Kept, Held
  <2>7. RequestsOK'
    <3>1. ASSUME NEW q \in Requests PROVE RequestOK(q)'
      <4>1. RequestOK(q) /\ request[q].due \subseteq Sources
        BY <1>1, Unpacked DEF RequestsOK, DriveType, RequestRow
      <4>2. \A x \in Sources : x # s =>
               /\ Waiting(x)' <=> Waiting(x)
               /\ BetweenWrites(q, x)' <=> BetweenWrites(q, x)
        BY <1>1, <2>2 DEF Waiting, BetweenWrites
      <4> QED
        BY <1>1, <2>1, <2>2, <4>1, <4>2 DEF RequestOK
    <3> QED
      BY <1>1, <2>1, <3>1 DEF RequestsOK
  <2>8. ArchivedIsAccounted'
    <3> SUFFICES ASSUME NEW x \in Sources, place'[x] = "processed" PROVE Accounted(x)'
      BY DEF ArchivedIsAccounted, Processed
    <3>1. (Held \ reels)' = Held \ reels /\ Held \ reels = Held
      BY <1>1, <2>1 DEF Held
    <3>2. CASE x # s
      <4>1. Accounted(x)
        BY <2>2, <3>2, Unpacked DEF ArchivedIsAccounted, Processed
      <4> QED
        BY <1>1, <3>1, <4>1 DEF Accounted
    <3>3. CASE x = s
      <4>1. last[s] = found[s] /\ \A p \in last[s] : Kept(p, s, Held)
        BY <1>1, Unpacked DEF SeenOK
      <4>2. last[s] # {"unseen"}
        BY <1>1, <4>1, DraftRunsAssumption DEF RunType
      <4> QED
        BY <1>1, <3>1, <3>3, <4>1, <4>2 DEF Accounted, Kept
    <3> QED
      BY <3>2, <3>3
  <2> QED
    BY <2>3, <2>4, <2>5, <2>6, <2>7, <2>8 DEF DraftInv
<1> QED
  BY <1>2, <1>3

\* The requests have seen the source that the cache now hides.
LEMMA ArchivedInv ==
    ASSUME DraftInv, UNCHANGED world, NEW s \in Sources, Archived(s)
    PROVE  DraftInv'
<1> USE DEF drive, tables, made, history
<1>1. /\ DriveType /\ RunType /\ pc = "upload" /\ thread[s] = "archived"
      /\ thread' = [thread EXCEPT ![s] = "gone"] /\ cache' = cache \cup {s}
      /\ UNCHANGED <<drive, tables, fails, staged, pc, todo, snap, tmp, made, notes, history, faults>>
  BY Unpacked DEF Archived, To
<1>2. /\ thread' \in [Sources -> WorkerSteps] /\ thread'[s] = "gone"
      /\ \A x \in Sources : x # s => thread'[x] = thread[x]
  BY <1>1 DEF RunType, WorkerSteps
<1>3. DriveType' /\ RunType'
  BY <1>1, <1>2 DEF DriveType, RunType
<1>4. StepsOK' /\ AtWorkInRaw'
  BY <1>1, <1>2, Unpacked DEF StepsOK, StepsWith, AtWorkInRaw, Counting
<1>5. \A x \in Sources : CountsOK(x)'
  BY <1>1, <1>2, Unpacked, CountsFrame DEF Counting
<1>6. SeenOK'
  BY <1>1, <1>2, Unpacked DEF SeenOK, Kept, Held
<1>7. ReelsOK'
  <2>1. ASSUME NEW r \in reels PROVE \A x \in r.of : thread'[x] = "seen"
    <3>1. \A x \in r.of : x \in Sources /\ thread[x] = "seen"
      BY <1>1, Unpacked DEF ReelsOK, RunType, Reels
    <3> QED
      BY <1>1, <1>2, <3>1
  <2> QED
    BY <1>1, <2>1 DEF ReelsOK
<1>8. RequestsOK'
  <2>1. ASSUME NEW q \in Requests PROVE RequestOK(q)'
    <3>1. RequestOK(q) /\ request[q].due \subseteq Sources
      BY <1>1, Unpacked DEF RequestsOK, DriveType, RequestRow
    <3>2. \A x \in Sources : x # s =>
             /\ Waiting(x)' <=> Waiting(x)
             /\ BetweenWrites(q, x)' <=> BetweenWrites(q, x)
      BY <1>1, <1>2 DEF Waiting, BetweenWrites
    <3> QED
      BY <1>1, <1>2, <3>1, <3>2 DEF RequestOK
  <2> QED
    BY <1>1, <2>1 DEF RequestsOK
<1>9. ArchivedIsAccounted'
  BY <1>1, Unpacked DEF ArchivedIsAccounted, Processed, Accounted, Held
<1> QED
  BY <1>3, <1>4, <1>5, <1>6, <1>7, <1>8, <1>9 DEF DraftInv

\* What a request still waits for is there when it is closed.
LEMMA CloseRequestsInv ==
    ASSUME DraftInv, UNCHANGED world, CloseRequests
    PROVE  DraftInv'
<1> USE DEF drive, local, history, Fine
<1>1. /\ DriveType /\ EndRun /\ UNCHANGED <<drive, draftOf, local, history>>
      /\ faults' \in 0..world.faults
  BY Unpacked, DraftRunsAssumption DEF CloseRequests, DriveType, World, Fault
<1>5. \A s \in Sources : thread[s] # "moved"
  BY Unpacked DEF CloseRequests, StepsOK, StepsWith
<1>2. \/ UNCHANGED request
      \/ request' = [q \in Requests |-> IF request[q].status = "queued"
                                        THEN [request[q] EXCEPT !.status = "done"] ELSE request[q]]
  BY DEF CloseRequests
<1>3. ASSUME NEW q \in Requests
      PROVE  /\ request'[q] \in RequestRow
             /\ request'[q].due = request[q].due /\ request'[q].again = request[q].again
             /\ request'[q].status = request[q].status
                  \/ (request[q].status = "queued" /\ request'[q].status = "done")
  <2>1. request[q] \in RequestRow
    BY <1>1 DEF DriveType
  <2> QED
    BY <1>2, <2>1 DEF RequestRow, Statuses
<1>4. request' \in [Requests -> RequestRow]
  BY <1>1, <1>2, <1>3 DEF DriveType
<1> QED
  BY <1>1, <1>3, <1>4, <1>5, RunEnded

----------------------------------------------------------------------------
(* The invariant and what it gives.                                        *)

LEMMA DraftInit == Init => DraftInv
<1> SUFFICES ASSUME Init PROVE DraftInv
  OBVIOUS
<1> USE DEF Init
<1>1. NoTable \in Counts /\ FailLimit \in Nat \ {0} /\ world.faults \in Nat
  BY DraftRunsAssumption DEF NoTable, Counts, World
<1>2. DOMAIN staged = {}
  OBVIOUS
<1>3. DriveType
  BY <1>1, <1>2 DEF DriveType, RequestRow, Statuses
<1>4. RunType
  <2>1. fails \in Counts /\ real \in Counts /\ tmp \in Counts /\ snap \in [Sources -> Counts]
    BY <1>1 DEF Counts
  <2>2. thread \in [Sources -> WorkerSteps] /\ pc \in MainSteps
    BY DEF WorkerSteps, MainSteps
  <2>3. last \in [Sources -> (SUBSET People) \cup {{"unseen"}}]
    OBVIOUS
  <2> QED
    BY <2>1, <2>2, <2>3 DEF RunType
<1>5. StepsOK /\ AtWorkInRaw /\ SeenOK /\ ReelsOK
  BY DEF StepsOK, StepsWith, AtWorkInRaw, Counting, SeenOK, ReelsOK
<1>6. \A s \in Sources : CountsOK(s)
  BY <1>1 DEF CountsOK, Honest, Behind
<1>7. RequestsOK
  BY DEF RequestsOK, RequestOK
<1>8. ArchivedIsAccounted
  BY DEF ArchivedIsAccounted, Processed
<1> QED
  BY <1>3, <1>4, <1>5, <1>6, <1>7, <1>8 DEF DraftInv

LEMMA DraftNext == DraftInv /\ [Next]_vars => DraftInv'
<1> SUFFICES ASSUME DraftInv, [Next]_vars PROVE DraftInv'
  OBVIOUS
<1>1. CASE UNCHANGED vars
  <2>1. DriveType' /\ RunType'
    BY <1>1, Unpacked DEF vars, drive, tables, local, pool, made, history, DriveType, RunType
  <2>2. StepsOK' /\ AtWorkInRaw' /\ SeenOK' /\ ReelsOK'
    BY <1>1, Unpacked DEF vars, drive, tables, local, pool, made, history,
       StepsOK, AtWorkInRaw, SeenOK, ReelsOK, Kept, Held
  <2>3. \A s \in Sources : CountsOK(s)'
    BY <1>1, Unpacked, CountsFrame DEF vars, pool, history, local
  <2>4. RequestsOK' /\ ArchivedIsAccounted'
    BY <1>1, Unpacked DEF vars, drive, tables, local, pool, made, history,
       RequestsOK, RequestOK, Waiting, BetweenWrites, ArchivedIsAccounted, Processed, Accounted, Held
  <2> QED
    BY <2>1, <2>2, <2>3, <2>4 DEF DraftInv
<1>2. CASE Next
  <2>0. UNCHANGED world
    BY <1>2 DEF Next
  <2>1. CASE StartRun
    BY <2>0, <2>1, StartRunInv
  <2>2. CASE Crash
    BY <2>0, <2>2, CrashInv
  <2>3. CASE \E q \in Requests : SendBack(q)
    BY <2>0, <2>3, SendBackInv
  <2>4. CASE Step
    <3>1. CASE \E r \in DOMAIN staged : RetryStaged(r)
      BY <2>0, <3>1, RetryStagedInv
    <3>2. CASE FetchRequests
      BY <2>0, <3>2, FetchRequestsInv
    <3>3. CASE \E q \in Requests : MarkRequest(q)
      BY <2>0, <3>3, MarkRequestInv
    <3>4. CASE \E q \in Requests : \E s \in Sources : RequeueMove(q, s)
      BY <2>0, <3>4, RequeueMoveInv
    <3>5. CASE \E q \in Requests : \E s \in Sources : RequeueForget(q, s)
      BY <2>0, <3>5, RequeueForgetInv
    <3>6. CASE ListVideos
      BY <2>0, <3>6, ListVideosInv
    <3>7. CASE pc \in {"download", "analyze"} /\ PoolStep
      BY <2>0, <3>7, DownloadInv, AnalyzeInv, RecordLoadInv, RecordWriteInv, RecordRenameInv,
         GiveUpInv, RememberInv, PoolEndsInv DEF PoolStep
    <3>8. CASE Compile
      BY <2>0, <3>8, CompileInv
    <3>9. CASE \E r \in reels : Upload(r)
      BY <2>0, <3>9, UploadInv
    <3>10. CASE \E s \in Sources : Archive(s) \/ Archived(s)
      BY <2>0, <3>10, ArchiveInv, ArchivedInv
    <3>11. CASE CloseRequests
      BY <2>0, <3>11, CloseRequestsInv
    <3> QED
      BY <2>4, <3>1, <3>2, <3>3, <3>4, <3>5, <3>6, <3>7, <3>8, <3>9, <3>10, <3>11 DEF Step
  <2> QED
    BY <1>2, <2>1, <2>2, <2>3, <2>4 DEF Next
<1> QED
  BY <1>1, <1>2

\* The inductive invariant holds in every reachable state, however many sources
\* there are, whatever fails and wherever runs break off.
THEOREM DraftInvariant == Spec => []DraftInv
  BY DraftInit, DraftNext, PTL DEF Spec

\* Every variable keeps its type: reels are of somebody and of some source, the
\* counts of failed_ids.json are numbers, the faults stay within those of the world.
THEOREM TypeCorrect == Spec => []TypeOK
<1>1. DraftInv => TypeOK
  <2> SUFFICES ASSUME DraftInv PROVE TypeOK
    OBVIOUS
  <2>1. DriveType /\ RunType
    BY Unpacked
  <2>2. Held \subseteq Reels
    BY <2>1 DEF DriveType, RunType, Held
  <2>3. \A r \in Held : r.who \in People /\ r.of \in (SUBSET Sources) \ {{}}
    BY <2>2 DEF Reels
  <2> QED
    BY <2>1, <2>3 DEF TypeOK, DriveType, RunType, Counts
<1> QED
  BY <1>1, DraftInvariant, PTL

\* A source is in PROCESSED only when it failed as often as the limit says, or when
\* every person the last analysis found in it has a reel that is in REVIEW, staged,
\* given up on or lost, or was known to yield none (mark_as_processed).
THEOREM ArchivedAccounted == Spec => []ArchivedIsAccounted
<1>1. DraftInv => ArchivedIsAccounted
  BY Unpacked
<1> QED
  BY <1>1, DraftInvariant, PTL

\* No closed request has forgotten a source it put back: it was analysed again, is
\* at its limit, or is found by the next scan (close_queued_reprocess).
THEOREM DoneNotDropped == Spec => []DoneIsNotDropped
<1>1. DraftInv => DoneIsNotDropped
  BY Unpacked DEF RequestsOK, RequestOK, BetweenWrites, DoneIsNotDropped, Waiting, Hidden
<1> QED
  BY <1>1, DraftInvariant, PTL
=============================================================================
