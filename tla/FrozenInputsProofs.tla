-------------------------- MODULE FrozenInputsProofs --------------------------
(***************************************************************************)
(* Proofs about FrozenInputs, for any files, batches, manifests, stores,    *)
(* jobs and torn copies.                                                   *)
(*                                                                         *)
(* Every copy looked at its destination first, and what was free then was   *)
(* free at the start: that is enough for the originals (Free), however old  *)
(* the look.  A marker needs more: what is admitted stays in its place from *)
(* the admission to the mark, but where two copies met (AdmittedOK).  The   *)
(* phases of a job follow one another as in Phases (Ordered).  What a batch *)
(* run takes in is a second invariant, over the first (BatchInv).           *)
(***************************************************************************)
EXTENDS FrozenInputs, TLAPS

Contents == Range(Frozen) \cup {None, Torn}
ProcessedKeys == {k \in Keys : k[1] = "processed"}
Steps == {"preflight", "examine", "copy", "confirm", "requeue", "admit", "prepare", "mark",
          "drafts", "plan", "restore", "rekey", "forget"}
Standings == (UNION {Range(s) : s \in Statuses}) \cup {"superseded"}
Rows == [key : RawKeys \cup {NoKey}, status : Standings, hashed : BOOLEAN]
Whys == {None, "crash", "preflight", "frozen", "copy", "changed", "collision", "restore", "done"}
Lefts == UNION {[D -> Keys \cup {"todo", "absent", "done", "error"}] : D \in SUBSET Keys}
Jobs == [kind : Kinds \cup {None}, todo : Seq(Steps), manifest : Manifests \cup {<<>>},
         left : Lefts, made : RawKeys \cup {NoKey}, admitted : SUBSET RawKeys, why : Whys]
Copies == [from : ProcessedKeys, to : RawKeys, bytes : Range(Frozen), seen : BOOLEAN]
Recoveries == [step : {None, "planned", "copying", "done"}, left : SUBSET Copies]

\* What each phase comes after.
Earlier == [p \in Steps |-> CASE p = "copy" -> "examine" [] p = "restore" -> "plan"
                              [] p = "confirm" -> "copy"
                              [] p = "prepare" -> "admit" [] p = "mark" -> "prepare"
                              [] OTHER -> p]
Late == {"copy", "confirm", "restore", "prepare", "mark"}
Ordered(t) == \A i \in 2..Len(t) : t[i] \in Late => t[i - 1] = Earlier[t[i]]

StoreType ==
    /\ store \in [Keys -> Contents] /\ origin \in [Keys -> Contents]
    /\ markers \in [RawKeys -> Contents]
    /\ overwritten \subseteq RawKeys /\ torn \subseteq RawKeys
    /\ rows \in [Uploads -> Rows]
    /\ job \in Jobs
    /\ recovery \in Recoveries

\* A key that was seen free, now or earlier.
Free(k) == origin[k] = None

JobOK ==
    /\ Ordered(job.todo)
    /\ job.made # NoKey => Free(job.made)
    /\ At("copy") => \A k \in DOMAIN job.left : k \in RawKeys /\ job.left[k] \in Keys
    /\ At("restore") => \A k \in DOMAIN job.left : job.left[k] = "absent" => Free(FlatRaw(k[3]))

\* What is there of what was admitted, between the listing, the analysis and the mark.
AdmittedOK ==
    /\ At("prepare") \/ At("mark") => \A k \in job.admitted : store[k] # None
    /\ At("mark") => \A k \in job.admitted : <<k, store[k]>> \in analysed \/ k \in overwritten

RecoveryOK ==
    \A a \in recovery.left : origin[a.from] # None /\ (a.seen => Free(a.to))

MarkersOK ==
    \A k \in RawKeys :
        markers[k] # None => <<k, markers[k]>> \in analysed \/ k \in overwritten

InputsInv ==
    /\ StoreType
    /\ OriginalsUntouched
    /\ \A k \in ProcessedKeys : store[k] = origin[k]
    /\ JobOK /\ AdmittedOK /\ RecoveryOK /\ MarkersOK

----------------------------------------------------------------------------
(* Keys, phases, jobs.                                                     *)

LEMMA KeyFacts ==
    /\ \A n \in Names : /\ Raw(n) \in RawKeys /\ FlatRaw(n) \in RawKeys
                        /\ Processed(n) \in ProcessedKeys /\ FlatProcessed(n) \in ProcessedKeys
                        /\ Raw(n)[3] = n
    /\ \A k \in Keys : k[3] \in Names /\ (k \in RawKeys \/ k \in ProcessedKeys)
    /\ RawKeys \subseteq Keys /\ ProcessedKeys \subseteq Keys
    /\ \A k \in RawKeys : k \notin ProcessedKeys /\ k # NoKey
    /\ \A u \in Uploads : u[2] \in Names /\ Key("raw", u[1], u[2]) \in RawKeys
<1>1. ASSUME NEW n \in Names
      PROVE  /\ Raw(n) \in RawKeys /\ FlatRaw(n) \in RawKeys
             /\ Processed(n) \in ProcessedKeys /\ FlatProcessed(n) \in ProcessedKeys
             /\ Raw(n)[3] = n
  BY FrozenInputsAssumption DEF Raw, FlatRaw, Processed, FlatProcessed, Key, Keys, RawKeys, ProcessedKeys
<1>2. ASSUME NEW k \in Keys PROVE k[3] \in Names /\ (k \in RawKeys \/ k \in ProcessedKeys)
  BY DEF Keys, RawKeys, ProcessedKeys
<1>3. ASSUME NEW k \in RawKeys PROVE k \notin ProcessedKeys /\ k # NoKey
  BY DEF RawKeys, ProcessedKeys, NoKey, Key, None
<1>4. ASSUME NEW u \in Uploads PROVE u[2] \in Names /\ Key("raw", u[1], u[2]) \in RawKeys
  BY DEF Uploads, Key, Keys, RawKeys
<1> QED
  BY <1>1, <1>2, <1>3, <1>4 DEF RawKeys, ProcessedKeys

\* A tail of an ordered list is ordered, and what it begins with comes after its place.
LEMMA OrderedTail ==
    ASSUME NEW t \in Seq(Steps), t # <<>>, Ordered(t)
    PROVE  /\ Tail(t) \in Seq(Steps) /\ Ordered(Tail(t))
           /\ Tail(t) # <<>> /\ Head(Tail(t)) \in Late => Head(t) = Earlier[Head(Tail(t))]
<1>1. /\ Tail(t) \in Seq(Steps) /\ Len(Tail(t)) = Len(t) - 1 /\ Len(t) \in Nat /\ Len(t) >= 1
      /\ \A i \in 1..Len(Tail(t)) : Tail(t)[i] = t[i + 1]
  OBVIOUS
<1>2. ASSUME NEW i \in 2..Len(Tail(t)), Tail(t)[i] \in Late
      PROVE  Tail(t)[i - 1] = Earlier[Tail(t)[i]]
  <2>1. /\ i + 1 \in 2..Len(t) /\ i - 1 \in 1..Len(Tail(t)) /\ i \in 1..Len(Tail(t))
        /\ (i + 1) - 1 = i /\ (i - 1) + 1 = i
    BY <1>1
  <2>2. Tail(t)[i] = t[i + 1] /\ Tail(t)[i - 1] = t[i]
    BY <1>1, <2>1
  <2>3. t[i + 1] \in Late => t[(i + 1) - 1] = Earlier[t[i + 1]]
    BY <2>1 DEF Ordered
  <2> QED
    BY <1>2, <2>1, <2>2, <2>3
<1>3. ASSUME Tail(t) # <<>>, Head(Tail(t)) \in Late PROVE Head(t) = Earlier[Head(Tail(t))]
  <2>1. Head(Tail(t)) = t[2] /\ Head(t) = t[1] /\ 2 \in 2..Len(t)
    BY <1>1, <1>3
  <2>2. t[2] \in Late => t[2 - 1] = Earlier[t[2]]
    BY <2>1 DEF Ordered
  <2> QED
    BY <1>3, <2>1, <2>2
<1> QED
  BY <1>1, <1>2, <1>3 DEF Ordered

\* Lists put together are ordered when the second begins with nothing late.
LEMMA OrderedJoin ==
    ASSUME NEW s \in Seq(Steps), NEW t \in Seq(Steps), s # <<>>, t # <<>>, Ordered(s), Ordered(t),
           t[1] \notin Late
    PROVE  /\ s \o t \in Seq(Steps) /\ s \o t # <<>> /\ Ordered(s \o t) /\ (s \o t)[1] = s[1]
<1>1. /\ Len(s) \in Nat /\ Len(t) \in Nat /\ Len(s) >= 1 /\ Len(t) >= 1
      /\ s \o t \in Seq(Steps) /\ Len(s \o t) = Len(s) + Len(t)
      /\ \A i \in 1..Len(s) : (s \o t)[i] = s[i]
      /\ \A i \in (Len(s) + 1)..(Len(s) + Len(t)) : (s \o t)[i] = t[i - Len(s)]
  OBVIOUS
<1>2. ASSUME NEW i \in 2..Len(s \o t), (s \o t)[i] \in Late
      PROVE  (s \o t)[i - 1] = Earlier[(s \o t)[i]]
  <2>1. CASE i <= Len(s)
    <3>1. (s \o t)[i] = s[i] /\ (s \o t)[i - 1] = s[i - 1] /\ i \in 2..Len(s)
      BY <1>1, <2>1
    <3> QED
      BY <1>2, <3>1 DEF Ordered
  <2>2. CASE i = Len(s) + 1
    <3>1. (s \o t)[i] = t[1]
      BY <1>1, <2>2
    <3> QED
      BY <1>2, <3>1
  <2>3. CASE i > Len(s) + 1
    <3>1. /\ (s \o t)[i] = t[i - Len(s)] /\ (s \o t)[i - 1] = t[(i - Len(s)) - 1]
          /\ i - Len(s) \in 2..Len(t)
      BY <1>1, <2>3
    <3> QED
      BY <1>2, <3>1 DEF Ordered
  <2> QED
    BY <1>1, <2>1, <2>2, <2>3
<1> QED
  BY <1>1, <1>2 DEF Ordered

LEMMA PhasesOrdered ==
    ASSUME NEW kind \in Kinds
    PROVE  /\ Phases(kind) \in Seq(Steps) /\ Phases(kind) # <<>> /\ Ordered(Phases(kind))
           /\ Phases(kind)[1] \notin Late
<1> DEFINE Good(t) == t \in Seq(Steps) /\ t # <<>> /\ Ordered(t) /\ t[1] \notin Late
<1>1. /\ Good(Reconcile) /\ Good(Fetch)
      /\ Good(<<"preflight">>) /\ Good(<<"requeue">>) /\ Good(<<"drafts">>)
  BY DEF Reconcile, Fetch, Ordered, Steps, Late, Earlier
<1>2. Good(<<"preflight", "examine">>)
      /\ Good(<<"plan", "restore", "rekey", "forget", "drafts", "requeue">>)
  BY DEF Ordered, Steps, Late, Earlier
<1>3. ASSUME NEW s, NEW t, Good(s), Good(t) PROVE Good(s \o t)
  BY <1>3, OrderedJoin
<1> HIDE DEF Good
<1>4. Good(Batched)
  <2>1. Good(<<"preflight">> \o Reconcile)
    BY <1>1, <1>3
  <2>2. Good((<<"preflight">> \o Reconcile) \o <<"requeue">>)
    BY <1>1, <1>3, <2>1
  <2>3. Good(((<<"preflight">> \o Reconcile) \o <<"requeue">>) \o Reconcile)
    BY <1>1, <1>3, <2>2
  <2>4. Good((((<<"preflight">> \o Reconcile) \o <<"requeue">>) \o Reconcile) \o Fetch)
    BY <1>1, <1>3, <2>3
  <2> QED
    BY <2>4 DEF Batched
<1>5. Good((Reconcile \o <<"drafts">>) \o Batched)
  <2>1. Good(Reconcile \o <<"drafts">>)
    BY <1>1, <1>3
  <2> QED
    BY <1>3, <1>4, <2>1
<1>6. Good(<<"preflight">> \o Reconcile)
  BY <1>1, <1>3
<1>7. Good(<<"requeue">> \o Fetch)
  BY <1>1, <1>3
<1>8. Good(<<"plan", "restore", "rekey", "forget", "drafts", "requeue">> \o Fetch)
  BY <1>1, <1>2, <1>3
<1>9. Good(Phases(kind))
  BY <1>2, <1>4, <1>5, <1>6, <1>7, <1>8, FrozenInputsAssumption DEF Phases
<1> QED
  BY <1>9 DEF Good

\* The rest of a job after a phase: nothing it begins with is reached but in order.
LEMMA Onward ==
    ASSUME InputsInv, NEW p, At(p), job'.todo = Tail(job.todo)
    PROVE  /\ job'.todo \in Seq(Steps) /\ Ordered(job'.todo)
           /\ At("copy")' => p = "examine"
           /\ At("confirm")' => p = "copy"
           /\ At("restore")' => p = "plan"
           /\ At("prepare")' => p = "admit"
           /\ At("mark")' => p = "prepare"
<1>1. /\ job.todo \in Seq(Steps) /\ job.todo # <<>> /\ Head(job.todo) = p /\ Ordered(job.todo)
  BY DEF InputsInv, StoreType, Jobs, JobOK, At
<1>2. /\ job'.todo \in Seq(Steps) /\ Ordered(job'.todo)
      /\ job'.todo # <<>> /\ Head(job'.todo) \in Late => p = Earlier[Head(job'.todo)]
  BY <1>1, OrderedTail
<1>3. /\ Earlier["copy"] = "examine" /\ Earlier["restore"] = "plan" /\ Earlier["confirm"] = "copy"
      /\ Earlier["prepare"] = "admit" /\ Earlier["mark"] = "prepare"
      /\ {"copy", "confirm", "restore", "prepare", "mark"} \subseteq Late
  BY DEF Earlier, Steps, Late
<1> QED
  BY <1>2, <1>3 DEF At

\* A job that is over is at no phase.
LEMMA Over ==
    ASSUME InputsInv, NEW why \in Whys, Fail(why)
    PROVE  /\ job' \in Jobs /\ Ordered(job'.todo) /\ job'.todo = <<>> /\ job'.made = job.made
           /\ \A p : ~At(p)'
<1>1. job \in Jobs
  BY DEF InputsInv, StoreType
<1>2. /\ job' = [job EXCEPT !.todo = <<>>, !.why = why] /\ <<>> \in Seq(Steps)
  BY DEF Fail
<1>3. job' \in Jobs /\ job'.todo = <<>> /\ job'.made = job.made
  BY <1>1, <1>2 DEF Jobs
<1>4. Ordered(<<>>)
  BY DEF Ordered
<1> QED
  BY <1>3, <1>4 DEF At

----------------------------------------------------------------------------
(* Steps of the job.                                                       *)

LEMMA Parts ==
    ASSUME InputsInv
    PROVE  /\ StoreType /\ OriginalsUntouched /\ \A k \in ProcessedKeys : store[k] = origin[k]
           /\ JobOK /\ AdmittedOK /\ RecoveryOK /\ MarkersOK
  BY DEF InputsInv

\* A step of the job alone.
LEMMA JobAlone ==
    ASSUME InputsInv, UNCHANGED <<store, overwritten, markers, torn, origin, recovery>>,
           rows' \in [Uploads -> Rows], analysed \subseteq analysed',
           job' \in Jobs, JobOK', AdmittedOK'
    PROVE  InputsInv'
<1>1. StoreType'
  BY Parts DEF StoreType
<1>2. OriginalsUntouched' /\ (\A k \in ProcessedKeys : store[k] = origin[k])' /\ RecoveryOK'
  BY Parts DEF OriginalsUntouched, RecoveryOK, Free
<1>3. MarkersOK'
  BY Parts DEF MarkersOK
<1> QED
  BY <1>1, <1>2, <1>3 DEF InputsInv

\* The job goes on to a phase nothing is asked of, or ends.
LEMMA JobGoesOn ==
    ASSUME InputsInv, NEW p \in Steps \ {"examine", "plan", "admit", "prepare"}, At(p),
           UNCHANGED origin, job' = Next1 \/ \E why \in Whys : Fail(why)
    PROVE  job' \in Jobs /\ JobOK' /\ AdmittedOK'
<1>1. CASE job' = Next1
  <2>1. job \in Jobs /\ job.todo # <<>>
    BY Parts DEF StoreType, At
  <2>2. Tail(job.todo) \in Seq(Steps)
    BY <2>1 DEF Jobs
  <2>3. job' = [job EXCEPT !.todo = Tail(job.todo)]
    BY <1>1 DEF Next1
  <2>4. job' \in Jobs /\ job'.todo = Tail(job.todo) /\ job'.made = job.made
    BY <2>1, <2>2, <2>3 DEF Jobs
  <2>5. /\ Ordered(job'.todo)
        /\ ~At("copy")' /\ ~At("restore")' /\ ~At("prepare")' /\ ~At("mark")'
    BY <2>4, Onward
  <2> QED
    BY <2>4, <2>5, Parts DEF JobOK, AdmittedOK, Free
<1>2. CASE \E why \in Whys : Fail(why)
  <2>1. /\ job' \in Jobs /\ Ordered(job'.todo) /\ job'.made = job.made
        /\ ~At("copy")' /\ ~At("restore")' /\ ~At("prepare")' /\ ~At("mark")'
    BY <1>2, Over
  <2> QED
    BY <2>1, Parts DEF JobOK, AdmittedOK, Free
<1> QED
  BY <1>1, <1>2

\* A job that starts, one whose runner is lost.
LEMMA StartJobInv ==
    ASSUME InputsInv, NEW kind \in Kinds, NEW m \in Manifests, StartJob(kind, m)
    PROVE  InputsInv'
<1>1. /\ UNCHANGED <<bucket, origin, rows, recovery, analysed>>
      /\ job' = [Idle EXCEPT !.kind = kind, !.todo = Phases(kind), !.manifest = m]
  BY DEF StartJob
<1>2. job' = [kind |-> kind, todo |-> Phases(kind), manifest |-> m, left |-> [k \in {} |-> None],
              made |-> NoKey, admitted |-> {}, why |-> None]
  BY <1>1 DEF Idle
<1>3. [k \in {} |-> None] \in Lefts
  <2>1. {} \in SUBSET Keys /\ [k \in {} |-> None] \in [{} -> Keys \cup {"todo", "absent", "done", "error"}]
    OBVIOUS
  <2> QED
    BY <2>1 DEF Lefts
<1>4. job' \in Jobs
  <2>1. Phases(kind) \in Seq(Steps)
    BY PhasesOrdered
  <2>2. None \in Whys /\ {} \in SUBSET RawKeys /\ NoKey \in RawKeys \cup {NoKey}
        /\ kind \in Kinds \cup {None} /\ m \in Manifests \cup {<<>>}
    BY DEF Whys
  <2> QED
    BY <1>2, <1>3, <2>1, <2>2 DEF Jobs
<1>5. /\ Ordered(job'.todo)
      /\ ~At("copy")' /\ ~At("restore")' /\ ~At("prepare")' /\ ~At("mark")'
  <2>1. job'.todo = Phases(kind) /\ Phases(kind)[1] \notin Late /\ Phases(kind) # <<>>
        /\ Ordered(Phases(kind)) /\ Phases(kind) \in Seq(Steps)
    BY <1>2, PhasesOrdered
  <2>2. Head(job'.todo) \notin Late
    BY <2>1
  <2> QED
    BY <2>1, <2>2 DEF At, Late
<1>6. JobOK' /\ AdmittedOK'
  BY <1>2, <1>5 DEF JobOK, AdmittedOK
<1> QED
  BY <1>1, <1>4, <1>6, Parts, JobAlone DEF bucket, StoreType

LEMMA CrashInv ==
    ASSUME InputsInv, Crash
    PROVE  InputsInv'
<1>1. "crash" \in Whys /\ Fail("crash") /\ UNCHANGED <<bucket, others>>
  BY DEF Crash, Whys
<1>2. /\ job' \in Jobs /\ Ordered(job'.todo) /\ job'.made = job.made
      /\ ~At("copy")' /\ ~At("restore")' /\ ~At("prepare")' /\ ~At("mark")'
  BY <1>1, Over
<1>3. JobOK' /\ AdmittedOK'
  BY <1>1, <1>2, Parts DEF JobOK, AdmittedOK, Free, others
<1> QED
  BY <1>1, <1>2, <1>3, Parts, JobAlone DEF bucket, others, StoreType

\* The phases that only look.
LEMMA LooksInv ==
    ASSUME InputsInv, Preflight \/ Restored \/ Confirm \/ AllRestored
    PROVE  InputsInv'
<1>1. PICK p \in {"preflight", "copy", "confirm", "restore"} :
        /\ At(p) /\ UNCHANGED <<bucket, others>>
        /\ job' = Next1 \/ \E why \in Whys : Fail(why)
  <2>1. "preflight" \in Whys /\ "frozen" \in Whys /\ "restore" \in Whys
    BY DEF Whys
  <2> QED
    BY <2>1 DEF Preflight, Restored, Confirm, AllRestored
<1>2. job' \in Jobs /\ JobOK' /\ AdmittedOK'
  BY <1>1, JobGoesOn DEF Steps, others
<1> QED
  BY <1>1, <1>2, Parts, JobAlone DEF bucket, others, StoreType

\* The files to restore, and where from.
LEMMA ExamineInv ==
    ASSUME InputsInv, Examine
    PROVE  InputsInv'
<1>1. /\ At("examine") /\ UNCHANGED <<bucket, others>> /\ job \in Jobs /\ job.todo # <<>>
  BY Parts DEF Examine, StoreType, At
<1>2. CASE ~Recoverable
  <2>1. "frozen" \in Whys /\ Fail("frozen")
    BY <1>2 DEF Examine, Whys
  <2>2. /\ job' \in Jobs /\ Ordered(job'.todo) /\ job'.made = job.made
        /\ ~At("copy")' /\ ~At("restore")' /\ ~At("prepare")' /\ ~At("mark")'
    BY <2>1, Over
  <2>3. JobOK' /\ AdmittedOK'
    BY <1>1, <2>2, Parts DEF JobOK, AdmittedOK, Free, others
  <2> QED
    BY <1>1, <2>2, <2>3, Parts, JobAlone DEF bucket, others, StoreType
<1>3. CASE Recoverable
  <2> DEFINE D == {Raw(n) : n \in {m \in Entries(job.manifest) : ItemState(m) = "restorable"}}
             left == [k \in D |-> SourceOf(k[3])]
  <2>1. job' = [Next1 EXCEPT !.left = left]
    BY <1>3 DEF Examine
  <2>2. Entries(job.manifest) \subseteq Names
    BY <1>1, FrozenInputsAssumption DEF Jobs, Entries
  <2>3. ASSUME NEW k \in D PROVE k \in RawKeys /\ left[k] \in Keys
    <3>1. PICK n \in Names : k = Raw(n) /\ ItemState(n) = "restorable"
      BY <2>2
    <3>2. k \in RawKeys /\ k[3] = n
      BY <3>1, KeyFacts
    <3>3. SourceOf(n) # NoKey
      BY <3>1 DEF ItemState
    <3>4. SourceOf(n) \in {Processed(n), FlatRaw(n), FlatProcessed(n)}
      BY <3>3 DEF SourceOf
    <3> QED
      BY <3>2, <3>4, KeyFacts
  <2>4. left \in Lefts
    <3>1. D \in SUBSET Keys /\ left \in [D -> Keys \cup {"todo", "absent", "done", "error"}]
      BY <2>3, KeyFacts
    <3> QED
      BY <3>1 DEF Lefts
  <2>a. DOMAIN left = D
    OBVIOUS
  <2> HIDE DEF D, left
  <2>5. Tail(job.todo) \in Seq(Steps)
    BY <1>1 DEF Jobs
  <2>6. Next1 \in Jobs /\ Next1.todo = Tail(job.todo) /\ Next1.made = job.made
    BY <1>1, <2>5 DEF Jobs, Next1
  <2>7. /\ job' \in Jobs /\ job'.todo = Tail(job.todo) /\ job'.made = job.made /\ job'.left = left
    BY <2>1, <2>4, <2>6 DEF Jobs
  <2>8. /\ Ordered(job'.todo) /\ ~At("restore")' /\ ~At("prepare")' /\ ~At("mark")'
    BY <1>1, <2>7, Onward
  <2>9. JobOK' /\ AdmittedOK'
    BY <1>1, <2>3, <2>7, <2>8, <2>a, Parts DEF JobOK, AdmittedOK, Free, others
  <2> QED
    BY <1>1, <2>7, <2>9, Parts, JobAlone DEF bucket, others, StoreType
<1> QED
  BY <1>2, <1>3

\* What is admitted is there.
LEMMA AdmitInv ==
    ASSUME InputsInv, Admit
    PROVE  InputsInv'
<1>1. /\ At("admit") /\ UNCHANGED <<bucket, others>> /\ job \in Jobs /\ job.todo # <<>>
  BY Parts DEF Admit, StoreType, At
<1>2. CASE Scoped /\ \E k \in Candidates : store[k] = None
  <2>1. "frozen" \in Whys /\ Fail("frozen")
    BY <1>2 DEF Admit, Whys
  <2>2. /\ job' \in Jobs /\ Ordered(job'.todo) /\ job'.made = job.made
        /\ ~At("copy")' /\ ~At("restore")' /\ ~At("prepare")' /\ ~At("mark")'
    BY <2>1, Over
  <2>3. JobOK' /\ AdmittedOK'
    BY <1>1, <2>2, Parts DEF JobOK, AdmittedOK, Free, others
  <2> QED
    BY <1>1, <2>2, <2>3, Parts, JobAlone DEF bucket, others, StoreType
<1>3. CASE ~(Scoped /\ \E k \in Candidates : store[k] = None)
  <2>1. job' = [Next1 EXCEPT !.admitted = Candidates]
    BY <1>3 DEF Admit
  <2>2. Candidates \subseteq RawKeys
    <3>1. Entries(job.manifest) \subseteq Names
      BY <1>1, FrozenInputsAssumption DEF Jobs, Entries
    <3> QED
      BY <3>1, KeyFacts DEF Candidates
  <2>3. \A k \in Candidates : store[k] # None
    BY <1>3 DEF Candidates
  <2>4. Tail(job.todo) \in Seq(Steps)
    BY <1>1 DEF Jobs
  <2>5. Next1 \in Jobs /\ Next1.todo = Tail(job.todo) /\ Next1.made = job.made
    BY <1>1, <2>4 DEF Jobs, Next1
  <2>6. /\ job' \in Jobs /\ job'.todo = Tail(job.todo) /\ job'.made = job.made
        /\ job'.admitted = Candidates
    BY <2>1, <2>2, <2>5 DEF Jobs
  <2>7. Ordered(job'.todo) /\ ~At("copy")' /\ ~At("restore")' /\ ~At("mark")'
    BY <1>1, <2>6, Onward
  <2>8. JobOK' /\ AdmittedOK'
    BY <1>1, <2>3, <2>6, <2>7, Parts DEF JobOK, AdmittedOK, Free, others, bucket
  <2> QED
    BY <1>1, <2>6, <2>8, Parts, JobAlone DEF bucket, others, StoreType
<1> QED
  BY <1>2, <1>3

\* The analysis: what stays admitted was there, and was taken in.
LEMMA PrepareInv ==
    ASSUME InputsInv, Prepare
    PROVE  InputsInv'
<1>1. /\ At("prepare") /\ UNCHANGED <<bucket, origin, recovery, jobs>>
      /\ job \in Jobs /\ job.todo # <<>>
      /\ \A k \in job.admitted : store[k] # None
  BY Parts DEF Prepare, StoreType, At, AdmittedOK
<1>2. CASE \E u \in HashedNow : ~RightSize(store[rows[u].key])
  <2>1. "changed" \in Whys /\ Fail("changed") /\ UNCHANGED <<rows, analysed>>
    BY <1>2 DEF Prepare, Whys
  <2>2. /\ job' \in Jobs /\ Ordered(job'.todo) /\ job'.made = job.made
        /\ ~At("copy")' /\ ~At("restore")' /\ ~At("prepare")' /\ ~At("mark")'
    BY <2>1, Over
  <2>3. JobOK' /\ AdmittedOK'
    BY <1>1, <2>2, Parts DEF JobOK, AdmittedOK, Free
  <2> QED
    BY <1>1, <2>1, <2>2, <2>3, Parts, JobAlone DEF bucket, StoreType
<1>3. CASE ~\E u \in HashedNow : ~RightSize(store[rows[u].key])
  <2> DEFINE sources == {k \in job.admitted :
                            \/ RowAt(k) = NoRow
                            \/ \E u \in HashedNow : rows[u].key = k /\ Canonical(u)}
             Doubled(u) == u \in Known /\ ~Canonical(u)
                             /\ \E v \in HashedNow : Bytes(v) = Bytes(u)
             Row(u) == IF Doubled(u) THEN [rows[u] EXCEPT !.status = "superseded", !.hashed = TRUE]
                       ELSE IF u \in HashedNow THEN [rows[u] EXCEPT !.hashed = TRUE] ELSE rows[u]
  <2>1. /\ job' = [Next1 EXCEPT !.admitted = sources]
        /\ rows' = [u \in Uploads |-> Row(u)]
        /\ analysed' = analysed \cup {<<k, store[k]>> : k \in sources}
    BY <1>3 DEF Prepare
  <2>2. sources \subseteq job.admitted
    OBVIOUS
  <2> HIDE DEF sources
  <2>3. rows' \in [Uploads -> Rows]
    <3> HIDE DEF Doubled
    <3>1. ASSUME NEW u \in Uploads PROVE Row(u) \in Rows
      <4>1. rows[u] \in Rows
        BY Parts DEF StoreType
      <4>a. "superseded" \in Standings
        BY DEF Standings
      <4>2. [rows[u] EXCEPT !.status = "superseded"] \in Rows
        BY <4>1, <4>a DEF Rows
      <4>3. [[rows[u] EXCEPT !.status = "superseded"] EXCEPT !.hashed = TRUE] \in Rows
        BY <4>2 DEF Rows
      <4>4. [rows[u] EXCEPT !.status = "superseded", !.hashed = TRUE] \in Rows
        BY <4>3
      <4>5. [rows[u] EXCEPT !.hashed = TRUE] \in Rows
        BY <4>1 DEF Rows
      <4> QED
        BY <4>1, <4>4, <4>5
    <3> QED
      BY <2>1, <3>1
  <2>4. Tail(job.todo) \in Seq(Steps)
    BY <1>1 DEF Jobs
  <2>5. Next1 \in Jobs /\ Next1.todo = Tail(job.todo) /\ Next1.made = job.made
    BY <1>1, <2>4 DEF Jobs, Next1
  <2>6. job.admitted \subseteq RawKeys
    BY <1>1 DEF Jobs
  <2>7. /\ job' \in Jobs /\ job'.todo = Tail(job.todo) /\ job'.made = job.made
        /\ job'.admitted = sources
    BY <2>1, <2>2, <2>5, <2>6 DEF Jobs
  <2>8. Ordered(job'.todo) /\ ~At("copy")' /\ ~At("restore")' /\ ~At("prepare")'
    BY <1>1, <2>7, Onward
  <2>9. JobOK' /\ AdmittedOK'
    BY <1>1, <2>1, <2>2, <2>7, <2>8, Parts DEF JobOK, AdmittedOK, Free, bucket
  <2> QED
    BY <1>1, <2>1, <2>3, <2>7, <2>9, Parts, JobAlone DEF bucket, StoreType
<1> QED
  BY <1>2, <1>3

\* The job goes on from a phase nothing hangs on.
LEMMA GoesOn ==
    ASSUME InputsInv, NEW p \in Steps \ {"examine", "plan", "admit", "prepare"}, At(p),
           UNCHANGED origin, job' \in Jobs, job'.todo = Tail(job.todo),
           job'.made \in {job.made, NoKey}
    PROVE  JobOK' /\ AdmittedOK'
<1>1. /\ Ordered(job'.todo)
      /\ ~At("copy")' /\ ~At("restore")' /\ ~At("prepare")' /\ ~At("mark")'
  BY Onward
<1> QED
  BY <1>1, Parts DEF JobOK, AdmittedOK, Free

LEMMA GoingOn ==
    ASSUME InputsInv, NEW p, At(p)
    PROVE  /\ Next1 \in Jobs /\ Next1.todo = Tail(job.todo) /\ Next1.made = job.made
           /\ Next1.admitted = job.admitted
           /\ [Next1 EXCEPT !.made = NoKey] \in Jobs
           /\ [Next1 EXCEPT !.why = "done"] \in Jobs
<1>1. job \in Jobs /\ job.todo # <<>> /\ "done" \in Whys
  BY Parts DEF StoreType, At, Whys
<1>2. Tail(job.todo) \in Seq(Steps)
  BY <1>1 DEF Jobs
<1>3. /\ Next1 \in Jobs /\ Next1.todo = Tail(job.todo) /\ Next1.made = job.made
      /\ Next1.admitted = job.admitted
  BY <1>1, <1>2 DEF Jobs, Next1
<1> HIDE DEF Next1
<1>4. [Next1 EXCEPT !.made = NoKey] \in Jobs /\ [Next1 EXCEPT !.why = "done"] \in Jobs
  BY <1>1, <1>3 DEF Jobs
<1> QED
  BY <1>3, <1>4

LEMMA EndJobInv ==
    ASSUME InputsInv, EndJob
    PROVE  InputsInv'
<1>1. /\ At("mark") /\ UNCHANGED <<bucket, others>> /\ job' = [Next1 EXCEPT !.why = "done"]
  BY DEF EndJob
<1>2. /\ job' \in Jobs /\ job'.todo = Tail(job.todo) /\ job'.made = job.made
  BY <1>1, GoingOn DEF Next1
<1>3. JobOK' /\ AdmittedOK'
  BY <1>1, <1>2, GoesOn DEF Steps, others
<1> QED
  BY <1>1, <1>2, <1>3, Parts, JobAlone DEF bucket, others, StoreType

\* The steps that end a phase and leave objects and markers alone.
LEMMA PhaseDoneInv ==
    ASSUME InputsInv, DeleteDrafts \/ NothingToRequeue \/ Rekey
    PROVE  InputsInv'
<1>1. PICK p \in {"drafts", "requeue", "rekey"} :
        /\ At(p) /\ job' = Next1
        /\ UNCHANGED <<store, overwritten, markers, torn, origin, recovery, analysed>>
        /\ p # "rekey" => UNCHANGED rows
        /\ p = "rekey" => Rekey
  BY DEF DeleteDrafts, NothingToRequeue, Rekey, bucket, others
<1>2. /\ job' \in Jobs /\ job'.todo = Tail(job.todo) /\ job'.made = job.made
  BY <1>1, GoingOn
<1>3. JobOK' /\ AdmittedOK'
  BY <1>1, <1>2, GoesOn DEF Steps
<1>4. rows' \in [Uploads -> Rows]
  <2>1. rows \in [Uploads -> Rows]
    BY Parts DEF StoreType
  <2>2. CASE p = "rekey"
    <3>1. rows' = [u \in Uploads |-> IF \E k \in DOMAIN job.left : rows[u].key = Key("raw", k[2], k[3])
                                  THEN [rows[u] EXCEPT !.key = FlatRaw(u[2])] ELSE rows[u]]
      BY <1>1, <2>2 DEF Rekey
    <3>2. ASSUME NEW u \in Uploads PROVE [rows[u] EXCEPT !.key = FlatRaw(u[2])] \in Rows
      <4>1. rows[u] \in Rows /\ FlatRaw(u[2]) \in RawKeys
        BY <2>1, KeyFacts
      <4> QED
        BY <4>1 DEF Rows
    <3> QED
      BY <2>1, <3>1, <3>2
  <2> QED
    BY <1>1, <2>1, <2>2
<1> QED
  BY <1>1, <1>2, <1>3, <1>4, JobAlone

\* What the reset is to bring back.
LEMMA PlanResetInv ==
    ASSUME InputsInv, PlanReset
    PROVE  InputsInv'
<1>1. At("plan") /\ UNCHANGED <<bucket, others>>
  BY DEF PlanReset
<1>2. CASE Collides
  <2>1. "collision" \in Whys /\ Fail("collision")
    BY <1>2 DEF PlanReset, Whys
  <2>2. /\ job' \in Jobs /\ Ordered(job'.todo) /\ job'.made = job.made
        /\ ~At("copy")' /\ ~At("restore")' /\ ~At("prepare")' /\ ~At("mark")'
    BY <2>1, Over
  <2>3. JobOK' /\ AdmittedOK'
    BY <1>1, <2>2, Parts DEF JobOK, AdmittedOK, Free, others
  <2> QED
    BY <1>1, <2>2, <2>3, Parts, JobAlone DEF bucket, others, StoreType
<1>3. CASE ~Collides
  <2> DEFINE left == [k \in Tracks |-> "todo"]
  <2>1. job' = [Next1 EXCEPT !.left = left]
    BY <1>3 DEF PlanReset
  <2>2. left \in Lefts
    <3>1. Tracks \in SUBSET Keys
      BY DEF Tracks
    <3>2. left \in [Tracks -> Keys \cup {"todo", "absent", "done", "error"}]
      OBVIOUS
    <3> QED
      BY <3>1, <3>2 DEF Lefts
  <2>3. \A k \in DOMAIN left : left[k] # "absent"
    OBVIOUS
  <2> HIDE DEF left
  <2>4. /\ job' \in Jobs /\ job'.todo = Tail(job.todo) /\ job'.made = job.made /\ job'.left = left
    <3>1. Next1 \in Jobs /\ Next1.todo = Tail(job.todo) /\ Next1.made = job.made
      BY <1>1, GoingOn
    <3> HIDE DEF Next1
    <3> QED
      BY <2>1, <2>2, <3>1 DEF Jobs
  <2>5. Ordered(job'.todo) /\ ~At("copy")' /\ ~At("prepare")' /\ ~At("mark")'
    BY <1>1, <2>4, Onward
  <2>6. JobOK' /\ AdmittedOK'
    BY <1>1, <2>3, <2>4, <2>5, Parts DEF JobOK, AdmittedOK, Free, others
  <2> QED
    BY <1>1, <2>4, <2>6, Parts, JobAlone DEF bucket, others, StoreType
<1> QED
  BY <1>2, <1>3

\* One entry of what is left to do.
LEMMA LeftSet ==
    ASSUME NEW l \in Lefts, NEW k \in DOMAIN l, NEW v \in {"todo", "absent", "done", "error"}
    PROVE  /\ [l EXCEPT ![k] = v] \in Lefts /\ DOMAIN [l EXCEPT ![k] = v] = DOMAIN l
           /\ DOMAIN l \subseteq Keys
           /\ \A j \in DOMAIN l : [l EXCEPT ![k] = v][j] = IF j = k THEN v ELSE l[j]
<1>1. PICK D \in SUBSET Keys : l \in [D -> Keys \cup {"todo", "absent", "done", "error"}]
  BY DEF Lefts
<1>2. [l EXCEPT ![k] = v] \in [D -> Keys \cup {"todo", "absent", "done", "error"}]
  BY <1>1
<1> QED
  BY <1>1, <1>2 DEF Lefts

\* The look that comes before the copy.
LEMMA LookAtRawInv ==
    ASSUME InputsInv, NEW k \in Keys, LookAtRaw(k)
    PROVE  InputsInv'
<1> DEFINE v == CASE store[FlatRaw(k[3])] = None -> "absent"
                  [] SameBytes(FlatRaw(k[3]), k) -> "done"
                  [] OTHER -> "error"
<1>1. /\ At("restore") /\ k \in DOMAIN job.left /\ UNCHANGED <<bucket, others>>
      /\ job' = [job EXCEPT !.left[k] = v] /\ job \in Jobs
  BY Parts DEF LookAtRaw, StoreType
<1>2. v \in {"todo", "absent", "done", "error"} /\ (v = "absent" => Free(FlatRaw(k[3])))
  <2>1. FlatRaw(k[3]) \in Keys
    BY KeyFacts
  <2> QED
    BY <2>1, Parts DEF OriginalsUntouched, Free
<1> HIDE DEF v
<1>3. /\ [job.left EXCEPT ![k] = v] \in Lefts /\ DOMAIN [job.left EXCEPT ![k] = v] = DOMAIN job.left
      /\ \A j \in DOMAIN job.left : [job.left EXCEPT ![k] = v][j] = IF j = k THEN v ELSE job.left[j]
  <2>1. job.left \in Lefts
    BY <1>1 DEF Jobs
  <2> QED
    BY <1>1, <1>2, <2>1, LeftSet
<1>4. job' = [job EXCEPT !.left = [job.left EXCEPT ![k] = v]]
  BY <1>1
<1>5. job' \in Jobs /\ job'.todo = job.todo /\ job'.made = job.made
      /\ job'.left = [job.left EXCEPT ![k] = v]
  BY <1>1, <1>3, <1>4 DEF Jobs
<1>6. JobOK' /\ AdmittedOK'
  BY <1>1, <1>2, <1>3, <1>5, Parts DEF JobOK, AdmittedOK, Free, At, others
<1> QED
  BY <1>1, <1>5, <1>6, Parts, JobAlone DEF bucket, others, StoreType

----------------------------------------------------------------------------
(* Steps that write objects or markers.                                    *)

\* An object written where none was at the start, or no object at all.
LEMMA WriteInv ==
    ASSUME InputsInv, UNCHANGED <<origin, rows, analysed>>,
           NEW to \in RawKeys,
           \/ NoCopy
           \/ /\ Free(to)
              /\ \E bytes \in Contents : store' = [store EXCEPT ![to] = bytes]
              /\ overwritten' \in {overwritten, overwritten \cup {to}},
           torn' \subseteq RawKeys, markers' \in [RawKeys -> Contents], MarkersOK',
           job' \in Jobs, JobOK', AdmittedOK', recovery' \in Recoveries, RecoveryOK'
    PROVE  InputsInv'
<1>1. StoreType'
  <2>1. store' \in [Keys -> Contents] /\ overwritten' \subseteq RawKeys
    BY Parts DEF StoreType, NoCopy
  <2> QED
    BY <2>1, Parts DEF StoreType
<1>2. OriginalsUntouched'
  <2>1. CASE NoCopy
    BY <2>1, Parts DEF OriginalsUntouched, NoCopy
  <2>2. CASE Free(to) /\ \E bytes \in Contents : store' = [store EXCEPT ![to] = bytes]
    BY <2>2, Parts DEF OriginalsUntouched, Free, StoreType
  <2> QED
    BY <2>1, <2>2
<1>3. \A k \in ProcessedKeys : (store[k] = origin[k])'
  <2>1. \A k \in ProcessedKeys : k # to /\ k \in Keys
    BY KeyFacts
  <2> QED
    BY <2>1, Parts DEF NoCopy, StoreType
<1> QED
  BY <1>1, <1>2, <1>3 DEF InputsInv

\* What a copy does to the keys, and to the account of those it met another at.
LEMMA CopyFacts ==
    ASSUME InputsInv, NEW from \in Keys, NEW to \in RawKeys, CopyObject(from, to) \/ CopyVerified(from, to)
    PROVE  /\ \E bytes \in Contents : store' = [store EXCEPT ![to] = bytes]
           /\ overwritten' \in {overwritten, overwritten \cup {to}}
           /\ overwritten \subseteq overwritten' /\ overwritten' \subseteq RawKeys
           /\ \A k \in Keys : store[k] # None =>
                  store'[k] = store[k] \/ (k = to /\ k \in overwritten' /\ store'[k] = store[from])
<1>a. CopyObject(from, to)
  BY DEF CopyVerified, CopyIfAbsent
<1>1. store \in [Keys -> Contents] /\ to \in Keys /\ overwritten \subseteq RawKeys
  BY Parts, KeyFacts DEF StoreType
<1>2. store[from] \in Contents /\ store' = [store EXCEPT ![to] = store[from]]
  BY <1>1, <1>a DEF CopyObject
<1>3. \E bytes \in Contents : store' = [store EXCEPT ![to] = bytes]
  BY <1>2
<1>4. overwritten' = IF store[to] = None THEN overwritten ELSE overwritten \cup {to}
  BY <1>a DEF CopyObject
<1>5. /\ overwritten' \in {overwritten, overwritten \cup {to}}
      /\ overwritten \subseteq overwritten' /\ overwritten' \subseteq RawKeys
      /\ store[to] # None => to \in overwritten'
  BY <1>1, <1>4
<1>6. \A k \in Keys : store'[k] = IF k = to THEN store[from] ELSE store[k]
  BY <1>1, <1>2
<1>7. ASSUME NEW k \in Keys, store[k] # None
      PROVE  store'[k] = store[k] \/ (k = to /\ k \in overwritten' /\ store'[k] = store[from])
  BY <1>5, <1>6, <1>7
<1> QED
  BY <1>3, <1>5, <1>7

LEMMA MarkersKept ==
    ASSUME InputsInv, overwritten \subseteq overwritten', UNCHANGED analysed,
           \A k \in RawKeys : markers'[k] \in {None, markers[k]}
    PROVE  MarkersOK'
  BY Parts DEF MarkersOK

\* The copy of a reset comes after its look, however long after.
LEMMA CopyToRawInv ==
    ASSUME InputsInv, NEW k \in Keys, CopyToRaw(k)
    PROVE  InputsInv'
<1>1. /\ At("restore") /\ k \in DOMAIN job.left /\ job.left[k] = "absent"
      /\ UNCHANGED <<markers, drafts, torn, others>> /\ job \in Jobs /\ FlatRaw(k[3]) \in RawKeys
  BY Parts, KeyFacts DEF CopyToRaw, StoreType
<1>2. PICK v \in {"done", "error"} : job' = [job EXCEPT !.left[k] = v]
  BY DEF CopyToRaw
<1>3. /\ [job.left EXCEPT ![k] = v] \in Lefts /\ DOMAIN [job.left EXCEPT ![k] = v] = DOMAIN job.left
      /\ \A j \in DOMAIN job.left : [job.left EXCEPT ![k] = v][j] = IF j = k THEN v ELSE job.left[j]
  <2>1. job.left \in Lefts
    BY <1>1 DEF Jobs
  <2> QED
    BY <1>1, <2>1, LeftSet
<1>4. job' = [job EXCEPT !.left = [job.left EXCEPT ![k] = v]]
  BY <1>2
<1>5. job' \in Jobs /\ job'.todo = job.todo /\ job'.made = job.made
      /\ job'.left = [job.left EXCEPT ![k] = v]
  BY <1>1, <1>3, <1>4 DEF Jobs
<1>6. Free(FlatRaw(k[3]))
  BY <1>1, Parts DEF JobOK
<1>7. JobOK' /\ AdmittedOK'
  BY <1>1, <1>2, <1>3, <1>5, Parts DEF JobOK, AdmittedOK, Free, At, others
<1>8. MarkersOK'
  <2>1. overwritten \subseteq overwritten'
    BY <1>1, CopyFacts DEF CopyToRaw, NoCopy
  <2> QED
    BY <1>1, <2>1, MarkersKept DEF others
<1>9. RecoveryOK' /\ recovery' \in Recoveries /\ markers' \in [RawKeys -> Contents] /\ torn' \subseteq RawKeys
  BY <1>1, Parts DEF RecoveryOK, Free, others, StoreType
<1>10. \/ NoCopy
       \/ /\ Free(FlatRaw(k[3]))
          /\ \E bytes \in Contents : store' = [store EXCEPT ![FlatRaw(k[3])] = bytes]
          /\ overwritten' \in {overwritten, overwritten \cup {FlatRaw(k[3])}}
  BY <1>1, <1>6, CopyFacts DEF CopyToRaw
<1> QED
  BY <1>1, <1>5, <1>7, <1>8, <1>9, <1>10, WriteInv DEF others

\* The copy of a reconciliation looks and copies at once.
LEMMA RestoreInv ==
    ASSUME InputsInv, NEW k \in Keys, Restore(k)
    PROVE  InputsInv'
<1>1. /\ At("copy") /\ k \in DOMAIN job.left /\ UNCHANGED <<markers, drafts, others>> /\ job \in Jobs
      /\ k \in RawKeys /\ job.left[k] \in Keys /\ torn \subseteq RawKeys
  BY Parts DEF Restore, StoreType, JobOK
<1>2. RecoveryOK' /\ recovery' \in Recoveries /\ markers' \in [RawKeys -> Contents]
  BY <1>1, Parts DEF RecoveryOK, Free, others, StoreType
<1>3. CASE store[k] # None
  <2>1. "frozen" \in Whys /\ Fail("frozen") /\ NoCopy /\ UNCHANGED torn
    BY <1>3 DEF Restore, Whys
  <2>2. /\ job' \in Jobs /\ Ordered(job'.todo) /\ job'.made = job.made
        /\ ~At("copy")' /\ ~At("restore")' /\ ~At("prepare")' /\ ~At("mark")'
    BY <2>1, Over
  <2>3. JobOK' /\ AdmittedOK'
    BY <1>1, <2>2, Parts DEF JobOK, AdmittedOK, Free, others
  <2>4. MarkersOK'
    BY <1>1, <2>1, MarkersKept DEF NoCopy, others
  <2> QED
    BY <1>1, <1>2, <2>1, <2>2, <2>3, <2>4, WriteInv DEF others
<1>4. CASE store[k] = None
  <2>1. job' = [job EXCEPT !.made = k]
    BY <1>4 DEF Restore
  <2>2. job' \in Jobs /\ job'.todo = job.todo /\ job'.left = job.left /\ job'.made = k
    BY <1>1, <2>1 DEF Jobs
  <2>3. Free(k)
    BY <1>1, <1>4, Parts, KeyFacts DEF OriginalsUntouched, Free
  <2>4. JobOK' /\ AdmittedOK'
    BY <1>1, <2>2, <2>3, Parts DEF JobOK, AdmittedOK, Free, At, others
  <2>5. \/ CopyObject(job.left[k], k) /\ torn' = torn
        \/ store' = [store EXCEPT ![k] = Torn] /\ torn' = torn \cup {k} /\ UNCHANGED overwritten
    BY <1>4 DEF Restore
  <2>6. /\ \E bytes \in Contents : store' = [store EXCEPT ![k] = bytes]
        /\ overwritten' \in {overwritten, overwritten \cup {k}} /\ torn' \subseteq RawKeys
    BY <1>1, <2>5, CopyFacts DEF Contents
  <2>7. MarkersOK'
    BY <1>1, <2>6, MarkersKept DEF others
  <2> QED
    BY <1>1, <1>2, <2>2, <2>3, <2>4, <2>6, <2>7, WriteInv DEF others
<1> QED
  BY <1>3, <1>4

\* A faulty copy is discarded from a place that was free at the start.
LEMMA CheckRestoredInv ==
    ASSUME InputsInv, CheckRestored
    PROVE  InputsInv'
<1> DEFINE k == job.made
           left == Restrict(job.left, DOMAIN job.left \ {k})
<1>1. /\ At("copy") /\ k # NoKey /\ UNCHANGED <<overwritten, markers, drafts, torn, others>>
      /\ job \in Jobs /\ k \in RawKeys /\ Free(k)
  <2>1. job \in Jobs /\ At("copy") /\ job.made # NoKey
    BY Parts DEF CheckRestored, StoreType
  <2>2. job.made \in RawKeys /\ Free(job.made)
    BY <2>1, Parts DEF Jobs, JobOK
  <2> QED
    BY <2>1, <2>2 DEF CheckRestored
<1>2. \/ job' = [job EXCEPT !.made = NoKey, !.left = left] /\ store' = store
      \/ Fail("copy") /\ store' = [store EXCEPT ![k] = None]
  BY DEF CheckRestored
<1>3. /\ RecoveryOK' /\ recovery' \in Recoveries /\ markers' \in [RawKeys -> Contents]
      /\ torn' \subseteq RawKeys
  BY <1>1, Parts DEF RecoveryOK, Free, others, StoreType
<1>4. MarkersOK'
  BY <1>1, MarkersKept DEF others
<1>5. CASE job' = [job EXCEPT !.made = NoKey, !.left = left] /\ store' = store
  <2>1. /\ left \in Lefts /\ DOMAIN left \subseteq DOMAIN job.left
        /\ \A j \in DOMAIN left : left[j] = job.left[j]
    <3>1. PICK D \in SUBSET Keys : job.left \in [D -> Keys \cup {"todo", "absent", "done", "error"}]
      BY <1>1 DEF Jobs, Lefts
    <3>2. D \ {k} \in SUBSET Keys
      OBVIOUS
    <3>3. left = [j \in D \ {k} |-> job.left[j]]
      BY <3>1 DEF Restrict
    <3>4. left \in [D \ {k} -> Keys \cup {"todo", "absent", "done", "error"}]
      BY <3>1, <3>3
    <3> QED
      BY <3>1, <3>2, <3>3, <3>4 DEF Lefts
  <2> HIDE DEF left
  <2>2. job' \in Jobs /\ job'.todo = job.todo /\ job'.left = left /\ job'.made = NoKey
    <3>1. [job EXCEPT !.made = NoKey] \in Jobs
      BY <1>1 DEF Jobs
    <3>2. [[job EXCEPT !.made = NoKey] EXCEPT !.left = left] \in Jobs
      BY <2>1, <3>1 DEF Jobs
    <3> QED
      BY <1>1, <1>5, <3>2 DEF Jobs
  <2>3. JobOK' /\ AdmittedOK'
    BY <1>1, <2>1, <2>2, Parts DEF JobOK, AdmittedOK, Free, At, others
  <2> QED
    BY <1>1, <1>3, <1>4, <1>5, <2>2, <2>3, WriteInv DEF others, NoCopy
<1>6. CASE Fail("copy") /\ store' = [store EXCEPT ![k] = None]
  <2>1. "copy" \in Whys /\ None \in Contents
    BY DEF Whys, Contents
  <2>2. /\ job' \in Jobs /\ Ordered(job'.todo) /\ job'.made = job.made
        /\ ~At("copy")' /\ ~At("restore")' /\ ~At("prepare")' /\ ~At("mark")'
    BY <1>6, <2>1, Over
  <2>3. JobOK' /\ AdmittedOK'
    BY <1>1, <2>2, Parts DEF JobOK, AdmittedOK, Free, others
  <2> QED
    BY <1>1, <1>3, <1>4, <1>6, <2>1, <2>2, <2>3, WriteInv DEF others
<1> QED
  BY <1>2, <1>5, <1>6

\* Markers written, and nothing else in the bucket.
LEMMA MarkersWritten ==
    ASSUME InputsInv, UNCHANGED <<store, overwritten, torn, origin, rows, recovery, analysed>>,
           markers' \in [RawKeys -> Contents], MarkersOK',
           job' \in Jobs, JobOK', AdmittedOK'
    PROVE  InputsInv'
<1>1. StoreType'
  BY Parts DEF StoreType
<1>2. OriginalsUntouched' /\ (\A k \in ProcessedKeys : store[k] = origin[k])' /\ RecoveryOK'
  BY Parts DEF OriginalsUntouched, RecoveryOK, Free
<1> QED
  BY <1>1, <1>2 DEF InputsInv

\* One marker, on what the job has taken in.
LEMMA MarkInv ==
    ASSUME InputsInv, NEW k \in Keys, Mark(k)
    PROVE  InputsInv'
<1>1. /\ At("mark") /\ k \in job.admitted /\ UNCHANGED <<store, overwritten, drafts, torn, others>>
      /\ markers' = [markers EXCEPT ![k] = store[k]]
      /\ job' = [job EXCEPT !.admitted = job.admitted \ {k}]
      /\ job \in Jobs /\ markers \in [RawKeys -> Contents] /\ store \in [Keys -> Contents]
  BY Parts DEF Mark, StoreType
<1>2. job.admitted \subseteq RawKeys
  BY <1>1 DEF Jobs
<1>3. /\ job' \in Jobs /\ job'.todo = job.todo /\ job'.made = job.made
      /\ job'.admitted = job.admitted \ {k}
  BY <1>1, <1>2 DEF Jobs
<1>4. JobOK' /\ AdmittedOK'
  <2>1. /\ ~At("copy")' /\ ~At("restore")' /\ ~At("prepare")'
    BY <1>1, <1>3 DEF At
  <2> QED
    BY <1>1, <1>3, <2>1, Parts DEF JobOK, AdmittedOK, Free, At, others
<1>5. MarkersOK'
  <2>1. <<k, store[k]>> \in analysed \/ k \in overwritten
    BY <1>1, Parts DEF AdmittedOK
  <2> QED
    BY <1>1, <1>2, <2>1, Parts DEF MarkersOK, others
<1>6. markers' \in [RawKeys -> Contents]
  BY <1>1
<1> QED
  BY <1>1, <1>3, <1>4, <1>5, <1>6, MarkersWritten DEF others

\* All markers go.
LEMMA ForgetInv ==
    ASSUME InputsInv, Forget
    PROVE  InputsInv'
<1>1. /\ At("forget") /\ UNCHANGED <<store, overwritten, drafts, torn, others>>
      /\ markers' = [k \in RawKeys |-> None] /\ job' = Next1
  BY DEF Forget
<1>2. /\ job' \in Jobs /\ job'.todo = Tail(job.todo) /\ job'.made = job.made
  BY <1>1, GoingOn
<1>3. JobOK' /\ AdmittedOK'
  BY <1>1, <1>2, GoesOn DEF Steps, others
<1>4. MarkersOK' /\ markers' \in [RawKeys -> Contents]
  BY <1>1 DEF MarkersOK, Contents
<1> QED
  BY <1>1, <1>2, <1>3, <1>4, MarkersWritten DEF others

\* A look at where a requeued source is to go.
LEMMA LookToRequeueInv ==
    ASSUME InputsInv, NEW k \in RawKeys, LookToRequeue(k)
    PROVE  InputsInv'
<1>1. /\ At("requeue") /\ store[k] = None /\ job' = [job EXCEPT !.made = k]
      /\ UNCHANGED <<bucket, others>> /\ job \in Jobs
  BY Parts DEF LookToRequeue, StoreType
<1>2. job' \in Jobs /\ job'.todo = job.todo /\ job'.made = k /\ Free(k)
  BY <1>1, Parts, KeyFacts DEF Jobs, OriginalsUntouched, Free
<1>3. JobOK' /\ AdmittedOK'
  <2>1. /\ ~At("copy")' /\ ~At("restore")' /\ ~At("prepare")' /\ ~At("mark")'
    BY <1>1, <1>2 DEF At
  <2> QED
    BY <1>1, <1>2, <2>1, Parts DEF JobOK, AdmittedOK, Free, others
<1> QED
  BY <1>1, <1>2, <1>3, Parts, JobAlone DEF bucket, others, StoreType

\* The copy back, after it, or none; and the marker.
LEMMA RequeueInv ==
    ASSUME InputsInv, NEW k \in RawKeys, Requeue(k)
    PROVE  InputsInv'
<1>1. /\ At("requeue") /\ UNCHANGED <<drafts, torn, others>>
      /\ markers' = [markers EXCEPT ![k] = None] /\ job' = [Next1 EXCEPT !.made = NoKey]
      /\ markers \in [RawKeys -> Contents] /\ torn \subseteq RawKeys
  BY Parts DEF Requeue, StoreType
<1>2. /\ job' \in Jobs /\ job'.todo = Tail(job.todo) /\ job'.made = NoKey
  BY <1>1, GoingOn DEF Next1, Jobs
<1>3. JobOK' /\ AdmittedOK'
  BY <1>1, <1>2, GoesOn DEF Steps, others
<1>4. \/ NoCopy
      \/ /\ Free(k)
         /\ \E bytes \in Contents : store' = [store EXCEPT ![k] = bytes]
         /\ overwritten' \in {overwritten, overwritten \cup {k}}
  <2>1. FlatProcessed(k[3]) \in Keys
    BY KeyFacts
  <2>2. job.made = k => Free(k)
    BY KeyFacts, Parts DEF JobOK
  <2> QED
    BY <2>1, <2>2, CopyFacts DEF Requeue
<1>5. MarkersOK' /\ markers' \in [RawKeys -> Contents]
  <2>1. overwritten \subseteq overwritten' /\ \A l \in RawKeys : markers'[l] \in {None, markers[l]}
    BY <1>1, <1>4 DEF NoCopy
  <2> QED
    BY <1>1, <2>1, MarkersKept DEF others, Contents
<1>6. RecoveryOK' /\ recovery' \in Recoveries
  BY <1>1, Parts DEF RecoveryOK, Free, others, StoreType
<1> QED
  BY <1>1, <1>2, <1>3, <1>4, <1>5, <1>6, WriteInv DEF others

LEMMA RequeueFailsInv ==
    ASSUME InputsInv, RequeueFails
    PROVE  InputsInv'
<1>1. /\ At("requeue") /\ UNCHANGED <<markers, drafts, torn, others>> /\ job.made # NoKey
      /\ job' = [Next1 EXCEPT !.made = NoKey] /\ job \in Jobs
      /\ markers \in [RawKeys -> Contents] /\ torn \subseteq RawKeys
  BY Parts DEF RequeueFails, StoreType
<1>2. /\ job' \in Jobs /\ job'.todo = Tail(job.todo) /\ job'.made = NoKey
  BY <1>1, GoingOn DEF Next1, Jobs
<1>3. JobOK' /\ AdmittedOK'
  BY <1>1, <1>2, GoesOn DEF Steps, others
<1>4. job.made \in RawKeys /\ Free(job.made)
  BY <1>1, Parts DEF JobOK, Jobs
<1>5. \/ NoCopy
      \/ /\ \E bytes \in Contents : store' = [store EXCEPT ![job.made] = bytes]
         /\ overwritten' \in {overwritten, overwritten \cup {job.made}}
  <2>1. FlatProcessed(job.made[3]) \in Keys
    BY <1>4, KeyFacts
  <2> QED
    BY <1>4, <2>1, CopyFacts DEF RequeueFails
<1>6. MarkersOK'
  BY <1>1, <1>5, MarkersKept DEF others, NoCopy
<1>7. RecoveryOK' /\ recovery' \in Recoveries
  BY <1>1, Parts DEF RecoveryOK, Free, others, StoreType
<1> QED
  BY <1>1, <1>2, <1>3, <1>4, <1>5, <1>6, <1>7, WriteInv DEF others

----------------------------------------------------------------------------
(* Steps of the recovery, beside the job.                                  *)

\* What the recovery does to the bucket leaves the job its sources.
LEMMA BesideJob ==
    ASSUME InputsInv, UNCHANGED <<origin, job, analysed>>, overwritten \subseteq overwritten',
           \A k \in Keys : store[k] # None =>
               store'[k] = store[k] \/ (k \in overwritten' /\ store'[k] # None)
    PROVE  JobOK' /\ AdmittedOK'
<1>1. JobOK'
  BY Parts DEF JobOK, Free, At
<1>2. job.admitted \subseteq Keys
  BY Parts, KeyFacts DEF StoreType, Jobs
<1> QED
  BY <1>1, <1>2, Parts DEF AdmittedOK, At

\* The recovery's steps that write nothing.
LEMMA RecoveryAlone ==
    ASSUME InputsInv, UNCHANGED <<bucket, origin, rows, job, analysed>>,
           recovery' \in Recoveries, RecoveryOK'
    PROVE  InputsInv'
<1>1. JobOK' /\ AdmittedOK'
  BY BesideJob DEF bucket
<1>2. StoreType'
  BY Parts DEF StoreType, bucket
<1>3. OriginalsUntouched' /\ (\A k \in ProcessedKeys : store[k] = origin[k])' /\ MarkersOK'
  BY Parts DEF OriginalsUntouched, MarkersOK, bucket
<1> QED
  BY <1>1, <1>2, <1>3 DEF InputsInv

LEMMA RecoveryPlanInv ==
    ASSUME InputsInv, RecoveryPlan
    PROVE  InputsInv'
<1>1. PICK found \in [{u \in Uploads : ProcessedOnly(u)} -> Keys] :
         /\ \A u \in DOMAIN found : found[u] \in Places(u)
         /\ LET good == {u \in DOMAIN found : /\ store[FlatRaw(u[2])] = None
                                               /\ rows[u].hashed /\ store[found[u]] = Frozen[u]}
            IN  /\ good # {}
                /\ recovery' = [step |-> "planned", left |->
                      {[from |-> found[u], to |-> FlatRaw(u[2]), bytes |-> Frozen[u], seen |-> FALSE] : u \in good}]
  BY DEF RecoveryPlan
<1> DEFINE good == {u \in DOMAIN found : /\ store[FlatRaw(u[2])] = None
                                               /\ rows[u].hashed /\ store[found[u]] = Frozen[u]}
           Copy(u) == [from |-> found[u], to |-> FlatRaw(u[2]), bytes |-> Frozen[u], seen |-> FALSE]
<1>2. recovery' = [step |-> "planned", left |-> {Copy(u) : u \in good}]
  BY <1>1
<1>3. ASSUME NEW u \in good PROVE Copy(u) \in Copies /\ origin[Copy(u).from] # None /\ ~Copy(u).seen
  <2>1. u \in Uploads /\ found[u] \in Places(u)
    BY <1>1
  <2>2. found[u] \in ProcessedKeys /\ store[found[u]] # None
    BY <2>1 DEF Places, SameFile, ProcessedKeys, RightSize
  <2>3. FlatRaw(u[2]) \in RawKeys /\ Frozen[u] \in Range(Frozen)
    BY <2>1, KeyFacts, FrozenInputsAssumption DEF Uploads, Range
  <2> QED
    BY <2>2, <2>3, Parts DEF Copies
<1> HIDE DEF good, Copy
<1>4. recovery' \in Recoveries
  BY <1>2, <1>3 DEF Recoveries
<1>5. RecoveryOK'
  <2>1. UNCHANGED origin
    BY DEF RecoveryPlan
  <2> QED
    BY <1>2, <1>3, <2>1 DEF RecoveryOK
<1> QED
  BY <1>4, <1>5, RecoveryAlone DEF RecoveryPlan

LEMMA RecoveryEnds ==
    ASSUME InputsInv, UNCHANGED origin, RecoveryEnd
    PROVE  recovery' \in Recoveries /\ RecoveryOK'
  BY DEF RecoveryEnd, Recoveries, RecoveryOK

LEMMA RecoveryValidateInv ==
    ASSUME InputsInv, RecoveryValidate
    PROVE  InputsInv'
<1>1. UNCHANGED <<bucket, origin, rows, job, analysed>> /\ recovery \in Recoveries
  BY Parts DEF RecoveryValidate, StoreType
<1>2. CASE recovery' = [recovery EXCEPT !.step = "copying"]
  <2>1. recovery' \in Recoveries /\ recovery'.left = recovery.left
    BY <1>1, <1>2 DEF Recoveries
  <2>2. RecoveryOK'
    BY <1>1, <2>1, Parts DEF RecoveryOK, Free
  <2> QED
    BY <1>1, <2>1, <2>2, RecoveryAlone
<1>3. CASE RecoveryEnd
  BY <1>1, <1>3, RecoveryEnds, RecoveryAlone
<1> QED
  BY <1>2, <1>3 DEF RecoveryValidate

LEMMA RecoveryLookInv ==
    ASSUME InputsInv, NEW a \in recovery.left, RecoveryLook(a)
    PROVE  InputsInv'
<1>1. /\ UNCHANGED <<bucket, origin, rows, job, analysed>> /\ recovery \in Recoveries
      /\ a \in Copies /\ origin[a.from] # None
  <2>1. recovery \in Recoveries
    BY Parts DEF StoreType
  <2> QED
    BY <2>1, Parts DEF RecoveryLook, RecoveryOK, Recoveries
<1>2. CASE store[a.to] = None /\ recovery' = [recovery EXCEPT !.left = (@ \ {a}) \cup {[a EXCEPT !.seen = TRUE]}]
  <2> DEFINE b == [a EXCEPT !.seen = TRUE]
  <2>1. b \in Copies /\ b.from = a.from /\ b.to = a.to
    BY <1>1 DEF Copies
  <2>2. Free(a.to)
    <3>1. a.to \in Keys
      BY <1>1, KeyFacts DEF Copies
    <3> QED
      BY <1>2, <3>1, Parts DEF OriginalsUntouched, Free
  <2>3. recovery' = [recovery EXCEPT !.left = (recovery.left \ {a}) \cup {b}]
    BY <1>2
  <2> HIDE DEF b
  <2>4. recovery' \in Recoveries /\ recovery'.left = (recovery.left \ {a}) \cup {b}
    BY <1>1, <2>1, <2>3 DEF Recoveries
  <2>5. RecoveryOK'
    BY <1>1, <2>1, <2>2, <2>4, Parts DEF RecoveryOK, Free
  <2> QED
    BY <1>1, <2>4, <2>5, RecoveryAlone
<1>3. CASE recovery' = [recovery EXCEPT !.left = @ \ {a}]
  <2>1. recovery' \in Recoveries /\ recovery'.left = recovery.left \ {a}
    BY <1>1, <1>3 DEF Recoveries
  <2>2. RecoveryOK'
    BY <1>1, <2>1, Parts DEF RecoveryOK, Free
  <2> QED
    BY <1>1, <2>1, <2>2, RecoveryAlone
<1>4. CASE RecoveryEnd
  BY <1>1, <1>4, RecoveryEnds, RecoveryAlone
<1> QED
  BY <1>2, <1>3, <1>4 DEF RecoveryLook

\* The recovery's copy, long after its look; what it meets there is on record.
LEMMA RecoveryCopyInv ==
    ASSUME InputsInv, NEW a \in recovery.left, RecoveryCopy(a)
    PROVE  InputsInv'
<1>1. /\ UNCHANGED <<markers, drafts, torn, origin, rows, job, analysed, jobs>>
      /\ recovery \in Recoveries /\ job \in Jobs /\ markers \in [RawKeys -> Contents]
      /\ torn \subseteq RawKeys
      /\ a \in Copies /\ origin[a.from] # None /\ Free(a.to)
  <2>1. recovery \in Recoveries
    BY Parts DEF StoreType
  <2> QED
    BY <2>1, Parts DEF RecoveryCopy, RecoveryOK, Recoveries, StoreType
<1>2. a.from \in Keys /\ a.from \in ProcessedKeys /\ a.to \in RawKeys
  BY <1>1, KeyFacts DEF Copies
<1>3. CASE CopyVerified(a.from, a.to) /\ recovery' = [recovery EXCEPT !.left = @ \ {a}]
  <2>1. recovery' \in Recoveries /\ recovery'.left = recovery.left \ {a}
    BY <1>1, <1>3 DEF Recoveries
  <2>2. RecoveryOK'
    BY <1>1, <2>1, Parts DEF RecoveryOK, Free
  <2>3. /\ \E bytes \in Contents : store' = [store EXCEPT ![a.to] = bytes]
        /\ overwritten' \in {overwritten, overwritten \cup {a.to}}
        /\ overwritten \subseteq overwritten'
        /\ \A k \in Keys : store[k] # None =>
               store'[k] = store[k] \/ (k \in overwritten' /\ store'[k] = store[a.from])
    BY <1>2, <1>3, CopyFacts
  <2>4. store[a.from] # None
    BY <1>1, <1>2, Parts
  <2>5. JobOK' /\ AdmittedOK'
    BY <1>1, <2>3, <2>4, BesideJob
  <2>6. MarkersOK'
    BY <1>1, <2>3, MarkersKept
  <2> QED
    BY <1>1, <1>2, <2>1, <2>2, <2>3, <2>5, <2>6, WriteInv
<1>4. CASE NoCopy /\ RecoveryEnd
  BY <1>1, <1>4, RecoveryEnds, RecoveryAlone DEF NoCopy, bucket
<1> QED
  BY <1>3, <1>4 DEF RecoveryCopy

----------------------------------------------------------------------------
(* All steps.                                                              *)

LEMMA JobStepInv ==
    ASSUME InputsInv, JobStep
    PROVE  InputsInv'
<1>1. CASE Preflight \/ Restored \/ Confirm \/ AllRestored
  BY <1>1, LooksInv
<1>2. CASE DeleteDrafts \/ NothingToRequeue \/ Rekey
  BY <1>2, PhaseDoneInv
<1>3. CASE Examine
  BY <1>3, ExamineInv
<1>4. CASE CheckRestored
  BY <1>4, CheckRestoredInv
<1>5. CASE Admit
  BY <1>5, AdmitInv
<1>6. CASE Prepare
  BY <1>6, PrepareInv
<1>7. CASE EndJob
  BY <1>7, EndJobInv
<1>8. CASE PlanReset
  BY <1>8, PlanResetInv
<1>9. CASE Forget
  BY <1>9, ForgetInv
<1>10. CASE RequeueFails
  BY <1>10, RequeueFailsInv
<1>11. CASE \E k \in RawKeys : LookToRequeue(k) \/ Requeue(k)
  BY <1>11, LookToRequeueInv, RequeueInv
<1>12. CASE \E k \in Keys : Restore(k) \/ Mark(k) \/ LookAtRaw(k) \/ CopyToRaw(k)
  BY <1>12, RestoreInv, MarkInv, LookAtRawInv, CopyToRawInv
<1> QED
  BY <1>1, <1>2, <1>3, <1>4, <1>5, <1>6, <1>7, <1>8, <1>9, <1>10, <1>11, <1>12 DEF JobStep

LEMMA InitInv == Init => InputsInv
<1> SUFFICES ASSUME Init PROVE InputsInv
  OBVIOUS
<1>1. store \in [Keys -> Contents]
  <2>1. \A s \in Stores : s \in [Keys -> Contents]
    BY FrozenInputsAssumption DEF Keys, Contents, Flat, None, Torn
  <2> QED
    BY <2>1 DEF Init
<1>2. rows \in [Uploads -> Rows]
  <2>1. PICK s \in Statuses :
           rows = [u \in Uploads |-> [key |-> IF s[u] = None THEN NoKey ELSE Key("raw", u[1], u[2]),
                                      status |-> s[u], hashed |-> u \in Hashed]]
    BY DEF Init
  <2>2. DOMAIN s = Uploads
    BY FrozenInputsAssumption DEF Uploads
  <2>3. ASSUME NEW u \in Uploads
        PROVE  [key |-> IF s[u] = None THEN NoKey ELSE Key("raw", u[1], u[2]),
                status |-> s[u], hashed |-> u \in Hashed] \in Rows
    <3>1. s[u] \in Standings
      <4>1. s[u] \in Range(s)
        BY <2>2 DEF Range
      <4> QED
        BY <4>1 DEF Standings
    <3>2. Key("raw", u[1], u[2]) \in RawKeys
      BY KeyFacts
    <3> QED
      BY <3>1, <3>2 DEF Rows
  <2> QED
    BY <2>1, <2>3
<1>3. job \in Jobs
  <2>1. [k \in {} |-> None] \in Lefts
    <3>1. {} \in SUBSET Keys /\ [k \in {} |-> None] \in [{} -> Keys \cup {"todo", "absent", "done", "error"}]
      OBVIOUS
    <3> QED
      BY <3>1 DEF Lefts
  <2>2. None \in Whys /\ {} \in SUBSET RawKeys /\ NoKey \in RawKeys \cup {NoKey} /\ <<>> \in Seq(Steps)
        /\ None \in Kinds \cup {None} /\ <<>> \in Manifests \cup {<<>>}
    BY DEF Whys
  <2> QED
    BY <2>1, <2>2 DEF Init, Idle, Jobs
<1>4. StoreType
  BY <1>1, <1>2, <1>3 DEF Init, StoreType, Contents, Recoveries
<1>5. JobOK /\ AdmittedOK
  <2>1. job.todo = <<>> /\ job.made = NoKey
    BY DEF Init, Idle
  <2> QED
    BY <2>1 DEF JobOK, AdmittedOK, At, Ordered
<1>6. OriginalsUntouched /\ RecoveryOK /\ MarkersOK /\ \A k \in ProcessedKeys : store[k] = origin[k]
  BY DEF Init, OriginalsUntouched, RecoveryOK, MarkersOK
<1> QED
  BY <1>4, <1>5, <1>6 DEF InputsInv

LEMMA StutterInv ==
    ASSUME InputsInv, UNCHANGED vars
    PROVE  InputsInv'
<1>1. JobOK' /\ AdmittedOK'
  BY BesideJob DEF vars
<1> QED
  BY <1>1, Parts, JobAlone DEF vars, StoreType

\* From everything that can be in the bucket, whatever jobs, crashes and recoveries
\* come one after another or beside one another: the inductive invariant.
THEOREM InputsInvariant == Spec => []InputsInv
<1>1. ASSUME InputsInv, [Next]_vars PROVE InputsInv'
  <2>1. CASE \E kind \in Kinds, m \in Manifests : StartJob(kind, m)
    BY <1>1, <2>1, StartJobInv
  <2>2. CASE Crash
    BY <1>1, <2>2, CrashInv
  <2>3. CASE JobStep
    BY <1>1, <2>3, JobStepInv
  <2>4. CASE RecoveryPlan \/ RecoveryValidate
    BY <1>1, <2>4, RecoveryPlanInv, RecoveryValidateInv
  <2>5. CASE \E a \in recovery.left : RecoveryLook(a) \/ RecoveryCopy(a)
    BY <1>1, <2>5, RecoveryLookInv, RecoveryCopyInv
  <2>6. CASE UNCHANGED vars
    BY <1>1, <2>6, StutterInv
  <2> QED
    BY <1>1, <2>1, <2>2, <2>3, <2>4, <2>5, <2>6 DEF Next
<1> QED
  BY <1>1, InitInv, PTL DEF Spec

----------------------------------------------------------------------------
(* What a batch run takes in.                                               *)

\* A scoped job admits what it has just confirmed.
Checked(t) == \A i \in 2..Len(t) : t[i] = "admit" => t[i - 1] = "confirm"

\* The bytes under a file's key are its own, or none that pass for a video.
BytesOK ==
    \A n \in Names : Attested(n) =>
        store[Raw(n)] \in {None, Torn, Frozen[<<Batch, n>>]} \/ FlatRaw(n) \in overwritten

\* Where a restore takes a file from, what it found there, and what it has done so far.
From(n) ==
    LET from == job.left[Raw(n)]
    IN  /\ from \in {Processed(n), FlatRaw(n), FlatProcessed(n)}
        /\ store[Processed(n)] # None => from = Processed(n)
        /\ from = FlatRaw(n) => store[from] = Frozen[<<Batch, n>>] \/ from \in overwritten
RestoreOK ==
    At("copy") =>
        /\ \A k \in DOMAIN job.left : \E n \in Entries(job.manifest) : k = Raw(n) /\ From(n)
        /\ job.made # NoKey => job.made \in DOMAIN job.left
        /\ \A k \in DOMAIN job.left : k # job.made => store[k] = None
        /\ \A n \in Entries(job.manifest) : Raw(n) \in DOMAIN job.left \/ RightSize(store[Raw(n)])

\* A key is in hand in the phases that copy, and in no other.
MadeOK == job.todo # <<>> /\ ~At("requeue") /\ ~At("copy") => job.made = NoKey

\* From the confirmation to the analysis every file of the manifest is there.
Present == \A n \in Entries(job.manifest) : RightSize(store[Raw(n)])
ConfirmOK ==
    /\ Scoped => Checked(job.todo)
    /\ At("confirm") \/ (Scoped /\ (At("admit") \/ At("prepare"))) => Present
    /\ Scoped /\ At("prepare") => job.admitted = {Raw(n) : n \in Entries(job.manifest)}

\* The recovery writes beside the batches.
BesideOK == \A a \in recovery.left : \E n \in Names : a.to = FlatRaw(n)

\* A file that was there stays restorable while no copy comes out short.
UntornOK == torn = {} => \A n \in Names : Intact(n) => store[Raw(n)] # Torn

BatchInv == BytesOK /\ RestoreOK /\ MadeOK /\ ConfirmOK /\ BesideOK /\ UntornOK /\ InterruptedRunsRecover

\* What excuses a refusal to go on.
Excused ==
    \/ ~WellFormed(job.manifest)
    \/ \E n \in Entries(job.manifest) : ~Intact(n) \/ n \in Large
    \/ Entries(job.manifest) # Names
    \/ torn # {}
    \/ Verifying

LEMMA CheckedTail ==
    ASSUME NEW t \in Seq(Steps), t # <<>>, Checked(t)
    PROVE  Checked(Tail(t)) /\ (Tail(t) # <<>> /\ Head(Tail(t)) = "admit" => Head(t) = "confirm")
<1>1. /\ Tail(t) \in Seq(Steps) /\ Len(Tail(t)) = Len(t) - 1 /\ Len(t) \in Nat /\ Len(t) >= 1
      /\ \A i \in 1..Len(Tail(t)) : Tail(t)[i] = t[i + 1]
  OBVIOUS
<1>2. ASSUME NEW i \in 2..Len(Tail(t)), Tail(t)[i] = "admit"
      PROVE  Tail(t)[i - 1] = "confirm"
  <2>1. /\ i + 1 \in 2..Len(t) /\ i - 1 \in 1..Len(Tail(t)) /\ i \in 1..Len(Tail(t))
        /\ (i + 1) - 1 = i /\ (i - 1) + 1 = i
    BY <1>1
  <2>2. Tail(t)[i] = t[i + 1] /\ Tail(t)[i - 1] = t[i]
    BY <1>1, <2>1
  <2>3. t[i + 1] = "admit" => t[(i + 1) - 1] = "confirm"
    BY <2>1 DEF Checked
  <2> QED
    BY <1>2, <2>1, <2>2, <2>3
<1>3. ASSUME Tail(t) # <<>>, Head(Tail(t)) = "admit" PROVE Head(t) = "confirm"
  <2>1. Head(Tail(t)) = t[2] /\ Head(t) = t[1] /\ 2 \in 2..Len(t)
    BY <1>1, <1>3
  <2>2. t[2] = "admit" => t[2 - 1] = "confirm"
    BY <2>1 DEF Checked
  <2> QED
    BY <1>3, <2>1, <2>2
<1> QED
  BY <1>1, <1>2, <1>3 DEF Checked

LEMMA CheckedJoin ==
    ASSUME NEW s \in Seq(Steps), NEW t \in Seq(Steps), s # <<>>, t # <<>>, Checked(s), Checked(t),
           t[1] = "admit" => s[Len(s)] = "confirm"
    PROVE  s \o t \in Seq(Steps) /\ s \o t # <<>> /\ Checked(s \o t) /\ (s \o t)[Len(s \o t)] = t[Len(t)]
<1>1. /\ Len(s) \in Nat /\ Len(t) \in Nat /\ Len(s) >= 1 /\ Len(t) >= 1
      /\ s \o t \in Seq(Steps) /\ Len(s \o t) = Len(s) + Len(t)
      /\ \A i \in 1..Len(s) : (s \o t)[i] = s[i]
      /\ \A i \in (Len(s) + 1)..(Len(s) + Len(t)) : (s \o t)[i] = t[i - Len(s)]
  OBVIOUS
<1>2. ASSUME NEW i \in 2..Len(s \o t), (s \o t)[i] = "admit"
      PROVE  (s \o t)[i - 1] = "confirm"
  <2>1. CASE i <= Len(s)
    <3>1. (s \o t)[i] = s[i] /\ (s \o t)[i - 1] = s[i - 1] /\ i \in 2..Len(s)
      BY <1>1, <2>1
    <3> QED
      BY <1>2, <3>1 DEF Checked
  <2>2. CASE i = Len(s) + 1
    <3>1. (s \o t)[i] = t[1] /\ (s \o t)[i - 1] = s[Len(s)]
      BY <1>1, <2>2
    <3> QED
      BY <1>2, <3>1
  <2>3. CASE i > Len(s) + 1
    <3>1. /\ (s \o t)[i] = t[i - Len(s)] /\ (s \o t)[i - 1] = t[(i - Len(s)) - 1]
          /\ i - Len(s) \in 2..Len(t)
      BY <1>1, <2>3
    <3> QED
      BY <1>2, <3>1 DEF Checked
  <2> QED
    BY <1>1, <2>1, <2>2, <2>3
<1>3. (s \o t)[Len(s \o t)] = t[Len(t)]
  BY <1>1
<1> QED
  BY <1>1, <1>2, <1>3 DEF Checked

LEMMA PhasesChecked ==
    ASSUME NEW kind \in {"run", "reset", "audit", "legacy"}
    PROVE  Checked(Phases(kind)) /\ Phases(kind)[1] # "admit"
<1> DEFINE Good(t, begin, end) == /\ t \in Seq(Steps) /\ t # <<>> /\ Checked(t)
                                  /\ t[1] = begin /\ t[Len(t)] = end
<1>1. /\ Good(Reconcile, "examine", "confirm") /\ Good(Fetch, "admit", "mark")
      /\ Good(<<"preflight">>, "preflight", "preflight") /\ Good(<<"requeue">>, "requeue", "requeue")
      /\ Good(<<"drafts">>, "drafts", "drafts")
  BY DEF Reconcile, Fetch, Checked, Steps
<1>2. Good(<<"preflight", "examine">>, "preflight", "examine")
  BY DEF Checked, Steps
<1>3. ASSUME NEW s, NEW t, NEW a, NEW b, NEW c, NEW d, Good(s, a, b), Good(t, c, d), c = "admit" => b = "confirm"
      PROVE  Good(s \o t, a, d)
  <2>1. s \o t \in Seq(Steps) /\ s \o t # <<>> /\ Checked(s \o t) /\ (s \o t)[Len(s \o t)] = t[Len(t)]
    BY <1>3, CheckedJoin
  <2>2. (s \o t)[1] = s[1]
    BY <1>3
  <2> QED
    BY <1>3, <2>1, <2>2
<1> HIDE DEF Good
<1>4. Good(Batched, "preflight", "mark")
  <2>1. Good(<<"preflight">> \o Reconcile, "preflight", "confirm")
    BY <1>1, <1>3
  <2>2. Good((<<"preflight">> \o Reconcile) \o <<"requeue">>, "preflight", "requeue")
    BY <1>1, <1>3, <2>1
  <2>3. Good(((<<"preflight">> \o Reconcile) \o <<"requeue">>) \o Reconcile, "preflight", "confirm")
    BY <1>1, <1>3, <2>2
  <2>4. Good((((<<"preflight">> \o Reconcile) \o <<"requeue">>) \o Reconcile) \o Fetch, "preflight", "mark")
    BY <1>1, <1>3, <2>3
  <2> QED
    BY <2>4 DEF Batched
<1>5. Good((Reconcile \o <<"drafts">>) \o Batched, "examine", "mark")
  <2>1. Good(Reconcile \o <<"drafts">>, "examine", "drafts")
    BY <1>1, <1>3
  <2> QED
    BY <1>3, <1>4, <2>1
<1>6. Good(<<"preflight">> \o Reconcile, "preflight", "confirm")
  BY <1>1, <1>3
<1>7. \E a, b : a # "admit" /\ Good(Phases(kind), a, b)
  BY <1>2, <1>4, <1>5, <1>6 DEF Phases
<1> QED
  BY <1>7 DEF Good

\* The keys of a batch, and those beside it.
LEMMA Apart ==
    ASSUME NEW n \in Names
    PROVE  /\ Raw(n) # NoKey /\ Processed(n) # NoKey /\ FlatRaw(n) # NoKey /\ FlatProcessed(n) # NoKey
           /\ Processed(n)[2] # Flat /\ FlatRaw(n)[2] = Flat /\ FlatProcessed(n)[2] = Flat
           /\ \A m \in Names : /\ Raw(n) # FlatRaw(m) /\ (Raw(n) = Raw(m) => n = m)
                               /\ (FlatRaw(n) = FlatRaw(m) => n = m)
           /\ \A k \in RawKeys : FlatProcessed(k[3]) = FlatProcessed(n) => k[3] = n
           /\ Raw(n)[3] = n /\ FlatRaw(n)[3] = n
           /\ Raw(n) \in Keys /\ FlatRaw(n) \in Keys
           /\ Processed(n) # FlatRaw(n) /\ FlatProcessed(n) # FlatRaw(n) /\ Processed(n) # FlatProcessed(n)
  BY FrozenInputsAssumption, KeyFacts
  DEF Raw, FlatRaw, Processed, FlatProcessed, Key, NoKey, Flat, None, RawKeys

\* What stands in a bucket, and what an upload's own bytes are.
LEMMA Standing ==
    ASSUME InputsInv, NEW n \in Names
    PROVE  /\ store[Processed(n)] = origin[Processed(n)]
           /\ store[FlatProcessed(n)] = origin[FlatProcessed(n)]
           /\ origin[Raw(n)] # None => store[Raw(n)] = origin[Raw(n)]
           /\ RightSize(Frozen[<<Batch, n>>])
<1>1. <<Batch, n>> \in Uploads
  BY FrozenInputsAssumption DEF Uploads
<1>2. Frozen[<<Batch, n>>] \in Range(Frozen)
  BY <1>1, FrozenInputsAssumption DEF Uploads, Range
<1>3. RightSize(Frozen[<<Batch, n>>])
  BY <1>2, FrozenInputsAssumption DEF RightSize, None, Torn
<1> QED
  BY <1>3, Parts, KeyFacts DEF OriginalsUntouched

LEMMA BatchParts ==
    ASSUME BatchInv
    PROVE  BytesOK /\ RestoreOK /\ MadeOK /\ ConfirmOK /\ BesideOK /\ UntornOK /\ InterruptedRunsRecover
  BY DEF BatchInv

LEMMA EntriesOf ==
    ASSUME InputsInv
    PROVE  Entries(job.manifest) \subseteq Names
<1>1. job.manifest \in Manifests \cup {<<>>}
  BY Parts DEF StoreType, Jobs
<1> QED
  BY <1>1, FrozenInputsAssumption DEF Entries

\* A step that leaves a batch's own raw keys as they are, or empties one.
LEMMA BytesKept ==
    ASSUME InputsInv, BatchInv, UNCHANGED origin, overwritten \subseteq overwritten', torn \subseteq torn',
           \A n \in Names : store'[Raw(n)] \in {store[Raw(n)], None}
    PROVE  BytesOK' /\ UntornOK'
<1>1. BytesOK'
  BY BatchParts DEF BytesOK, Attested, Torn, None
<1>2. UntornOK'
  BY BatchParts DEF UntornOK, Intact, Torn, None
<1> QED
  BY <1>1, <1>2

LEMMA ExcusedKept ==
    ASSUME BatchInv, UNCHANGED origin, torn \subseteq torn',
           job'.kind = job.kind, job'.manifest = job.manifest
    PROVE  /\ Excused => Excused'
           /\ job'.why = job.why => InterruptedRunsRecover'
<1>1. ASSUME Excused PROVE Excused'
  BY <1>1 DEF Excused, Verifying, Intact
<1>2. ASSUME job'.why = job.why PROVE InterruptedRunsRecover'
  <2>1. job.why = "frozen" => Excused
    BY BatchParts DEF InterruptedRunsRecover, Excused
  <2>2. Excused' => InterruptedRunsRecover'
    BY DEF InterruptedRunsRecover, Excused
  <2>3. job'.why # "frozen" => InterruptedRunsRecover'
    BY DEF InterruptedRunsRecover
  <2> QED
    BY <1>1, <1>2, <2>1, <2>2, <2>3
<1> QED
  BY <1>1, <1>2

\* A job that fails for what is not the state of the inputs, or for what excuses it.
LEMMA JobOver ==
    ASSUME InputsInv, BatchInv, NEW why, Fail(why), why # "frozen" \/ Excused,
           UNCHANGED origin, torn \subseteq torn'
    PROVE  RestoreOK' /\ MadeOK' /\ ConfirmOK' /\ InterruptedRunsRecover'
<1>1. /\ job'.todo = <<>> /\ job'.why = why /\ job'.kind = job.kind /\ job'.manifest = job.manifest
  BY Parts DEF Fail, StoreType, Jobs
<1>2. \A p : ~At(p)'
  BY <1>1 DEF At
<1>3. RestoreOK' /\ MadeOK'
  BY <1>1, <1>2 DEF RestoreOK, MadeOK
<1>4. ConfirmOK'
  BY <1>1, <1>2 DEF ConfirmOK, Checked
<1>5. InterruptedRunsRecover'
  <2>1. Excused' => InterruptedRunsRecover'
    BY DEF InterruptedRunsRecover, Excused
  <2>2. job'.why # "frozen" => InterruptedRunsRecover'
    BY DEF InterruptedRunsRecover
  <2> QED
    BY <1>1, <2>1, <2>2, ExcusedKept
<1> QED
  BY <1>3, <1>4, <1>5

\* A phase that is over, when the next one is none that copies or admits.
LEMMA JobMoves ==
    ASSUME InputsInv, BatchInv, NEW p, At(p), p \notin {"examine", "copy", "confirm", "admit"},
           job'.todo = Tail(job.todo), job'.kind = job.kind, job'.manifest = job.manifest,
           job'.why # "frozen" \/ job'.why = job.why,
           job'.made = NoKey \/ (job'.made = job.made /\ p # "requeue"),
           UNCHANGED origin, torn \subseteq torn'
    PROVE  RestoreOK' /\ MadeOK' /\ ConfirmOK' /\ InterruptedRunsRecover'
<1>1. /\ ~At("copy")' /\ ~At("confirm")' /\ ~At("prepare")'
  BY Onward
<1>2. job.todo \in Seq(Steps) /\ job.todo # <<>> /\ Head(job.todo) = p
  BY Parts DEF StoreType, Jobs, At
<1>3. RestoreOK'
  BY <1>1 DEF RestoreOK
<1>4. job'.made = NoKey
  BY <1>2, BatchParts DEF MadeOK, At
<1>5. MadeOK'
  BY <1>4 DEF MadeOK
<1>6. ConfirmOK'
  <2>1. Scoped' => Scoped
    BY DEF Scoped
  <2>2. Scoped => Checked(job.todo)
    BY BatchParts DEF ConfirmOK
  <2>3. Scoped => Checked(job'.todo) /\ ~At("admit")'
    BY <1>2, <2>2, CheckedTail DEF At
  <2> QED
    BY <1>1, <2>1, <2>3 DEF ConfirmOK
<1>7. InterruptedRunsRecover'
  <2>1. job'.why # "frozen" => InterruptedRunsRecover'
    BY DEF InterruptedRunsRecover
  <2> QED
    BY <2>1, ExcusedKept
<1> QED
  BY <1>3, <1>5, <1>6, <1>7

\* A step within a phase that neither copies into the batch nor admits.
LEMMA JobStays ==
    ASSUME InputsInv, BatchInv, NEW p, At(p), p \notin {"copy", "confirm", "admit", "prepare"},
           job'.todo = job.todo, job'.kind = job.kind, job'.manifest = job.manifest, job'.why = job.why,
           job'.made = job.made \/ p = "requeue",
           UNCHANGED origin, torn \subseteq torn'
    PROVE  RestoreOK' /\ MadeOK' /\ ConfirmOK' /\ InterruptedRunsRecover'
<1>1. /\ job.todo # <<>> /\ Head(job.todo) = p /\ ~At("copy")' /\ ~At("confirm")' /\ ~At("prepare")' /\ ~At("admit")'
  BY DEF At
<1>2. RestoreOK'
  BY <1>1 DEF RestoreOK
<1>3. MadeOK'
  BY <1>1, BatchParts DEF MadeOK, At
<1>4. ConfirmOK'
  BY <1>1, BatchParts DEF ConfirmOK, Scoped
<1> QED
  BY <1>2, <1>3, <1>4, ExcusedKept

\* The steps of the job that write no object.
LEMMA QuietBatch ==
    ASSUME InputsInv, BatchInv, UNCHANGED <<store, overwritten, torn, origin, recovery>>,
           RestoreOK', MadeOK', ConfirmOK', InterruptedRunsRecover'
    PROVE  BatchInv'
<1>1. BytesOK' /\ UntornOK'
  BY BytesKept
<1>2. BesideOK'
  BY BatchParts DEF BesideOK
<1> QED
  BY <1>1, <1>2 DEF BatchInv

LEMMA StartJobBatch ==
    ASSUME InputsInv, BatchInv, NEW kind \in Kinds, NEW m \in Manifests, StartJob(kind, m)
    PROVE  BatchInv'
<1>1. /\ UNCHANGED <<store, overwritten, torn, origin, recovery>>
      /\ job' = [Idle EXCEPT !.kind = kind, !.todo = Phases(kind), !.manifest = m]
  BY DEF StartJob, bucket
<1>2. /\ job'.kind = kind /\ job'.todo = Phases(kind) /\ job'.made = NoKey /\ job'.why = None
  BY <1>1 DEF Idle
<1>3. Phases(kind) \in Seq(Steps) /\ Phases(kind) # <<>> /\ Phases(kind)[1] \notin Late
  BY PhasesOrdered
<1>4. ~At("copy")' /\ ~At("confirm")' /\ ~At("prepare")'
  BY <1>2, <1>3 DEF At, Late
<1>5. Scoped' => Checked(Phases(kind)) /\ ~At("admit")'
  BY <1>2, <1>3, PhasesChecked DEF Scoped, At
<1>6. RestoreOK' /\ MadeOK' /\ ConfirmOK'
  BY <1>2, <1>4, <1>5 DEF RestoreOK, MadeOK, ConfirmOK
<1>7. InterruptedRunsRecover'
  BY <1>2 DEF InterruptedRunsRecover, None
<1> QED
  BY <1>1, <1>6, <1>7, QuietBatch

LEMMA CrashBatch ==
    ASSUME InputsInv, BatchInv, Crash
    PROVE  BatchInv'
<1>1. Fail("crash") /\ UNCHANGED <<store, overwritten, torn, origin, recovery>>
  BY DEF Crash, bucket, others
<1>2. RestoreOK' /\ MadeOK' /\ ConfirmOK' /\ InterruptedRunsRecover'
  BY <1>1, JobOver
<1> QED
  BY <1>1, <1>2, QuietBatch

\* The phases that neither copy nor admit nor judge the batch's files.
LEMMA PlainBatch ==
    ASSUME InputsInv, BatchInv,
           \/ Preflight \/ AllRestored \/ PlanReset \/ DeleteDrafts \/ NothingToRequeue
           \/ Rekey \/ Forget \/ EndJob \/ Prepare
    PROVE  BatchInv'
<1>1. UNCHANGED <<store, overwritten, torn, origin, recovery>>
  BY DEF Preflight, AllRestored, PlanReset, DeleteDrafts, NothingToRequeue, Rekey, Forget, EndJob,
         Prepare, bucket, others
<1>2. PICK p \in {"preflight", "restore", "plan", "drafts", "requeue", "rekey", "forget", "mark", "prepare"} :
         /\ At(p)
         /\ \/ \E why \in {"preflight", "restore", "collision", "changed"} : Fail(why)
            \/ /\ job'.todo = Tail(job.todo) /\ job'.kind = job.kind /\ job'.manifest = job.manifest
               /\ job'.why \in {job.why, "done"}
               /\ job'.made = job.made /\ (p = "requeue" => job.made = NoKey)
  <2>1. job \in Jobs
    BY Parts DEF StoreType
  <2>2. /\ Next1.todo = Tail(job.todo) /\ Next1.kind = job.kind /\ Next1.manifest = job.manifest
        /\ Next1.why = job.why /\ Next1.made = job.made
    BY <2>1 DEF Next1, Jobs
  <2>3. ASSUME NEW x,
               \/ job' = [Next1 EXCEPT !.left = x] \/ job' = [Next1 EXCEPT !.admitted = x]
               \/ job' = [Next1 EXCEPT !.why = x] /\ x = "done"
        PROVE  /\ job'.todo = Tail(job.todo) /\ job'.kind = job.kind /\ job'.manifest = job.manifest
               /\ job'.why \in {job.why, "done"} /\ job'.made = job.made
    BY <2>1, <2>3 DEF Next1, Jobs
  <2> HIDE DEF Next1
  <2>4. CASE Preflight
    BY <2>2, <2>4 DEF Preflight
  <2>5. CASE AllRestored
    BY <2>2, <2>5 DEF AllRestored
  <2>6. CASE PlanReset
    <3>1. Fail("collision") \/ \E left : job' = [Next1 EXCEPT !.left = left]
      BY <2>6 DEF PlanReset
    <3>2. At("plan")
      BY <2>6 DEF PlanReset
    <3> QED
      BY <2>3, <3>1, <3>2
  <2>7. CASE DeleteDrafts \/ NothingToRequeue \/ Rekey \/ Forget
    BY <2>2, <2>7 DEF DeleteDrafts, NothingToRequeue, Rekey, Forget
  <2>8. CASE EndJob
    BY <2>3, <2>8 DEF EndJob
  <2>9. CASE Prepare
    <3>1. Fail("changed") \/ \E sources : job' = [Next1 EXCEPT !.admitted = sources]
      BY <2>9 DEF Prepare
    <3>2. At("prepare")
      BY <2>9 DEF Prepare
    <3> QED
      BY <2>3, <3>1, <3>2
  <2> QED
    BY <2>4, <2>5, <2>6, <2>7, <2>8, <2>9
<1>3. CASE \E why \in {"preflight", "restore", "collision", "changed"} : Fail(why)
  BY <1>1, <1>3, JobOver, QuietBatch
<1>4. CASE ~\E why \in {"preflight", "restore", "collision", "changed"} : Fail(why)
  <2>1. RestoreOK' /\ MadeOK' /\ ConfirmOK' /\ InterruptedRunsRecover'
    BY <1>1, <1>2, <1>4, JobMoves
  <2> QED
    BY <1>1, <2>1, QuietBatch
<1> QED
  BY <1>3, <1>4

\* The steps within a phase that write no object.
LEMMA WithinBatch ==
    ASSUME InputsInv, BatchInv, NEW k \in Keys, LookAtRaw(k) \/ Mark(k) \/ LookToRequeue(k)
    PROVE  BatchInv'
<1>1. UNCHANGED <<store, overwritten, torn, origin, recovery>>
  BY DEF LookAtRaw, Mark, LookToRequeue, bucket, others
<1>2. PICK p \in {"restore", "mark", "requeue"} :
        /\ At(p) /\ job'.todo = job.todo /\ job'.kind = job.kind /\ job'.manifest = job.manifest
        /\ job'.why = job.why /\ (job'.made = job.made \/ p = "requeue")
  BY Parts DEF LookAtRaw, Mark, LookToRequeue, StoreType, Jobs
<1>3. RestoreOK' /\ MadeOK' /\ ConfirmOK' /\ InterruptedRunsRecover'
  BY <1>1, <1>2, JobStays
<1> QED
  BY <1>1, <1>3, QuietBatch

\* What a reprocess request brings back is the upload's own, or no video.
LEMMA RequeuedBatch ==
    ASSUME InputsInv, BatchInv, At("requeue"), UNCHANGED <<torn, origin, recovery>>,
           NEW k \in RawKeys,
           NoCopy \/ (Free(k) /\ CopyVerified(FlatProcessed(k[3]), k)),
           job' = [Next1 EXCEPT !.made = NoKey]
    PROVE  BatchInv'
<1>1. job'.todo = Tail(job.todo) /\ job'.kind = job.kind /\ job'.manifest = job.manifest
      /\ job'.why = job.why /\ job'.made = NoKey
  BY Parts DEF StoreType, Jobs, Next1
<1>2. RestoreOK' /\ MadeOK' /\ ConfirmOK' /\ InterruptedRunsRecover'
  BY <1>1, JobMoves
<1>3. BesideOK'
  BY BatchParts DEF BesideOK
<1>4. CASE NoCopy
  <2>1. BytesOK' /\ UntornOK'
    BY <1>4, BytesKept DEF NoCopy
  <2> QED
    BY <1>2, <1>3, <2>1 DEF BatchInv
<1>5. CASE Free(k) /\ CopyVerified(FlatProcessed(k[3]), k)
  <2>1. k \in Keys /\ k[3] \in Names /\ FlatProcessed(k[3]) \in Keys /\ store \in [Keys -> Contents]
    BY Parts, KeyFacts DEF StoreType
  <2>2. CopyObject(FlatProcessed(k[3]), k)
    BY <1>5 DEF CopyVerified, CopyIfAbsent
  <2>3. \A l \in Keys : store'[l] = IF l = k THEN origin[FlatProcessed(k[3])] ELSE store[l]
    BY <2>1, <2>2, Standing DEF CopyObject
  <2>4. overwritten \subseteq overwritten'
    BY <2>2 DEF CopyObject
  <2>5. ASSUME NEW n \in Names
        PROVE  \/ store'[Raw(n)] = store[Raw(n)]
               \/ k = Raw(n) /\ store'[Raw(n)] = origin[FlatProcessed(n)] /\ origin[Raw(n)] = None
    BY <1>5, <2>3, Apart DEF Free
  <2>6. BytesOK'
    <3> SUFFICES ASSUME NEW n \in Names, Attested(n)
                 PROVE  store'[Raw(n)] \in {None, Torn, Frozen[<<Batch, n>>]} \/ FlatRaw(n) \in overwritten'
      BY DEF BytesOK, Attested, Torn, None
    <3>1. origin[FlatProcessed(n)] \in {None, Torn, Frozen[<<Batch, n>>]}
      BY DEF Attested
    <3>2. store[Raw(n)] \in {None, Torn, Frozen[<<Batch, n>>]} \/ FlatRaw(n) \in overwritten
      BY BatchParts DEF BytesOK
    <3> QED
      BY <2>4, <2>5, <3>1, <3>2
  <2>7. UntornOK'
    <3> SUFFICES ASSUME torn = {}, NEW n \in Names, Intact(n) PROVE store'[Raw(n)] # Torn
      BY DEF UntornOK, Intact, Torn
    <3>1. store[Raw(n)] # Torn
      BY BatchParts DEF UntornOK
    <3>2. origin[Raw(n)] = None => origin[FlatProcessed(n)] # Torn
      BY Standing DEF Intact, RightSize
    <3> QED
      BY <2>5, <3>1, <3>2
  <2> QED
    BY <1>2, <1>3, <2>6, <2>7 DEF BatchInv
<1> QED
  BY <1>4, <1>5

LEMMA RequeueBatch ==
    ASSUME InputsInv, BatchInv, NEW k \in RawKeys, Requeue(k)
    PROVE  BatchInv'
<1>1. At("requeue") /\ UNCHANGED <<torn, origin, recovery>> /\ job' = [Next1 EXCEPT !.made = NoKey]
  BY DEF Requeue, others
<1>2. job.made = k => Free(k)
  BY KeyFacts, Parts DEF JobOK
<1>3. NoCopy \/ (Free(k) /\ CopyVerified(FlatProcessed(k[3]), k))
  BY <1>2 DEF Requeue
<1> QED
  BY <1>1, <1>3, RequeuedBatch

LEMMA RequeueFailsBatch ==
    ASSUME InputsInv, BatchInv, RequeueFails
    PROVE  BatchInv'
<1>1. /\ At("requeue") /\ UNCHANGED <<torn, origin, recovery>> /\ job' = [Next1 EXCEPT !.made = NoKey]
      /\ job.made # NoKey
  BY DEF RequeueFails, others
<1>2. job.made \in RawKeys /\ Free(job.made)
  BY <1>1, Parts DEF StoreType, Jobs, JobOK
<1>3. NoCopy \/ (Free(job.made) /\ CopyVerified(FlatProcessed(job.made[3]), job.made))
  BY <1>2 DEF RequeueFails
<1> QED
  BY <1>1, <1>2, <1>3, RequeuedBatch

\* A copy to raw/<file> leaves the batches' objects alone.
LEMMA CopiedBeside ==
    ASSUME InputsInv, NEW m \in Names, NEW from \in Keys, CopyVerified(from, FlatRaw(m)) \/ NoCopy
    PROVE  /\ overwritten \subseteq overwritten'
           /\ \A n \in Names : /\ store'[Raw(n)] = store[Raw(n)]
                               /\ store'[Processed(n)] = store[Processed(n)]
                               /\ \/ store[FlatRaw(n)] \in {None, store'[FlatRaw(n)]}
                                  \/ FlatRaw(n) \in overwritten'
<1>1. CASE NoCopy
  BY <1>1 DEF NoCopy
<1>2. CASE CopyVerified(from, FlatRaw(m))
  <2>1. CopyObject(from, FlatRaw(m))
    BY <1>2 DEF CopyVerified, CopyIfAbsent
  <2>2. FlatRaw(m) \in Keys /\ store \in [Keys -> Contents]
    BY Parts, Apart DEF StoreType
  <2>3. \A l \in Keys : l # FlatRaw(m) => store'[l] = store[l]
    BY <2>1, <2>2 DEF CopyObject
  <2>4. store[FlatRaw(m)] # None => FlatRaw(m) \in overwritten'
    BY <2>1 DEF CopyObject
  <2>5. overwritten \subseteq overwritten'
    BY <2>1 DEF CopyObject
  <2>6. ASSUME NEW n \in Names
        PROVE  /\ Raw(n) # FlatRaw(m) /\ Raw(n) \in Keys /\ FlatRaw(n) \in Keys
               /\ Processed(n) # FlatRaw(m) /\ Processed(n) \in Keys
    <3>1. Processed(n) \in ProcessedKeys /\ FlatRaw(m) \in RawKeys
      BY KeyFacts
    <3> QED
      BY <3>1, Apart, KeyFacts
  <2> QED
    BY <2>3, <2>4, <2>5, <2>6
<1> QED
  BY <1>1, <1>2

LEMMA CopyToRawBatch ==
    ASSUME InputsInv, BatchInv, NEW k \in Keys, CopyToRaw(k)
    PROVE  BatchInv'
<1>1. /\ At("restore") /\ UNCHANGED <<torn, origin, recovery>> /\ k[3] \in Names
      /\ CopyVerified(k, FlatRaw(k[3])) \/ NoCopy
  BY KeyFacts DEF CopyToRaw, others
<1>2. /\ job'.todo = job.todo /\ job'.kind = job.kind /\ job'.manifest = job.manifest
      /\ job'.why = job.why /\ job'.made = job.made
  BY Parts DEF CopyToRaw, StoreType, Jobs
<1>3. RestoreOK' /\ MadeOK' /\ ConfirmOK' /\ InterruptedRunsRecover'
  BY <1>1, <1>2, JobStays
<1>4. BytesOK' /\ UntornOK'
  BY <1>1, CopiedBeside, BytesKept
<1>5. BesideOK'
  BY <1>1, BatchParts DEF BesideOK
<1> QED
  BY <1>3, <1>4, <1>5 DEF BatchInv

\* What happens beside the job leaves it its files, and its sources but where
\* another copy came in between.
LEMMA BesideBatch ==
    ASSUME InputsInv, BatchInv, UNCHANGED <<job, origin, torn>>, overwritten \subseteq overwritten', BesideOK',
           \A n \in Names : /\ store'[Raw(n)] = store[Raw(n)]
                            /\ store'[Processed(n)] = store[Processed(n)]
                            /\ \/ store[FlatRaw(n)] \in {None, store'[FlatRaw(n)]}
                               \/ FlatRaw(n) \in overwritten'
    PROVE  BatchInv'
<1>1. BytesOK' /\ UntornOK'
  BY BytesKept
<1>2. MadeOK'
  BY BatchParts DEF MadeOK, At
<1>3. InterruptedRunsRecover'
  BY ExcusedKept
<1>4. Entries(job.manifest) \subseteq Names
  BY EntriesOf
<1>5. ConfirmOK'
  <2>1. Present => Present'
    BY <1>4 DEF Present, RightSize
  <2> QED
    BY <2>1, BatchParts DEF ConfirmOK, At, Scoped
<1>6. RestoreOK'
  <2> SUFFICES ASSUME At("copy") PROVE RestoreOK'
    BY DEF RestoreOK, At
  <2>1. ASSUME NEW n \in Names, From(n) PROVE From(n)'
    <3>1. job.left[Raw(n)] = FlatRaw(n) =>
             store[FlatRaw(n)] = Frozen[<<Batch, n>>] \/ FlatRaw(n) \in overwritten
      BY <2>1 DEF From
    <3>2. Frozen[<<Batch, n>>] # None
      BY Standing DEF RightSize
    <3> QED
      BY <2>1, <3>1, <3>2 DEF From
  <2>2. \A k \in DOMAIN job.left : \E n \in Entries(job.manifest) : k = Raw(n) /\ From(n)'
    BY <1>4, <2>1, BatchParts DEF RestoreOK
  <2>3. \A n \in Entries(job.manifest) : Raw(n) \in DOMAIN job.left \/ RightSize(store'[Raw(n)])
    BY <1>4, BatchParts DEF RestoreOK
  <2>4. \A k \in DOMAIN job.left : k # job.made => store'[k] = None
    BY <1>4, <2>2, BatchParts DEF RestoreOK
  <2>5. job.made # NoKey => job.made \in DOMAIN job.left
    BY BatchParts DEF RestoreOK
  <2> QED
    BY <2>2, <2>3, <2>4, <2>5 DEF RestoreOK, RightSize
<1> QED
  BY <1>1, <1>2, <1>3, <1>5, <1>6 DEF BatchInv

LEMMA RecoveryBatch ==
    ASSUME InputsInv, BatchInv,
           \/ RecoveryPlan \/ RecoveryValidate \/ \E a \in recovery.left : RecoveryLook(a) \/ RecoveryCopy(a)
    PROVE  BatchInv'
<1>1. recovery \in Recoveries /\ \A a \in recovery.left : a \in Copies /\ \E n \in Names : a.to = FlatRaw(n)
  BY Parts, BatchParts DEF StoreType, Recoveries, BesideOK
<1>2. BesideOK'
  <2>1. CASE RecoveryPlan
    <3>1. \A u \in Uploads : u[2] \in Names
      BY KeyFacts
    <3>2. \A a \in recovery'.left : \E u \in Uploads : a.to = FlatRaw(u[2])
      BY <2>1 DEF RecoveryPlan
    <3> QED
      BY <3>1, <3>2 DEF BesideOK
  <2>2. CASE RecoveryValidate
    BY <1>1, <2>2, BatchParts DEF RecoveryValidate, RecoveryEnd, BesideOK, Recoveries
  <2>3. ASSUME NEW a \in recovery.left, RecoveryLook(a) PROVE BesideOK'
    <3>1. [a EXCEPT !.seen = TRUE].to = a.to
      BY <1>1 DEF Copies
    <3>2. \A b \in recovery'.left : b \in recovery.left \/ b = [a EXCEPT !.seen = TRUE]
      BY <1>1, <2>3 DEF RecoveryLook, RecoveryEnd, Recoveries
    <3> QED
      BY <1>1, <3>1, <3>2 DEF BesideOK
  <2>4. ASSUME NEW a \in recovery.left, RecoveryCopy(a) PROVE BesideOK'
    BY <1>1, <2>4, BatchParts DEF RecoveryCopy, RecoveryEnd, BesideOK, Recoveries
  <2> QED
    BY <2>1, <2>2, <2>3, <2>4
<1>3. UNCHANGED <<job, origin, torn>>
  BY DEF RecoveryPlan, RecoveryValidate, RecoveryLook, RecoveryCopy, bucket
<1>4. CASE UNCHANGED <<store, overwritten>>
  BY <1>2, <1>3, <1>4, BesideBatch
<1>5. ASSUME NEW a \in recovery.left, RecoveryCopy(a) PROVE BatchInv'
  <2>1. PICK m \in Names : a.to = FlatRaw(m)
    BY <1>1
  <2>2. a.from \in Keys /\ (CopyVerified(a.from, FlatRaw(m)) \/ NoCopy)
    BY <1>1, <1>5, <2>1 DEF RecoveryCopy, Copies, ProcessedKeys
  <2> QED
    BY <1>2, <1>3, <2>2, CopiedBeside, BesideBatch
<1> QED
  BY <1>4, <1>5 DEF RecoveryPlan, RecoveryValidate, RecoveryLook, bucket

\* What the reconciliation finds and takes from where.
LEMMA ExamineBatch ==
    ASSUME InputsInv, BatchInv, Examine
    PROVE  BatchInv'
<1>1. At("examine") /\ UNCHANGED <<store, overwritten, torn, origin, recovery>> /\ job \in Jobs
  BY Parts DEF Examine, bucket, others, StoreType
<1>2. Entries(job.manifest) \subseteq Names
  BY EntriesOf
<1>3. CASE ~Recoverable
  <2>1. Fail("frozen")
    BY <1>3 DEF Examine
  <2>2. Excused
    <3> SUFFICES ASSUME ~Excused PROVE FALSE
      OBVIOUS
    <3>1. /\ WellFormed(job.manifest) /\ Entries(job.manifest) = Names /\ torn = {} /\ ~Verifying
          /\ \A n \in Names : Intact(n) /\ n \notin Large
      BY DEF Excused
    <3>2. Unexpected = {}
      BY <3>1 DEF Unexpected
    <3>3. ASSUME NEW n \in Names
          PROVE  ItemState(n) \in {"raw_ok", "restorable"} /\ ContentProven(n)
      <4>1. CASE store[Raw(n)] # None
        <5>1. store[Raw(n)] # Torn
          BY <3>1, BatchParts DEF UntornOK
        <5>2. ItemState(n) = "raw_ok"
          BY <4>1, <5>1 DEF ItemState, RightSize
        <5> QED
          BY <3>1, <5>2 DEF ContentProven
      <4>2. CASE store[Raw(n)] = None
        <5>1. RightSize(Frozen[<<Batch, n>>]) /\ store[Processed(n)] = origin[Processed(n)]
              /\ (origin[Raw(n)] # None => store[Raw(n)] = origin[Raw(n)])
          BY Standing
        <5>2. store[Processed(n)] = Frozen[<<Batch, n>>]
          BY <3>1, <4>2, <5>1 DEF Intact, RightSize
        <5>3. SourceOf(n) = Processed(n)
          BY <5>1, <5>2 DEF SourceOf, RightSize
        <5>4. SourceOf(n) # NoKey /\ ~IsFlat(n) /\ RightSize(store[SourceOf(n)])
          BY <5>1, <5>2, <5>3, Apart DEF IsFlat
        <5>5. ItemState(n) = "restorable"
          BY <3>1, <4>2, <5>4 DEF ItemState
        <5> QED
          BY <3>1, <5>4, <5>5 DEF ContentProven
      <4> QED
        BY <4>1, <4>2
    <3> QED
      BY <1>3, <3>1, <3>2, <3>3 DEF Recoverable
  <2> QED
    BY <1>1, <2>1, <2>2, JobOver, QuietBatch
<1>4. CASE Recoverable
  <2> DEFINE D == {Raw(n) : n \in {m \in Entries(job.manifest) : ItemState(m) = "restorable"}}
             left == [k \in D |-> SourceOf(k[3])]
  <2>1. job' = [Next1 EXCEPT !.left = left]
    BY <1>4 DEF Examine
  <2>2. DOMAIN left = D /\ \A k \in D : left[k] = SourceOf(k[3])
    OBVIOUS
  <2> HIDE DEF left
  <2>3. /\ job'.todo = Tail(job.todo) /\ job'.kind = job.kind /\ job'.manifest = job.manifest
        /\ job'.why = job.why /\ job'.made = job.made /\ job'.left = left
    BY <1>1, <2>1 DEF Next1, Jobs
  <2>4. /\ ~At("confirm")' /\ ~At("prepare")'
    BY <1>1, <2>3, Onward
  <2>5. job.made = NoKey
    BY <1>1, BatchParts DEF MadeOK, At
  <2>6. ASSUME NEW n \in Entries(job.manifest)
        PROVE  \/ /\ ItemState(n) = "restorable" /\ store[Raw(n)] = None
                  /\ SourceOf(n) \in {Processed(n), FlatRaw(n), FlatProcessed(n)}
                  /\ store[Processed(n)] # None => SourceOf(n) = Processed(n)
                  /\ SourceOf(n) = FlatRaw(n) => store[SourceOf(n)] = Frozen[<<Batch, n>>]
               \/ ItemState(n) # "restorable" /\ RightSize(store[Raw(n)])
    <3>1. ItemState(n) \in {"raw_ok", "restorable"} /\ ContentProven(n) /\ n \in Names
      BY <1>2, <1>4 DEF Recoverable
    <3>2. CASE ItemState(n) = "raw_ok"
      BY <3>2 DEF ItemState
    <3>3. CASE ItemState(n) = "restorable"
      <4>1. store[Raw(n)] = None /\ SourceOf(n) # NoKey
        BY <3>3 DEF ItemState
      <4>2. /\ SourceOf(n) \in {Processed(n), FlatRaw(n), FlatProcessed(n)}
            /\ store[Processed(n)] # None => SourceOf(n) = Processed(n)
        BY <4>1 DEF SourceOf
      <4>3. ASSUME SourceOf(n) = FlatRaw(n) PROVE store[SourceOf(n)] = Frozen[<<Batch, n>>]
        <5>1. IsFlat(n)
          BY <3>1, <4>1, <4>3, Apart DEF IsFlat
        <5>2. Sha(n) # None /\ store[SourceOf(n)] = Sha(n)
          BY <3>1, <3>3, <5>1 DEF ContentProven
        <5> QED
          BY <5>2 DEF Sha
      <4> QED
        BY <3>3, <4>1, <4>2, <4>3
    <3> QED
      BY <3>1, <3>2, <3>3
  <2>7. ASSUME NEW k \in D
        PROVE  \E n \in Entries(job.manifest) : k = Raw(n) /\ store[k] = None /\ (job'.left = left => From(n)')
    <3>1. PICK n \in Entries(job.manifest) : k = Raw(n) /\ ItemState(n) = "restorable"
      OBVIOUS
    <3>2. n \in Names /\ k[3] = n
      BY <1>2, <3>1, Apart
    <3>3. left[Raw(n)] = SourceOf(n)
      BY <2>2, <3>1, <3>2
    <3> QED
      BY <1>1, <2>6, <3>1, <3>3 DEF From, None, Processed, FlatRaw, FlatProcessed, Key, Flat, Raw
  <2>8. \A n \in Entries(job.manifest) : Raw(n) \in D \/ RightSize(store[Raw(n)])
    BY <2>6
  <2> HIDE DEF D
  <2>9. RestoreOK'
    BY <1>1, <2>2, <2>3, <2>5, <2>7, <2>8 DEF RestoreOK, RightSize
  <2>10. MadeOK'
    BY <2>3, <2>5 DEF MadeOK
  <2>11. ConfirmOK'
    <3>1. Scoped' => Scoped
      BY <2>3 DEF Scoped
    <3>2. Scoped => Checked(job.todo)
      BY BatchParts DEF ConfirmOK
    <3>3. job.todo \in Seq(Steps) /\ job.todo # <<>> /\ Head(job.todo) = "examine"
      BY <1>1 DEF Jobs, At
    <3>4. Scoped => Checked(job'.todo) /\ ~At("admit")'
      BY <2>3, <3>2, <3>3, CheckedTail DEF At
    <3> QED
      BY <2>4, <3>1, <3>4 DEF ConfirmOK
  <2>12. InterruptedRunsRecover'
    BY <1>1, <2>3, ExcusedKept
  <2> QED
    BY <1>1, <2>9, <2>10, <2>11, <2>12, QuietBatch
<1> QED
  BY <1>3, <1>4

\* A copy of the reconciliation lands where nothing is.
LEMMA RestoreBatch ==
    ASSUME InputsInv, BatchInv, NEW k \in Keys, Restore(k)
    PROVE  BatchInv'
<1>1. /\ At("copy") /\ job.made = NoKey /\ k \in DOMAIN job.left /\ UNCHANGED <<origin, recovery>>
      /\ job \in Jobs /\ store \in [Keys -> Contents] /\ k \in RawKeys /\ job.left[k] \in Keys
  BY Parts DEF Restore, others, StoreType, JobOK
<1>2. PICK n \in Entries(job.manifest) : n \in Names /\ k = Raw(n) /\ From(n)
  BY <1>1, EntriesOf, BatchParts DEF RestoreOK
<1>3. store[k] = None
  BY <1>1, BatchParts, KeyFacts DEF RestoreOK
<1>4. job' = [job EXCEPT !.made = k]
  BY <1>3 DEF Restore
<1>5. /\ job'.todo = job.todo /\ job'.kind = job.kind /\ job'.manifest = job.manifest
      /\ job'.why = job.why /\ job'.left = job.left /\ job'.made = k
  BY <1>1, <1>4 DEF Jobs
<1>6. /\ overwritten' = overwritten /\ torn \subseteq torn'
      /\ \E bytes \in {store[job.left[k]], Torn} :
            /\ \A l \in Keys : store'[l] = IF l = k THEN bytes ELSE store[l]
            /\ torn' = {} => bytes = store[job.left[k]]
  <2>1. CASE CopyObject(job.left[k], k) /\ torn' = torn
    BY <1>1, <1>3, <2>1 DEF CopyObject
  <2>2. CASE store' = [store EXCEPT ![k] = Torn] /\ torn' = torn \cup {k} /\ UNCHANGED overwritten
    BY <1>1, <2>2
  <2> QED
    BY <1>3, <2>1, <2>2 DEF Restore
<1>7. PICK bytes \in {store[job.left[k]], Torn} :
            /\ \A l \in Keys : store'[l] = IF l = k THEN bytes ELSE store[l]
            /\ torn' = {} => bytes = store[job.left[k]]
  BY <1>6
<1>8. ASSUME NEW m \in Names
      PROVE  /\ Raw(m) \in Keys /\ FlatRaw(m) \in Keys /\ Processed(m) \in Keys
             /\ store'[FlatRaw(m)] = store[FlatRaw(m)] /\ store'[Processed(m)] = store[Processed(m)]
             /\ store'[Raw(m)] = IF m = n THEN bytes ELSE store[Raw(m)]
  <2>1. Raw(m) \in Keys /\ FlatRaw(m) \in Keys /\ Processed(m) \in Keys /\ Processed(m) # k
        /\ FlatRaw(m) # k /\ (Raw(m) = k => m = n)
    BY <1>1, <1>2, Apart, KeyFacts
  <2> QED
    BY <1>2, <1>7, <2>1
<1>9. BytesOK'
  <2> SUFFICES ASSUME NEW m \in Names, Attested(m)
               PROVE  store'[Raw(m)] \in {None, Torn, Frozen[<<Batch, m>>]} \/ FlatRaw(m) \in overwritten'
    BY <1>1 DEF BytesOK, Attested, Torn, None
  <2>1. CASE m # n
    BY <1>6, <1>8, <2>1, BatchParts DEF BytesOK
  <2>2. CASE m = n
    <3>1. /\ store[Processed(n)] = origin[Processed(n)] /\ store[FlatProcessed(n)] = origin[FlatProcessed(n)]
      BY <1>2, Standing
    <3>2. store[job.left[k]] \in {None, Torn, Frozen[<<Batch, n>>]} \/ FlatRaw(n) \in overwritten
      BY <1>2, <2>2, <3>1 DEF From, Attested
    <3> QED
      BY <1>2, <1>6, <1>7, <1>8, <2>2, <3>2
  <2> QED
    BY <2>1, <2>2
<1>10. UntornOK'
  <2> SUFFICES ASSUME torn' = {}, NEW m \in Names, Intact(m) PROVE store'[Raw(m)] # Torn
    BY <1>1 DEF UntornOK, Intact, Torn
  <2>1. torn = {}
    BY <1>6
  <2>2. CASE m # n
    BY <1>8, <2>1, <2>2, BatchParts DEF UntornOK
  <2>3. CASE m = n
    <3>1. /\ RightSize(Frozen[<<Batch, n>>]) /\ store[Processed(n)] = origin[Processed(n)]
          /\ (origin[Raw(n)] # None => store[Raw(n)] = origin[Raw(n)])
      BY <1>2, Standing
    <3>2. store[Processed(n)] = Frozen[<<Batch, n>>]
      BY <1>2, <1>3, <2>3, <3>1 DEF Intact, RightSize
    <3>3. job.left[k] = Processed(n)
      BY <1>2, <3>1, <3>2 DEF From, RightSize
    <3> QED
      BY <1>2, <1>7, <1>8, <2>3, <3>1, <3>2, <3>3 DEF RightSize
  <2> QED
    BY <2>2, <2>3
<1>11. RestoreOK'
  <2>1. Entries(job.manifest) \subseteq Names
    BY EntriesOf
  <2>2. ASSUME NEW m \in Entries(job.manifest), From(m) PROVE From(m)'
    BY <1>5, <1>6, <1>8, <2>1, <2>2 DEF From
  <2>3. \A l \in DOMAIN job.left : \E m \in Entries(job.manifest) : l = Raw(m) /\ From(m)'
    BY <1>1, <2>2, BatchParts DEF RestoreOK
  <2>4. \A l \in DOMAIN job.left : l # k => store'[l] = None
    <3>1. \A l \in DOMAIN job.left : l \in Keys /\ l # NoKey
      BY <2>1, <2>3, Apart
    <3> QED
      BY <1>1, <1>7, <3>1, BatchParts DEF RestoreOK
  <2>5. \A m \in Entries(job.manifest) : Raw(m) \in DOMAIN job.left \/ RightSize(store'[Raw(m)])
    BY <1>1, <1>2, <1>8, <2>1, BatchParts DEF RestoreOK
  <2> QED
    BY <1>1, <1>5, <2>3, <2>4, <2>5 DEF RestoreOK, RightSize
<1>12. MadeOK' /\ ConfirmOK'
  <2>1. At("copy")' /\ ~At("confirm")' /\ ~At("admit")' /\ ~At("prepare")'
    BY <1>1, <1>5 DEF At
  <2> QED
    BY <1>5, <2>1, BatchParts DEF MadeOK, ConfirmOK, Scoped
<1>13. InterruptedRunsRecover' /\ BesideOK'
  BY <1>1, <1>5, <1>6, ExcusedKept, BatchParts DEF BesideOK
<1> QED
  BY <1>9, <1>10, <1>11, <1>12, <1>13 DEF BatchInv

\* A copy that is checked, or discarded.
LEMMA CheckRestoredBatch ==
    ASSUME InputsInv, BatchInv, CheckRestored
    PROVE  BatchInv'
<1> DEFINE k == job.made
           left == Restrict(job.left, DOMAIN job.left \ {k})
<1>1. /\ At("copy") /\ k # NoKey /\ UNCHANGED <<overwritten, torn, origin, recovery>>
      /\ job \in Jobs /\ store \in [Keys -> Contents] /\ k \in DOMAIN job.left
  BY Parts, BatchParts DEF CheckRestored, others, StoreType, RestoreOK
<1>2. BesideOK'
  BY <1>1, BatchParts DEF BesideOK
<1>3. CASE job' = [job EXCEPT !.made = NoKey, !.left = left] /\ store' = store /\ RightSize(store[k])
  <2>1. DOMAIN left = DOMAIN job.left \ {k} /\ \A l \in DOMAIN left : left[l] = job.left[l]
    BY DEF Restrict
  <2> HIDE DEF left
  <2>2. /\ job'.todo = job.todo /\ job'.kind = job.kind /\ job'.manifest = job.manifest
        /\ job'.why = job.why /\ job'.left = left /\ job'.made = NoKey
    BY <1>1, <1>3 DEF Jobs
  <2>3. At("copy")' /\ ~At("confirm")' /\ ~At("admit")' /\ ~At("prepare")'
    BY <1>1, <2>2 DEF At
  <2>4. MadeOK' /\ ConfirmOK'
    BY <2>2, <2>3, BatchParts DEF MadeOK, ConfirmOK, Scoped
  <2>5. RestoreOK'
    <3>1. ASSUME NEW l \in DOMAIN left
          PROVE  \E n \in Entries(job.manifest) : l = Raw(n) /\ From(n)'
      <4>1. PICK n \in Entries(job.manifest) : l = Raw(n) /\ From(n)
        BY <1>1, <2>1, <3>1, BatchParts DEF RestoreOK
      <4>2. job'.left[Raw(n)] = job.left[Raw(n)]
        BY <2>1, <2>2, <4>1
      <4> QED
        BY <1>1, <1>3, <4>1, <4>2 DEF From, Processed, FlatRaw, FlatProcessed
    <3>2. \A l \in DOMAIN left : store'[l] = None
      BY <1>1, <1>3, <2>1, BatchParts DEF RestoreOK
    <3>3. \A n \in Entries(job.manifest) : Raw(n) \in DOMAIN left \/ RightSize(store'[Raw(n)])
      BY <1>1, <1>3, <2>1, BatchParts DEF RestoreOK
    <3> QED
      BY <2>2, <3>1, <3>2, <3>3 DEF RestoreOK, RightSize
  <2>6. BytesOK' /\ UntornOK'
    BY <1>1, <1>3, BytesKept
  <2>7. InterruptedRunsRecover'
    BY <1>1, <2>2, ExcusedKept
  <2> QED
    BY <1>2, <2>4, <2>5, <2>6, <2>7 DEF BatchInv
<1>4. CASE Fail("copy") /\ store' = [store EXCEPT ![k] = None]
  <2>1. RestoreOK' /\ MadeOK' /\ ConfirmOK' /\ InterruptedRunsRecover'
    BY <1>1, <1>4, JobOver
  <2>2. BytesOK' /\ UntornOK'
    <3>1. \A n \in Names : store'[Raw(n)] \in {store[Raw(n)], None}
      BY <1>1, <1>4, KeyFacts
    <3> QED
      BY <1>1, <3>1, BytesKept
  <2> QED
    BY <1>2, <2>1, <2>2 DEF BatchInv
<1> QED
  BY <1>3, <1>4 DEF CheckRestored

\* The batch is back; the confirmation; the admission of what it confirmed.
LEMMA RestoredBatch ==
    ASSUME InputsInv, BatchInv, Restored
    PROVE  BatchInv'
<1>1. /\ At("copy") /\ UNCHANGED <<store, overwritten, torn, origin, recovery>> /\ job' = Next1
      /\ job \in Jobs /\ job.made = NoKey /\ DOMAIN job.left = {}
  BY Parts DEF Restored, bucket, others, StoreType
<1>2. /\ job'.todo = Tail(job.todo) /\ job'.kind = job.kind /\ job'.manifest = job.manifest
      /\ job'.why = job.why /\ job'.made = NoKey
  BY <1>1 DEF Next1, Jobs
<1>3. ~At("copy")' /\ ~At("prepare")'
  BY <1>1, <1>2, Onward
<1>4. Present'
  BY <1>1, <1>2, BatchParts DEF Present, RestoreOK, RightSize
<1>5. ConfirmOK'
  <2>1. Scoped' => Scoped
    BY <1>2 DEF Scoped
  <2>2. Scoped => Checked(job.todo)
    BY BatchParts DEF ConfirmOK
  <2>3. job.todo \in Seq(Steps) /\ job.todo # <<>>
    BY <1>1 DEF Jobs, At
  <2>4. Scoped => Checked(job'.todo)
    BY <1>2, <2>2, <2>3, CheckedTail
  <2> QED
    BY <1>3, <1>4, <2>1, <2>4 DEF ConfirmOK
<1>6. RestoreOK' /\ MadeOK'
  BY <1>2, <1>3 DEF RestoreOK, MadeOK
<1> QED
  BY <1>1, <1>2, <1>5, <1>6, ExcusedKept, QuietBatch

LEMMA ConfirmBatch ==
    ASSUME InputsInv, BatchInv, Confirm
    PROVE  BatchInv'
<1>1. /\ At("confirm") /\ UNCHANGED <<store, overwritten, torn, origin, recovery>>
      /\ job \in Jobs /\ job.made = NoKey /\ Present
  BY Parts, BatchParts DEF Confirm, bucket, others, StoreType, MadeOK, ConfirmOK, At
<1>2. CASE ~(/\ {n \in Names : store[Raw(n)] # None} = Entries(job.manifest)
             /\ \A n \in Entries(job.manifest) : RightSize(store[Raw(n)]))
  <2>1. Fail("frozen")
    BY <1>2 DEF Confirm
  <2>2. Entries(job.manifest) # Names
    BY <1>1, <1>2 DEF Present, RightSize
  <2> QED
    BY <1>1, <2>1, <2>2, JobOver, QuietBatch DEF Excused
<1>3. CASE job' = Next1
  <2>1. /\ job'.todo = Tail(job.todo) /\ job'.kind = job.kind /\ job'.manifest = job.manifest
        /\ job'.why = job.why /\ job'.made = NoKey
    BY <1>1, <1>3 DEF Next1, Jobs
  <2>2. ~At("copy")' /\ ~At("confirm")' /\ ~At("prepare")'
    BY <1>1, <2>1, Onward
  <2>3. Present'
    BY <1>1, <2>1 DEF Present, RightSize
  <2>4. ConfirmOK'
    <3>1. job.todo \in Seq(Steps) /\ job.todo # <<>>
      BY <1>1 DEF Jobs, At
    <3>2. Scoped' => Checked(job'.todo)
      BY <2>1, <3>1, BatchParts, CheckedTail DEF ConfirmOK, Scoped
    <3> QED
      BY <2>2, <2>3, <3>2 DEF ConfirmOK
  <2>5. RestoreOK' /\ MadeOK'
    BY <2>1, <2>2 DEF RestoreOK, MadeOK
  <2> QED
    BY <1>1, <2>1, <2>4, <2>5, ExcusedKept, QuietBatch
<1> QED
  BY <1>2, <1>3 DEF Confirm

LEMMA AdmitBatch ==
    ASSUME InputsInv, BatchInv, Admit
    PROVE  BatchInv'
<1>1. /\ At("admit") /\ UNCHANGED <<store, overwritten, torn, origin, recovery>>
      /\ job \in Jobs /\ job.made = NoKey /\ (Scoped => Present)
  BY Parts, BatchParts DEF Admit, bucket, others, StoreType, MadeOK, ConfirmOK, At
<1>2. job' = [Next1 EXCEPT !.admitted = Candidates]
  <2>1. Scoped => \A k \in Candidates : store[k] # None
    BY <1>1 DEF Candidates, Present, RightSize
  <2> QED
    BY <2>1 DEF Admit
<1>3. /\ job'.todo = Tail(job.todo) /\ job'.kind = job.kind /\ job'.manifest = job.manifest
      /\ job'.why = job.why /\ job'.made = NoKey /\ job'.admitted = Candidates
  BY <1>1, <1>2 DEF Next1, Jobs
<1>4. ~At("copy")' /\ ~At("confirm")'
  BY <1>1, <1>3, Onward
<1>5. Scoped' => Scoped /\ Present'
  BY <1>1, <1>3 DEF Present, RightSize, Scoped
<1>6. Scoped' => job'.admitted = {Raw(n) : n \in Entries(job'.manifest)}
  BY <1>3, <1>5 DEF Candidates
<1>7. ConfirmOK'
  <2>1. job.todo \in Seq(Steps) /\ job.todo # <<>>
    BY <1>1 DEF Jobs, At
  <2>2. Scoped' => Checked(job'.todo)
    BY <1>3, <1>5, <2>1, BatchParts, CheckedTail DEF ConfirmOK
  <2> QED
    BY <1>4, <1>5, <1>6, <2>2 DEF ConfirmOK, Raw, Key
<1>8. RestoreOK' /\ MadeOK'
  BY <1>3, <1>4 DEF RestoreOK, MadeOK
<1> QED
  BY <1>1, <1>3, <1>7, <1>8, ExcusedKept, QuietBatch

LEMMA InitBatch == Init => BatchInv
<1> SUFFICES ASSUME Init PROVE BatchInv
  OBVIOUS
<1>1. InputsInv
  BY InitInv
<1>2. /\ job.todo = <<>> /\ job.why = None /\ job.kind = None /\ recovery.left = {} /\ origin = store
  BY DEF Init, Idle
<1>3. \A p : ~At(p)
  BY <1>2 DEF At
<1>4. RestoreOK /\ MadeOK /\ ConfirmOK
  BY <1>2, <1>3 DEF RestoreOK, MadeOK, ConfirmOK, Checked
<1>5. InterruptedRunsRecover /\ BesideOK
  BY <1>2 DEF InterruptedRunsRecover, BesideOK, None
<1>6. BytesOK
  BY <1>2 DEF BytesOK, Attested
<1>7. UntornOK
  <2> SUFFICES ASSUME NEW n \in Names, Intact(n) PROVE store[Raw(n)] # Torn
    BY DEF UntornOK
  <2>1. RightSize(Frozen[<<Batch, n>>])
    BY <1>1, Standing
  <2> QED
    BY <1>2, <2>1 DEF Intact, RightSize, None, Torn
<1> QED
  BY <1>4, <1>5, <1>6, <1>7 DEF BatchInv

LEMMA NextBatch ==
    ASSUME InputsInv, BatchInv, [Next]_vars
    PROVE  BatchInv'
<1>1. CASE \E kind \in Kinds, m \in Manifests : StartJob(kind, m)
  BY <1>1, StartJobBatch
<1>2. CASE Crash
  BY <1>2, CrashBatch
<1>3. CASE JobStep
  <2>1. CASE \/ Preflight \/ AllRestored \/ PlanReset \/ DeleteDrafts \/ NothingToRequeue
             \/ Rekey \/ Forget \/ EndJob \/ Prepare
    BY <2>1, PlainBatch
  <2>2. CASE Examine \/ CheckRestored \/ Restored \/ Confirm \/ Admit
    BY <2>2, ExamineBatch, CheckRestoredBatch, RestoredBatch, ConfirmBatch, AdmitBatch
  <2>3. CASE RequeueFails
    BY <2>3, RequeueFailsBatch
  <2>4. CASE \E k \in RawKeys : LookToRequeue(k) \/ Requeue(k)
    BY <2>4, KeyFacts, WithinBatch, RequeueBatch
  <2>5. CASE \E k \in Keys : Restore(k) \/ Mark(k) \/ LookAtRaw(k) \/ CopyToRaw(k)
    BY <2>5, RestoreBatch, WithinBatch, CopyToRawBatch
  <2> QED
    BY <1>3, <2>1, <2>2, <2>3, <2>4, <2>5 DEF JobStep
<1>4. CASE RecoveryPlan \/ RecoveryValidate \/ \E a \in recovery.left : RecoveryLook(a) \/ RecoveryCopy(a)
  BY <1>4, RecoveryBatch
<1>5. CASE UNCHANGED vars
  <2>1. BesideOK'
    BY <1>5, BatchParts DEF BesideOK, vars
  <2> QED
    BY <1>5, <2>1, BesideBatch DEF vars
<1> QED
  BY <1>1, <1>2, <1>3, <1>4, <1>5 DEF Next

\* The invariant behind the two theorems below: the bytes under a batch's keys, the
\* sources a restore holds and the order of confirmation and admission.
THEOREM BatchInvariant == Spec => []BatchInv
<1>1. Init => BatchInv
  BY InitBatch
<1>2. InputsInv /\ BatchInv /\ [Next]_vars => BatchInv'
  BY NextBatch
<1> QED
  BY <1>1, <1>2, InputsInvariant, PTL DEF Spec

\* A batch run takes in its manifest's files and no others, with the bytes their
\* uploads verified wherever they came from (r2_batch_scope.py:109-127), but where
\* another copy replaced a flat source after its proof.
THEOREM AdmitsFrozen == Spec => []AdmitsFrozenBytes
<1>1. InputsInv /\ BatchInv => AdmitsFrozenBytes
  <2> SUFFICES ASSUME InputsInv, BatchInv, Scoped, At("prepare")
               PROVE  /\ job.admitted = {Raw(n) : n \in Entries(job.manifest)}
                      /\ \A n \in Entries(job.manifest) : Attested(n) =>
                            store[Raw(n)] = Frozen[<<Batch, n>>] \/ FlatRaw(n) \in overwritten
    BY DEF AdmitsFrozenBytes
  <2>1. Present /\ job.admitted = {Raw(n) : n \in Entries(job.manifest)}
    BY BatchParts DEF ConfirmOK
  <2>2. Entries(job.manifest) \subseteq Names
    BY EntriesOf
  <2> QED
    BY <2>1, <2>2, BatchParts DEF BytesOK, Present, RightSize
<1> QED
  BY <1>1, InputsInvariant, BatchInvariant, PTL

\* Whatever jobs were interrupted and wherever, a batch whose originals could be
\* restored is refused only over a copy that came out short (r2_batch_restore.py:268-281).
THEOREM RunsRecover == Spec => []InterruptedRunsRecover
<1>1. BatchInv => InterruptedRunsRecover
  BY BatchParts
<1> QED
  BY <1>1, BatchInvariant, PTL

\* Every variable has its type (the objects, the markers, the rows and the job).
THEOREM TypeCorrect == Spec => []TypeOK
<1>1. InputsInv => TypeOK
  <2> SUFFICES ASSUME InputsInv PROVE TypeOK
    OBVIOUS
  <2>1. /\ store \in [Keys -> Contents] /\ markers \in [RawKeys -> Contents]
        /\ rows \in [Uploads -> Rows] /\ job \in Jobs /\ torn \subseteq RawKeys
    BY Parts DEF StoreType
  <2>2. \A u \in Uploads : rows[u].key \in RawKeys \cup {NoKey}
    BY <2>1 DEF Rows
  <2>3. job.admitted \subseteq RawKeys /\ job.made \in RawKeys \cup {NoKey}
    BY <2>1 DEF Jobs
  <2> QED
    BY <2>1, <2>2, <2>3 DEF TypeOK, Contents
<1> QED
  BY <1>1, InputsInvariant, PTL

\* No job, crash, reset or recovery, in whatever order, overwrites, moves or deletes
\* an object that was there before it (r2_storage.py:305-319): what was looked at and
\* found free was free at the start, however late the copy comes.
THEOREM OriginalsAreKept == Spec => []OriginalsUntouched
<1>1. InputsInv => OriginalsUntouched
  BY DEF InputsInv
<1> QED
  BY <1>1, InputsInvariant, PTL

\* A source that batchless runs pass over for its marker was analysed with the very
\* bytes it has, but where two copies met at its key (r2_storage.py:217-246).
THEOREM PassedOverIsAnalysed == Spec => []PassedOverWasAnalysed
<1>1. InputsInv => PassedOverWasAnalysed
  BY DEF InputsInv, MarkersOK, PassedOverWasAnalysed, Marked
<1> QED
  BY <1>1, InputsInvariant, PTL
=============================================================================
