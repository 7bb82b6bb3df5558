-------------------------- MODULE AthleteClusters --------------------------
(***************************************************************************)
(* Which persons of different clips are one athlete: the clustering of       *)
(* pipeline/stages/identity.py with the guards of identity_failsafe.py.       *)
(*                                                                         *)
(* An entry is a person of a clip who has events: clip, who, look and        *)
(* whether there is a thumbnail.  A look stands for a description: the        *)
(* number on the jersey and the kit (colours, equipment), 0 for what is not   *)
(* said; two descriptions are alike when their looks are equal.  A cluster    *)
(* has a look, its entries and whether it was verified.  Clusters come in an  *)
(* order; the pieces of a split one are taken in any fixed order.            *)
(***************************************************************************)
EXTENDS Integers, Sequences, FiniteSets, FiniteSetsExt, SequencesExt

\* What is read out of a description.
Look(number, kit) == [number |-> number, kit |-> kit]
NoLook == Look(0, 0)        \* "unknown athlete"

\* Two persons of one clip are two athletes, and so are two numbers.
SameClip(apps) == \E a, b \in apps : a # b /\ a.clip = b.clip
NumbersDiffer(apps) ==
    \E a, b \in apps : 0 \notin {a.look.number, b.look.number} /\ a.look.number # b.look.number
Impossible(apps) == SameClip(apps) \/ NumbersDiffer(apps)

Cluster(look, apps) == [look |-> look, apps |-> apps, verified |-> FALSE]
Single(e) == Cluster(e.look, {e})
Singles(apps) == LET s == SetToSeq(apps) IN [i \in DOMAIN s |-> Single(s[i])]
Split(c) == IF Cardinality(c.apps) <= 1 THEN <<c>> ELSE Singles(c.apps)

\* Every cluster of cs replaced by the clusters Part makes of it.
Refine(cs, Part(_)) == FlattenSeq([i \in DOMAIN cs |-> Part(cs[i])])

Clips(c) == {e.clip : e \in c.apps}
Members(cs) == UNION {cs[i].apps : i \in DOMAIN cs}

-----------------------------------------------------------------------------
(* What is made of an answer: a sequence of groups, each a look, the keys of the
   persons in it, clip and who, and how sure the model is. *)

Build(answer, entries) ==
    LET named(i) == {e \in entries : <<e.clip, e.who>> \in answer[i].keys}
        own(i) == named(i) \ UNION {named(j) : j \in 1 .. (i - 1)}
        part(i) ==
            LET c == Cluster(answer[i].look, own(i))
            IN  IF own(i) = {} THEN <<>>
                ELSE IF ~answer[i].sure \/ Impossible(own(i)) THEN Split(c) ELSE <<c>>
    IN  FlattenSeq([i \in DOMAIN answer |-> part(i)])

\* The local fallback pairs persons who are each other's nearest in another clip;
\* which ones it pairs is up to the pictures.
Pairings(entries) ==
    LET shown == {e \in entries : e.thumb}
        pairs == {p \in SUBSET shown : Cardinality(p) = 2 /\ ~Impossible(p)}
        clusters(m) ==
            Singles(shown \ UNION m) \o
            [i \in 1 .. Cardinality(m) |->
                LET p == SetToSeq(m)[i] IN Cluster((CHOOSE e \in p : TRUE).look, p)]
    IN  IF Cardinality(shown) < 2 THEN {}
        ELSE {clusters(m) : m \in {n \in SUBSET pairs : \A p, q \in n : p = q \/ p \cap q = {}}}

-----------------------------------------------------------------------------
(* The passes that follow, in their order. *)

\* Mutant: a person the model forgot is added only when there is a picture of him.
EnsureShownPresent(cs, entries) == cs \o Singles({e \in entries : e.thumb} \ Members(cs))

EnsureAllPresent(cs, entries) == cs \o Singles(entries \ Members(cs))

SplitImpossible(cs) ==
    Refine(cs, LAMBDA c : IF Impossible(c.apps) THEN Split(c) ELSE <<c>>)

\* A cluster described as an earlier one joins the first such, unless they share a clip.
MergeDuplicates(cs) ==
    LET Join(out, c) ==
            LET alike == {i \in DOMAIN out : out[i].look = c.look}
                first == Min(alike)
            IN  IF alike # {} /\ Clips(out[first]) \cap Clips(c) = {}
                THEN [out EXCEPT ![first].apps = @ \cup c.apps]
                ELSE Append(out, c)
    IN  FoldLeft(Join, <<>>, cs)

\* What is known of a person: nothing if the cluster's description contradicts it.
Attributes(e, c) ==
    IF 0 \notin {e.look.kit, c.look.kit} /\ e.look.kit # c.look.kit THEN NoLook ELSE e.look

\* How alike two descriptions are in hundredths, 0 if they do not go together.
Likeness(a, b) ==
    IF NoLook \in {a, b} THEN 0
    ELSE IF 0 \notin {a.number, b.number} THEN (IF a.number = b.number THEN 100 ELSE 0)
    ELSE IF a.kit # 0 /\ a.kit = b.kit THEN 90 ELSE 0

\* A cluster joins the one before it that it is most like, if all in both are alike.
MergeStructured(cs) ==
    LET Pair(t, c) == t.apps \X c.apps
        like(t, c, p) == Likeness(Attributes(p[1], t), Attributes(p[2], c))
        mean(t, c) ==
            (100 * MapThenSumSet(LAMBDA p : like(t, c, p), Pair(t, c))) \div Cardinality(Pair(t, c))
        Join(out, c) ==
            LET open == {i \in DOMAIN out :
                            /\ ~Impossible(out[i].apps \cup c.apps)
                            /\ Clips(out[i]) \cap Clips(c) = {}
                            /\ \A p \in Pair(out[i], c) : like(out[i], c, p) > 0}
                best == CHOOSE i \in open : \A j \in open :
                            \/ mean(out[i], c) > mean(out[j], c)
                            \/ mean(out[i], c) = mean(out[j], c) /\ i <= j
            IN  IF open = {} THEN Append(out, c)
                ELSE [out EXCEPT ![best].apps = @ \cup c.apps, ![best].verified = TRUE]
    IN  FoldLeft(Join, <<>>, cs)

StructuredVerified(c) ==
    \A a, b \in c.apps : a # b => Likeness(Attributes(a, c), Attributes(b, c)) > 0

\* What the verifier says of a cluster of several clips: the ones it finds wrong and
\* whether it takes the rest for one athlete.  An error counts as neither.
Confirm(c, verdict) ==
    LET confirmed == <<[c EXCEPT !.verified = TRUE]>>
    IN  IF Cardinality(c.apps) < 2 THEN <<c>>
        ELSE IF StructuredVerified(c) THEN confirmed
        ELSE IF \E e \in c.apps : ~e.thumb THEN Split(c)
        ELSE IF verdict.wrong = {} THEN (IF verdict.same THEN confirmed ELSE Split(c))
        ELSE IF verdict.wrong = c.apps THEN Split(c)
        ELSE <<[c EXCEPT !.apps = @ \ verdict.wrong]>> \o Singles(verdict.wrong)

BeforeVerifying(cs, entries) ==
    SplitImpossible(MergeStructured(MergeDuplicates(SplitImpossible(EnsureAllPresent(cs, entries)))))

AfterVerifying(cs) == SplitImpossible(MergeStructured(cs))

\* Whether the appearances of a reel are confirmed to be one athlete.  tracks is the
\* tracker ids of an appearance; a kept cluster is never split here, only marked.
IdentityGate(c, tracks) ==
    LET one == \A e \in c.apps : Cardinality(tracks[e]) = 1
    IN  IF Cardinality(c.apps) <= 1 THEN "none"
        ELSE IF one /\ Cardinality(UNION {tracks[e] : e \in c.apps}) = 1 THEN "pass"
        ELSE IF c.verified /\ \A e \in c.apps : Cardinality(tracks[e]) <= 1 THEN "pass"
        ELSE "kept_together_unconfirmed"
=============================================================================
