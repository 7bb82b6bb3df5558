---------------------------- MODULE QualityReport ----------------------------
(***************************************************************************)
(* The quality report of a run: what scripts/generate_run_quality_report.py   *)
(* finds in the trace of the drafts and in the sidecars of the tracker, and   *)
(* what the scripts append_*_to_report.py add to it and take away again, one  *)
(* after the other.  Any of them may fail and leave the report as it is.      *)
(*                                                                         *)
(* A report is a set of alerts and the status computed from it last.  Broken  *)
(* sidecars, errors of the runtime, fragmented tracks and athletes with more  *)
(* than one collection of drafts are left out, and so are the metrics.        *)
(* A draft is a reel that was uploaded; tracks[c] are those of clip c.        *)
(***************************************************************************)
EXTENDS SelectionReports

Hard == {"overlap", "mixed", "critical"}

StatusOf(alerts) ==
    IF alerts \cap Hard # {} THEN "fail" ELSE IF alerts # {} THEN "inconclusive" ELSE "pass"

\* by is which of the scripts did not fail.
NoReport == [alerts |-> {}, status |-> "none", by |-> {}]

Alert(name, condition) == {a \in {name} : condition}

-----------------------------------------------------------------------------
(* What is found in the trace. *)

\* One window from the first cut of a draft to the last; without a source, and so left out, if
\* the cuts are of several.
Aggregate(d) ==
    LET clips == {e.clip : e \in d.shown}
        from == CHOOSE v \in {e.from : e \in d.shown} : \A e \in d.shown : v <= e.from
        to == CHOOSE v \in {e.to : e \in d.shown} : \A e \in d.shown : v >= e.to
    IN  {[clip |-> c, from |-> from, to |-> to] : c \in {k \in clips : clips = {k}}}

Doubled(v, w) == v.clip = w.clip /\ SameMoment(v, w)

DoubledAggregates(drafts) ==
    \E d, f \in drafts : d # f /\ \E v \in Aggregate(d), w \in Aggregate(f) : Doubled(v, w)

DoubledCuts(drafts) ==
    \E d, f \in drafts : d # f /\ \E v \in d.shown, w \in f.shown : Doubled(v, w)

\* Several tracks are seen of which none has more than seven tenths of the detections;
\* every track has as many a second.
Mixed(window, tracks) ==
    LET seconds(t) == Cardinality(Visible(t, window))
        seen == {t \in tracks : seconds(t) > 0}
        total == FoldSet(LAMBDA t, n : seconds(t) + n, 0, seen)
    IN  Cardinality(seen) >= 2 /\ \A t \in seen : 10 * seconds(t) <= 7 * total

MixedAggregate(drafts, tracks) ==
    \E d \in drafts : \E w \in Aggregate(d) : Mixed(w, tracks[w.clip])

\* That reasons of dropped moments are missing: no file has any of the keys looked for.
Generated(doubled, mixed) ==
    LET alerts == Alert("overlap", doubled) \cup Alert("mixed", mixed) \cup {"no_reasons"}
    IN  [alerts |-> alerts, status |-> StatusOf(alerts), by |-> {"generate"}]

-----------------------------------------------------------------------------
(* What is appended. *)

Replaced(report, stale, found) ==
    LET alerts == (report.alerts \ stale) \cup found
    IN  [report EXCEPT !.alerts = alerts, !.status = StatusOf(alerts)]

\* Cut by cut, of any source.
WithPairs(report, doubled) == Replaced(report, {"overlap"}, Alert("overlap", doubled))

\* Recall can be measured if the ledger has both, what was selected and what was not.  The
\* status is only lowered.
WithLedger(report, ledger) ==
    LET selected == {r \in ledger : r.cause = "selected"}
        measurable == selected # {} /\ selected # ledger
        known == IF measurable THEN report.alerts \ {"no_reasons", "recall"} ELSE report.alerts
        alerts == known \cup Alert("no_candidates", ledger = {})
                        \cup Alert("recall", selected # {} /\ selected = ledger)
    IN  [report EXCEPT !.alerts = alerts,
                       !.status = IF @ = "pass" /\ alerts # {} THEN "inconclusive" ELSE @]

\* The log names critical defects, of drafts or of what was cut again.
WithLog(report, printed) ==
    LET alerts == report.alerts \cup Alert("critical", printed)
    IN  [report EXCEPT !.alerts = alerts,
                       !.status = IF alerts \cap Hard # {} THEN "fail"
                                  ELSE IF @ = "none" THEN "inconclusive" ELSE @]

\* A draft the operator is told to look at is no bypass: marked are the drafts with a cut that
\* shows several, open those of them that may be approved all the same.
WithPolicy(report, drafts, marked, open) ==
    Replaced(report, Alert("critical", drafts # {}) \cup Alert("mixed", marked # {} /\ open = {}), {})

\* The gates decide about a cut if there is something to decide.
Decided(e, tracks) ==
    \/ Gated(e, InView(Examined(e), tracks))
    \/ e.social \/ Cardinality(VisibleIds(e)) > 1 \/ e.ev.clear = "no"

SomeBlocked(drafts, tracks) == \E d \in drafts : \E e \in d.shown : SubjectBlocked(e, tracks[e.clip])
SomeUndecided(drafts, tracks) == \E d \in drafts : \E e \in d.shown : ~Decided(e, tracks[e.clip])

\* By the decisions of the gates alone, whatever was thought of the windows before.
WithActors(report, blocked, undecided) ==
    Replaced(report, {"mixed", "evidence"},
             Alert("mixed", blocked) \cup Alert("evidence", undecided /\ ~blocked))

\* Mutant: the coarse policy has the last word.
ScriptsActorsEarly == <<"generate", "pairs", "ledger", "log", "actors", "policy">>

Scripts == <<"generate", "pairs", "ledger", "log", "policy", "actors">>
=============================================================================
