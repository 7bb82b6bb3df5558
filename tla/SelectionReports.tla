-------------------------- MODULE SelectionReports --------------------------
(***************************************************************************)
(* What is written about the selection: which moments the selector was told, *)
(* which of them a draft shows, and why the others are not shown             *)
(* (pipeline/selector_candidate_runtime.py and, after the run,               *)
(* scripts/build_candidate_decision_ledger.py, build_selection_decision_-    *)
(* audit.py and build_athlete_coverage_report.py).                          *)
(*                                                                         *)
(* A row is a moment as it was told, with why it is no longer selected       *)
(* ("selected" if it is), and the cut of a draft it was paired with, if any.  *)
(* Descriptions are alike or have nothing in common.                        *)
(***************************************************************************)
EXTENDS ReelAssembly

Row(e, cause) ==
    [clip |-> e.clip, who |-> e.who, look |-> e.look, n |-> e.n, from |-> e.from, to |-> e.to,
     score |-> e.score, cause |-> cause, cuts |-> {}, consumed |-> FALSE, moments |-> e.moments]

-----------------------------------------------------------------------------
(* The selector's rows: a mirror of the selection of EventSelection that knows neither
   its rules about the actor nor its padding. *)

Mirrored(es, length) ==
    LET told == {Recover(e, length) : e \in es}
        eligible == {e \in told : Length(e) >= MinEvent}
        good == Good(eligible)
        kept == Greedy(good, ByScore, SameStart)
    IN  {Row(e, "selected") : e \in kept} \cup {Row(e, "repeated") : e \in good \ kept} \cup
        {Row(e, "low_score") : e \in eligible \ good} \cup {Row(e, "fragment") : e \in told \ eligible}

Captured(answer, length) ==
    UNION {Mirrored({e \in answer : e.who = p}, length) : p \in {e.who : e \in answer}}

\* In time of the source, as the k-th of n chunks that could be read.
Placed(row, length, n, k) ==
    LET own == IF n = 1 THEN row ELSE [row EXCEPT !.who = <<k + 1, @[2]>>]
        window == Normalize(own, Chunk(length, n, k))
    IN  IF window = {} THEN {[own EXCEPT !.cause = "outside"]} ELSE window

\* All rows of a source: pages holds the chunks that were read, with their rows.
Merged(pages, length) ==
    LET place(p) == Cardinality({q \in pages : q.chunk < p.chunk})
    IN  UNION {Placed(row, length, Cardinality(pages), place(page)) :
                   <<page, row>> \in UNION {{p} \X p.rows : p \in pages}}

-----------------------------------------------------------------------------
(* The ledger: rows and the cuts of the drafts, paired one to one. *)

SameKey(row, cut) ==
    row.clip = cut.clip /\ row.who = cut.who /\ row.from = cut.from /\ row.to = cut.to

Shorter(row, cut) == Lesser(Length(row), Length(cut))

\* Mutant: cuts are paired with rows whoever they are about.
SharesAnybody(row, cut) ==
    row.clip = cut.clip /\ 2 * Overlap(row, cut) >= Shorter(row, cut)

\* The windows have moved since: half of the shorter one is enough.
Shares(row, cut) ==
    /\ row.clip = cut.clip /\ row.who = cut.who
    /\ 2 * Overlap(row, cut) >= Shorter(row, cut)

\* What a draft shows that nobody told has a row of its own.
OwnRow(cut) == [Row(cut, "selected") EXCEPT !.cuts = {cut}]

\* The row a cut overlaps most, the first of the selector's on a tie.
Closest(rows, cut) ==
    LET share(q, r) == Overlap(q, cut) * Shorter(r, cut)
    IN  CHOOSE r \in rows : \A q \in rows \ {r} :
            \/ share(r, q) > share(q, r)
            \/ share(r, q) = share(q, r) /\ ~Precedes(ByScore(q), ByScore(r))

\* A cut takes the row of its own window, selected or not, unless it is taken.
AtKey(rows, cut) == {r \in rows : SameKey(r, cut)}
AllTaken(rows, cut) == \A r \in AtKey(rows, cut) : r.consumed

\* Else the closest selected one that is not taken, else its own, which a later cut may take.
Pair(rows, cut) ==
    LET free == {r \in rows : r.cause = "selected" /\ ~r.consumed /\ Shares(r, cut)}
        taken == IF ~AllTaken(rows, cut) THEN CHOOSE r \in AtKey(rows, cut) : TRUE ELSE Closest(free, cut)
        paired == [taken EXCEPT !.cause = "selected", !.cuts = {cut}, !.consumed = TRUE]
    IN  IF free = {} /\ AllTaken(rows, cut)
        THEN (rows \ AtKey(rows, cut)) \cup {OwnRow(cut)}
        ELSE (rows \ {taken}) \cup {paired}

\* What the selector selected and no draft shows was not emitted.
Unmatched(row) ==
    IF row.cause = "selected" /\ row.cuts = {} THEN [row EXCEPT !.cause = "not_emitted"] ELSE row

Ledger(rows, cuts) ==
    IF rows = {} THEN {OwnRow(k) : k \in cuts}
    ELSE {Unmatched(r) : r \in FoldLeft(Pair, rows, InTime(cuts))}

-----------------------------------------------------------------------------
(* The audit: why a selected moment was not emitted. *)

\* What a long video's prefilter writes down about the events of a person.
Recorded(es, tracks) ==
    LET rescued == {Rescued(e, tracks) : e \in es}
        fate(e) == IF SubjectBlocked(e, tracks) THEN "gated"
                   ELSE IF e \in Prepared(es, tracks) THEN "render" ELSE "repeated_window"
    IN  {[clip |-> e.clip, look |-> e.look, from |-> e.from, to |-> e.to, moments |-> e.moments,
          fate |-> fate(e)] : e \in rescued}

\* And what the log says: of whom events were skipped.
Skipped(es, tracks) ==
    {e.look : e \in {k \in {Rescued(f, tracks) : f \in es} : SubjectBlocked(k, tracks)}}

Near(a, b) == -35 <= a - b /\ a - b <= 35

\* The record of a row is found by its window; of several, by the descriptions.
Resemblance(row, r) ==
    (IF r.look = row.look THEN 2 ELSE 0) + (IF r.moments = row.moments THEN 1 ELSE 0)

RecordOf(row, records) ==
    LET near == {r \in records :
                    r.clip = row.clip /\ Near(r.from, row.from) /\ Near(r.to, row.to)}
    IN  {r \in near : \A q \in near : Resemblance(row, r) >= Resemblance(row, q)}

Shared(row) == \E m \in row.moments : m.shared

\* Mutant: that events of somebody were skipped explains every row.
ByLogAnybody(row, skipped) == skipped # {}

\* Without a record, that events of a person so described were skipped explains a row.
ByLog(row, skipped) == row.look \in skipped

Reason(row, records, skipped) ==
    LET fates == {IF r.fate = "render" THEN "not_uploaded" ELSE r.fate : r \in RecordOf(row, records)}
    IN  IF row.cause # "not_emitted" THEN row.cause
        ELSE IF fates # {} THEN CHOOSE f \in fates : TRUE
        ELSE IF ByLog(row, skipped) THEN "gated_by_log"
        ELSE IF Shared(row) THEN "shared" ELSE "not_emitted"

Audited(ledger, records, skipped) ==
    {[r EXCEPT !.cause = Reason(r, records, skipped)] : r \in ledger}

-----------------------------------------------------------------------------
(* The coverage: of each athlete something is shown, or it is explained why nothing is. *)

Explicit == {"fragment", "low_score", "repeated", "repeated_window", "gated", "gated_by_log",
             "shared", "outside"}

\* Rows with a draft are grouped by its athlete, the others by the person of their source.
SameGroup(q, r) ==
    IF q.cuts # {} \/ r.cuts # {}
    THEN {k.draft : k \in q.cuts} = {k.draft : k \in r.cuts}
    ELSE q.clip = r.clip /\ q.who = r.who

Explained(group) == \A r \in group : r.cause # "selected" => r.cause \in Explicit

Unaccounted(rows) ==
    {r \in rows :
        LET group == {q \in rows : SameGroup(q, r)}
        IN  (\A q \in group : q.cause # "selected") /\ ~Explained(group)}
=============================================================================
