----------------------------- MODULE RunReports -----------------------------
(***************************************************************************)
(* A session and the reports about it: what the selector was told is noted    *)
(* with each answer (pipeline/selector_candidate_runtime.py), and after the    *)
(* run scripts/run_pipeline_with_diagnostics.sh builds the ledger, the audit   *)
(* and the coverage report, whose gaps fail the run, and the quality report.    *)
(***************************************************************************)
EXTENDS Session, QualityReport

VARIABLES
    pages,     \* per clip the chunks that could be read, with the selector's rows
    drafts,    \* the reels that were uploaded
    report,    \* the rows of the ledger with their reasons
    quality,   \* the quality report
    written    \* "" as long as nothing is, "drafts", "report", "quality"

reporting == <<pages, drafts, report, quality, written>>

ReportsInit ==
    /\ Init
    /\ pages = [c \in AllClips |-> {}]
    /\ drafts = {} /\ report = {} /\ quality = NoReport /\ written = ""

\* An answer that is no JSON leaves no page.
Note(c, i) ==
    /\ \E answer \in Answers(c, i) :
        /\ Hear(c, i, answer)
        /\ pages' = IF answer.read
                    THEN [pages EXCEPT ![c] = @ \cup {[chunk |-> i, rows |-> Captured(answer.told, Clip(c).length)]}]
                    ELSE pages
    /\ UNCHANGED <<drafts, report, quality, written>>

Step == AfterAnswers /\ UNCHANGED reporting

\* Reels of the same cuts of the same tracks, to half a second, are one draft.
Half(time) == (2 * time + 50) \div Sec(1)
Fingerprint(r) == {<<e.clip, Half(e.from), Half(e.to), e.track>> : e \in r.shown}

\* Of those the better one is kept, also by what the tracker measured, which is left out.
\* Each draft may fail to be uploaded; of the others the cuts are noted.
Upload ==
    /\ stage = "over" /\ written = ""
    /\ drafts' \in {ds \in SUBSET reels : \A r, s \in ds : Fingerprint(r) = Fingerprint(s) => r = s}
    /\ written' = "drafts"
    /\ UNCHANGED <<vars, pages, report, quality>>

\* The ids of athletes are generated from what their cluster holds, so no two clusters of a
\* run have one and none are merged by it.
Athlete(r) == r.apps

\* The lineage that is written for an event of a draft.
Noted(r, e) ==
    [clip |-> e.clip, who |-> e.who, look |-> e.look, n |-> e.n, from |-> e.from, to |-> e.to,
     score |-> e.score, moments |-> e.moments, draft |-> Athlete(r)]
Cuts(r) == {Noted(r, e) : e \in r.shown}

\* All of it, after the run.
Traced == UNION {Cuts(r) : r \in drafts}

\* The rows of the clips whose analysis succeeded.
Rows == UNION {Merged(pages[c], Clip(c).length) : c \in Done}

OfCluster(c) == UNION {OfEntry(e) : e \in c.apps}
Records ==
    IF film.long THEN UNION {Recorded(OfCluster(c), Clip(1).tracks) : c \in Range(settled)} ELSE {}
LoggedSkips ==
    IF film.long THEN UNION {Skipped(OfCluster(c), Clip(1).tracks) : c \in Range(settled)} ELSE {}

\* The audit may be missing: then the ledger's own causes count.
Report ==
    /\ written = "drafts"
    /\ LET ledger == Ledger(Rows, Traced)
       IN  \/ report' = Audited(ledger, Records, LoggedSkips)
           \/ report' = ledger
    /\ written' = "report"
    /\ UNCHANGED <<vars, pages, drafts, quality>>

\* The drafts with a cut that shows several, by the gate or by what the judge of a reel said.
Marked(crowded) ==
    crowded \cup {d \in drafts : \E e \in d.shown : SubjectGate(e, Clip(e.clip).tracks) # {}}

\* The scripts run one after the other, and one of them may fail.  A judge may have found a
\* critical defect, which is printed, even that a draft shows several, which is flagged then.
Assess ==
    /\ written = "report"
    /\ LET tracks == [c \in AllClips |-> Clip(c).tracks]
           aggregates == DoubledAggregates(drafts)
           cuts == DoubledCuts(drafts)
           mixed == MixedAggregate(drafts, tracks)
           blocked == SomeBlocked(drafts, tracks)
           undecided == SomeUndecided(drafts, tracks)
       IN  \E failing \in {""} \cup Range(Scripts), printed \in BOOLEAN,
              crowded \in {{}} \cup {{d} : d \in drafts} :
            LET open == {d \in Marked(crowded) \ crowded : ~Flagged(d)}
                Run(q, script) ==
                    CASE script = "generate" -> Generated(aggregates, mixed)
                      [] script = "pairs" -> WithPairs(q, cuts)
                      [] script = "ledger" -> WithLedger(q, report)
                      [] script = "log" -> WithLog(q, printed)
                      [] script = "policy" -> WithPolicy(q, drafts, Marked(crowded), open)
                      [] script = "actors" -> WithActors(q, blocked, undecided)
                AndThen(q, script) ==
                    IF script = failing THEN q ELSE [Run(q, script) EXCEPT !.by = @ \cup {script}]
            IN  /\ crowded # {} => printed
                /\ quality' = FoldLeft(AndThen, NoReport, Scripts)
    /\ written' = "quality"
    /\ UNCHANGED <<vars, pages, drafts, report>>

ReportsNext ==
    \/ \E c \in AllClips : \E i \in asked[c] : Note(c, i)
    \/ Step
    \/ Upload
    \/ Report
    \/ Assess

ReportsSpec == ReportsInit /\ [][ReportsNext]_<<vars, reporting>>

-----------------------------------------------------------------------------
(* Properties. *)

AllRead == \A c \in Done : Cardinality(pages[c]) = Chunks(Clip(c).length)

\* The ledger says of each cut of a draft once that it was selected, and of nothing else;
\* it loses no row; and if every answer could be read, a row is never paired with a cut of
\* another athlete, although rows and cuts are paired by windows that have moved since
\* (build_candidate_decision_ledger.py).
LedgerTellsShown ==
    written \in {"report", "quality"} =>
        /\ \A k \in Traced : Cardinality({r \in report : r.cuts = {k}}) = 1
        /\ \A r \in report : r.cause = "selected" <=> r.cuts # {}
        /\ \A r \in report : r.cuts \subseteq Traced
        /\ \A row \in Rows : \E r \in report : row.moments = r.moments
        /\ AllRead => \A r \in report : \A k \in r.cuts :
            {m.who : m \in r.moments} = {m.who : m \in k.moments}

\* If every answer could be read and the coverage has no gap, an athlete of whom the selector
\* took a moment is shown in a draft, unless the log says that events of somebody described
\* so were skipped, or the moment was told to be a shared one.
AccountedIsShown ==
    written \in {"report", "quality"} /\ AllRead /\ Unaccounted(report) = {} =>
        \A e \in entries :
            \/ \E k \in Traced : k.clip = e.clip /\ k.who = e.who
            \/ e.look \in LoggedSkips
            \/ \A row \in Rows : row.clip = e.clip /\ row.who = e.who =>
                   row.cause # "selected" \/ \E m \in row.moments : m.shared

\* A report that passes, if the scripts that look at the cuts did not fail, is one of drafts
\* of which no two show the same moment and no cut shows several or was left undecided, even
\* though the alerts raised about them are taken back in between (append_*_to_report.py).
PassIsClean ==
    written = "quality" /\ quality.status = "pass" =>
        /\ "pairs" \in quality.by => ~DoubledCuts(drafts)
        /\ "actors" \in quality.by =>
            \A d \in drafts : ~Flagged(d) /\ \A e \in d.shown : Decided(e, Clip(e.clip).tracks)
        /\ {"generate", "ledger"} \subseteq quality.by => drafts # {} /\ \E r \in report : r.cause # "selected"
=============================================================================
