--------------------------- MODULE ActorEvidence ---------------------------
(***************************************************************************)
(* Whom a moment shows, by what an answer says about it and what the tracker *)
(* saw: pipeline/primary_actor_policy.py.                                    *)
(*                                                                         *)
(* Evidence is a record: clear is "yes", "no" or "unsaid", stable whether     *)
(* the athlete was followed all along, sure at most one confidence in         *)
(* hundredths, faults what is reported to have gone wrong (by a flag or a      *)
(* status; what is said of it in words is left out), crowd whether others act   *)
(* too, and pending whether it is that of a part of a moment nobody has looked  *)
(* at again.  That an event has a name for its athlete is not part of it: every *)
(* event has.                                                                  *)
(***************************************************************************)
EXTENDS Integers, FiniteSets

MinActorConfidence == 55      \* MIN_PRIMARY_ACTOR_CONFIDENCE

Unsaid == [clear |-> "unsaid", stable |-> FALSE, sure |-> {}, faults |-> {}, crowd |-> FALSE,
           pending |-> FALSE]

Unsure(ev) == \E c \in ev.sure : c < MinActorConfidence

\* Among others an athlete is the centre only by all the positive evidence there is.
Centered(ev) ==
    ev.clear = "yes" /\ ev.stable /\ ev.sure # {} /\ ~Unsure(ev) /\ ev.faults = {}

Gaps(ev) ==
    {r \in {"primary_actor_clear"} : ev.clear # "yes"}
      \cup {r \in {"identity_continuity"} : ~ev.stable}
      \cup {r \in {"primary_actor_confidence"} : ev.sure = {} \/ Unsure(ev)}

Pending == "focused_subwindow_validation_required"

\* What speaks against an event, by its evidence alone
Reasons(ev) ==
    ev.faults
      \cup {r \in {"primary_actor_clear"} : ev.clear = "no"}
      \cup {r \in {"primary_actor_confidence"} : Unsure(ev)}
      \cup {r \in Gaps(ev) \cup {"active_context"} : ev.crowd /\ ~Centered(ev)}
      \cup {r \in {Pending} : ev.pending}

\* Nothing that was said of a moment is known of its part.
FocusedEvidence == [Unsaid EXCEPT !.pending = TRUE]

DefectType(reasons) ==
    IF "identity_switch" \in reasons THEN "IDENTITY_SWITCH"
    ELSE IF "occluded" \in reasons THEN "PRIMARY_ACTOR_OCCLUDED"
    ELSE "PRIMARY_ACTOR_UNCLEAR"

\* continuity is what the tracker adds, if it was asked: in how many of the seconds in which
\* anybody is seen the athlete is.
Kept(continuity) == \E c \in continuity : 2 * c.seen >= c.of
Broken(continuity) == \E c \in continuity : 2 * c.seen < c.of

Validated(ev, continuity) == ev.pending /\ Kept(continuity)

\* The defect of an event in which `count' athletes are seen, if it has one
ActorDefects(ev, count, continuity) ==
    LET reasons == (Reasons(ev) \ {r \in {Pending} : Validated(ev, continuity)})
                     \cup {r \in {"primary_continuity"} : Broken(continuity)}
    IN  IF reasons # {} THEN {DefectType(reasons)}
        ELSE IF count > 1 /\ ~Centered(ev) /\ ~Validated(ev, continuity) THEN {DefectType({})}
        ELSE {}
=============================================================================
