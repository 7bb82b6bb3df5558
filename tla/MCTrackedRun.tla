--------------------------- MODULE MCTrackedRun ---------------------------
EXTENDS TrackedRun

P(id, label) == [id |-> id, label |-> label, src |-> "s1", srcs |-> {"s1"}, parts |-> 1, long |-> FALSE]

J(gate_mode, allowed, people) ==
    [mode |-> "clips", overlap |-> FALSE, check |-> TRUE, reedit |-> FALSE, retries |-> 1,
     gate |-> gate_mode, workers |-> 1, runs |-> 1, allowed |-> allowed, people |-> people]

\* One athlete whose reel may be rejected, fail or pass; two of whom one may be
\* published alone, and both may need a re-edit.
Runs == {J("strict", {"clean", "rejected", "PASS", "FAIL", "no", "first"}, <<P("a", "red")>>),
         J("partial", {"clean", "PASS", "FAIL", "no", "first"}, <<P("a", "red"), P("b", "blue")>>)}

Everything == {"write", "read", "cut", "runner"}
Nothing == {}
=============================================================================
