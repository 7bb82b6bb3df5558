------------------------- MODULE MCReelPublication -------------------------
EXTENDS ReelPublication, TLC

P(id, label, src, srcs, count, long) ==
    [id |-> id, label |-> label, src |-> src, srcs |-> srcs, parts |-> count, long |-> long]

J(mode, reedit, gate, allowed, people) ==
    [mode |-> mode, overlap |-> FALSE, check |-> TRUE, reedit |-> reedit, retries |-> 1,
     gate |-> gate, workers |-> 2, runs |-> 1, allowed |-> allowed, people |-> people]

Everything == {"clean", "poor", "rejected", "PASS", "FIX", "FAIL", "NONE", "no", "first", "later"}
Graded == {"clean", "rejected", "PASS", "NONE", "no", "first"}
Fixable == {"clean", "PASS", "FIX", "no"}

\* One athlete with every outcome; two from one source and from two; two who
\* were given the same description; one athlete in two videos; two parts; two
\* athletes in one long video.
OnePerson == <<P("a", "red", "s1", {"s1", "s2"}, 1, FALSE)>>
LongPerson == <<P("a", "red", "s1", {"s1"}, 1, FALSE)>>
TwoPeople == <<P("a", "red", "s1", {"s1"}, 1, FALSE), P("b", "blue", "s1", {"s1", "s2"}, 1, FALSE)>>
SameLabel == <<P("a", "red", "s1", {"s1"}, 1, FALSE), P("b", "red", "s1", {"s1"}, 1, FALSE)>>
TwoVideos == <<P("a", "red", "s1", {"s1"}, 1, FALSE), P("a", "red", "s2", {"s2"}, 1, FALSE)>>
TwoParts == <<P("a", "red", "s1", {"s1"}, 2, FALSE)>>
OneVideo == <<P("a", "red", "s1", {"s1"}, 1, FALSE), P("b", "blue", "s1", {"s1"}, 1, FALSE)>>

Overlapped == {[J("clips", FALSE, "strict", Fixable, TwoPeople) EXCEPT !.overlap = TRUE]}

\* Descriptions that leave no room for QA-FLAGGED in the 50 characters a draft
\* name keeps: one athlete, one with a neighbour of few words, in two parts.
LongLabel == <<P("a", "red", "s1", {"s1"}, 1, TRUE)>>
LongAndShort == <<P("a", "red", "s1", {"s1"}, 1, TRUE), P("b", "blue", "s1", {"s1"}, 1, FALSE)>>
LongParts == <<P("a", "red", "s1", {"s1"}, 2, TRUE)>>
Objected == {"clean", "PASS", "FAIL", "no", "first"}

Described ==
    {J("clips", FALSE, "partial", Objected, LongAndShort),
     J("long", TRUE, "partial", Fixable \cup {"first"}, LongParts),
     [J("clips", FALSE, "strict", Everything, LongLabel) EXCEPT !.check = FALSE]}

\* Two runs of a day over the same sources: names are given again, and the
\* objects, rows and tasks of the first run are still there.
Repeated ==
    {[J("clips", FALSE, "strict", Objected \cup {"poor"}, OnePerson) EXCEPT !.runs = 2],
     [J("clips", FALSE, "strict", Objected, LongLabel) EXCEPT !.runs = 2],
     [J("long", TRUE, "partial", Fixable \cup {"first"}, LongLabel) EXCEPT !.runs = 2]}

Workload ==
    {[J("clips", TRUE, "strict", Everything, OnePerson) EXCEPT !.retries = 2],
     J("long", TRUE, "strict", Everything, LongPerson),
     J("clips", TRUE, "partial", Fixable, TwoPeople),
     J("clips", FALSE, "strict", Graded, TwoPeople),
     J("clips", FALSE, "partial", Fixable, SameLabel),
     J("clips", FALSE, "partial", Everything, TwoParts),
     J("long", TRUE, "partial", Fixable, TwoVideos),
     J("long", FALSE, "strict", Everything, TwoParts),
     J("long", FALSE, "strict", Fixable, OneVideo),
     [J("clips", FALSE, "partial", Everything, OnePerson) EXCEPT !.check = FALSE]} \cup Overlapped
    \cup Described \cup Repeated

=============================================================================
