---------------------------- MODULE MCDraftRuns ----------------------------
(* Instances of DraftRuns: two sources, the second a long video.             *)
EXTENDS DraftRuns

OnePerson == [s \in Sources |-> {"ann"}]
TwoPeople == [s \in Sources |-> IF s = "v1" THEN {"ann"} ELSE People]

Instance(kept, broken, shows, requests, bound) ==
    [kept |-> kept, broken |-> broken, shows |-> shows, requests |-> requests, faults |-> bound]

\* A workstation: two people, or two requests, or two faults, or an unreadable
\* source; and CI runners, whose disks are fresh, with one that cannot be read.
MCWorlds ==
    {Instance(TRUE, {}, TwoPeople, 1, 1), Instance(TRUE, {}, OnePerson, 2, 1),
     Instance(TRUE, {}, OnePerson, 1, 2), Instance(TRUE, {"v1"}, TwoPeople, 1, 1),
     Instance(FALSE, {}, TwoPeople, 1, 1), Instance(FALSE, {"v1"}, OnePerson, 1, 2)}
=============================================================================
