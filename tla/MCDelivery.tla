----------------------------- MODULE MCDelivery -----------------------------
(* Instances of Delivery: two drafts, which may share a name, or three.     *)
EXTENDS Delivery

Own == [d \in Drafts |-> d]
Twins == [d \in Drafts |-> "d1"]

Instance(backend, kept, drafts, name, blocked, bound) ==
    [backend |-> backend, kept |-> kept, drafts |-> drafts, name |-> name, blocked |-> blocked,
     faults |-> bound]

\* The workflow over R2 and over Drive, and a workstation over Drive with
\* namesakes; three approvals, of which the third takes the place of the second.
Two == {"d1", "d2"}
MCWorlds == {Instance("r2", FALSE, Two, Own, {}, 1), Instance("r2", FALSE, {"d1"}, Own, {}, 3),
             Instance("r2", FALSE, Drafts, Own, {}, 0),
             Instance("drive", FALSE, Two, Own, {"d2"}, 1),
             Instance("drive", TRUE, Two, Twins, {"d2"}, 1)}
=============================================================================
