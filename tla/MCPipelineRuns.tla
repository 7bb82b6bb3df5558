--------------------------- MODULE MCPipelineRuns ---------------------------
(* Finite instances of PipelineRuns for TLC.                                *)
EXTENDS PipelineRuns, TLC

CONSTANTS b1, b2, r1, r2, r3, q1, q2, q3, i1, i2

Everyone == Permutations(Batches) \cup Permutations(Runs) \cup Permutations(Requests)
            \cup Permutations(InputSets \ {NoInputs})

\* What the safety properties speak of: all but the history of WorkEnds.
Rows == <<lock, run, request, active, pending>>

\* Requests are made, and run ids given out, in the order of their names.  Any other
\* behaviour of FairSpec is one of these with the names exchanged, which replaces
\* symmetry where a liveness property is checked.
InOrder ==
    /\ request[q2].pc # "idle" => request[q1].pc # "idle"
    /\ request[q3].pc # "idle" => request[q2].pc # "idle"
    /\ run[r2].status # "absent" => run[r1].status # "absent"

FairSpecInOrder == Init /\ [][Next /\ InOrder']_vars /\ Fairness
=============================================================================
