------------------------- MODULE MCMultipartUpload -------------------------
(* Small instances of MultipartUpload for TLC. *)
EXTENDS MultipartUpload, TLC

\* Sessions, places and threads are interchangeable; for the runs without liveness.
Symmetry == Permutations(Sessions) \cup Permutations(Calls) \cup Permutations(Workers)
=============================================================================
