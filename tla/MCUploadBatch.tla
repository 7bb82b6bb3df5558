--------------------------- MODULE MCUploadBatch ---------------------------
(* Finite instances of UploadBatch for TLC.                                 *)
EXTENDS UploadBatchRefinement, TLC

CONSTANTS u1, u2, u3, b1, b2, r1, r2, x, y

\* All files carry the same bytes.
OneContent == [u \in Uploads |-> x]

\* u3 differs from the others.
TwoContents == [u \in Uploads |-> IF u = u3 THEN y ELSE x]

\* Nothing is read of a row that was taken back.
LiveRows == <<[u \in Uploads |-> IF upload[u].st = "deleted" THEN NoUpload ELSE upload[u]],
              {u \in Uploads : upload[u].st = "deleted"}, batch, clock>>

BatchSymmetry == Permutations(Batches) \cup Permutations(Runs)
=============================================================================
