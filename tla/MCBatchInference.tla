--------------------------- MODULE MCBatchInference ---------------------------
(***************************************************************************)
(* Instances of BatchInference for TLC.                                    *)
(***************************************************************************)
EXTENDS BatchInference, TLC

CONSTANTS r1, r2, m1, m2, c1, c2

TwoRows == {r1, r2}
OneMaintainer == {m1}
TwoMaintainers == {m1, m2}
TwoContents == (r1 :> c1) @@ (r2 :> c2)

=============================================================================
