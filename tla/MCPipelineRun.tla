---------------------------- MODULE MCPipelineRun ----------------------------
(***************************************************************************)
(* Instances of PipelineRun for TLC: two sources on two slots.  Each way a *)
(* child may end is taken by some child, not by all of them.               *)
(***************************************************************************)
EXTENDS PipelineRun

CONSTANTS w1, w2

SomeEnds == [k \in Children |->
  CASE k = 1       -> Good \cup Bad
    [] k = 2       -> {"completed", "empty", "failed"}
    [] k = Summary -> {"completed", "failed"}
    [] k = Digest  -> {"completed", "cancelled"}]
TwoSlots == {w1, w2}

=============================================================================
