------------------------- MODULE MCOperationQueue -------------------------
(***************************************************************************)
(* Instances of OperationQueue for TLC: a pipeline with one child, two     *)
(* submissions of one key, and a single operation.                         *)
(***************************************************************************)
EXTENDS OperationQueue, TLC

CONSTANTS pipeline, child, original, duplicate, shared, w1, w2

Pair == {pipeline, child}
Single == {child}
Twins == {original, duplicate}
Mixed == Pair \cup Twins
Malformed1 == {duplicate}
Legacy1 == {original}

Workers2 == {w1, w2}
Workers1 == {w1}

OwnKey == [j \in Jobs |-> j]
TwinKey == [j \in Jobs |-> IF j \in Twins THEN shared ELSE j]
NoChildren == [j \in Jobs |-> {}]
PipelineChildren == [j \in Jobs |-> IF j = pipeline THEN {child} ELSE {}]

Together == {Jobs}
PairOrTwins == {Pair, Twins}

NoFence == {}
MaybeOwned == {TRUE, FALSE}

=============================================================================
