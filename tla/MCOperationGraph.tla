--------------------------- MODULE MCOperationGraph ---------------------------
(***************************************************************************)
(* Instances of OperationGraph for TLC: one batch of two items.            *)
(***************************************************************************)
EXTENDS OperationGraph

CONSTANTS batch, i1, i2, w1, w2, v1

OneBatch == {batch}
TwoItems == [r \in Roots |-> {i1, i2}]
OneSlot == {w1}
TwoSlots == {w1, w2}
OneReader == {v1}
NoReaders == {}

=============================================================================
