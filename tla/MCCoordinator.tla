--------------------------- MODULE MCCoordinator ---------------------------
(* A small instance of CoordinatorSystem for TLC.                          *)
EXTENDS CoordinatorSystem, TLC

\* Sequence numbers are only compared for equality.
SequenceSymmetry == Permutations(SequenceNumber)
=============================================================================
