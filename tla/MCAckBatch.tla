------------------------------ MODULE MCAckBatch ------------------------------
(* Instances of AckBatch for TLC.                                           *)
EXTENDS AckBatch, TLC

CONSTANTS k1, k2, notAPoint

\* Keys of the curve are interchangeable.
Symmetry == Permutations(Curve)
=============================================================================
