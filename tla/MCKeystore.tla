------------------------------ MODULE MCKeystore ------------------------------
(* Instances of Keystore for TLC.                                           *)
EXTENDS Keystore, TLC

CONSTANTS wrong, right

Symmetry == Permutations(Process)

Stored(v) == [version |-> v,
              keys |-> [k \in KeyName |-> IF HasKey(v, k) THEN 0 ELSE None],
              password |-> right]

Existing == {Stored("V1"), Stored("V2"), Stored("V3")}

AnyFile == Existing \cup {Absent, Torn}
=============================================================================
