--------------------------- MODULE MCAutoTpmEncrypt ---------------------------
(* AutoTpmEncrypt on small instances; the keys are interchangeable.        *)
EXTENDS SealRefinement, TLC

(* Every partition each time, or any that include the root.                *)
AllPartitions == [o \in OS |-> {Roles}]
AnyPartitions == [o \in OS |-> {s \in SUBSET Roles : "root" \in s}]

KeySymmetry == Permutations(Key)

=============================================================================
