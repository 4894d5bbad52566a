---------------------------- MODULE MCBootWindows ----------------------------
(* BootWindows on small instances.                                         *)
EXTENDS BootWindows, TLC

AllPartitions == [o \in OS |-> {Roles}]

KeySymmetry == Permutations(Key)

=============================================================================
