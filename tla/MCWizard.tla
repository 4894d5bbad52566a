------------------------------- MODULE MCWizard -------------------------------
(* Wizard on small instances; the keys are interchangeable.                *)
EXTENDS Wizard, TLC

TheirPartitions == [o \in OS |-> {RolesOf(o)}]

KeySymmetry == Permutations(Key)

=============================================================================
