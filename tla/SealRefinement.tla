---------------------------- MODULE SealRefinement ----------------------------
(* AutoTpmEncrypt implements SealLifeCycle: the refinement mapping.        *)
EXTENDS AutoTpmEncrypt

VolumeState(p) ==
    CASE fs[p] = "plain" -> "plain"
      [] fs[p] # "plain" /\ blanks[p] > 0 -> "open"
      [] fs[p] # "plain" /\ blanks[p] = 0 -> "sealed"

VolBar == [p \in Partition |-> VolumeState(p)]
RunningBar == IF booted.os \in OS \cup Media THEN "linux" ELSE booted.os

LifeCycle == INSTANCE SealLifeCycle WITH
    Volume <- Partition,
    vol <- VolBar,
    entry <- wbm,
    running <- RunningBar

(* Every volume keeps to the life cycle through aborts and power losses:   *)
(* encrypting leaves it open, only sealing closes it, only a volume whose  *)
(* blank passwords are all gone is decrypted, each opening comes with the  *)
(* Windows boot entry deleted.                                             *)
ImplementsLifeCycle == LifeCycle!Spec

=============================================================================
