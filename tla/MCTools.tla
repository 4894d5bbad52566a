-------------------------------- MODULE MCTools --------------------------------
(* Constants of Tools for TLC that a configuration file cannot write. *)
EXTENDS Tools, Bitwise

(* An image shorter than the flash; the other bytes are padding. *)
MCFirmwares == {<<Code>>}

MCXorByte == [a \in 0 .. 255 |-> [b \in 0 .. 255 |-> a ^^ b]]

=============================================================================
