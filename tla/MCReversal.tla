------------------------------ MODULE MCReversal ------------------------------
(* Reversal with two chainloader versions and two fstab files: SteamOS's   *)
(* with a UUID beside its partition sets, and one with the UUID of a LUKS  *)
(* volume that ends with two blank lines.                                  *)
EXTENDS Reversal

FstabLine(d) == [dev |-> d, mark |-> "none"]
MCFstabs == {<<FstabLine("partset"), FstabLine("fs_uuid"), FstabLine("partset")>>,
             <<FstabLine("luks_uuid"), FstabLine("swap"), FstabLine("blank"),
               FstabLine("blank")>>}
MCSelections == {{}, {"home"}, {"home", "var"}}

=============================================================================
