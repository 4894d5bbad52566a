----------------------------- MODULE MCLizardShell -----------------------------
(* LizardShell with a screen of one row of two cells, so that a row fills  *)
(* and the screen scrolls, and a keyboard whose rows differ in length.     *)
(* Mapped keys write to the shell as letters do. The terminal may be too   *)
(* small at first or become so. Between two sizes that fit, what is drawn  *)
(* no longer counts as followed, so that one size is enough.               *)
EXTENDS LizardShell

MCSizes == {<<2, 1>>}
MCLayout == <<<<"letter", "Shift">>, <<"Ctrl", "Caps", "Backspace">>>>

=============================================================================
