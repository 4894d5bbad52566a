------------------------------- MODULE Packages -------------------------------
(***************************************************************************)
(* get_dependent_packages() of pacman_helper.py: the packages a package    *)
(* needs, read off the "Required By" fields of all installed packages in   *)
(* the order pacman prints them, in as many passes as something is found.  *)
(***************************************************************************)
EXTENDS Naturals, Sequences, FiniteSets

CONSTANTS
    Pkg,         \* the number of installed packages, 1 .. Pkg by name
    Columns      \* names on a line when pacman wraps its output

ASSUME PackagesAssumption == Pkg \in Nat \ {0} /\ Columns \in Nat \ {0}

VARIABLES
    requiredBy,  \* for each package the packages that require it
    packagesName,
    wrapped,     \* pacman wraps the field (COLUMNS is set)
    block,       \* the package whose lines are read
    lineNo,      \* which of them is next, from 0
    packages, startLen, lastWasRequiredBy, currentPackage,
    searching    \* the loop has not ended

pkgVars == <<requiredBy, packagesName, wrapped, block, lineNo, packages,
             startLen, lastWasRequiredBy, currentPackage, searching>>

Packages == 1 .. Pkg

(* pacman's output for one package: a Name line, the names of Required By  *)
(* on one line or, wrapped, on as many as they need, and a line of any     *)
(* later field. The packages come in the order of their names.             *)
FieldRow(S, k) == {p \in S : Cardinality({q \in S : q < p}) \div Columns = k}

FieldRows(S) == IF wrapped /\ S # {} THEN 1 + (Cardinality(S) - 1) \div Columns ELSE 1

Line(p, n) ==
    [field |-> CASE n = 0 -> "Name" [] n = 1 -> "RequiredBy"
                 [] n \in 2 .. FieldRows(requiredBy[p]) -> "more"
                 [] OTHER -> "other",
     names |-> CASE n = 0 -> {p}
                 [] n \in 1 .. FieldRows(requiredBy[p]) ->
                        IF wrapped THEN FieldRow(requiredBy[p], n - 1) ELSE requiredBy[p]
                 [] OTHER -> {}]

NextLine ==
    \/ /\ lineNo <= FieldRows(requiredBy[block])
       /\ lineNo' = lineNo + 1 /\ UNCHANGED block
    \/ /\ lineNo > FieldRows(requiredBy[block])
       /\ lineNo' = 0 /\ block' = block + 1

(* One line of the output.                                                 *)
ReadLine ==
    /\ searching /\ block <= Pkg
    /\ LET line == Line(block, lineNo)
           found == /\ \/ line.field = "RequiredBy"
                       \/ lastWasRequiredBy /\ line.field = "more"
                    /\ line.names \cap packages # {}
       IN /\ packages' = IF found THEN packages \cup {currentPackage} ELSE packages
          /\ lastWasRequiredBy' = found
          /\ currentPackage' = IF line.field = "Name" THEN block ELSE currentPackage
    /\ NextLine
    /\ UNCHANGED <<requiredBy, packagesName, wrapped, startLen, searching>>

(* Mutant: one pass over the output is enough. *)
EndPassOnce ==
    /\ searching /\ block > Pkg
    /\ searching' = FALSE
    /\ UNCHANGED <<requiredBy, packagesName, wrapped, packages, startLen, block,
                   lineNo, lastWasRequiredBy, currentPackage>>

(* The condition of the while loop.                                        *)
EndPass ==
    /\ searching /\ block > Pkg
    /\ \/ /\ Cardinality(packages) > startLen
          /\ startLen' = Cardinality(packages) /\ block' = 1 /\ lineNo' = 0
          /\ UNCHANGED searching
       \/ /\ Cardinality(packages) <= startLen
          /\ searching' = FALSE
          /\ UNCHANGED <<startLen, block, lineNo>>
    /\ UNCHANGED <<requiredBy, packagesName, wrapped, packages,
                   lastWasRequiredBy, currentPackage>>

(* The first pass starts at once.                                          *)
PackagesInit ==
    /\ requiredBy \in [Packages -> SUBSET Packages]
    /\ wrapped \in BOOLEAN
    /\ block = 1 /\ lineNo = 0 /\ startLen = 1 /\ searching = TRUE
    /\ packagesName \in Packages /\ packages = {packagesName}
    /\ lastWasRequiredBy = FALSE /\ currentPackage = 0

PackagesNext == ReadLine \/ EndPass

-----------------------------------------------------------------------------
(* Properties *)

(* What packages_name needs, directly or through others: the smallest set  *)
(* with packages_name and with whatever a member requires.                 *)
Closed(S) == \A p \in Packages : requiredBy[p] \cap S # {} => p \in S

Needs ==
    {p \in Packages :
        \A S \in SUBSET Packages : packagesName \in S /\ Closed(S) => p \in S}

(* Whatever the order of the output and the cycles among the packages, the *)
(* loop ends with all packages the first one needs and no other. When      *)
(* pacman wraps the field, what it found is still needed, but it may miss  *)
(* packages: a second line counts only after a first line that matched.    *)
DependenciesFound ==
    /\ packages \subseteq Needs
    /\ ~searching /\ ~wrapped => packages = Needs

=============================================================================
