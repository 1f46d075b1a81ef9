----------------------------- MODULE MCArchiver ----------------------------
(* Instances of Archiver for TLC.  f1 and f2 have the same name, type and  *)
(* date and come from different directories; f3 is named like the third    *)
(* place of f1 (its name ends in _01), so that the _duplicates place of f3 *)
(* is that place; f4 is ignored.                                           *)
EXTENDS Archiver, TLC

CONSTANTS r1, r2, r3, f1, f2, f3, f4, main, dup, dup01, main3

OneRunner == {r1}
TwoRunners == {r1, r2}

NoFiles == {}
OneFile == {f1}
TwoFiles == {f1, f2}
AliasedFiles == {f1, f2, f3}
SomeIgnored == {f1, f2, f4}
IgnoredFiles == {f4}

AllPaths == {main, dup, dup01, main3}

AllCandidates ==
    [f \in Files |-> IF f = f3 THEN <<main3, dup01>> ELSE <<main, dup, dup01>>]

(* Two places only: files run out of places.                               *)
FewPaths == {main, dup}
FewCandidates == [f \in Files |-> <<main, dup>>]

(* Both sets are interchangeable where all files have the same candidates. *)
Symmetry == Permutations(Runners) \cup Permutations(Files)
=============================================================================
