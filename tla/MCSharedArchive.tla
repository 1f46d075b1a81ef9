-------------------------- MODULE MCSharedArchive --------------------------
(* Instances of SharedArchive for TLC.  f1 and f2 have the same name, type *)
(* and date, so that they compete for main and dup.                        *)
EXTENDS SharedArchive, TLC

CONSTANTS r1, c1, c2, f1, f2, f3, main, dup, dup01, bin1, bin2

OneRunner == {r1}
OneClient == {c1}
TwoClients == {c1, c2}
TwoFiles == {f1, f2}
ThreeFiles == {f1, f2, f3}
NoFiles == {}
TwoPlaces == {main, dup}
ThreePlaces == {main, dup, dup01}
AllCandidates == [f \in Files |-> <<main, dup>>]
TwoTrashPlaces == {bin1, bin2}
AllTrashNames == [f \in Files |-> <<bin1, bin2>>]

Symmetry == Permutations(Files) \union Permutations(Clients)
=============================================================================
