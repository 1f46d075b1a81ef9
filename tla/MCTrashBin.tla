----------------------------- MODULE MCTrashBin -----------------------------
(* Instances of TrashBin for TLC.                                          *)
EXTENDS TrashBin, TLC

CONSTANTS fa, fb, c1, c2, hf, hg, t0, t1, u0, u1

OneFile == {fa}
TwoFiles == {fa, fb}
OneClient == {c1}
TwoClients == {c1, c2}
HomePlaces == {hf, hg}
TrashDir == {t0, t1, u0, u1}
Home == [x \in Files |-> IF x = fa THEN hf ELSE hg]

(* Files of one name, and files of different names.                        *)
SameName == [x \in Files |-> <<t0, t1>>]
OwnName == [x \in Files |-> IF x = fa THEN <<t0, t1>> ELSE <<u0, u1>>]

(* Requests are interchangeable; the run with it checks invariants only.   *)
Symmetry == Permutations(Clients)

(* Bound: a failed call or a kill, not both.                               *)
OneMishap == faults + crashes <= 1
=============================================================================
