------------------------------- MODULE MCTags -------------------------------
(* Instances of Tags for TLC.                                              *)
EXTENDS Tags, TLC

CONSTANTS f1, f2, u1, u2, l1, l2, s1, s2, people, places, n1, n2

OneFile == {f1}
TwoFiles == {f1, f2}
OneUser == {u1}
TwoUsers == {u1, u2}
OneLoad == {l1}
TwoLoads == {l1, l2}
OneSave == {s1}
TwoSaves == {s1, s2}
OneName == {n1}
TwoNames == {n1, n2}
Categories == {people, places}
Seeded == {people}

Symmetry == Permutations(Files) \union Permutations(Users) \union Permutations(Names)
              \union Permutations(Loads) \union Permutations(Saves)

-----------------------------------------------------------------------------
(* Orderly use and one thing more: NoTagLost fails in each of these.       *)

(* Clicks that do not wait for the reply to an earlier one (app.js:600).   *)
HastySpec == TagsInit /\ [][OrderlyNext \/ \E u \in Users : Click(u)]_tagVars

(* The viewer moves to another file before a reply has come (app.js:621).  *)
MovingSpec ==
    TagsInit /\ [][OrderlyNext \/ \E u \in Users, f \in Files :
                       file[u] # NoFile /\ Open(u, f)]_tagVars

(* The viewer is closed before a reply has come, and its file opened from  *)
(* the list that was read before the save was done (app.js:543).           *)
LeavingSpec ==
    TagsInit /\ [][OrderlyNext \/ \E u \in Users, shown \in SUBSET files : Close(u, shown)]_tagVars

(* A file is opened from the old list while a new one is loaded, which may *)
(* have been read before what is saved meanwhile (app.js:286).             *)
EarlySpec ==
    TagsInit /\ [][OrderlyNext \/ \E u \in Users :
                       ~Saving(u) /\ (Click(u) \/ \E f \in Files : Open(u, f))]_tagVars

(* A file is listed in two browsers (app.js:526).                          *)
SharingSpec ==
    TagsInit /\ [][OrderlyNext \/ \E u \in Users, shown \in SUBSET files :
                       ~Saving(u) /\ file[u] = NoFile /\ LoadFiles(u, shown)]_tagVars

(* A file is listed without its tags (app.js:291, app.js:726).             *)
UntaggedSpec ==
    TagsInit /\ [][OrderlyNext \/ (\E u \in Users : ~Saving(u) /\ file[u] = NoFile
                                                     /\ ListUntagged(u))
                       \/ \E l \in Loads, f \in Files : FetchThrows(l, f)]_tagVars

(* The server is restarted before a reply has come.                        *)
RestartingSpec == TagsInit /\ [][OrderlyNext \/ Restart]_tagVars
=============================================================================
