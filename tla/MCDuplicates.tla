---------------------------- MODULE MCDuplicates ----------------------------
(* Instances of Duplicates for TLC.  In one directory of a day main (named *)
(* a.jpg) and mainb (b.png), in that of another day old (a.jpg); dup and   *)
(* dupb are the same as the first two below the _duplicates of the         *)
(* archive; side, sideb, oldside and oldsideb are a.jpg and b.png in the   *)
(* _duplicates that a rescan makes in the directories themselves.          *)
EXTENDS Duplicates, TLC

CONSTANTS x, y, c1, c2,
          main, mainb, old, dup, dupb, side, sideb, oldside, oldsideb

OneClient == {c1}
TwoClients == {c1, c2}
TwoContents == {x, y}
TwoRows == {1, 2}
NamedAlike == {1, 2, 4, 5}
FiveRows == 1..5
Mains == {main, mainb, old}
Dups == {dup, dupb, side, sideb, oldside, oldsideb}
AllPlaces == Mains \union Dups
(* The file_name of row 3 is b.png, that of the others a.jpg.              *)
NamedB(i) == i = 3
HomesOf == [i \in Ids |-> IF NamedB(i) THEN {mainb, dupb}
                                       ELSE {main, old, dup, side, oldside}]
Primal == [p \in Dups |->
    CASE p \in {dup, side} -> main
      [] p \in {dupb, sideb} -> mainb
      [] OTHER -> old]
Sides == [p \in Mains |-> [i \in Ids |->
    IF p = old THEN IF NamedB(i) THEN oldsideb ELSE oldside
               ELSE IF NamedB(i) THEN sideb ELSE side]]

(* All rows but the second are copies of one content.                      *)
AllButOne == [i \in Ids |-> IF i = 2 THEN y ELSE x]
ExtOf == [i \in Ids |-> IF NamedB(i) THEN "png" ELSE "jpg"]

Symmetry == Permutations(Clients)

(* Promotions as the browser client offers them: primary_id is that of the *)
(* group (app.js, confirmPromote).                                         *)
Offered ==
    \A c \in Clients : at[c] = "idle" /\ at'[c] \in Promoting =>
        LET primaries == {k \in Same(cur'[c].id) : Primary(k)}
        IN  partner'[c] = IF primaries = {} THEN NoRow ELSE Min(primaries)

(* The same, where the target is free or the path of the primary.          *)
OfferedSafely ==
    /\ Offered
    /\ \A c \in Clients :
          /\ at'[c] \notin Rescanning
          /\ at[c] = "idle" /\ at'[c] \in Promoting =>
                \/ disk[cur'[c].to] = NoFile
                \/ partner'[c] # NoRow /\ where[partner'[c]] = cur'[c].to

NoPromotions == \A c \in Clients : at'[c] \notin Promoting

RescansOnly == \A c \in Clients : at'[c] \in {"idle"} \union Rescanning
=============================================================================
