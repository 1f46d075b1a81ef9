----------------------------- MODULE MCInitMode -----------------------------
(* An instance of InitMode for TLC: files named a (and a_01), of one day.  *)
(* main is <ext>/<day>/a, dup and dup01 are a and a_01 in the same day     *)
(* below _duplicates, main01 and dup0101 what follows for a file named     *)
(* a_01; s, t and s01 are in no dated directory, xs in none below          *)
(* _duplicates.  A search has three places, not the hundred and one.       *)
EXTENDS InitMode

CONSTANTS f1, f2, f3, main, main01, main0101, dup, dup01, dup0101, s, t, s01, xs

ThreeFiles == {f1, f2, f3}
TwoFiles == {f1, f2}
AllPlaces == {main, main01, main0101, dup, dup01, dup0101, s, t, s01, xs}
Plain == {main, dup, dup01, s, t, xs}
Suffixed == {main, main01, dup01, s, s01}
Inside == {dup, dup01, dup0101, xs}
Valid == {main, main01, main0101}
Looks == [q \in {dup, dup01, dup0101} |-> IF q = dup0101 THEN main01 ELSE main]
Tries ==
    [f \in Files |-> [p \in Places |->
        CASE p \in {main, dup, s, t, xs} -> <<main, dup, dup01>>
          [] p \in {main01, dup01, s01}  -> <<main01, dup01, dup0101>>
          [] OTHER                       -> <<main0101>>]]
NoPlaces == {}
OneIgnored == {t}
=============================================================================
