--------------------------- MODULE MCProxyWorker ---------------------------
(* Instances of ProxyWorker for TLC.  Rows 1 and 2 have proxies of their   *)
(* own, row 3 is small and row 4 of an unknown kind; with Shared, rows 1   *)
(* and 2 are a.jpg and a.png of one directory.                             *)
EXTENDS ProxyWorker

CONSTANTS q1, c1, w1, w2, pa, pb, pc

NoRequests == {}
OneRequest == {q1}
OneClient == {c1}
OneSlot == {w1}
TwoSlots == {w1, w2}

OneRow == {1}
TwoRows == {1, 2}
ThreeRows == {1, 2, 3}
TwoPaths == {pa, pb}
OnePath == {pa}
ThreePaths == {pa, pb, pc}
Own == [f \in Files |-> CASE f = 1 -> pa [] f = 2 -> pb [] f = 3 -> pc]
Shared == [f \in Files |-> pa]
=============================================================================
