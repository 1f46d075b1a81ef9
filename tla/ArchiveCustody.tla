--------------------------- MODULE ArchiveCustody --------------------------
(***************************************************************************)
(* What an archiving tool promises, without saying how: files come into a  *)
(* source, a copy is stored at a free place of the archive, and only a     *)
(* file of which the archive holds a whole copy leaves the source.  A copy *)
(* may be thrown away until its place is settled, at the latest when the   *)
(* source is released; a settled place never changes again.                *)
(***************************************************************************)
CONSTANTS Files, Paths, None

VARIABLES inSource,     (* files in the source                                 *)
          owed,         (* files the tool has to keep                          *)
          holds,        (* the whole file each place holds, or None            *)
          settled       (* places that are final                               *)

custodyVars == <<inSource, owed, holds, settled>>

CustodyInit ==
    /\ inSource = {}
    /\ owed = {}
    /\ holds = [p \in Paths |-> None]
    /\ settled = {}

Deposit(f) ==
    /\ f \notin inSource
    /\ inSource' = inSource \cup {f}
    /\ owed' = owed \cup {f}
    /\ UNCHANGED <<holds, settled>>

TakeBack(f) ==
    /\ f \in inSource
    /\ inSource' = inSource \ {f}
    /\ owed' = owed \ {f}
    /\ UNCHANGED <<holds, settled>>

Store(f, p) ==
    /\ holds[p] = None
    /\ holds' = [holds EXCEPT ![p] = f]
    /\ UNCHANGED <<inSource, owed, settled>>

(* Only the copy of a file that is still in the source, or that nobody     *)
(* expects to find, is thrown away.                                        *)
Discard(p) ==
    /\ p \notin settled
    /\ holds[p] \in inSource \cup (Files \ owed)
    /\ holds' = [holds EXCEPT ![p] = None]
    /\ UNCHANGED <<inSource, owed, settled>>

Release(f, p) ==
    /\ f \in inSource
    /\ holds[p] = f
    /\ inSource' = inSource \ {f}
    /\ settled' = settled \cup {p}
    /\ UNCHANGED <<owed, holds>>

(* A copy that is not the reason for a release may stay for good, too.     *)
Settle(p) ==
    /\ holds[p] # None
    /\ settled' = settled \cup {p}
    /\ UNCHANGED <<inSource, owed, holds>>

CustodyNext ==
    \/ \E f \in Files : Deposit(f) \/ TakeBack(f)
    \/ \E f \in Files, p \in Paths : Store(f, p) \/ Release(f, p)
    \/ \E p \in Paths : Discard(p) \/ Settle(p)

CustodySpec == CustodyInit /\ [][CustodyNext]_custodyVars

(* The tool keeps what it owes: in the source, or at some place.           *)
Kept == \A f \in owed : f \in inSource \/ \E p \in Paths : holds[p] = f
=============================================================================
