-------------------------- MODULE DuplicatesProofs --------------------------
(* Proofs about Duplicates, for any rows, places, contents, requests and   *)
(* bounds.                                                                 *)
EXTENDS Duplicates, FiniteSetTheorems, WellFoundedInduction, TLAPS

(* The types, as far as the proofs need them; a request that is at work on *)
(* a change, or on a primary, has one.                                     *)
DupTypes ==
    /\ where \in [Ids -> Places \union {NoPlace}]
    /\ disk \in [Places -> Contents \union {NoFile}]
    /\ at \in [Clients -> {"idle"} \union Promoting \union Deleting \union Rescanning]
    /\ todo \in [Clients -> SUBSET Change]
    /\ cur \in [Clients -> Change \union {NoChange}]
    /\ partner \in [Clients -> Ids \union {NoRow}]
    /\ victim \in [Clients -> Places \union {NoPlace}]
    /\ errors \in Nat /\ kills \in Nat
    /\ \A c \in Clients : at[c] \in {"forget", "shift", "update"} \union Promoting
                            => cur[c] \in Change
    /\ \A c \in Clients : at[c] \in {"primary", "unseat"} => partner[c] \in Ids

(* The changes a request has still to make, the one it works on included.  *)
Planned(c) == todo[c] \union (IF at[c] \in {"forget", "shift", "update"} THEN {cur[c]} ELSE {})

Doomed(i) == \E c \in Clients : at[c] \in Deleting /\ \E e \in Planned(c) : e.id = i
Moving(i) == \E c \in Clients : at[c] \in Rescanning /\ \E e \in Planned(c) : e.id = i
InTransit(i) == \E c \in Clients : at[c] = "update" /\ cur[c].id = i
Replaced(i) == \E c \in Clients : at[c] \in {"move", "record"} /\ partner[c] = i

Held(i) == disk[where[i]] = Content[i]
Firm(i) == Primary(i) /\ Held(i) /\ ~Doomed(i)
Together(i, j) == Content[i] = Content[j] /\ Ext[i] = Ext[j]

(* Who is at work beside whom.                                             *)
Orderly ==
    /\ \A c \in Clients : at[c] \in {"idle"} \union Promoting => todo[c] = {}
    /\ \A c \in Clients : at[c] \in Promoting => \A d \in Clients \ {c} : at[d] = "idle"
    /\ \A c, d \in Clients : at[c] \in Rescanning /\ at[d] \in Rescanning => c = d

(* Primaries have places of their own with a file; one whose file may not  *)
(* be its own, or whose row a bulk delete is about to remove, is alone in  *)
(* its group, so that no rescan prefers it to another.                     *)
PrimariesApart ==
    /\ \A i, j \in Ids : Primary(i) /\ where[i] = where[j] => i = j
    /\ \A i \in Ids : Primary(i) => disk[where[i]] # NoFile \/ InTransit(i) \/ Replaced(i)
    /\ \A i, j \in Ids : Primary(i) /\ Primary(j) /\ i # j /\ Together(i, j)
                           => Firm(i) \/ InTransit(i) \/ Replaced(i)

(* What stays true of a rescan's plan while bulk deletes go on.            *)
PlanHolds(c) ==
    /\ \A e \in Planned(c) :
          /\ where[e.id] \in {e.from, NoPlace}
          /\ e.from \in DupPlaces <=> e.to \notin DupPlaces
          /\ e.from \notin DupPlaces => \A i \in Ids : where[i] = e.from => i = e.id
          /\ e.from \in DupPlaces => \A j \in Ids : Together(e.id, j) => ~Primary(j)
    /\ \A e, f \in Planned(c) :
          /\ e.id = f.id => e = f
          /\ e.from = f.from /\ e.from \notin DupPlaces => e = f
          /\ e.from \in DupPlaces /\ f.from \in DupPlaces /\ Together(e.id, f.id) => e = f
    /\ at[c] \in {"shift", "update"} => cur[c] \notin todo[c]
    /\ \A e \in Planned(c) : e.from \notin DupPlaces =>
          disk[e.from] # NoFile \/ (at[c] = "update" /\ e = cur[c])
    /\ at[c] = "shift" => disk[cur[c].to] = NoFile
    /\ at[c] = "update" =>
          /\ disk[cur[c].from] = NoFile
          /\ cur[c].to \notin DupPlaces => disk[cur[c].to] # NoFile
          /\ \A i \in Ids : Primary(i) => where[i] # cur[c].to
          /\ \A e \in todo[c] : e.from \notin DupPlaces => e.from # cur[c].to

(* What a careful promotion relies on.                                     *)
PromotionHolds(c) ==
    /\ cur[c].from \in DupPlaces /\ cur[c].to \notin DupPlaces
    /\ where[cur[c].id] = cur[c].from
    /\ at[c] \in {"primary", "unseat"} => partner[c] # NoRow
    /\ partner[c] # NoRow => Primary(partner[c]) /\ Content[partner[c]] = Content[cur[c].id]
    /\ at[c] = "unseat" => victim[c] = where[partner[c]]
    /\ \A i \in Ids : Primary(i) => Held(i) \/ Replaced(i)
    /\ at[c] # "record" => Held(cur[c].id)
    /\ at[c] = "record" => /\ disk[cur[c].to] = Content[cur[c].id]
                           /\ \A i \in Ids : where[i] = cur[c].to => i = partner[c]
    /\ at[c] = "move" => disk[cur[c].to] = NoFile
    /\ at[c] \in {"primary", "unseat"} => disk[cur[c].to] = NoFile \/ where[partner[c]] = cur[c].to

(* Where a copy of content x is out of reach of every request: without a   *)
(* row outside the _duplicates directories, ...                            *)
Stray(x) ==
    \E p \in Places \ DupPlaces :
        /\ disk[p] = x
        /\ \A i \in Ids : where[i] # p
        /\ \A c \in Clients :
              /\ at[c] \in Rescanning => \A e \in Planned(c) : e.from # p
              /\ at[c] \in {"update", "record"} => cur[c].to # p

(* ... as a primary that nobody moves, replaces or forgets, ...            *)
Anchored(x) ==
    \E k \in Ids : Content[k] = x /\ Firm(k) /\ ~Moving(k) /\ ~Replaced(k)

Unlisted(x) == \A i \in Ids : Content[i] = x => ~Primary(i) /\ ~Doomed(i)

(* ... in the places of duplicates without a primary, ...                  *)
Undisturbed(i) ==
    /\ Held(i)
    /\ \A j \in Ids : where[j] = where[i] => j = i
    /\ \A c \in Clients : \A e \in Planned(c) :
          e.from = where[i] => at[c] \notin Deleting /\ e.id = i
    /\ \A c \in Clients : at[c] = "update" => cur[c].to # where[i]

Orphaned(x) ==
    /\ Unlisted(x)
    /\ \E i \in Ids : Content[i] = x /\ HasRow(i)
    /\ \A i \in Ids : Content[i] = x /\ HasRow(i) => Undisturbed(i)

(* ... or between the two ends of a promotion.                             *)
Travelling(x) ==
    \E c \in Clients :
        /\ at[c] \in {"update", "record", "move"} /\ Content[cur[c].id] = x
        /\ \/ /\ at[c] = "update" /\ disk[cur[c].to] = x
              /\ cur[c].to \notin DupPlaces
              /\ HasRow(cur[c].id) /\ Unlisted(x)
           \/ at[c] = "record"
           \/ at[c] = "move" /\ partner[c] # NoRow

Kept(x) == \/ errors + kills > 0 /\ Stray(x)
           \/ Anchored(x) \/ Orphaned(x) \/ Travelling(x)

Safe ==
    /\ Orderly
    /\ PrimariesApart
    /\ \A c \in Clients : at[c] \in Deleting => \A e \in Planned(c) : e.from \in DupPlaces
    /\ \A c \in Clients : at[c] \in Rescanning => PlanHolds(c)
    /\ \A c \in Clients : at[c] \in Promoting => PromotionHolds(c)
    /\ \A i \in Ids : Kept(Content[i])

(* While requests follow one another and nothing fails: rows whose file is *)
(* on its way or gone, and the place where a file has arrived before its   *)
(* row ...                                                                 *)
InHand(i) ==
    \E c \in Clients : \/ at[c] \in {"forget", "update", "record"} /\ cur[c].id = i
                       \/ at[c] \in {"move", "record"} /\ partner[c] = i

Landed(p) == \E c \in Clients : at[c] \in {"update", "record"} /\ cur[c].to = p

(* ... are all that keep rows and files from agreeing.                     *)
Aligned ==
    /\ \A c, d \in Clients : at[c] # "idle" /\ at[d] # "idle" => c = d
    /\ \A i \in Ids : HasRow(i) => Held(i) \/ InHand(i)
    /\ \A i \in Ids : HasRow(i) /\ InHand(i) => disk[where[i]] = NoFile \/ Landed(where[i])
    /\ \A i, j \in Ids : HasRow(i) /\ where[i] = where[j] => i = j
    /\ \A p \in Places : disk[p] # NoFile => Landed(p) \/ \E i \in Ids : where[i] = p
    /\ \A c \in Clients : at[c] \in {"update", "record"} =>
          disk[cur[c].to] = Content[cur[c].id] /\ disk[cur[c].from] = NoFile
    /\ \A c \in Clients : at[c] = "update" => \A i \in Ids : where[i] # cur[c].to
    /\ \A c \in Clients : at[c] \in Deleting \union Rescanning =>
          /\ \A e \in Planned(c) : where[e.id] = e.from
          /\ \A e, f \in Planned(c) : e.id = f.id => e = f
          /\ at[c] \in {"forget", "shift", "update"} => cur[c] \notin todo[c]

Serial == ~overlapped /\ errors + kills = 0 => Aligned

(* A set of row ids has a least one, which is the one Min returns: of the  *)
(* initial segments that end in it, one includes no other.                 *)
LEMMA LeastOne ==
    ASSUME NEW S \in SUBSET Nat, S # {}
    PROVE  Min(S) \in S /\ \A n \in S : Min(S) <= n
<1> DEFINE T == {0..m : m \in S}
           R == StrictSubsetOrdering(Nat)
<1>1. T \subseteq FiniteSubsetsOf(Nat)
    <2>1. ASSUME NEW m \in S PROVE IsFiniteSet(0..m)
        BY FS_Interval
    <2> QED BY <2>1 DEF FiniteSubsetsOf
<1>2. IsWellFoundedOn(R, FiniteSubsetsOf(Nat))
    BY FS_StrictSubsetOrderingWellFounded
<1>3. \E x \in T : \A y \in T : ~ (<<y, x>> \in R)
    <2>1. T # {}
        OBVIOUS
    <2> HIDE DEF T, R
    <2> QED BY <1>1, <1>2, <2>1, WFMin, Zenon
<1>4. PICK m \in S : \A n \in S : <<0..n, 0..m>> \notin R
    BY <1>3
<1>5. ASSUME NEW n \in S PROVE m <= n
    <2> SUFFICES ASSUME n < m PROVE FALSE
        OBVIOUS
    <2>1. 0..n \subseteq 0..m /\ 0..n # 0..m
        <3>1. m \in 0..m /\ m \notin 0..n
            OBVIOUS
        <3> QED BY <3>1
    <2>2. 0..n \in SUBSET Nat /\ 0..m \in SUBSET Nat
        OBVIOUS
    <2>3. <<0..n, 0..m>> \in (SUBSET Nat) \X (SUBSET Nat)
        BY <2>2, Zenon
    <2>4. <<0..n, 0..m>> \in R
        BY <2>1, <2>3, Zenon DEF StrictSubsetOrdering
    <2> QED BY <1>4, <2>4
<1> QED BY <1>5 DEF Min

-----------------------------------------------------------------------------
(* What requests plan, in words of the rows.                               *)

(* A bulk delete plans for duplicates whose group has a primary.           *)
LEMMA BulkPlan ==
    ASSUME DupTypes, NEW e \in Identical
    PROVE  /\ e \in Change /\ e.from = e.to /\ IsDup(e.id) /\ where[e.id] = e.from
           /\ \E k \in Ids : Primary(k) /\ Content[k] = Content[e.id]
BY DupAssumption DEF Identical, IsDup, Same, Primary, DupTypes, Change

(* The least primary of a group is a primary of the group.                 *)
LEMMA LeastPrimary ==
    ASSUME NEW i \in Ids, Primaries(i) # {}
    PROVE  Min(Primaries(i)) \in Primaries(i)
<1>1. Primaries(i) \in SUBSET Nat
    BY DupAssumption DEF Primaries, Alike, Same
<1> QED BY <1>1, LeastOne

(* Who the primaries of a group are.                                       *)
LEMMA PrimariesOfGroup ==
    ASSUME NEW i \in Ids, NEW j \in Ids
    PROVE  j \in Primaries(i) <=> Primary(j) /\ Together(i, j)
BY DEF Primaries, Alike, Same, Primary, Together

(* A rescan promotes the first of a group that has no primary.             *)
LEMMA PromotionPlan ==
    ASSUME DupTypes, NEW e \in Promotions
    PROVE  /\ e \in Change /\ where[e.id] = e.from
           /\ e.from \in DupPlaces /\ e.to \notin DupPlaces
           /\ \A j \in Ids : Together(e.id, j) => ~Primary(j)
           /\ e.id = Min(Alike(e.id))
<1>1. PICK i \in Ids : /\ e = [id |-> i, from |-> where[i], to |-> Derived[where[i]]]
                       /\ HasRow(i) /\ Primaries(i) = {} /\ i = Min(Alike(i))
    BY DEF Promotions
<1>2. ~Primary(i)
    BY <1>1, PrimariesOfGroup DEF Together
<1>3. where[i] \in DupPlaces
    BY <1>1, <1>2 DEF Primary, IsDup
<1>4. e \in Change /\ e.to \notin DupPlaces
    BY <1>1, <1>3, DupAssumption DEF Change
<1> QED BY <1>1, <1>3, <1>4, PrimariesOfGroup

(* It demotes the primaries of a group that are not its least.             *)
LEMMA NewDupPlan ==
    ASSUME DupTypes, NEW e \in NewDups
    PROVE  /\ e \in Change /\ where[e.id] = e.from /\ Primary(e.id)
           /\ e.from \notin DupPlaces /\ e.to \in DupPlaces
           /\ e.id # Min(Primaries(e.id))
           /\ \E i \in Ids : e = [id |-> i, from |-> where[i],
                                  to |-> Beside[where[Min(Primaries(i))]][i]]
<1>1. PICK i \in Ids : /\ e = [id |-> i, from |-> where[i], to |-> Beside[where[Min(Primaries(i))]][i]]
                       /\ Primary(i) /\ i # Min(Primaries(i))
    BY DEF NewDups
<1>2. Primaries(i) # {}
    BY <1>1, PrimariesOfGroup DEF Together
<1>3. Min(Primaries(i)) \in Ids /\ Primary(Min(Primaries(i)))
    <2>1. Min(Primaries(i)) \in Primaries(i)
        BY <1>2, LeastPrimary
    <2>2. Primaries(i) \subseteq Ids
        BY DEF Primaries, Alike, Same
    <2> QED BY <2>1, <2>2, PrimariesOfGroup
<1>4. where[i] \in Places \ DupPlaces /\ where[Min(Primaries(i))] \in Places \ DupPlaces
    BY <1>1, <1>3, DupAssumption DEF Primary, HasRow, IsDup, DupTypes
<1>5. e \in Change /\ e.to \in DupPlaces
    BY <1>1, <1>4, DupAssumption DEF Change
<1> QED BY <1>1, <1>4, <1>5

-----------------------------------------------------------------------------
(* Types.                                                                  *)

(* Types hold at first ...                                                 *)
LEMMA TypesInit == DupInit => DupTypes
<1> SUFFICES ASSUME DupInit PROVE DupTypes
    OBVIOUS
<1>1. disk \in [Places -> Contents \union {NoFile}]
    <2>1. \A p \in Places : (\E i \in Ids : where[i] = p)
                              => Content[CHOOSE i \in Ids : where[i] = p] \in Contents
        BY DupAssumption
    <2> QED BY <2>1 DEF DupInit
<1> QED BY <1>1, DupAssumption DEF DupInit, DupTypes, Promoting, Change

(* ... and after every step of any request.                                *)
LEMMA TypesStep == DupTypes /\ [DupNext]_dupVars => DupTypes'
<1> SUFFICES ASSUME DupTypes, [DupNext]_dupVars PROVE DupTypes'
    OBVIOUS
<1> USE DupAssumption DEF DupTypes, Promoting, Deleting, Rescanning, Fine, Error, Failing,
        Begin, Goto, Answer, TakeUp, GiveUp, Done, Change, NoChange, bounds
<1>1. ASSUME NEW c \in Clients, PromoteRequest(c) PROVE DupTypes'
    BY <1>1 DEF PromoteRequest, IsDup
<1>2. ASSUME NEW c \in Clients, ReadPrimary(c) PROVE DupTypes'
    <2>1. where[partner[c]] \in Places \union {NoPlace} /\ cur[c] \in Change
        BY <1>2 DEF ReadPrimary
    <2>2. CASE at' = [at EXCEPT ![c] = "idle"]
        BY <1>2, <2>2 DEF ReadPrimary
    <2>3. CASE at' # [at EXCEPT ![c] = "idle"]
        BY <1>2, <2>1, <2>3 DEF ReadPrimary
    <2> QED BY <2>2, <2>3
<1>3. ASSUME NEW c \in Clients, RemovePrimary(c) PROVE DupTypes'
    <2>1. CASE Goto(c, "move") /\ Fine /\ disk' = [disk EXCEPT ![victim[c]] = NoFile]
        BY <1>3, <2>1 DEF RemovePrimary
    <2>2. CASE Answer(c) /\ Error /\ UNCHANGED disk
        BY <1>3, <2>2 DEF RemovePrimary
    <2> QED BY <1>3, <2>1, <2>2 DEF RemovePrimary
<1>4. ASSUME NEW c \in Clients, MovePromoted(c) PROVE DupTypes'
    <2>1. CASE Goto(c, "record") /\ Fine /\ disk' = Renamed(cur[c].from, cur[c].to)
        <3>1. cur[c].from \in Places /\ cur[c].to \in Places /\ cur[c] \in Change
            BY <1>4 DEF MovePromoted
        <3>2. disk' \in [Places -> Contents \union {NoFile}]
            BY <2>1, <3>1 DEF Renamed
        <3> QED BY <1>4, <2>1, <3>1, <3>2 DEF MovePromoted
    <2>2. CASE Answer(c) /\ UNCHANGED disk /\ Failing(disk[cur[c].from] = NoFile)
        BY <1>4, <2>2 DEF MovePromoted
    <2> QED BY <1>4, <2>1, <2>2 DEF MovePromoted
<1>5. ASSUME NEW c \in Clients, RecordPromotion(c) PROVE DupTypes'
    BY <1>5 DEF RecordPromotion, HasRow
<1>6. ASSUME NEW c \in Clients, BulkRequest(c) PROVE DupTypes'
    <2>1. Identical \subseteq Change
        BY BulkPlan
    <2> QED BY <1>6, <2>1 DEF BulkRequest
<1>7. ASSUME NEW c \in Clients, RescanRequest(c) PROVE DupTypes'
    <2>1. PlanRescan \subseteq Change
        BY PromotionPlan, NewDupPlan DEF PlanRescan
    <2> QED BY <1>7, <2>1 DEF RescanRequest
<1>8. ASSUME NEW c \in Clients, Forget(c) PROVE DupTypes'
    BY <1>8 DEF Forget
<1>9. ASSUME NEW c \in Clients, Shift(c) PROVE DupTypes'
    <2>1. CASE Goto(c, "update") /\ Fine /\ disk' = Renamed(cur[c].from, cur[c].to)
        <3>1. cur[c].from \in Places /\ cur[c].to \in Places /\ cur[c] \in Change
            BY <1>9 DEF Shift
        <3>2. disk' \in [Places -> Contents \union {NoFile}]
            BY <2>1, <3>1 DEF Renamed
        <3> QED BY <1>9, <2>1, <3>1, <3>2 DEF Shift
    <2>2. CASE Done(c, "probe") /\ UNCHANGED disk /\ Failing(disk[cur[c].from] = NoFile)
        BY <1>9, <2>2 DEF Shift
    <2> QED BY <1>9, <2>1, <2>2 DEF Shift
<1>10. ASSUME NEW c \in Clients, Update(c) PROVE DupTypes'
    BY <1>10 DEF Update, HasRow
<1>11. ASSUME NEW c \in Clients, NEW e \in todo[c], Unlink(c, e) PROVE DupTypes'
    <2>1. e \in Change
        OBVIOUS
    <2>2. CASE disk' = [disk EXCEPT ![e.from] = NoFile] /\ TakeUp(c, e, "forget") /\ Fine
        BY <1>11, <2>1, <2>2 DEF Unlink
    <2>3. CASE GiveUp(c, e, "unlink") /\ Error /\ UNCHANGED disk
        BY <1>11, <2>1, <2>3 DEF Unlink
    <2> QED BY <1>11, <2>2, <2>3 DEF Unlink
<1>12. ASSUME NEW c \in Clients, NEW e \in todo[c], Probe(c, e) PROVE DupTypes'
    <2>1. e \in Change /\ UNCHANGED <<where, disk>> /\ at[c] = "probe"
        BY <1>12 DEF Probe
    <2>2. errors' \in Nat /\ kills' = kills
        BY <1>12 DEF Probe
    <2>3. CASE TakeUp(c, e, "shift")
        BY <2>1, <2>2, <2>3
    <2>4. CASE GiveUp(c, e, "probe")
        BY <2>1, <2>2, <2>4
    <2> QED BY <1>12, <2>3, <2>4 DEF Probe
<1>13. CASE Kill
    BY <1>13 DEF Kill
<1>14. CASE UNCHANGED dupVars
    BY <1>14 DEF dupVars, request
<1> QED BY <1>1, <1>2, <1>3, <1>4, <1>5, <1>6, <1>7, <1>8, <1>9, <1>10, <1>11, <1>12, <1>13,
           <1>14 DEF DupNext

-----------------------------------------------------------------------------
(* Careful users keep to the order of Orderly.                             *)
LEMMA OrderlyStep ==
    ASSUME DupTypes, Orderly, DupNext, Careful
    PROVE  Orderly'
<1> USE DEF DupTypes, Orderly, Promoting, Deleting, Rescanning, Begin, Goto, Answer, TakeUp,
        GiveUp, Done
<1> DEFINE Q == \A c \in Clients : at'[c] \in {"idle"} \union Promoting => todo'[c] = {}
<1>1. \A c, d \in Clients : at'[c] \in Rescanning /\ at'[d] \in Rescanning => c = d
    BY DEF Careful
<1>2. \A c \in Clients : at'[c] \in Promoting => \A d \in Clients \ {c} : at'[d] = "idle"
    BY DEF Careful, Alone
<1>3. Q
    <2>1. ASSUME NEW c \in Clients, PromoteRequest(c) PROVE Q
        BY <2>1 DEF PromoteRequest
    <2>2. ASSUME NEW c \in Clients, ReadPrimary(c) \/ RemovePrimary(c) PROVE Q
        BY <2>2 DEF ReadPrimary, RemovePrimary
    <2>3. ASSUME NEW c \in Clients, MovePromoted(c) \/ RecordPromotion(c) PROVE Q
        BY <2>3 DEF MovePromoted, RecordPromotion
    <2>4. ASSUME NEW c \in Clients, BulkRequest(c) \/ RescanRequest(c) PROVE Q
        BY <2>4 DEF BulkRequest, RescanRequest
    <2>5. ASSUME NEW c \in Clients, Forget(c) \/ Shift(c) \/ Update(c) PROVE Q
        BY <2>5 DEF Forget, Shift, Update
    <2>6. ASSUME NEW c \in Clients, NEW e \in todo[c], Unlink(c, e) \/ Probe(c, e) PROVE Q
        BY <2>6 DEF Unlink, Probe
    <2>7. CASE Kill
        BY <2>7 DEF Kill
    <2> QED BY <2>1, <2>2, <2>3, <2>4, <2>5, <2>6, <2>7 DEF DupNext
<1> QED BY <1>1, <1>2, <1>3

-----------------------------------------------------------------------------
(* A step that neither touches files and rows nor adds to a plan or        *)
(* passes one of the points of no return.                                  *)
Recorded(c) == at[c] \in {"update", "record"} \/ (at[c] = "move" /\ partner[c] # NoRow)

OnlyControl ==
    /\ UNCHANGED <<where, disk>>
    /\ errors + kills > 0 => errors' + kills' > 0
    /\ \A d \in Clients :
          /\ Planned(d)' \subseteq Planned(d)
          /\ at'[d] \in Deleting => at[d] \in Deleting
          /\ at'[d] \in Rescanning => at[d] \in Rescanning
          /\ Recorded(d)' <=> Recorded(d)
          /\ Recorded(d) => at'[d] = at[d] /\ cur'[d] = cur[d] /\ partner'[d] = partner[d]

(* Such a step leaves every copy where it was.                             *)
LEMMA ControlSafe ==
    ASSUME DupTypes, DupTypes', PrimariesApart, \A i \in Ids : Kept(Content[i]), OnlyControl
    PROVE  PrimariesApart' /\ \A i \in Ids : Kept(Content[i])'
<1>1. \A i \in Ids : (Doomed(i)' => Doomed(i)) /\ (Moving(i)' => Moving(i))
    BY DEF OnlyControl, Doomed, Moving
<1>2. \A i \in Ids : (InTransit(i)' <=> InTransit(i)) /\ (Replaced(i)' <=> Replaced(i))
    BY DupAssumption DEF OnlyControl, Recorded, InTransit, Replaced
<1>0. \A d \in Clients : at'[d] \in {"update", "record"} => at'[d] = at[d] /\ cur'[d] = cur[d]
    BY DEF OnlyControl, Recorded
<1>3. \A i \in Ids : /\ Primary(i)' <=> Primary(i)
                     /\ Held(i)' <=> Held(i)
                     /\ HasRow(i)' <=> HasRow(i)
    BY DEF OnlyControl, Primary, HasRow, IsDup, Held
<1>4. PrimariesApart'
    <2>1. \A i \in Ids : Firm(i) => Firm(i)'
        BY <1>1, <1>3 DEF Firm
    <2> QED BY <1>2, <1>3, <2>1 DEF PrimariesApart, OnlyControl
<1>5. ASSUME NEW i \in Ids PROVE Kept(Content[i])'
    <2> DEFINE x == Content[i]
    <2>1. CASE errors + kills > 0 /\ Stray(x)
        <3>1. errors' + kills' > 0
            BY <2>1 DEF OnlyControl
        <3>2. Stray(x)'
            <4>1. PICK p \in Places \ DupPlaces :
                       /\ disk[p] = x /\ \A j \in Ids : where[j] # p
                       /\ \A c \in Clients :
                             /\ at[c] \in Rescanning => \A e \in Planned(c) : e.from # p
                             /\ at[c] \in {"update", "record"} => cur[c].to # p
                BY <2>1 DEF Stray
            <4>2. disk'[p] = x /\ \A j \in Ids : where'[j] # p
                BY <4>1 DEF OnlyControl
            <4>3. \A c \in Clients :
                             /\ at'[c] \in Rescanning => \A e \in Planned(c)' : e.from # p
                             /\ at'[c] \in {"update", "record"} => cur'[c].to # p
                BY <4>1, <1>0 DEF OnlyControl
            <4> QED BY <4>2, <4>3 DEF Stray
        <3> QED BY <3>1, <3>2 DEF Kept
    <2>2. CASE Anchored(x)
        <3>1. Anchored(x)'
            BY <2>2, <1>1, <1>2, <1>3 DEF Anchored, Firm
        <3> QED BY <3>1 DEF Kept
    <2>3. CASE Orphaned(x)
        <3>1. Unlisted(x)'
            BY <2>3, <1>1, <1>3 DEF Orphaned, Unlisted
        <3>2. \A j \in Ids : Undisturbed(j) => Undisturbed(j)'
            <4> SUFFICES ASSUME NEW j \in Ids, Undisturbed(j) PROVE Undisturbed(j)'
                OBVIOUS
            <4>1. \A c \in Clients : \A e \in Planned(c)' :
                     e.from = where'[j] => at'[c] \notin Deleting /\ e.id = j
                BY <1>0 DEF Undisturbed, OnlyControl
            <4> QED BY <1>0, <1>3, <4>1 DEF Undisturbed, OnlyControl
        <3> QED BY <2>3, <1>3, <3>1, <3>2 DEF Orphaned, Kept
    <2>4. CASE Travelling(x)
        <3>1. Unlisted(x) => Unlisted(x)'
            BY <1>1, <1>3 DEF Unlisted
        <3>2. Travelling(x)'
            BY <2>4, <3>1 DEF Travelling, OnlyControl, Recorded, HasRow
        <3> QED BY <3>2 DEF Kept
    <2> QED BY <1>5, <2>1, <2>2, <2>3, <2>4 DEF Kept
<1> QED BY <1>4, <1>5

(* Errors are counted; a call that goes well counts none.                  *)
LEMMA CountsGrow ==
    ASSUME DupTypes
    PROVE  /\ Error => errors' + kills' > 0
           /\ Fine => UNCHANGED <<errors, kills>>
           /\ \A reason : Failing(reason) => (errors + kills > 0 => errors' + kills' > 0)
<1>1. errors \in Nat /\ kills \in Nat
    BY DEF DupTypes
<1>2. Error => errors' + kills' > 0
    BY <1>1 DEF Error
<1>3. Fine => UNCHANGED <<errors, kills>>
    BY DEF Fine, bounds
<1> QED BY <1>2, <1>3 DEF Failing

(* A content is a file.                                                    *)
LEMMA ContentIsNoFile == \A i \in Ids : Content[i] # NoFile
BY DupAssumption

(* Each of the steps below that only concern control.                      *)
LEMMA PromoteRequestSafe ==
    ASSUME DupTypes, DupTypes', Safe, Orderly', NEW c \in Clients, PromoteRequest(c), Careful
    PROVE  Safe'
<1> USE DEF Promoting, Deleting, Rescanning
<1>1. /\ at[c] = "idle" /\ at'[c] \in {"primary", "move"}
      /\ UNCHANGED <<where, disk, victim, todo, errors, kills>>
      /\ \A d \in Clients \ {c} : at[d] = "idle" /\ at'[d] = "idle"
      /\ Sound(cur'[c], partner'[c])
    BY DEF PromoteRequest, Begin, Fine, bounds, DupTypes, Careful, Alone
<1>2. \A d \in Clients : todo[d] = {} /\ Planned(d) = {} /\ Planned(d)' = {}
    BY <1>1 DEF Safe, Orderly, Planned
<1>3. OnlyControl
    <2>1. ~Recorded(c) /\ ~Recorded(c)'
        <3>1. at'[c] = "move" => partner'[c] = NoRow
            BY DupAssumption DEF PromoteRequest, DupTypes
        <3> QED BY <1>1, <3>1 DEF Recorded
    <2> QED BY <1>1, <1>2, <2>1 DEF OnlyControl, Recorded
<1>4. PromotionHolds(c)'
    <2>1. PICK i \in Ids, j \in Ids \union {NoRow} :
              /\ IsDup(i)
              /\ cur'[c] = [id |-> i, from |-> where[i], to |-> Derived[where[i]]]
              /\ partner'[c] = j
              /\ at'[c] = IF j = NoRow THEN "move" ELSE "primary"
        BY DEF PromoteRequest, DupTypes
    <2>2. cur'[c].from \in DupPlaces /\ cur'[c].to \notin DupPlaces /\ where[i] \in DupPlaces
        BY <2>1, DupAssumption DEF IsDup
    <2>3. \A k \in Ids : HasRow(k) => Held(k)'
        BY <1>1 DEF Sound, Held
    <2>4. HasRow(i)
        BY <2>2, DupAssumption DEF HasRow
    <2> QED BY <1>1, <2>1, <2>2, <2>3, <2>4 DEF PromotionHolds, Sound, Primary, HasRow, IsDup, Held
<1>5. \A d \in Clients : at'[d] \in Promoting => PromotionHolds(d)'
    BY <1>1, <1>4
<1>6. \A d \in Clients : at'[d] \notin Rescanning
    BY <1>1
<1> QED BY <1>2, <1>3, <1>5, <1>6, ControlSafe DEF Safe

(* Reading the row of the primary loses nothing.                           *)
LEMMA ReadPrimarySafe ==
    ASSUME DupTypes, DupTypes', Safe, Orderly', NEW c \in Clients, ReadPrimary(c), Careful
    PROVE  Safe'
<1> USE DEF Promoting, Deleting, Rescanning
<1>1. /\ at[c] = "primary" /\ at'[c] \in {"unseat", "idle"}
      /\ UNCHANGED <<where, disk, todo>>
      /\ errors + kills > 0 => errors' + kills' > 0
      /\ \A d \in Clients \ {c} : at[d] = "idle" /\ at'[d] = "idle"
      /\ at'[c] = "unseat" => /\ UNCHANGED <<cur, partner>>
                              /\ victim'[c] = where[partner[c]]
    <2>1. at[c] = "primary" /\ UNCHANGED <<where, disk, todo>>
        BY DEF ReadPrimary, Answer
    <2>2. where[partner[c]] # NoPlace
        BY <2>1 DEF Safe, PromotionHolds, Primary, HasRow
    <2>3. errors + kills > 0 => errors' + kills' > 0
        BY CountsGrow DEF ReadPrimary
    <2>4. \A d \in Clients \ {c} : at[d] = "idle" /\ at'[d] = "idle"
        BY <2>1 DEF Careful, Alone
    <2> QED BY <2>1, <2>2, <2>3, <2>4 DEF ReadPrimary, Answer, DupTypes
<1>2. \A d \in Clients : todo[d] = {} /\ Planned(d) = {} /\ Planned(d)' = {}
    BY <1>1 DEF Safe, Orderly, Planned
<1>3. OnlyControl
    BY <1>1, <1>2 DEF OnlyControl, Recorded
<1>4. at'[c] = "unseat" => PromotionHolds(c)'
    <2> SUFFICES ASSUME at'[c] = "unseat" PROVE PromotionHolds(c)'
        OBVIOUS
    <2>1. PromotionHolds(c)
        BY <1>1 DEF Safe
    <2>2. \A i \in Ids : ~Replaced(i)
        BY <1>1 DEF Replaced
    <2> QED BY <1>1, <2>1, <2>2 DEF PromotionHolds, Primary, HasRow, IsDup, Held
<1>5. \A d \in Clients : at'[d] \in Promoting => PromotionHolds(d)'
    BY <1>1, <1>4
<1>6. \A d \in Clients : at'[d] \notin Rescanning
    BY <1>1
<1> QED BY <1>2, <1>3, <1>5, <1>6, ControlSafe DEF Safe

(* A promotion is on its own: nobody plans anything.                       *)
LEMMA OnItsOwn ==
    ASSUME DupTypes, DupTypes', Orderly, Orderly', Careful, NEW c \in Clients,
           at[c] \in Promoting, at'[c] \in Promoting \union {"idle"}
    PROVE  /\ \A d \in Clients \ {c} : at[d] = "idle" /\ at'[d] = "idle"
           /\ \A d \in Clients : /\ todo[d] = {} /\ Planned(d) = {} /\ Planned(d)' = {}
                                 /\ at[d] \notin Rescanning /\ at'[d] \notin Rescanning
           /\ \A i \in Ids : /\ ~Doomed(i) /\ ~Doomed(i)' /\ ~Moving(i) /\ ~Moving(i)'
                             /\ ~InTransit(i) /\ ~InTransit(i)'
<1> USE DEF Promoting, Deleting, Rescanning
<1>1. \A d \in Clients \ {c} : at[d] = "idle" /\ at'[d] = "idle"
    BY DEF Careful, Alone
<1>2. \A d \in Clients : /\ todo[d] = {} /\ Planned(d) = {} /\ Planned(d)' = {}
                         /\ at[d] \notin Rescanning /\ at'[d] \notin Rescanning
    BY <1>1 DEF Orderly, Planned
<1> QED BY <1>1, <1>2 DEF Doomed, Moving, InTransit

(* Between the removal of the primary and the move, the copy at the        *)
(* duplicate's place is what is left.                                      *)
LEMMA RemovePrimarySafe ==
    ASSUME DupTypes, DupTypes', Safe, Orderly', NEW c \in Clients, RemovePrimary(c), Careful
    PROVE  Safe'
<1> USE DEF Promoting, Deleting, Rescanning
<1>1. at[c] = "unseat" /\ at'[c] \in {"move", "idle"} /\ UNCHANGED where /\ Orderly
    BY DEF RemovePrimary, Answer, Goto, DupTypes, Safe
<1>2. /\ \A d \in Clients \ {c} : at[d] = "idle" /\ at'[d] = "idle"
      /\ \A d \in Clients : /\ todo[d] = {} /\ Planned(d) = {} /\ Planned(d)' = {}
                            /\ at[d] \notin Rescanning /\ at'[d] \notin Rescanning
      /\ \A i \in Ids : /\ ~Doomed(i) /\ ~Doomed(i)' /\ ~Moving(i) /\ ~Moving(i)'
                        /\ ~InTransit(i) /\ ~InTransit(i)'
    BY <1>1, OnItsOwn
<1>3. PromotionHolds(c)
    BY <1>1 DEF Safe
<1>4. CASE Answer(c) /\ Error /\ UNCHANGED disk
    <2>1. at'[c] = "idle"
        BY <1>4 DEF Answer, DupTypes
    <2>2. OnlyControl
        BY <1>1, <1>2, <1>4, <2>1, CountsGrow DEF OnlyControl, Recorded
    <2> QED BY <1>2, <2>1, <2>2, ControlSafe DEF Safe
<1>5. CASE disk' = [disk EXCEPT ![victim[c]] = NoFile] /\ Goto(c, "move") /\ Fine
    <2> DEFINE j == partner[c]
    <2>1. /\ at'[c] = "move" /\ UNCHANGED <<cur, partner, errors, kills>>
          /\ j \in Ids /\ Primary(j) /\ victim[c] = where[j] /\ Content[j] = Content[cur[c].id]
        BY <1>1, <1>3, <1>5, CountsGrow DEF Goto, DupTypes, PromotionHolds
    <2>2. \A i \in Ids : (Replaced(i)' <=> i = j) /\ ~Replaced(i)
        BY <1>1, <1>2, <2>1 DEF Replaced
    <2>3. \A i \in Ids : Primary(i)' <=> Primary(i)
        BY <1>1 DEF Primary, HasRow, IsDup
    <2>4. \A i \in Ids : HasRow(i) /\ where[i] # where[j] => disk'[where[i]] = disk[where[i]]
        BY <1>5, <2>1 DEF DupTypes, HasRow
    <2>5. \A i \in Ids : Primary(i) /\ i # j => where[i] # where[j]
        BY <2>1, <1>1 DEF Safe, PrimariesApart
    <2>6. \A i \in Ids : Primary(i) /\ i # j => (Held(i)' <=> Held(i))
        BY <1>1, <2>4, <2>5 DEF Held, Primary
    <2>7. PrimariesApart'
        <3>1. \A i \in Ids : Primary(i) /\ i # j => disk'[where'[i]] # NoFile
            BY <1>1, <1>2, <2>2, <2>4, <2>5 DEF Safe, PrimariesApart, Primary
        <3>2. \A i \in Ids : Primary(i) /\ i # j => Firm(i)'
            BY <1>2, <1>3, <2>2, <2>3, <2>6 DEF PromotionHolds, Firm
        <3> QED BY <1>1, <2>2, <2>3, <3>1, <3>2 DEF Safe, PrimariesApart
    <2>8. PromotionHolds(c)'
        <3>1. where[cur[c].id] # where[j] /\ cur[c].id \in Ids /\ HasRow(cur[c].id)
            BY <1>1, <1>3, <2>1, DupAssumption
               DEF PromotionHolds, Primary, IsDup, DupTypes, Change, HasRow
        <3>2. Held(cur[c].id)'
            BY <1>1, <1>3, <2>1, <2>4, <3>1 DEF PromotionHolds, Held
        <3>3. disk'[cur[c].to] = NoFile
            BY <1>1, <1>3, <1>5, <2>1 DEF PromotionHolds, DupTypes, Change
        <3> QED BY <1>1, <1>3, <2>1, <2>2, <2>3, <2>6, <3>2, <3>3 DEF PromotionHolds
    <2>9. ASSUME NEW i \in Ids PROVE Kept(Content[i])'
        <3> DEFINE x == Content[i]
        <3>1. CASE x = Content[j]
            BY <1>1, <2>1, <3>1, DupAssumption DEF Kept, Travelling
        <3>2. CASE x # Content[j]
            <4>1. CASE errors + kills > 0 /\ Stray(x)
                <5>1. PICK p \in Places \ DupPlaces : disk[p] = x /\ \A k \in Ids : where[k] # p
                    BY <4>1 DEF Stray
                <5>2. disk'[p] = x
                    BY <1>5, <2>1, <5>1 DEF DupTypes
                <5>3. Stray(x)'
                    BY <1>1, <1>2, <2>1, <5>1, <5>2 DEF Stray
                <5> QED BY <4>1, <5>3, <2>1 DEF Kept
            <4>2. CASE Anchored(x)
                <5>1. Anchored(x)'
                    BY <1>2, <2>2, <2>3, <2>6, <3>2, <4>2 DEF Anchored, Firm
                <5> QED BY <5>1 DEF Kept
            <4>3. CASE Orphaned(x)
                <5>1. Unlisted(x)'
                    BY <1>2, <2>3, <4>3 DEF Orphaned, Unlisted
                <5>2. \A k \in Ids : HasRow(k) /\ Content[k] = x /\ Undisturbed(k) => Undisturbed(k)'
                    <6>1. \A k \in Ids : HasRow(k) /\ Content[k] = x => where[k] # where[j]
                        BY <2>1, <3>2, <4>3 DEF Orphaned, Undisturbed
                    <6> QED BY <1>1, <1>2, <2>4, <6>1 DEF Undisturbed, Held
                <5> QED BY <1>1, <4>3, <5>1, <5>2 DEF Orphaned, HasRow, Kept
            <4>4. ~Travelling(x)
                BY <1>1, <1>2 DEF Travelling
            <4> QED BY <4>1, <4>2, <4>3, <4>4 DEF Safe, Kept
        <3> QED BY <3>1, <3>2
    <2> QED BY <1>2, <2>1, <2>7, <2>8, <2>9 DEF Safe
<1> QED BY <1>4, <1>5 DEF RemovePrimary

(* The move replaces nothing: its target is free or freed.                 *)
LEMMA MovePromotedSafe ==
    ASSUME DupTypes, DupTypes', Safe, Orderly', NEW c \in Clients, MovePromoted(c), Careful
    PROVE  Safe'
<1> USE DEF Promoting, Deleting, Rescanning
<1>1. at[c] = "move" /\ at'[c] \in {"record", "idle"} /\ UNCHANGED where /\ Orderly
    BY DEF MovePromoted, Answer, Goto, DupTypes, Safe
<1>2. /\ \A d \in Clients \ {c} : at[d] = "idle" /\ at'[d] = "idle"
      /\ \A d \in Clients : /\ todo[d] = {} /\ Planned(d) = {} /\ Planned(d)' = {}
                            /\ at[d] \notin Rescanning /\ at'[d] \notin Rescanning
      /\ \A i \in Ids : /\ ~Doomed(i) /\ ~Doomed(i)' /\ ~Moving(i) /\ ~Moving(i)'
                        /\ ~InTransit(i) /\ ~InTransit(i)'
    BY <1>1, OnItsOwn
<1> DEFINE u == cur[c].id
           p == cur[c].from
           q == cur[c].to
<1>3. /\ PromotionHolds(c)
      /\ u \in Ids /\ p \in DupPlaces /\ q \in Places \ DupPlaces
      /\ where[u] = p /\ disk[p] = Content[u] /\ disk[q] = NoFile /\ Content[u] # NoFile
    <2>1. PromotionHolds(c)
        BY <1>1 DEF Safe
    <2>2. cur[c] \in Change
        BY <1>1 DEF DupTypes
    <2>3. u \in Ids /\ p \in Places /\ q \in Places
        BY <2>2 DEF Change
    <2>4. p \in DupPlaces /\ q \notin DupPlaces /\ where[u] = p /\ Held(u) /\ disk[q] = NoFile
        BY <1>1, <2>1 DEF PromotionHolds
    <2> QED BY <2>1, <2>3, <2>4, DupAssumption DEF Held
<1>4. CASE Answer(c) /\ UNCHANGED disk /\ Failing(disk[cur[c].from] = NoFile)
    <2>1. at'[c] = "idle"
        BY <1>4 DEF Answer, DupTypes
    <2>2. partner[c] = NoRow
        <3>1. Error
            BY <1>3, <1>4 DEF Failing
        <3>2. ~UNCHANGED bounds
            BY <3>1 DEF Error, bounds, DupTypes
        <3> QED BY <1>1, <3>2 DEF Careful
    <2>3. OnlyControl
        BY <1>1, <1>2, <1>4, <2>1, <2>2, CountsGrow DEF OnlyControl, Recorded
    <2> QED BY <1>2, <2>1, <2>3, ControlSafe DEF Safe
<1>5. CASE disk' = Renamed(p, q) /\ Goto(c, "record") /\ Fine
    <2> DEFINE j == partner[c]
    <2>1. at'[c] = "record" /\ UNCHANGED <<cur, partner, errors, kills>>
        BY <1>1, <1>5, CountsGrow DEF Goto, DupTypes
    <2>2. \A i \in Ids : (Replaced(i)' <=> i = j) /\ (Replaced(i) <=> i = j)
        BY <1>1, <1>2, <2>1 DEF Replaced
    <2>3. /\ disk'[q] = Content[u] /\ disk'[p] = NoFile
          /\ \A r \in Places : r \notin {p, q} => disk'[r] = disk[r]
        BY <1>3, <1>5 DEF Renamed, DupTypes
    <2>4. \A i \in Ids : Primary(i)' <=> Primary(i)
        BY <1>1 DEF Primary, HasRow, IsDup
    <2>5. \A i \in Ids : where[i] = q => i = j
        <3>1. \A i \in Ids : where[i] = q => Primary(i)
            BY <1>3, DupAssumption DEF Primary, HasRow, IsDup
        <3>2. \A i \in Ids : Primary(i) => disk[where[i]] # NoFile \/ i = j
            BY <1>2, <2>2 DEF Safe, PrimariesApart
        <3> QED BY <1>3, <3>1, <3>2
    <2>6. \A i \in Ids : Primary(i) /\ i # j => disk'[where[i]] = disk[where[i]]
        <3>1. \A i \in Ids : Primary(i) => where[i] \in Places /\ where[i] # p
            BY <1>3 DEF Primary, HasRow, IsDup, DupTypes
        <3> QED BY <2>3, <2>5, <3>1
    <2>7. \A i \in Ids : Primary(i) /\ i # j => Held(i) /\ Held(i)' /\ Firm(i)'
        BY <1>1, <1>2, <1>3, <2>2, <2>4, <2>6 DEF PromotionHolds, Firm, Held
    <2>8. PrimariesApart'
        <3>1. \A i \in Ids : Primary(i) /\ i # j => disk'[where'[i]] # NoFile
            BY <1>1, <2>7, ContentIsNoFile DEF Held
        <3> QED BY <1>1, <2>2, <2>4, <2>7, <3>1 DEF Safe, PrimariesApart
    <2>9. PromotionHolds(c)'
        <3>1. partner[c] # NoRow => Primary(j)' /\ Content[j] = Content[u]
            <4>1. partner[c] # NoRow => Primary(j) /\ Content[j] = Content[u]
                BY <1>3 DEF PromotionHolds
            <4>2. partner[c] # NoRow => j \in Ids
                BY DEF DupTypes
            <4> QED BY <2>1, <2>4, <4>1, <4>2
        <3>2. \A i \in Ids : Primary(i)' => Held(i)' \/ Replaced(i)'
            BY <2>2, <2>4, <2>7
        <3> QED BY <1>1, <1>3, <2>1, <2>3, <2>5, <3>1, <3>2 DEF PromotionHolds
    <2>10. ASSUME NEW i \in Ids PROVE Kept(Content[i])'
        <3> DEFINE x == Content[i]
        <3>1. CASE x = Content[u]
            BY <2>1, <3>1, DupAssumption DEF Kept, Travelling
        <3>2. CASE x # Content[u]
            <4>1. CASE errors + kills > 0 /\ Stray(x)
                <5>1. PICK r \in Places \ DupPlaces : disk[r] = x /\ \A k \in Ids : where[k] # r
                    BY <4>1 DEF Stray
                <5>2. disk'[r] = x /\ r # q
                    BY <1>3, <2>3, <5>1, DupAssumption
                <5>3. Stray(x)'
                    BY <1>1, <1>2, <2>1, <5>1, <5>2 DEF Stray
                <5> QED BY <4>1, <5>3, <2>1 DEF Kept
            <4>2. CASE Anchored(x)
                <5>1. Anchored(x)'
                    BY <1>2, <2>2, <2>7, <4>2 DEF Anchored, Firm
                <5> QED BY <5>1 DEF Kept
            <4>3. CASE Orphaned(x)
                <5>1. Unlisted(x)'
                    BY <1>2, <2>4, <4>3 DEF Orphaned, Unlisted
                <5>2. \A k \in Ids : HasRow(k) /\ Content[k] = x /\ Undisturbed(k) => Undisturbed(k)'
                    <6>1. \A k \in Ids : HasRow(k) /\ Content[k] = x /\ Undisturbed(k)
                                            => where[k] # p /\ where[k] # q
                        BY <1>3, <3>2, DupAssumption DEF Undisturbed, Held
                    <6> QED BY <1>1, <1>2, <2>3, <6>1 DEF Undisturbed, Held, HasRow, DupTypes
                <5> QED BY <1>1, <4>3, <5>1, <5>2 DEF Orphaned, HasRow, Kept
            <4>4. ~Travelling(x)
                BY <1>1, <1>2, <3>2 DEF Travelling
            <4> QED BY <4>1, <4>2, <4>3, <4>4 DEF Safe, Kept
        <3> QED BY <3>1, <3>2
    <2> QED BY <1>2, <2>1, <2>8, <2>9, <2>10 DEF Safe
<1> QED BY <1>4, <1>5 DEF MovePromoted

(* A promotion without a primary that ends before its record leaves a file *)
(* without a row, out of everybody's reach.                                *)
LEMMA UnrecordedSafe ==
    ASSUME DupTypes, DupTypes', Safe, Orderly', Careful, NEW c \in Clients, at[c] = "record",
           partner[c] = NoRow, at'[c] = "idle", UNCHANGED <<where, disk>>, errors' + kills' > 0
    PROVE  Safe'
<1> USE DEF Promoting, Deleting, Rescanning
<1>1. Orderly /\ PromotionHolds(c)
    BY DEF Safe
<1>2. /\ \A d \in Clients \ {c} : at[d] = "idle" /\ at'[d] = "idle"
      /\ \A d \in Clients : /\ todo[d] = {} /\ Planned(d) = {} /\ Planned(d)' = {}
                            /\ at[d] \notin Rescanning /\ at'[d] \notin Rescanning
      /\ \A i \in Ids : /\ ~Doomed(i) /\ ~Doomed(i)' /\ ~Moving(i) /\ ~Moving(i)'
                        /\ ~InTransit(i) /\ ~InTransit(i)'
    BY <1>1, OnItsOwn
<1>3. \A i \in Ids : ~Replaced(i) /\ ~Replaced(i)'
    BY <1>2, DupAssumption DEF Replaced
<1>4. \A i \in Ids : /\ Primary(i)' <=> Primary(i)
                     /\ Held(i)' <=> Held(i)
                     /\ Firm(i)' <=> Firm(i)
    BY <1>2 DEF Primary, HasRow, IsDup, Held, Firm
<1>5. PrimariesApart'
    BY <1>2, <1>3, <1>4 DEF Safe, PrimariesApart
<1>6. ASSUME NEW i \in Ids PROVE Kept(Content[i])'
    <2> DEFINE x == Content[i]
               q == cur[c].to
    <2>1. CASE x = Content[cur[c].id]
        <3>1. q \in Places \ DupPlaces /\ disk[q] = x /\ \A k \in Ids : where[k] # q
            BY <1>1, <2>1, DupAssumption DEF PromotionHolds, DupTypes, Change
        <3>2. Stray(x)'
            BY <1>2, <3>1 DEF Stray
        <3> QED BY <3>2 DEF Kept
    <2>2. CASE x # Content[cur[c].id]
        <3>1. Stray(x) => Stray(x)'
            BY <1>2 DEF Stray
        <3>2. Anchored(x) => Anchored(x)'
            BY <1>2, <1>3, <1>4 DEF Anchored
        <3>3. Unlisted(x) => Unlisted(x)'
            BY <1>2, <1>4 DEF Unlisted
        <3>4. \A k \in Ids : Undisturbed(k) => Undisturbed(k)'
            BY <1>2, <1>4 DEF Undisturbed
        <3>5. Orphaned(x) => Orphaned(x)'
            BY <3>3, <3>4 DEF Orphaned, HasRow
        <3>6. ~Travelling(x)
            BY <1>2, <2>2 DEF Travelling
        <3> QED BY <3>1, <3>2, <3>5, <3>6 DEF Safe, Kept
    <2> QED BY <2>1, <2>2
<1> QED BY <1>2, <1>5, <1>6 DEF Safe

(* Once recorded, the promoted file is a primary at its new place.         *)
LEMMA RecordPromotionSafe ==
    ASSUME DupTypes, DupTypes', Safe, Orderly', NEW c \in Clients, RecordPromotion(c), Careful
    PROVE  Safe'
<1> USE DEF Promoting, Deleting, Rescanning
<1>1. /\ at[c] = "record" /\ at'[c] = "idle" /\ UNCHANGED <<disk, todo>> /\ Orderly
      /\ PromotionHolds(c)
    BY DEF RecordPromotion, Answer, DupTypes, Safe
<1>2. /\ \A d \in Clients \ {c} : at[d] = "idle" /\ at'[d] = "idle"
      /\ \A d \in Clients : /\ todo[d] = {} /\ Planned(d) = {} /\ Planned(d)' = {}
                            /\ at[d] \notin Rescanning /\ at'[d] \notin Rescanning
      /\ \A i \in Ids : /\ ~Doomed(i) /\ ~Doomed(i)' /\ ~Moving(i) /\ ~Moving(i)'
                        /\ ~InTransit(i) /\ ~InTransit(i)'
    BY <1>1, OnItsOwn
<1>5. PICK u \in Ids, q \in Places, j \in Ids \union {NoRow} :
          u = cur[c].id /\ q = cur[c].to /\ j = partner[c]
    <2>1. cur[c] \in Change /\ partner[c] \in Ids \union {NoRow}
        BY <1>1 DEF DupTypes
    <2> QED BY <2>1 DEF Change
<1>3. CASE Error /\ UNCHANGED where
    <2>1. j = NoRow
        <3>1. ~UNCHANGED bounds
            BY <1>3 DEF Error, bounds, DupTypes
        <3> QED BY <1>1, <1>5, <3>1 DEF Careful
    <2>2. errors' + kills' > 0
        BY <1>3, CountsGrow
    <2> QED BY <1>1, <1>3, <1>5, <2>1, <2>2, UnrecordedSafe
<1>4. CASE /\ where' = [i \in Ids |-> CASE i = j -> NoPlace
                                        [] i # j /\ i = u /\ HasRow(i) -> q
                                        [] OTHER -> where[i]]
           /\ Fine
    <2>1. q \notin DupPlaces /\ IsDup(u) /\ disk[q] = Content[u] /\ u # j /\ HasRow(u)
        <3>1. q \notin DupPlaces /\ where[u] \in DupPlaces /\ disk[q] = Content[u]
            BY <1>1, <1>5 DEF PromotionHolds
        <3>2. u # j
            BY <1>1, <1>5, <3>1, DupAssumption DEF PromotionHolds, Primary, IsDup
        <3> QED BY <3>1, <3>2, DupAssumption DEF HasRow, IsDup
    <2>2. /\ where'[u] = q
          /\ \A i \in Ids : i # u /\ i # j => where'[i] = where[i]
          /\ \A i \in Ids : i = j => where'[i] = NoPlace
        BY <1>4, <1>5, <2>1
    <2>3. \A i \in Ids : ~Replaced(i)'
        BY <1>2, <1>1 DEF Replaced
    <2>4. \A i \in Ids : Replaced(i) <=> i = j
        BY <1>1, <1>2, <1>5 DEF Replaced
    <2>5. \A i \in Ids : Primary(i)' => i = u \/ (Primary(i) /\ i # j /\ i # u)
        BY <2>2 DEF Primary, HasRow, IsDup
    <2>6. \A i \in Ids : Primary(i)' => Held(i)'
        BY <1>1, <2>1, <2>2, <2>4, <2>5 DEF PromotionHolds, Held
    <2>10. \A k \in Ids : Content[k] # Content[u] => k # u /\ k # j
        BY <1>1, <1>5, DupAssumption DEF PromotionHolds
    <2>7. \A i \in Ids : Primary(i) /\ where[i] = q => i = j
        BY <1>1, <1>5 DEF PromotionHolds
    <2>8. PrimariesApart'
        <3>1. \A i, k \in Ids : Primary(i)' /\ where'[i] = where'[k] => i = k
            <4> SUFFICES ASSUME NEW i \in Ids, NEW k \in Ids, Primary(i)', where'[i] = where'[k]
                         PROVE  i = k
                OBVIOUS
            <4>1. Primary(k)'
                BY DEF Primary, HasRow, IsDup
            <4> QED BY <2>1, <2>2, <2>5, <2>7, <4>1 DEF Safe, PrimariesApart
        <3>2. \A i \in Ids : Primary(i)' => disk'[where'[i]] # NoFile
            BY <2>6, ContentIsNoFile DEF Held
        <3>3. \A i \in Ids : Primary(i)' => Firm(i)'
            BY <1>2, <2>6 DEF Firm
        <3> QED BY <3>1, <3>2, <3>3 DEF PrimariesApart
    <2>9. ASSUME NEW i \in Ids PROVE Kept(Content[i])'
        <3> DEFINE x == Content[i]
        <3>1. CASE x = Content[u]
            <4>1. Primary(u)'
                BY <2>1, <2>2, DupAssumption DEF Primary, HasRow, IsDup
            <4>2. Anchored(x)'
                BY <1>2, <2>1, <2>3, <2>6, <3>1, <4>1 DEF Anchored, Firm
            <4> QED BY <4>2 DEF Kept
        <3>2. CASE x # Content[u]
            <4>1. CASE errors + kills > 0 /\ Stray(x)
                <5>1. PICK r \in Places \ DupPlaces :
                          disk[r] = x /\ r # q /\ \A k \in Ids : where[k] # r
                    BY <1>1, <1>5, <4>1 DEF Stray
                <5>2. \A k \in Ids : where'[k] # r
                    BY <2>2, <5>1, DupAssumption
                <5>3. Stray(x)'
                    BY <1>1, <1>2, <5>1, <5>2 DEF Stray
                <5> QED BY <1>4, <4>1, <5>3, CountsGrow DEF Kept
            <4>2. CASE Anchored(x)
                <5>1. PICK k \in Ids : Content[k] = x /\ Firm(k) /\ k # j /\ k # u
                    BY <2>4, <3>2, <4>2 DEF Anchored
                <5>2. Primary(k)' /\ Held(k)'
                    BY <1>1, <2>2, <5>1 DEF Firm, Primary, HasRow, IsDup, Held
                <5>3. Anchored(x)'
                    BY <1>2, <2>3, <5>1, <5>2 DEF Anchored, Firm
                <5> QED BY <5>3 DEF Kept
            <4>3. CASE Orphaned(x)
                <5>1. \A k \in Ids : Content[k] = x => k # u /\ k # j
                    BY <2>10, <3>2
                <5>2. Unlisted(x)'
                    BY <1>2, <2>2, <4>3, <5>1 DEF Orphaned, Unlisted, Primary, HasRow, IsDup
                <5>3. \A k \in Ids : Content[k] = x => (HasRow(k)' <=> HasRow(k))
                    BY <2>2, <5>1 DEF HasRow
                <5>4. \A k \in Ids : HasRow(k) /\ Content[k] = x /\ Undisturbed(k) => Undisturbed(k)'
                    <6> SUFFICES ASSUME NEW k \in Ids, HasRow(k), Content[k] = x, Undisturbed(k)
                                 PROVE  Undisturbed(k)'
                        OBVIOUS
                    <6>1. where'[k] = where[k] /\ where[k] # q /\ where[k] # NoPlace
                        BY <1>1, <2>1, <2>2, <3>2, <5>1 DEF Undisturbed, Held, HasRow
                    <6>2. Held(k)'
                        BY <1>1, <6>1 DEF Undisturbed, Held
                    <6>3. \A l \in Ids : where'[l] = where'[k] => l = k
                        BY <2>2, <6>1 DEF Undisturbed
                    <6> QED BY <1>1, <1>2, <6>2, <6>3 DEF Undisturbed
                <5> QED BY <1>1, <4>3, <5>2, <5>3, <5>4 DEF Orphaned, Kept
            <4>4. ~Travelling(x)
                BY <1>1, <1>2, <1>5, <3>2 DEF Travelling
            <4> QED BY <4>1, <4>2, <4>3, <4>4 DEF Safe, Kept
        <3> QED BY <3>1, <3>2
    <2> QED BY <1>1, <1>2, <2>8, <2>9 DEF Safe
<1> QED BY <1>3, <1>4, <1>5 DEF RecordPromotion

-----------------------------------------------------------------------------
(* Bulk deletes.                                                           *)

(* Nothing is promoted while somebody else is at work.                     *)
LEMMA NobodyPromotes ==
    ASSUME DupTypes, DupTypes', Orderly, Orderly', Careful, NEW c \in Clients,
           at[c] \notin Promoting, at'[c] \notin Promoting,
           at[c] # "idle" \/ at'[c] # "idle"
    PROVE  \A d \in Clients : at[d] \notin Promoting /\ at'[d] \notin Promoting
BY DEF Careful, Alone, Promoting

(* A bulk delete plans for no primary and for no group without one.        *)
LEMMA BulkRequestSafe ==
    ASSUME DupTypes, DupTypes', Safe, Orderly', NEW c \in Clients, BulkRequest(c), Careful
    PROVE  Safe'
<1> USE DEF Promoting, Deleting, Rescanning
<1>1. /\ at[c] = "idle" /\ at'[c] = "unlink" /\ todo'[c] = Identical
      /\ \A d \in Clients \ {c} : at'[d] = at[d] /\ todo'[d] = todo[d]
      /\ UNCHANGED <<where, disk, cur, partner, victim, errors, kills>>
    BY DEF BulkRequest, Begin, Fine, bounds, DupTypes
<1>2. \A d \in Clients : at[d] \notin Promoting /\ at'[d] \notin Promoting
    BY <1>1, NobodyPromotes DEF Safe
<1>3. /\ Planned(c)' = Identical
      /\ \A d \in Clients \ {c} : Planned(d)' = Planned(d)
    BY <1>1 DEF Planned
<1>4. \A e \in Identical :
          /\ e.from \in DupPlaces /\ where[e.id] = e.from /\ e.id \in Ids
          /\ \E k \in Ids : Primary(k) /\ Content[k] = Content[e.id]
    BY BulkPlan DEF IsDup, Change
<1>5. \A i \in Ids : /\ Primary(i)' <=> Primary(i)
                     /\ HasRow(i)' <=> HasRow(i)
                     /\ Held(i)' <=> Held(i)
                     /\ Moving(i)' <=> Moving(i)
                     /\ InTransit(i)' <=> InTransit(i)
                     /\ ~Replaced(i) /\ ~Replaced(i)'
    BY <1>1, <1>2, <1>3 DEF Primary, HasRow, IsDup, Held, Moving, InTransit, Replaced
<1>6. \A i \in Ids : Doomed(i)' => Doomed(i) \/ \E e \in Identical : e.id = i
    BY <1>1, <1>3 DEF Doomed
<1>7. \A i \in Ids : Firm(i) => Firm(i)'
    <2>1. \A i \in Ids : Primary(i) => ~\E e \in Identical : e.id = i
        BY <1>4 DEF Primary, IsDup
    <2> QED BY <1>5, <1>6, <2>1 DEF Firm
<1>8. \A i \in Ids : Unlisted(Content[i]) => Unlisted(Content[i])'
    BY <1>4, <1>5, <1>6 DEF Unlisted
<1>9. PrimariesApart'
    BY <1>1, <1>5, <1>7 DEF Safe, PrimariesApart
<1>10. \A d \in Clients : at'[d] \in Rescanning => PlanHolds(d)'
    <2> SUFFICES ASSUME NEW d \in Clients, at'[d] \in Rescanning PROVE PlanHolds(d)'
        OBVIOUS
    <2>1. d # c /\ at'[d] = at[d] /\ Planned(d)' = Planned(d) /\ PlanHolds(d)
        BY <1>1, <1>3 DEF Safe
    <2> QED BY <1>1, <1>5, <2>1 DEF PlanHolds
<1>11. \A d \in Clients : at'[d] \in Deleting => \A e \in Planned(d)' : e.from \in DupPlaces
    BY <1>1, <1>3, <1>4 DEF Safe
<1>12. ASSUME NEW i \in Ids PROVE Kept(Content[i])'
    <2> DEFINE x == Content[i]
    <2>1. Stray(x) => Stray(x)'
        BY <1>1, <1>3 DEF Stray
    <2>2. Anchored(x) => Anchored(x)'
        BY <1>5, <1>7 DEF Anchored
    <2>3. Orphaned(x) => Orphaned(x)'
        <3> SUFFICES ASSUME Orphaned(x) PROVE Orphaned(x)'
            OBVIOUS
        <3>1. Unlisted(x)'
            BY <1>8 DEF Orphaned
        <3>2. \A k \in Ids : HasRow(k) /\ Content[k] = x /\ Undisturbed(k) => Undisturbed(k)'
            <4> SUFFICES ASSUME NEW k \in Ids, HasRow(k), Content[k] = x, Undisturbed(k) PROVE Undisturbed(k)'
                OBVIOUS
            <4>1. \A e \in Identical : e.from # where[k]
                BY <1>4 DEF Undisturbed, Orphaned, Unlisted
            <4>2. \A d \in Clients : \A e \in Planned(d)' :
                      e.from = where'[k] => at'[d] \notin Deleting /\ e.id = k
                BY <1>1, <1>3, <4>1 DEF Undisturbed
            <4> QED BY <1>1, <1>5, <4>2 DEF Undisturbed
        <3> QED BY <1>5, <3>1, <3>2 DEF Orphaned
    <2>4. Travelling(x) => Travelling(x)'
        BY <1>1, <1>2, <1>5, <1>8 DEF Travelling, HasRow
    <2> QED BY <1>1, <2>1, <2>2, <2>3, <2>4 DEF Safe, Kept
<1> QED BY <1>2, <1>9, <1>10, <1>11, <1>12 DEF Safe

(* A rescan's plan does not mind rows that go, nor files that go from the  *)
(* places of duplicates.                                                   *)
LEMMA PlanStays ==
    ASSUME DupTypes, DupTypes', NEW d \in Clients, PlanHolds(d), at[d] \in Rescanning,
           at'[d] = at[d], cur'[d] = cur[d], todo'[d] = todo[d],
           \A i \in Ids : where'[i] \in {where[i], NoPlace},
           \A p \in Places : disk'[p] \in {disk[p], NoFile},
           \A p \in Places \ DupPlaces : disk'[p] = disk[p]
    PROVE  PlanHolds(d)'
<1> USE DEF Rescanning
<1>1. Planned(d)' = Planned(d)
    BY DEF Planned
<1>2. \A e \in Planned(d) : e \in Change
    BY DEF Planned, DupTypes
<1>3. \A i \in Ids : Primary(i)' => Primary(i) /\ where'[i] = where[i]
    BY DEF Primary, HasRow, IsDup
<1>4. \A i \in Ids : where'[i] # NoPlace => where'[i] = where[i]
    OBVIOUS
<1>5. \A e \in Planned(d)' :
          /\ where'[e.id] \in {e.from, NoPlace}
          /\ e.from \in DupPlaces <=> e.to \notin DupPlaces
          /\ e.from \notin DupPlaces => \A i \in Ids : where'[i] = e.from => i = e.id
          /\ e.from \in DupPlaces => \A j \in Ids : Together(e.id, j) => ~Primary(j)'
    <2> SUFFICES ASSUME NEW e \in Planned(d)
                 PROVE  /\ where'[e.id] \in {e.from, NoPlace}
                        /\ e.from \in DupPlaces <=> e.to \notin DupPlaces
                        /\ e.from \notin DupPlaces => \A i \in Ids : where'[i] = e.from => i = e.id
                        /\ e.from \in DupPlaces => \A j \in Ids : Together(e.id, j) => ~Primary(j)'
        BY <1>1
    <2>1. e.id \in Ids /\ e.from # NoPlace
        BY <1>2, DupAssumption DEF Change
    <2> QED BY <1>3, <1>4, <2>1 DEF PlanHolds
<1>6. \A e, f \in Planned(d)' :
          /\ e.id = f.id => e = f
          /\ e.from = f.from /\ e.from \notin DupPlaces => e = f
          /\ e.from \in DupPlaces /\ f.from \in DupPlaces /\ Together(e.id, f.id) => e = f
    BY <1>1 DEF PlanHolds
<1>7. at'[d] \in {"shift", "update"} => cur'[d] \notin todo'[d]
    BY DEF PlanHolds
<1>8. \A e \in Planned(d)' : e.from \notin DupPlaces =>
          disk'[e.from] # NoFile \/ (at'[d] = "update" /\ e = cur'[d])
    BY <1>1, <1>2 DEF PlanHolds, Change
<1>9. at[d] \in {"shift", "update"} => cur[d].to \in Places /\ cur[d].from \in Places
    BY DEF DupTypes, Change
<1>10. at'[d] = "shift" => disk'[cur'[d].to] = NoFile
    BY <1>9 DEF PlanHolds
<1>11. at'[d] = "update" =>
          /\ disk'[cur'[d].from] = NoFile
          /\ cur'[d].to \notin DupPlaces => disk'[cur'[d].to] # NoFile
          /\ \A i \in Ids : Primary(i)' => where'[i] # cur'[d].to
          /\ \A e \in todo'[d] : e.from \notin DupPlaces => e.from # cur'[d].to
    BY <1>3, <1>9 DEF PlanHolds
<1> HIDE DEF Rescanning
<1> QED BY <1>5, <1>6, <1>7, <1>8, <1>10, <1>11 DEF PlanHolds, Together

(* It removes files at places of duplicates only, none of them the place   *)
(* of an orphan ...                                                        *)
LEMMA UnlinkSafe ==
    ASSUME DupTypes, DupTypes', Safe, Orderly', NEW c \in Clients, NEW e \in todo[c],
           Unlink(c, e), Careful
    PROVE  Safe'
<1> USE DEF Promoting, Deleting, Rescanning
<1>1. /\ at[c] = "unlink" /\ at'[c] \in {"unlink", "forget", "idle"}
      /\ UNCHANGED <<where, partner, victim>> /\ Orderly
      /\ \A d \in Clients \ {c} : at'[d] = at[d] /\ todo'[d] = todo[d] /\ cur'[d] = cur[d]
    BY DEF Unlink, TakeUp, GiveUp, DupTypes, Safe
<1>2. \A d \in Clients : at[d] \notin Promoting /\ at'[d] \notin Promoting
    BY <1>1, NobodyPromotes
<1>3. /\ \A d \in Clients \ {c} : Planned(d)' = Planned(d)
      /\ Planned(c) = todo[c]
    BY <1>1 DEF Planned
<1>4. e.from \in DupPlaces /\ e.from \in Places
    BY <1>1, <1>3, DupAssumption DEF Safe
<1>5. \A d \in Clients : at'[d] \in Rescanning => d # c /\ at[d] \in Rescanning /\ PlanHolds(d)
    BY <1>1 DEF Safe
<1>6. CASE GiveUp(c, e, "unlink") /\ Error /\ UNCHANGED disk
    <2>1. at'[c] # "forget" /\ Planned(c)' \subseteq Planned(c) /\ at'[c] \in {"unlink", "idle"}
        BY <1>1, <1>3, <1>6 DEF GiveUp, DupTypes, Planned
    <2>2. OnlyControl
        BY <1>1, <1>2, <1>3, <1>6, <2>1, CountsGrow DEF OnlyControl, Recorded
    <2>3. \A d \in Clients : at'[d] \in Rescanning => PlanHolds(d)'
        BY <1>1, <1>5, <1>6, PlanStays
    <2>4. \A d \in Clients : at'[d] \in Deleting => \A f \in Planned(d)' : f.from \in DupPlaces
        BY <2>2 DEF OnlyControl, Safe
    <2> QED BY <1>2, <2>2, <2>3, <2>4, ControlSafe DEF Safe
<1>7. CASE disk' = [disk EXCEPT ![e.from] = NoFile] /\ TakeUp(c, e, "forget") /\ Fine
    <2>1. Planned(c)' = Planned(c) /\ at'[c] = "forget" /\ UNCHANGED <<errors, kills>>
        <3>1. at'[c] = "forget" /\ todo'[c] = todo[c] \ {e} /\ cur'[c] = e
            BY <1>7 DEF TakeUp, DupTypes
        <3>2. Planned(c)' = Planned(c)
            BY <1>3, <3>1 DEF Planned
        <3> QED BY <1>7, <3>1, <3>2, CountsGrow
    <2>2. /\ disk'[e.from] = NoFile
          /\ \A p \in Places : p # e.from => disk'[p] = disk[p]
          /\ \A p \in Places \ DupPlaces : disk'[p] = disk[p]
        BY <1>4, <1>7 DEF DupTypes
    <2>3. \A i \in Ids : /\ Primary(i)' <=> Primary(i)
                         /\ HasRow(i)' <=> HasRow(i)
                         /\ Doomed(i)' <=> Doomed(i)
                         /\ Moving(i)' <=> Moving(i)
                         /\ InTransit(i)' <=> InTransit(i)
                         /\ ~Replaced(i) /\ ~Replaced(i)'
        BY <1>1, <1>2, <1>3, <2>1
           DEF Primary, HasRow, IsDup, Doomed, Moving, InTransit, Replaced
    <2>4. \A i \in Ids : Primary(i) => where[i] \in Places \ DupPlaces
        BY DEF Primary, HasRow, IsDup, DupTypes
    <2>5. \A i \in Ids : Firm(i)' <=> Firm(i)
        BY <1>1, <2>2, <2>3, <2>4 DEF Firm, Held
    <2>6. PrimariesApart'
        BY <1>1, <2>2, <2>3, <2>4, <2>5 DEF Safe, PrimariesApart
    <2>7. \A d \in Clients : at'[d] \in Rescanning => PlanHolds(d)'
        BY <1>1, <1>5, <2>2, PlanStays
    <2>8. \A d \in Clients : at'[d] \in Deleting => \A f \in Planned(d)' : f.from \in DupPlaces
        BY <1>1, <1>3, <2>1 DEF Safe
    <2>9. ASSUME NEW i \in Ids PROVE Kept(Content[i])'
        <3> DEFINE x == Content[i]
        <3>1. Stray(x) => Stray(x)'
            BY <1>1, <1>3, <2>1, <2>2 DEF Stray
        <3>2. Anchored(x) => Anchored(x)'
            BY <2>3, <2>5 DEF Anchored
        <3>3. Orphaned(x) => Orphaned(x)'
            <4>1. Unlisted(x) => Unlisted(x)'
                BY <2>3 DEF Unlisted
            <4>2. ASSUME NEW k \in Ids, HasRow(k), Undisturbed(k) PROVE Undisturbed(k)'
                <5>1. where[k] # e.from /\ where[k] \in Places
                    BY <1>1, <1>3, <4>2 DEF Undisturbed, HasRow, DupTypes
                <5>2. Held(k)'
                    BY <1>1, <2>2, <4>2, <5>1 DEF Held, Undisturbed
                <5> QED BY <1>1, <1>3, <2>1, <4>2, <5>2 DEF Undisturbed
            <4> QED BY <2>3, <4>1, <4>2 DEF Orphaned
        <3>4. Travelling(x) => Travelling(x)'
            <4>1. Unlisted(x) => Unlisted(x)'
                BY <2>3 DEF Unlisted
            <4>2. \A d \in Clients : at[d] = "update" => cur[d].to \in Places
                BY DEF DupTypes, Change
            <4> QED BY <1>1, <1>2, <2>2, <4>1, <4>2 DEF Travelling, HasRow
        <3> QED BY <2>1, <3>1, <3>2, <3>3, <3>4 DEF Safe, Kept
    <2> QED BY <1>2, <2>6, <2>7, <2>8, <2>9 DEF Safe
<1> QED BY <1>6, <1>7 DEF Unlink

(* ... and rows that nobody counts on.                                     *)
LEMMA ForgetSafe ==
    ASSUME DupTypes, DupTypes', Safe, Orderly', NEW c \in Clients, Forget(c), Careful
    PROVE  Safe'
<1> USE DEF Promoting, Deleting, Rescanning
<1>1. /\ at[c] = "forget" /\ at'[c] \in {"unlink", "idle"}
      /\ UNCHANGED <<disk, partner, victim, todo>> /\ Orderly
      /\ \A d \in Clients \ {c} : at'[d] = at[d] /\ cur'[d] = cur[d]
    BY DEF Forget, Done, DupTypes, Safe
<1>2. \A d \in Clients : at[d] \notin Promoting /\ at'[d] \notin Promoting
    BY <1>1, NobodyPromotes
<1>3. /\ \A d \in Clients \ {c} : Planned(d)' = Planned(d)
      /\ Planned(c)' \subseteq Planned(c) /\ cur[c] \in Planned(c)
    BY <1>1 DEF Planned
<1>4. \A d \in Clients : at'[d] \in Rescanning => d # c /\ at[d] \in Rescanning /\ PlanHolds(d)
    BY <1>1 DEF Safe
<1>5. \A d \in Clients : at'[d] \in Deleting => \A f \in Planned(d)' : f.from \in DupPlaces
    BY <1>1, <1>3 DEF Safe
<1>6. CASE Error /\ UNCHANGED where
    <2>1. OnlyControl
        BY <1>1, <1>2, <1>3, <1>6, CountsGrow DEF OnlyControl, Recorded
    <2>2. \A d \in Clients : at'[d] \in Rescanning => PlanHolds(d)'
        BY <1>1, <1>4, <1>6, PlanStays
    <2> QED BY <1>2, <1>5, <2>1, <2>2, ControlSafe DEF Safe
<1>7. CASE where' = [where EXCEPT ![cur[c].id] = NoPlace] /\ Fine
    <2>1. PICK r \in Ids : r = cur[c].id /\ Doomed(r)
        BY <1>1, <1>3 DEF DupTypes, Change, Doomed
    <2>2. where'[r] = NoPlace /\ \A i \in Ids \ {r} : where'[i] = where[i]
        BY <1>7, <2>1 DEF DupTypes
    <2>3. \A i \in Ids : /\ Doomed(i)' => Doomed(i)
                         /\ Moving(i)' <=> Moving(i)
                         /\ InTransit(i)' <=> InTransit(i)
                         /\ ~Replaced(i) /\ ~Replaced(i)'
        BY <1>1, <1>2, <1>3 DEF Doomed, Moving, InTransit, Replaced
    <2>4. \A i \in Ids : Primary(i)' => Primary(i) /\ i # r
        BY <2>2 DEF Primary, HasRow, IsDup
    <2>5. \A i \in Ids : i # r => /\ Primary(i)' <=> Primary(i)
                                  /\ HasRow(i)' <=> HasRow(i)
                                  /\ Held(i)' <=> Held(i)
        BY <1>1, <2>2 DEF Primary, HasRow, IsDup, Held
    <2>6. \A i \in Ids : Firm(i) => i # r /\ Firm(i)'
        BY <2>1, <2>3, <2>5 DEF Firm
    <2>7. PrimariesApart'
        <3>1. \A i, k \in Ids : Primary(i)' /\ where'[i] = where'[k] => i = k
            <4> SUFFICES ASSUME NEW i \in Ids, NEW k \in Ids, Primary(i)', where'[i] = where'[k]
                         PROVE  i = k
                OBVIOUS
            <4>1. Primary(k)'
                BY DEF Primary, HasRow, IsDup
            <4> QED BY <2>2, <2>4, <4>1 DEF Safe, PrimariesApart
        <3>2. \A i \in Ids : Primary(i)' => disk'[where'[i]] # NoFile \/ InTransit(i)' \/ Replaced(i)'
            BY <1>1, <2>2, <2>3, <2>4 DEF Safe, PrimariesApart
        <3>3. \A i, j \in Ids : Primary(i)' /\ Primary(j)' /\ i # j /\ Together(i, j)
                                  => Firm(i)' \/ InTransit(i)' \/ Replaced(i)'
            BY <2>3, <2>4, <2>6 DEF Safe, PrimariesApart
        <3> QED BY <3>1, <3>2, <3>3 DEF PrimariesApart, Together
    <2>8. \A d \in Clients : at'[d] \in Rescanning => PlanHolds(d)'
        BY <1>1, <1>4, <2>2, PlanStays
    <2>9. ASSUME NEW i \in Ids PROVE Kept(Content[i])'
        <3> DEFINE x == Content[i]
        <3>1. errors + kills > 0 /\ Stray(x) => errors' + kills' > 0 /\ Stray(x)'
            <4> SUFFICES ASSUME errors + kills > 0, Stray(x) PROVE errors' + kills' > 0 /\ Stray(x)'
                OBVIOUS
            <4>1. PICK p \in Places \ DupPlaces :
                       /\ disk[p] = x /\ \A j \in Ids : where[j] # p
                       /\ \A d \in Clients :
                             /\ at[d] \in Rescanning => \A e \in Planned(d) : e.from # p
                             /\ at[d] \in {"update", "record"} => cur[d].to # p
                BY DEF Stray
            <4>2. \A j \in Ids : where'[j] # p
                BY <2>2, <4>1, DupAssumption
            <4>3. Stray(x)'
                BY <1>1, <1>3, <4>1, <4>2 DEF Stray
            <4> QED BY <1>7, <4>3, CountsGrow
        <3>2. Anchored(x) => Anchored(x)'
            BY <2>3, <2>6 DEF Anchored
        <3>3. Unlisted(x) => Content[r] # x /\ Unlisted(x)'
            BY <2>1, <2>3, <2>4 DEF Unlisted
        <3>4. Orphaned(x) => Orphaned(x)'
            <4> SUFFICES ASSUME Orphaned(x) PROVE Orphaned(x)'
                OBVIOUS
            <4>1. Content[r] # x /\ Unlisted(x)'
                BY <3>3 DEF Orphaned
            <4>2. ASSUME NEW k \in Ids, HasRow(k), k # r, Undisturbed(k) PROVE Undisturbed(k)'
                <5>1. \A j \in Ids : where'[j] = where'[k] => j = k
                    BY <2>2, <4>2 DEF Undisturbed, HasRow
                <5>2. Held(k)' /\ where'[k] = where[k]
                    BY <2>2, <2>5, <4>2 DEF Undisturbed
                <5> QED BY <1>1, <1>3, <4>2, <5>1, <5>2 DEF Undisturbed
            <4> QED BY <2>5, <4>1, <4>2 DEF Orphaned
        <3>5. Travelling(x) => Travelling(x)'
            <4>1. \A d \in Clients : at[d] = "update" => cur[d].id \in Ids
                BY DEF DupTypes, Change
            <4> QED BY <1>1, <1>2, <2>5, <3>3, <4>1 DEF Travelling
        <3> QED BY <3>1, <3>2, <3>4, <3>5 DEF Safe, Kept
    <2> QED BY <1>2, <1>5, <2>7, <2>8, <2>9 DEF Safe
<1> QED BY <1>6, <1>7 DEF Forget

-----------------------------------------------------------------------------
(* Rescans.                                                                *)

(* What a rescan plans is a plan that holds, if nothing else moves rows.   *)
LEMMA NewPlanHolds ==
    ASSUME DupTypes, PrimariesApart, \A i \in Ids : ~InTransit(i) /\ ~Replaced(i)
    PROVE  /\ \A e \in PlanRescan :
                 /\ e \in Change /\ where[e.id] = e.from
                 /\ e.from \in DupPlaces <=> e.to \notin DupPlaces
                 /\ e.from \notin DupPlaces => \A i \in Ids : where[i] = e.from => i = e.id
                 /\ e.from \in DupPlaces => \A j \in Ids : Together(e.id, j) => ~Primary(j)
                 /\ e.from \notin DupPlaces => disk[e.from] # NoFile
           /\ \A e, f \in PlanRescan :
                 /\ e.id = f.id => e = f
                 /\ e.from = f.from /\ e.from \notin DupPlaces => e = f
                 /\ e.from \in DupPlaces /\ f.from \in DupPlaces /\ Together(e.id, f.id) => e = f
<1>1. \A e \in PlanRescan :
         /\ e \in Change /\ where[e.id] = e.from
         /\ e.from \in DupPlaces <=> e.to \notin DupPlaces
         /\ e.from \in DupPlaces => /\ e \in Promotions
                                    /\ \A j \in Ids : Together(e.id, j) => ~Primary(j)
                                    /\ e.id = Min(Alike(e.id))
         /\ e.from \notin DupPlaces => e \in NewDups /\ Primary(e.id)
    BY PromotionPlan, NewDupPlan DEF PlanRescan
<1>2. \A e \in PlanRescan : e.id \in Ids
    BY <1>1 DEF Change
<1>3. \A e \in PlanRescan : e.from \notin DupPlaces =>
         /\ \A i \in Ids : where[i] = e.from => i = e.id
         /\ disk[e.from] # NoFile
    BY <1>1, <1>2 DEF PrimariesApart
<1>4. \A e, f \in PlanRescan : e.id = f.id => e = f
    <2> SUFFICES ASSUME NEW e \in PlanRescan, NEW f \in PlanRescan, e.id = f.id PROVE e = f
        OBVIOUS
    <2>1. CASE e.from \in DupPlaces
        <3>1. e \in Promotions /\ f \in Promotions
            BY <1>1, <2>1
        <3> QED BY <3>1 DEF Promotions
    <2>2. CASE e.from \notin DupPlaces
        <3>1. e \in NewDups /\ f \in NewDups
            BY <1>1, <2>2
        <3> QED BY <3>1 DEF NewDups
    <2> QED BY <2>1, <2>2
<1>5. \A e, f \in PlanRescan : e.from = f.from /\ e.from \notin DupPlaces => e = f
    BY <1>1, <1>2, <1>3, <1>4
<1>6. \A e, f \in PlanRescan :
          e.from \in DupPlaces /\ f.from \in DupPlaces /\ Together(e.id, f.id) => e = f
    <2> SUFFICES ASSUME NEW e \in PlanRescan, NEW f \in PlanRescan,
                        e.from \in DupPlaces, f.from \in DupPlaces, Together(e.id, f.id)
                 PROVE  e = f
        OBVIOUS
    <2>1. Alike(e.id) = Alike(f.id)
        BY <1>2 DEF Alike, Same, Together
    <2> QED BY <1>1, <1>4, <2>1
<1> QED BY <1>1, <1>3, <1>4, <1>5, <1>6

(* A group with a primary keeps one: the least, which the plan leaves      *)
(* where it is.                                                            *)
LEMMA LeastStays ==
    ASSUME DupTypes, PrimariesApart, \A i \in Ids : ~InTransit(i) /\ ~Replaced(i),
           NEW k \in Ids, Firm(k)
    PROVE  \E g \in Ids : /\ Content[g] = Content[k] /\ Firm(g)
                          /\ \A e \in PlanRescan : e.id # g
<1> DEFINE g == Min(Primaries(k))
<1>1. k \in Primaries(k)
    BY PrimariesOfGroup DEF Firm, Together
<1>2. g \in Primaries(k) /\ g \in Ids
    BY <1>1, LeastPrimary DEF Primaries, Alike, Same
<1>3. Primary(g) /\ Together(k, g) /\ Together(g, k)
    BY <1>2, PrimariesOfGroup DEF Together
<1>4. Firm(g)
    BY <1>2, <1>3 DEF PrimariesApart, Firm
<1>5. Primaries(g) = Primaries(k)
    BY <1>2, <1>3 DEF Primaries, Alike, Same, Together
<1>6. ASSUME NEW e \in PlanRescan, e.id = g PROVE FALSE
    <2>1. CASE e \in Promotions
        BY <1>2, <1>3, <1>6, <2>1, PromotionPlan DEF Together
    <2>2. CASE e \in NewDups
        BY <1>5, <1>6, <2>2, NewDupPlan
    <2> QED BY <2>1, <2>2 DEF PlanRescan
<1> QED BY <1>2, <1>3, <1>4, <1>6 DEF Together

(* A rescan that starts plans to move no least primary.                    *)
LEMMA RescanRequestSafe ==
    ASSUME DupTypes, DupTypes', Safe, Orderly', NEW c \in Clients, RescanRequest(c), Careful
    PROVE  Safe'
<1> USE DEF Promoting, Deleting, Rescanning
<1>1. /\ at[c] = "idle" /\ at'[c] = "probe" /\ todo'[c] = PlanRescan /\ Orderly
      /\ \A d \in Clients \ {c} : at'[d] = at[d] /\ todo'[d] = todo[d]
      /\ UNCHANGED <<where, disk, cur, partner, victim, errors, kills>>
    BY DEF RescanRequest, Begin, Fine, bounds, DupTypes, Safe
<1>2. /\ \A d \in Clients : at[d] \notin Promoting /\ at'[d] \notin Promoting
      /\ \A d \in Clients \ {c} : at'[d] \notin Rescanning
      /\ \A d \in Clients : at[d] \notin Rescanning
    BY <1>1, NobodyPromotes DEF Careful
<1>3. /\ Planned(c)' = PlanRescan
      /\ \A d \in Clients \ {c} : Planned(d)' = Planned(d)
    BY <1>1 DEF Planned
<1>4. \A i \in Ids : /\ Primary(i)' <=> Primary(i)
                     /\ HasRow(i)' <=> HasRow(i)
                     /\ Held(i)' <=> Held(i)
                     /\ Doomed(i)' <=> Doomed(i)
                     /\ Firm(i)' <=> Firm(i)
                     /\ ~InTransit(i) /\ ~InTransit(i)'
                     /\ ~Replaced(i) /\ ~Replaced(i)'
    <2>1. \A i \in Ids : Doomed(i)' <=> Doomed(i)
        BY <1>1, <1>3 DEF Doomed
    <2> QED BY <1>1, <1>2, <2>1
            DEF Primary, HasRow, IsDup, Held, Firm, InTransit, Replaced
<1>5. PrimariesApart /\ PrimariesApart'
    BY <1>1, <1>4 DEF Safe, PrimariesApart
<1>6. PlanHolds(c)'
    <2>1. at'[c] = "probe" /\ UNCHANGED <<where, disk>>
        BY <1>1
    <2> QED BY <1>3, <1>4, <1>5, <2>1, NewPlanHolds DEF PlanHolds
<1>7. \A d \in Clients : at'[d] \in Deleting => \A e \in Planned(d)' : e.from \in DupPlaces
    BY <1>1, <1>3 DEF Safe
<1>8. ASSUME NEW i \in Ids PROVE Kept(Content[i])'
    <2> DEFINE x == Content[i]
    <2>1. Stray(x) => Stray(x)'
        <3>1. \A e \in PlanRescan : e.id \in Ids /\ where[e.id] = e.from
            BY <1>4, <1>5, NewPlanHolds DEF Change
        <3> QED BY <1>1, <1>2, <1>3, <3>1 DEF Stray
    <2>2. Anchored(x) => Anchored(x)'
        <3> SUFFICES ASSUME Anchored(x) PROVE Anchored(x)'
            OBVIOUS
        <3>1. PICK k \in Ids : Content[k] = x /\ Firm(k)
            BY DEF Anchored
        <3>2. PICK g \in Ids : /\ Content[g] = x /\ Firm(g)
                               /\ \A e \in PlanRescan : e.id # g
            BY <1>4, <1>5, <3>1, LeastStays
        <3>3. ~Moving(g)'
            BY <1>2, <1>3, <3>2 DEF Moving
        <3> QED BY <1>4, <3>2, <3>3 DEF Anchored
    <2>3. Orphaned(x) => Orphaned(x)'
        <3>1. Unlisted(x) => Unlisted(x)'
            BY <1>4 DEF Unlisted
        <3>2. ASSUME NEW k \in Ids, Undisturbed(k) PROVE Undisturbed(k)'
            <4>1. \A e \in PlanRescan : e.from = where[k] => e.id = k
                BY <1>4, <1>5, <3>2, NewPlanHolds DEF Change, Undisturbed
            <4>2. \A d \in Clients : \A e \in Planned(d)' :
                      e.from = where'[k] => at'[d] \notin Deleting /\ e.id = k
                BY <1>1, <1>3, <3>2, <4>1 DEF Undisturbed
            <4> QED BY <1>1, <1>2, <1>4, <3>2, <4>2 DEF Undisturbed
        <3> QED BY <1>4, <3>1, <3>2 DEF Orphaned
    <2>4. ~Travelling(x)
        BY <1>2 DEF Travelling
    <2> QED BY <1>1, <2>1, <2>2, <2>3, <2>4 DEF Safe, Kept
<1> QED BY <1>2, <1>5, <1>6, <1>7, <1>8 DEF Safe

(* Nor does the plan mind changes that are done with or given up.          *)
LEMMA PlanShrinks ==
    ASSUME DupTypes, NEW d \in Clients, PlanHolds(d), at[d] \in {"probe", "shift"},
           at'[d] = "probe", Planned(d)' \subseteq Planned(d), UNCHANGED <<where, disk>>
    PROVE  PlanHolds(d)'
<1>1. \A i \in Ids : Primary(i)' => Primary(i)
    BY DEF Primary, HasRow, IsDup
<1> QED BY <1>1 DEF PlanHolds, Together

(* It looks before it moves: whoever finds a free place takes up the       *)
(* change.                                                                 *)
LEMMA ProbeSafe ==
    ASSUME DupTypes, DupTypes', Safe, Orderly', NEW c \in Clients, NEW e \in todo[c],
           Probe(c, e), Careful, ~blind'
    PROVE  Safe'
<1> USE DEF Promoting, Deleting, Rescanning
<1>1. /\ at[c] = "probe" /\ at'[c] \in {"probe", "shift", "idle"}
      /\ UNCHANGED <<where, disk, partner, victim>> /\ Orderly /\ PlanHolds(c)
      /\ \A d \in Clients \ {c} : at'[d] = at[d] /\ todo'[d] = todo[d] /\ cur'[d] = cur[d]
    BY DEF Probe, TakeUp, GiveUp, DupTypes, Safe
<1>2. /\ \A d \in Clients : at[d] \notin Promoting /\ at'[d] \notin Promoting
      /\ \A d \in Clients \ {c} : at[d] \notin Rescanning /\ at'[d] \notin Rescanning
    BY <1>1, NobodyPromotes DEF Orderly
<1>3. /\ \A d \in Clients \ {c} : Planned(d)' = Planned(d)
      /\ Planned(c) = todo[c]
    BY <1>1 DEF Planned
<1>4. CASE GiveUp(c, e, "probe") /\ Failing(disk[e.to] # NoFile)
    <2>1. at'[c] # "shift" /\ todo'[c] = todo[c] \ {e} /\ at'[c] \in {"probe", "idle"}
        BY <1>1, <1>4 DEF GiveUp, DupTypes
    <2>2. Planned(c)' \subseteq Planned(c)
        BY <1>1, <1>3, <2>1 DEF Planned
    <2>3. OnlyControl
        BY <1>1, <1>2, <1>3, <1>4, <2>1, <2>2, CountsGrow DEF OnlyControl, Recorded
    <2>4. at'[c] = "probe" => PlanHolds(c)'
        BY <1>1, <2>2, PlanShrinks
    <2>5. \A d \in Clients : at'[d] \in Rescanning => PlanHolds(d)'
        BY <1>2, <2>1, <2>4
    <2>6. \A d \in Clients : at'[d] \in Deleting => \A f \in Planned(d)' : f.from \in DupPlaces
        BY <2>3 DEF OnlyControl, Safe
    <2> QED BY <1>2, <2>3, <2>5, <2>6, ControlSafe DEF Safe
<1>5. CASE disk[e.to] = NoFile /\ TakeUp(c, e, "shift") /\ Fine
    <2>1. at'[c] = "shift" /\ todo'[c] = todo[c] \ {e} /\ cur'[c] = e
        BY <1>5 DEF TakeUp, DupTypes
    <2>2. Planned(c)' = Planned(c)
        BY <1>3, <2>1 DEF Planned
    <2>3. OnlyControl
        BY <1>1, <1>2, <1>3, <1>5, <2>1, <2>2, CountsGrow DEF OnlyControl, Recorded
    <2>4. PlanHolds(c)'
        <3>1. \A i \in Ids : Primary(i)' => Primary(i)
            BY <1>1 DEF Primary, HasRow, IsDup
        <3>2. e \notin todo'[c] /\ disk'[e.to] = NoFile
            BY <1>1, <1>5, <2>1
        <3> QED BY <1>1, <2>1, <2>2, <3>1, <3>2 DEF PlanHolds, Together
    <2>5. \A d \in Clients : at'[d] \in Rescanning => PlanHolds(d)'
        BY <1>2, <2>4
    <2>6. \A d \in Clients : at'[d] \in Deleting => \A f \in Planned(d)' : f.from \in DupPlaces
        BY <2>3 DEF OnlyControl, Safe
    <2> QED BY <1>2, <2>3, <2>5, <2>6, ControlSafe DEF Safe
<1> QED BY <1>4, <1>5 DEF Probe

(* The place has stayed free until the rename, which moves an orphan to a  *)
(* place outside _duplicates, or a primary that another one outlasts.      *)
LEMMA ShiftSafe ==
    ASSUME DupTypes, DupTypes', Safe, Orderly', NEW c \in Clients, Shift(c), Careful
    PROVE  Safe'
<1> USE DEF Promoting, Deleting, Rescanning
<1>1. /\ at[c] = "shift" /\ at'[c] \in {"update", "probe", "idle"}
      /\ UNCHANGED <<where, partner, victim, todo>> /\ Orderly /\ PlanHolds(c)
      /\ \A d \in Clients \ {c} : at'[d] = at[d] /\ cur'[d] = cur[d]
    BY DEF Shift, Goto, Done, DupTypes, Safe
<1>2. /\ \A d \in Clients : at[d] \notin Promoting /\ at'[d] \notin Promoting
      /\ \A d \in Clients \ {c} : at[d] \notin Rescanning /\ at'[d] \notin Rescanning
    BY <1>1, NobodyPromotes DEF Orderly
<1>3. \A d \in Clients \ {c} : Planned(d)' = Planned(d)
    BY <1>1 DEF Planned
<1>4. CASE Done(c, "probe") /\ UNCHANGED disk /\ Failing(disk[cur[c].from] = NoFile)
    <2>1. at'[c] \in {"probe", "idle"}
        BY <1>4 DEF Done, DupTypes
    <2>2. Planned(c)' \subseteq Planned(c)
        BY <1>1, <2>1 DEF Planned
    <2>3. OnlyControl
        BY <1>1, <1>2, <1>3, <1>4, <2>1, <2>2, CountsGrow DEF OnlyControl, Recorded
    <2>4. at'[c] = "probe" => PlanHolds(c)'
        BY <1>1, <1>4, <2>2, PlanShrinks
    <2>5. \A d \in Clients : at'[d] \in Rescanning => PlanHolds(d)'
        BY <1>2, <2>1, <2>4
    <2>6. \A d \in Clients : at'[d] \in Deleting => \A f \in Planned(d)' : f.from \in DupPlaces
        BY <2>3 DEF OnlyControl, Safe
    <2> QED BY <1>2, <2>3, <2>5, <2>6, ControlSafe DEF Safe
<1>5. PICK e \in Change, u \in Ids, p \in Places, q \in Places :
          e = cur[c] /\ u = e.id /\ p = e.from /\ q = e.to
    <2>1. cur[c] \in Change
        BY <1>1 DEF DupTypes
    <2> QED BY <2>1 DEF Change
<1>6. CASE disk[p] # NoFile /\ disk' = Renamed(p, q) /\ Goto(c, "update") /\ Fine
    <2>1. /\ at'[c] = "update" /\ cur'[c] = e /\ UNCHANGED <<errors, kills>>
          /\ Planned(c)' = Planned(c) /\ e \in Planned(c)
        <3>1. at'[c] = "update" /\ UNCHANGED cur
            BY <1>6 DEF Goto, DupTypes
        <3> QED BY <1>1, <1>5, <1>6, <3>1, CountsGrow DEF Planned
    <2>2. /\ where[u] \in {p, NoPlace} /\ disk[q] = NoFile /\ p # q
          /\ p \in DupPlaces <=> q \notin DupPlaces
        BY <1>1, <1>5, <2>1 DEF PlanHolds
    <2>3. /\ disk'[q] = disk[p] /\ disk'[p] = NoFile
          /\ \A r \in Places : r \notin {p, q} => disk'[r] = disk[r]
        BY <1>6, <2>2 DEF Renamed, DupTypes
    <2>4. \A i \in Ids : /\ Primary(i)' <=> Primary(i)
                         /\ HasRow(i)' <=> HasRow(i)
                         /\ Doomed(i)' <=> Doomed(i)
                         /\ Moving(i)' <=> Moving(i)
                         /\ ~InTransit(i) /\ (InTransit(i)' <=> i = u)
                         /\ ~Replaced(i) /\ ~Replaced(i)'
        <3>1. \A i \in Ids : Doomed(i)' <=> Doomed(i)
            BY <1>1, <1>3, <2>1 DEF Doomed
        <3>2. \A i \in Ids : Moving(i)' <=> Moving(i)
            BY <1>1, <1>3, <2>1 DEF Moving
        <3>3. \A i \in Ids : InTransit(i)' <=> i = u
            BY <1>2, <1>5, <2>1 DEF InTransit
        <3> QED BY <1>1, <1>2, <2>1, <3>1, <3>2, <3>3
                DEF Primary, HasRow, IsDup, InTransit, Replaced
    <2>5. Moving(u)
        BY <1>1, <1>5, <2>1 DEF Moving
    <2>6. \A i \in Ids : Primary(i) => disk[where[i]] # NoFile /\ where[i] # q
        BY <2>2, <2>4 DEF Safe, PrimariesApart
    <2>7. \A i \in Ids : Primary(i) /\ i # u => where[i] \in Places \ {p, q}
        <3>1. \A i \in Ids : Primary(i) /\ i # u => where[i] # p
            BY <1>1, <1>5, <2>1 DEF PlanHolds, Primary, IsDup
        <3> QED BY <2>6, <3>1 DEF DupTypes, Primary, HasRow
    <2>8. \A i \in Ids : Primary(i) /\ i # u => (Held(i)' <=> Held(i)) /\ (Firm(i)' <=> Firm(i))
        BY <1>1, <2>3, <2>4, <2>7 DEF Firm, Held
    <2>9. PrimariesApart'
        <3>1. \A i \in Ids : Primary(i) /\ i # u => disk'[where'[i]] # NoFile
            BY <1>1, <2>3, <2>6, <2>7
        <3> QED BY <1>1, <2>4, <2>8, <3>1 DEF Safe, PrimariesApart
    <2>10. PlanHolds(c)'
        <3>1. \A f \in Planned(c) : f.from \notin DupPlaces /\ f # e
                                      => f.from \in Places \ {p, q} /\ disk[f.from] # NoFile
            <4>1. \A f \in Planned(c) : f.from \in Places
                BY <1>1 DEF Planned, DupTypes, Change
            <4> QED BY <1>1, <1>5, <2>1, <2>2, <4>1 DEF PlanHolds
        <3>2. \A f \in Planned(c) : f.from \notin DupPlaces =>
                  disk'[f.from] # NoFile \/ (at'[c] = "update" /\ f = cur'[c])
            BY <2>1, <2>3, <3>1
        <3>3. \A f \in todo'[c] : f \in Planned(c) /\ f # e
            BY <1>1, <1>5 DEF PlanHolds, Planned
        <3>4. \A f \in todo'[c] : f.from \notin DupPlaces => f.from # q
            BY <3>1, <3>3
        <3>5. \A i \in Ids : Primary(i)' => where'[i] # q
            BY <1>1, <2>4, <2>6
        <3>6. disk'[q] # NoFile /\ disk'[p] = NoFile /\ cur'[c] \notin todo'[c]
            BY <1>6, <2>1, <2>3, <3>3
        <3> QED BY <1>1, <1>5, <2>1, <2>4, <3>2, <3>4, <3>5, <3>6 DEF PlanHolds, Together
    <2>11. \A d \in Clients : at'[d] \in Deleting => \A f \in Planned(d)' : f.from \in DupPlaces
        BY <1>1, <1>3, <2>1 DEF Safe
    <2>12. ASSUME NEW i \in Ids PROVE Kept(Content[i])'
        <3> DEFINE x == Content[i]
        <3>0. x # NoFile
            BY ContentIsNoFile
        <3>1. Stray(x) => Stray(x)'
            <4> SUFFICES ASSUME Stray(x) PROVE Stray(x)'
                OBVIOUS
            <4>1. PICK r \in Places \ DupPlaces :
                       /\ disk[r] = x /\ \A j \in Ids : where[j] # r
                       /\ \A d \in Clients :
                             /\ at[d] \in Rescanning => \A f \in Planned(d) : f.from # r
                             /\ at[d] \in {"update", "record"} => cur[d].to # r
                BY DEF Stray
            <4>2. r # q /\ r # p
                BY <1>1, <1>5, <2>1, <2>2, <3>0, <4>1
            <4>3. disk'[r] = x /\ \A j \in Ids : where'[j] # r
                BY <1>1, <2>3, <4>1, <4>2
            <4>4. \A d \in Clients :
                       /\ at'[d] \in Rescanning => \A f \in Planned(d)' : f.from # r
                       /\ at'[d] \in {"update", "record"} => cur'[d].to # r
                BY <1>1, <1>2, <1>5, <2>1, <4>1, <4>2
            <4> QED BY <4>1, <4>3, <4>4 DEF Stray
        <3>2. Anchored(x) => Anchored(x)'
            BY <2>4, <2>5, <2>8 DEF Anchored, Firm
        <3>3. Unlisted(x) => Unlisted(x)'
            BY <2>4 DEF Unlisted
        <3>4. Orphaned(x) => Orphaned(x)' \/ Travelling(x)'
            <4> SUFFICES ASSUME Orphaned(x) PROVE Orphaned(x)' \/ Travelling(x)'
                OBVIOUS
            <4>1. CASE Content[u] = x /\ HasRow(u)
                <5>1. where[u] = p /\ disk[p] = x /\ ~Primary(u)
                    BY <2>2, <4>1 DEF Orphaned, Unlisted, Undisturbed, Held, HasRow
                <5>2. q \notin DupPlaces
                    BY <2>2, <4>1, <5>1 DEF Primary, IsDup
                <5> QED BY <1>5, <2>1, <2>3, <2>4, <3>3, <4>1, <5>1, <5>2
                        DEF Orphaned, Travelling
            <4>2. CASE ~(Content[u] = x /\ HasRow(u))
                <5>1. ASSUME NEW k \in Ids, HasRow(k), Content[k] = x, Undisturbed(k)
                      PROVE  Undisturbed(k)'
                    <6>1. k # u
                        BY <4>2, <5>1
                    <6>2. where[k] # p
                        BY <1>5, <2>1, <5>1, <6>1 DEF Undisturbed
                    <6>3. where[k] # q /\ where[k] \in Places
                        BY <2>2, <3>0, <5>1 DEF Undisturbed, Held, HasRow, DupTypes
                    <6>4. Held(k)'
                        BY <1>1, <2>3, <5>1, <6>2, <6>3 DEF Undisturbed, Held
                    <6>5. \A d \in Clients : \A f \in Planned(d)' :
                              f.from = where'[k] => at'[d] \notin Deleting /\ f.id = k
                        BY <1>1, <1>3, <2>1, <5>1 DEF Undisturbed
                    <6>6. \A d \in Clients : at'[d] = "update" => cur'[d].to # where'[k]
                        BY <1>1, <1>2, <1>5, <2>1, <6>3
                    <6> QED BY <1>1, <5>1, <6>4, <6>5, <6>6 DEF Undisturbed
                <5> QED BY <2>4, <3>3, <5>1 DEF Orphaned
            <4> QED BY <4>1, <4>2
        <3>5. ~Travelling(x)
            BY <1>1, <1>2 DEF Travelling
        <3> QED BY <2>1, <3>1, <3>2, <3>4, <3>5 DEF Safe, Kept
    <2> QED BY <1>2, <2>9, <2>10, <2>11, <2>12 DEF Safe
<1> QED BY <1>4, <1>5, <1>6 DEF Shift

(* The UPDATE makes a promoted orphan the primary of its group.            *)
LEMMA UpdateSafe ==
    ASSUME DupTypes, DupTypes', Safe, Orderly', NEW c \in Clients, Update(c), Careful
    PROVE  Safe'
<1> USE DEF Promoting, Deleting, Rescanning
<1>1. /\ at[c] = "update" /\ at'[c] \in {"probe", "idle"}
      /\ UNCHANGED <<disk, partner, victim, todo>> /\ Orderly /\ PlanHolds(c)
      /\ \A d \in Clients \ {c} : at'[d] = at[d] /\ cur'[d] = cur[d]
    BY DEF Update, Done, DupTypes, Safe
<1>2. /\ \A d \in Clients : at[d] \notin Promoting /\ at'[d] \notin Promoting
      /\ \A d \in Clients \ {c} : at[d] \notin Rescanning /\ at'[d] \notin Rescanning
    BY <1>1, NobodyPromotes DEF Orderly
<1>3. PICK e \in Change, u \in Ids, p \in Places, q \in Places :
          e = cur[c] /\ u = e.id /\ p = e.from /\ q = e.to
    <2>1. cur[c] \in Change
        BY <1>1 DEF DupTypes
    <2> QED BY <2>1 DEF Change
<1>4. /\ \A d \in Clients \ {c} : Planned(d)' = Planned(d)
      /\ Planned(c)' = todo[c] /\ Planned(c) = todo[c] \union {e} /\ e \notin todo[c]
    <2>1. \A d \in Clients \ {c} : Planned(d)' = Planned(d)
        BY <1>1 DEF Planned
    <2>2. Planned(c)' = todo[c] /\ Planned(c) = todo[c] \union {e}
        BY <1>1, <1>3 DEF Planned
    <2> QED BY <1>1, <1>3, <2>1, <2>2 DEF PlanHolds
<1>5. /\ UNCHANGED <<errors, kills>>
      /\ where' = [where EXCEPT ![u] = IF HasRow(u) THEN q ELSE @]
    <2>1. UNCHANGED bounds
        BY <1>1 DEF Careful
    <2>2. ~Error
        BY <2>1 DEF Error, bounds, DupTypes
    <2> QED BY <1>3, <2>1, <2>2 DEF Update, bounds
<1>6. /\ where'[u] = IF HasRow(u) THEN q ELSE where[u]
      /\ \A i \in Ids \ {u} : where'[i] = where[i]
    BY <1>5 DEF DupTypes
<1>7. /\ where[u] \in {p, NoPlace} /\ disk[p] = NoFile
      /\ p \in DupPlaces <=> q \notin DupPlaces
      /\ q \notin DupPlaces => disk[q] # NoFile
      /\ \A i \in Ids : Primary(i) => where[i] # q
      /\ \A f \in todo[c] : f.from \notin DupPlaces => f.from # q
      /\ \A f \in todo[c] : f.id \in Ids /\ f.id # u
    <2>1. \A f \in todo[c] : f \in Change
        BY DEF DupTypes
    <2>2. \A f \in todo[c] : f.id \in Ids
        BY <2>1 DEF Change
    <2> QED BY <1>1, <1>3, <1>4, <2>2 DEF PlanHolds
<1>8. \A i \in Ids : /\ HasRow(i)' <=> HasRow(i)
                     /\ Doomed(i)' <=> Doomed(i)
                     /\ Moving(i)' => Moving(i) /\ i # u
                     /\ InTransit(i) <=> i = u
                     /\ ~InTransit(i)' /\ ~Replaced(i) /\ ~Replaced(i)'
    <2>1. \A i \in Ids : HasRow(i)' <=> HasRow(i)
        BY <1>6, DupAssumption DEF HasRow
    <2>2. \A i \in Ids : Doomed(i)' <=> Doomed(i)
        BY <1>1, <1>4 DEF Doomed
    <2>3. \A i \in Ids : Moving(i)' => Moving(i) /\ i # u
        BY <1>1, <1>2, <1>4, <1>7 DEF Moving
    <2>4. \A i \in Ids : InTransit(i) <=> i = u
        BY <1>1, <1>2, <1>3 DEF InTransit
    <2> QED BY <1>1, <1>2, <2>1, <2>2, <2>3, <2>4 DEF InTransit, Replaced
<1>9. \A i \in Ids \ {u} : /\ Primary(i)' <=> Primary(i)
                           /\ Held(i)' <=> Held(i)
                           /\ Firm(i)' <=> Firm(i)
    BY <1>1, <1>6, <1>8 DEF Primary, HasRow, IsDup, Held, Firm
<1>10. Primary(u)' => q \notin DupPlaces /\ HasRow(u) /\ where'[u] = q /\ p \in DupPlaces
    <2>1. HasRow(u) => where'[u] = q
        BY <1>6
    <2> QED BY <1>7, <1>8, <2>1 DEF Primary, HasRow, IsDup
<1>11. Primary(u)' => \A j \in Ids : Together(u, j) \/ Together(j, u) => ~Primary(j)
    BY <1>1, <1>3, <1>4, <1>10 DEF PlanHolds, Together
<1>12. PrimariesApart'
    <2>1. \A i, j \in Ids : Primary(i)' /\ where'[i] = where'[j] => i = j
        <3> SUFFICES ASSUME NEW i \in Ids, NEW j \in Ids, Primary(i)', where'[i] = where'[j]
                     PROVE  i = j
            OBVIOUS
        <3>1. Primary(j)'
            BY DEF Primary, HasRow, IsDup
        <3>2. CASE i # u /\ j # u
            BY <1>6, <1>9, <3>2 DEF Safe, PrimariesApart
        <3>3. CASE i = u /\ j # u
            BY <1>6, <1>7, <1>9, <1>10, <3>1, <3>3
        <3>4. CASE i # u /\ j = u
            BY <1>6, <1>7, <1>9, <1>10, <3>1, <3>4
        <3> QED BY <3>2, <3>3, <3>4
    <2>2. \A i \in Ids : Primary(i)' => disk'[where'[i]] # NoFile
        BY <1>1, <1>6, <1>7, <1>8, <1>9, <1>10 DEF Safe, PrimariesApart
    <2>3. \A i, j \in Ids : Primary(i)' /\ Primary(j)' /\ i # j /\ Together(i, j) => Firm(i)'
        <3> SUFFICES ASSUME NEW i \in Ids, NEW j \in Ids,
                            Primary(i)', Primary(j)', i # j, Together(i, j)
                     PROVE  Firm(i)'
            OBVIOUS
        <3>1. i # u /\ j # u
            BY <1>9, <1>11
        <3> QED BY <1>8, <1>9, <3>1 DEF Safe, PrimariesApart
    <2> QED BY <2>1, <2>2, <2>3 DEF PrimariesApart, Together
<1>13. at'[c] = "probe" => PlanHolds(c)'
    <2>1. \A f \in todo[c] :
              /\ where'[f.id] \in {f.from, NoPlace}
              /\ f.from \in DupPlaces <=> f.to \notin DupPlaces
        BY <1>1, <1>4, <1>6, <1>7 DEF PlanHolds
    <2>2. ASSUME NEW f \in todo[c], f.from \notin DupPlaces, NEW i \in Ids, where'[i] = f.from
          PROVE  i = f.id
        <3>1. i # u
            <4>1. f.from # NoPlace
                BY <1>1, <2>2, DupAssumption DEF DupTypes, Change
            <4> QED BY <1>6, <1>7, <2>2, <4>1 DEF HasRow
        <3> QED BY <1>1, <1>4, <1>6, <2>2, <3>1 DEF PlanHolds
    <2>3. ASSUME NEW f \in todo[c], f.from \in DupPlaces, NEW j \in Ids, Together(f.id, j)
          PROVE  ~Primary(j)'
        <3>1. CASE j # u
            BY <1>1, <1>4, <1>9, <2>3, <3>1 DEF PlanHolds
        <3>2. CASE j = u
            <4>1. Together(u, f.id)
                BY <2>3, <3>2 DEF Together
            <4>2. p \in DupPlaces => e = f
                BY <1>1, <1>3, <1>4, <2>3, <4>1 DEF PlanHolds
            <4> QED BY <1>4, <1>10, <3>2, <4>2
        <3> QED BY <3>1, <3>2
    <2>4. \A f \in todo[c] : f.from \notin DupPlaces => disk'[f.from] # NoFile
        BY <1>1, <1>3, <1>4 DEF PlanHolds
    <2>5. \A f, g \in todo[c] :
              /\ f.id = g.id => f = g
              /\ f.from = g.from /\ f.from \notin DupPlaces => f = g
              /\ f.from \in DupPlaces /\ g.from \in DupPlaces /\ Together(f.id, g.id) => f = g
        BY <1>1, <1>4 DEF PlanHolds
    <2> QED BY <1>4, <2>1, <2>2, <2>3, <2>4, <2>5 DEF PlanHolds, Together
<1>14. \A d \in Clients : at'[d] \in Rescanning => PlanHolds(d)'
    BY <1>1, <1>2, <1>13
<1>15. \A d \in Clients : at'[d] \in Deleting => \A f \in Planned(d)' : f.from \in DupPlaces
    BY <1>1, <1>4 DEF Safe
<1>16. ASSUME NEW i \in Ids PROVE Kept(Content[i])'
    <2> DEFINE x == Content[i]
    <2>0. x # NoFile
        BY ContentIsNoFile
    <2>1. Stray(x) => Stray(x)'
        <3> SUFFICES ASSUME Stray(x) PROVE Stray(x)'
            OBVIOUS
        <3>1. PICK r \in Places \ DupPlaces :
                   /\ disk[r] = x /\ \A j \in Ids : where[j] # r
                   /\ \A d \in Clients :
                         /\ at[d] \in Rescanning => \A f \in Planned(d) : f.from # r
                         /\ at[d] \in {"update", "record"} => cur[d].to # r
            BY DEF Stray
        <3>2. \A j \in Ids : where'[j] # r
            BY <1>1, <1>3, <1>6, <3>1
        <3>3. \A d \in Clients :
                   /\ at'[d] \in Rescanning => \A f \in Planned(d)' : f.from # r
                   /\ at'[d] \in {"update", "record"} => cur'[d].to # r
            BY <1>1, <1>2, <1>4, <3>1
        <3> QED BY <1>1, <3>1, <3>2, <3>3 DEF Stray
    <2>2. Anchored(x) => Anchored(x)'
        <3>1. Moving(u)
            BY <1>1, <1>3, <1>4 DEF Moving
        <3> QED BY <1>8, <1>9, <3>1 DEF Anchored
    <2>3. Orphaned(x) => Orphaned(x)'
        <3> SUFFICES ASSUME Orphaned(x) PROVE Orphaned(x)'
            OBVIOUS
        <3>1. ~(Content[u] = x /\ HasRow(u))
            <4>1. ASSUME Content[u] = x, HasRow(u) PROVE FALSE
                <5>1. where[u] = p /\ disk[where[u]] = x
                    BY <1>7, <4>1 DEF Orphaned, Undisturbed, Held, HasRow
                <5> QED BY <1>7, <2>0, <5>1
            <4> QED BY <4>1
        <3>2. Unlisted(x)'
            BY <1>8, <1>9, <1>10, <3>1 DEF Orphaned, Unlisted
        <3>3. ASSUME NEW k \in Ids, HasRow(k), Content[k] = x, Undisturbed(k) PROVE Undisturbed(k)'
            <4>1. k # u /\ where[k] # q
                BY <1>1, <1>3, <3>1, <3>3 DEF Undisturbed
            <4>2. \A j \in Ids : where'[j] = where'[k] => j = k
                BY <1>6, <3>3, <4>1 DEF Undisturbed
            <4>3. \A d \in Clients : \A f \in Planned(d)' :
                      f.from = where'[k] => at'[d] \notin Deleting /\ f.id = k
                BY <1>1, <1>4, <1>6, <3>3, <4>1 DEF Undisturbed
            <4>4. \A d \in Clients : at'[d] # "update"
                BY <1>1, <1>2
            <4> QED BY <1>9, <3>3, <4>1, <4>2, <4>3, <4>4 DEF Undisturbed
        <3> QED BY <1>8, <3>2, <3>3 DEF Orphaned
    <2>4. Travelling(x) => Anchored(x)'
        <3> SUFFICES ASSUME Travelling(x) PROVE Anchored(x)'
            OBVIOUS
        <3>1. /\ Content[u] = x /\ disk[q] = x /\ q \notin DupPlaces
              /\ HasRow(u) /\ Unlisted(x)
            BY <1>1, <1>2, <1>3 DEF Travelling
        <3>2. where'[u] = q /\ Primary(u)'
            BY <1>3, <1>6, <3>1, DupAssumption DEF Primary, HasRow, IsDup
        <3>3. Firm(u)'
            BY <1>1, <1>8, <3>1, <3>2 DEF Firm, Held, Unlisted
        <3> QED BY <1>8, <3>1, <3>3 DEF Anchored
    <2> QED BY <1>5, <2>1, <2>2, <2>3, <2>4 DEF Safe, Kept
<1> QED BY <1>2, <1>12, <1>14, <1>15, <1>16 DEF Safe

-----------------------------------------------------------------------------
(* A kill forgets the plans of all requests.                               *)
LEMMA KillSafe ==
    ASSUME DupTypes, DupTypes', Safe, Orderly', Kill, Careful
    PROVE  Safe'
<1> USE DEF Promoting, Deleting, Rescanning
<1>1. /\ UNCHANGED <<where, disk>> /\ errors' + kills' > 0
      /\ \A d \in Clients : at'[d] = "idle" /\ todo'[d] = {}
    BY DEF Kill, DupTypes
<1>2. \A d \in Clients : /\ at[d] # "update"
                         /\ at[d] \in {"move", "record"} => partner[d] = NoRow
    <2>1. ~UNCHANGED bounds
        BY DEF Kill, bounds, DupTypes
    <2> QED BY <2>1 DEF Careful
<1>3. CASE \E c \in Clients : at[c] = "record"
    BY <1>1, <1>2, <1>3, UnrecordedSafe
<1>4. CASE \A c \in Clients : at[c] # "record"
    <2>1. \A d \in Clients : Planned(d)' = {}
        BY <1>1 DEF Planned
    <2>2. OnlyControl
        BY <1>1, <1>2, <1>4, <2>1 DEF OnlyControl, Recorded
    <2> QED BY <1>1, <2>2, ControlSafe DEF Safe
<1> QED BY <1>3, <1>4

(* What is safe stays so while nothing happens.                            *)
LEMMA StutterSafe ==
    ASSUME DupTypes, Safe, UNCHANGED dupVars
    PROVE  Safe'
BY DEF dupVars, request, bounds, Safe, Orderly, PrimariesApart, PlanHolds, PromotionHolds, Kept,
       Stray, Anchored, Orphaned, Travelling, Unlisted, Undisturbed, Firm, Held, Doomed, Moving,
       InTransit, Replaced, Planned, Primary, HasRow, IsDup, Together

(* An archive in order is safe.                                            *)
LEMMA SafeInit == DupInit => Safe
<1> SUFFICES ASSUME DupInit PROVE Safe
    OBVIOUS
<1> USE DEF Promoting, Deleting, Rescanning
<1>1. \A c \in Clients : at[c] = "idle" /\ todo[c] = {} /\ Planned(c) = {}
    BY DEF DupInit, Planned
<1>2. \A i \in Ids : where[i] \in Places /\ HasRow(i)
    BY DupAssumption DEF DupInit, HasRow
<1>3. \A i, j \in Ids : where[i] = where[j] => i = j
    BY DEF DupInit
<1>4. ASSUME NEW i \in Ids PROVE Held(i)
    <2>1. (CHOOSE j \in Ids : where[j] = where[i]) = i
        BY <1>3
    <2> QED BY <1>2, <2>1 DEF DupInit, Held
<1>5. \A i \in Ids : ~Doomed(i) /\ ~Moving(i) /\ ~InTransit(i) /\ ~Replaced(i)
    BY <1>1 DEF Doomed, Moving, InTransit, Replaced
<1>6. \A i \in Ids : Primary(i) => Firm(i)
    BY <1>4, <1>5 DEF Firm
<1>7. Orderly
    BY <1>1 DEF Orderly
<1>8. PrimariesApart
    BY <1>3, <1>4, <1>6, ContentIsNoFile DEF PrimariesApart, Held
<1>9. ASSUME NEW i \in Ids PROVE Kept(Content[i])
    <2> DEFINE x == Content[i]
    <2>1. CASE \E k \in Ids : Content[k] = x /\ Primary(k)
        BY <1>5, <1>6, <2>1 DEF Kept, Anchored
    <2>2. CASE ~\E k \in Ids : Content[k] = x /\ Primary(k)
        <3>1. Unlisted(x)
            BY <1>5, <2>2 DEF Unlisted
        <3>2. \A k \in Ids : Undisturbed(k)
            BY <1>1, <1>3, <1>4 DEF Undisturbed
        <3> QED BY <1>2, <3>1, <3>2 DEF Kept, Orphaned
    <2> QED BY <2>1, <2>2
<1> QED BY <1>1, <1>7, <1>8, <1>9 DEF Safe

-----------------------------------------------------------------------------
(* A look that has failed is not undone.                                   *)
LEMMA BlindStays == ASSUME DupTypes, [DupNext]_dupVars PROVE ~blind' => ~blind
<1> SUFFICES ASSUME ~blind' PROVE ~blind
    OBVIOUS
<1> USE DEF Fine, Error, Failing
<1>1. ASSUME NEW c \in Clients, PromoteRequest(c) PROVE ~blind
    BY <1>1 DEF PromoteRequest, Begin
<1>2. ASSUME NEW c \in Clients, ReadPrimary(c) \/ RemovePrimary(c) PROVE ~blind
    BY <1>2 DEF ReadPrimary, RemovePrimary
<1>3. ASSUME NEW c \in Clients, MovePromoted(c) \/ RecordPromotion(c) PROVE ~blind
    BY <1>3 DEF MovePromoted, RecordPromotion
<1>4. ASSUME NEW c \in Clients, BulkRequest(c) \/ RescanRequest(c) PROVE ~blind
    BY <1>4 DEF BulkRequest, RescanRequest, Begin
<1>5. ASSUME NEW c \in Clients, Forget(c) \/ Shift(c) \/ Update(c) PROVE ~blind
    BY <1>5 DEF Forget, Shift, Update
<1>6. ASSUME NEW c \in Clients, NEW e \in todo[c], Unlink(c, e) \/ Probe(c, e) PROVE ~blind
    BY <1>6 DEF Unlink, Probe
<1>7. CASE Kill
    BY <1>7 DEF Kill
<1>8. CASE UNCHANGED dupVars
    BY <1>8 DEF dupVars
<1> QED BY <1>1, <1>2, <1>3, <1>4, <1>5, <1>6, <1>7, <1>8 DEF DupNext

(* Every step of careful users keeps the archive safe.                     *)
LEMMA SafeStep ==
    ASSUME DupTypes, ~blind => Safe, [DupNext /\ Careful]_dupVars, ~blind'
    PROVE  Safe'
<1>1. DupTypes' /\ ~blind /\ Safe
    BY TypesStep, BlindStays
<1>2. CASE UNCHANGED dupVars
    BY <1>1, <1>2, StutterSafe
<1>3. CASE DupNext /\ Careful
    <2>1. Orderly'
        BY <1>1, <1>3, OrderlyStep DEF Safe
    <2>2. ASSUME NEW c \in Clients, \/ PromoteRequest(c) \/ ReadPrimary(c) \/ RemovePrimary(c)
                                    \/ MovePromoted(c) \/ RecordPromotion(c)
          PROVE  Safe'
        BY <1>1, <1>3, <2>1, <2>2, PromoteRequestSafe, ReadPrimarySafe, RemovePrimarySafe,
           MovePromotedSafe, RecordPromotionSafe
    <2>3. ASSUME NEW c \in Clients, \/ BulkRequest(c) \/ Forget(c)
                                    \/ RescanRequest(c) \/ Shift(c) \/ Update(c)
          PROVE  Safe'
        BY <1>1, <1>3, <2>1, <2>3, BulkRequestSafe, ForgetSafe, RescanRequestSafe, ShiftSafe,
           UpdateSafe
    <2>4. ASSUME NEW c \in Clients, NEW e \in todo[c], Unlink(c, e) \/ Probe(c, e)
          PROVE  Safe'
        BY <1>1, <1>3, <2>1, <2>4, UnlinkSafe, ProbeSafe
    <2>5. CASE Kill
        BY <1>1, <1>3, <2>1, <2>5, KillSafe
    <2> QED BY <1>3, <2>2, <2>3, <2>4, <2>5 DEF DupNext
<1> QED BY <1>2, <1>3

(* The invariant, along every behaviour of careful users.                  *)
THEOREM SafeHolds == CarefulSpec => [](DupTypes /\ (~blind => Safe))
<1>1. DupInit => DupTypes /\ (~blind => Safe)
    BY TypesInit, SafeInit
<1>2. DupTypes /\ (~blind => Safe) /\ [DupNext /\ Careful]_dupVars
        => (DupTypes /\ (~blind => Safe))'
    <2>1. [DupNext /\ Careful]_dupVars => [DupNext]_dupVars
        OBVIOUS
    <2> QED BY <2>1, TypesStep, SafeStep
<1> QED BY <1>1, <1>2, PTL DEF CarefulSpec

(* A content that is kept is somewhere.                                    *)
LEMMA KeptIsThere ==
    ASSUME DupTypes, Safe, NEW i \in Ids, Kept(Content[i])
    PROVE  \E p \in Places : disk[p] = Content[i]
<1> USE DEF Promoting, Deleting, Rescanning
<1> DEFINE x == Content[i]
<1>1. CASE Stray(x)
    BY <1>1, DupAssumption DEF Stray
<1>2. CASE Anchored(x)
    BY <1>2 DEF Anchored, Firm, Held, Primary, HasRow, DupTypes
<1>3. CASE Orphaned(x)
    BY <1>3 DEF Orphaned, Undisturbed, Held, HasRow, DupTypes
<1>4. CASE Travelling(x)
    <2>1. PICK c \in Clients :
              /\ at[c] \in {"update", "record", "move"} /\ Content[cur[c].id] = x
              /\ \/ at[c] = "update" /\ disk[cur[c].to] = x
                 \/ at[c] = "record"
                 \/ at[c] = "move"
        BY <1>4 DEF Travelling
    <2>2. cur[c].id \in Ids /\ cur[c].to \in Places /\ cur[c].from \in Places
        BY <2>1 DEF DupTypes, Change
    <2>3. at[c] \in {"record", "move"} => PromotionHolds(c)
        BY DEF Safe
    <2> QED BY <2>1, <2>2, <2>3 DEF PromotionHolds, Held
<1> QED BY <1>1, <1>2, <1>3, <1>4 DEF Kept

(* Whatever careful users promote, delete and rescan, however their        *)
(* requests overlap, fail and are killed, a copy of every content stays on *)
(* the disk, as long as no look at a rescan's destination has failed.      *)
THEOREM LastCopyIsSafe == CarefulSpec => []LastCopySurvives
<1>1. DupTypes /\ (~blind => Safe) => LastCopySurvives
    BY KeptIsThere DEF LastCopySurvives, CopiesSurvive, Safe
<1> QED BY <1>1, SafeHolds, PTL

-----------------------------------------------------------------------------
(* One request after the other, and nothing fails.                         *)

(* A request that starts moves nothing.                                    *)
LEMMA BeginAligned ==
    ASSUME DupTypes, DupTypes', Safe, Aligned, ~overlapped', NEW c \in Clients,
           PromoteRequest(c) \/ BulkRequest(c) \/ RescanRequest(c)
    PROVE  Aligned'
<1> USE DEF Promoting, Deleting, Rescanning
<1>1. /\ at[c] = "idle" /\ at'[c] \in {"move", "primary", "unlink", "probe"}
      /\ at'[c] = "move" => partner'[c] = NoRow
      /\ at'[c] \in {"unlink", "probe"} => todo'[c] \in {Identical, PlanRescan}
      /\ UNCHANGED <<where, disk>>
      /\ \A d \in Clients : at[d] = "idle"
      /\ \A d \in Clients \ {c} : at'[d] = "idle"
    <2>1. Begin(c)
        BY DEF PromoteRequest, BulkRequest, RescanRequest
    <2>2. CASE PromoteRequest(c)
        <3>1. at'[c] = "move" => partner'[c] = NoRow
            BY <2>2, DupAssumption DEF PromoteRequest, DupTypes
        <3> QED BY <2>1, <2>2, <3>1 DEF PromoteRequest, DupTypes, Begin
    <2>3. CASE BulkRequest(c) \/ RescanRequest(c)
        BY <2>1, <2>3 DEF BulkRequest, RescanRequest, DupTypes, Begin
    <2> QED BY <2>2, <2>3
<1>2. \A i \in Ids : ~InHand(i) /\ ~InHand(i)'
    BY <1>1, DupAssumption DEF InHand
<1>3. \A p \in Places : ~Landed(p) /\ ~Landed(p)'
    BY <1>1 DEF Landed
<1>4. at'[c] \in {"unlink", "probe"} => Planned(c)' \in {Identical, PlanRescan}
    BY <1>1 DEF Planned
<1>5. \A e \in Identical : where[e.id] = e.from
    BY BulkPlan
<1>6. \A e, f \in Identical : e.id = f.id => e = f
    BY DEF Identical
<1>7. \A i \in Ids : ~InTransit(i) /\ ~Replaced(i)
    BY <1>1 DEF InTransit, Replaced
<1>8. \A e \in PlanRescan : where[e.id] = e.from
    BY <1>7, NewPlanHolds DEF Safe
<1>9. \A e, f \in PlanRescan : e.id = f.id => e = f
    BY <1>7, NewPlanHolds DEF Safe
<1>10. at'[c] \in {"unlink", "probe"} =>
          /\ \A e \in Planned(c)' : where'[e.id] = e.from
          /\ \A e, f \in Planned(c)' : e.id = f.id => e = f
    BY <1>1, <1>4, <1>5, <1>6, <1>8, <1>9
<1> QED BY <1>1, <1>2, <1>3, <1>10 DEF Aligned, HasRow, Held

(* The steps that change neither files nor rows.                           *)
LEMMA ControlAligned ==
    ASSUME DupTypes, DupTypes', Aligned, NEW c \in Clients,
           at[c] \in {"primary", "probe", "shift"},
           at'[c] \in {"idle", "unseat", "probe", "shift"},
           UNCHANGED <<where, disk>>,
           \A d \in Clients \ {c} : at'[d] = at[d],
           at[c] = "primary" => at'[c] \in {"idle", "unseat"},
           at'[c] \in {"probe", "shift"} => Planned(c)' \subseteq Planned(c),
           at'[c] = "shift" => cur'[c] \notin todo'[c]
    PROVE  Aligned'
<1> USE DEF Promoting, Deleting, Rescanning
<1>1. \A d \in Clients \ {c} : at[d] = "idle" /\ at'[d] = "idle"
    BY DEF Aligned
<1>2. \A i \in Ids : ~InHand(i) /\ ~InHand(i)'
    BY <1>1 DEF InHand
<1>3. \A p \in Places : ~Landed(p) /\ ~Landed(p)'
    BY <1>1 DEF Landed
<1> QED BY <1>1, <1>2, <1>3 DEF Aligned, HasRow, Held

(* Reading the primary's row, and a look at a destination, are of that     *)
(* kind.                                                                   *)
LEMMA QuietStepAligned ==
    ASSUME DupTypes, DupTypes', Safe, Aligned, errors' + kills' = 0, NEW c \in Clients,
           ReadPrimary(c) \/ \E e \in todo[c] : Probe(c, e)
    PROVE  Aligned'
<1> USE DEF Promoting, Deleting, Rescanning
<1>1. CASE ReadPrimary(c)
    <2>1. at[c] = "primary" /\ UNCHANGED <<where, disk>>
        BY <1>1 DEF ReadPrimary
    <2>2. where[partner[c]] # NoPlace
        BY <2>1 DEF Safe, PromotionHolds, Primary, HasRow
    <2>3. /\ at'[c] \in {"unseat", "idle"}
          /\ \A d \in Clients \ {c} : at'[d] = at[d]
        BY <1>1, <2>1, <2>2 DEF ReadPrimary, Answer, DupTypes
    <2> QED BY <2>1, <2>3, ControlAligned
<1>2. ASSUME NEW e \in todo[c], Probe(c, e) PROVE Aligned'
    <2>1. at[c] = "probe" /\ UNCHANGED <<where, disk>> /\ Planned(c) = todo[c]
        BY <1>2 DEF Probe, Planned
    <2>2. CASE TakeUp(c, e, "shift")
        <3>1. /\ at'[c] = "shift" /\ todo'[c] = todo[c] \ {e} /\ cur'[c] = e
              /\ \A d \in Clients \ {c} : at'[d] = at[d]
            BY <2>2 DEF TakeUp, DupTypes
        <3>2. Planned(c)' \subseteq Planned(c)
            BY <2>1, <3>1 DEF Planned
        <3> QED BY <2>1, <3>1, <3>2, ControlAligned
    <2>3. CASE GiveUp(c, e, "probe")
        <3>1. /\ at'[c] \in {"probe", "idle"} /\ todo'[c] = todo[c] \ {e}
              /\ \A d \in Clients \ {c} : at'[d] = at[d]
            BY <2>3 DEF GiveUp, DupTypes
        <3>2. Planned(c)' \subseteq Planned(c)
            BY <2>1, <3>1 DEF Planned
        <3> QED BY <2>1, <3>1, <3>2, ControlAligned
    <2> QED BY <1>2, <2>2, <2>3 DEF Probe
<1> QED BY <1>1, <1>2

(* The primary's row loses its file ...                                    *)
LEMMA RemovePrimaryAligned ==
    ASSUME DupTypes, DupTypes', Safe, Aligned, errors' + kills' = 0, NEW c \in Clients,
           RemovePrimary(c)
    PROVE  Aligned'
<1> USE DEF Promoting, Deleting, Rescanning
<1>1. disk' = [disk EXCEPT ![victim[c]] = NoFile] /\ Goto(c, "move")
    BY CountsGrow DEF RemovePrimary
<1>2. PICK j \in Ids : j = partner[c] /\ victim[c] = where[j] /\ where[j] \in Places
    <2>1. at[c] = "unseat"
        BY DEF RemovePrimary
    <2>2. PromotionHolds(c)
        BY <2>1 DEF Safe
    <2>3. partner[c] \in Ids
        BY <2>1 DEF DupTypes
    <2> QED BY <2>1, <2>2, <2>3 DEF PromotionHolds, Primary, HasRow, DupTypes
<1>3. /\ at[c] = "unseat" /\ at'[c] = "move" /\ UNCHANGED <<where, cur, partner>>
      /\ \A d \in Clients \ {c} : at[d] = "idle" /\ at'[d] = "idle"
    BY <1>1 DEF RemovePrimary, Goto, DupTypes, Aligned
<1>4. \A i \in Ids : ~InHand(i) /\ (InHand(i)' <=> i = j)
    BY <1>2, <1>3 DEF InHand
<1>5. \A p \in Places : ~Landed(p) /\ ~Landed(p)'
    BY <1>3 DEF Landed
<1>6. disk'[where[j]] = NoFile /\ \A p \in Places : p # where[j] => disk'[p] = disk[p]
    BY <1>1, <1>2 DEF DupTypes
<1>7. \A i \in Ids : HasRow(i) => i = j \/ Held(i)'
    <2> SUFFICES ASSUME NEW i \in Ids, HasRow(i), i # j PROVE Held(i)'
        OBVIOUS
    <2>1. Held(i) /\ where[i] # where[j] /\ where[i] \in Places
        BY <1>4 DEF Aligned, HasRow, DupTypes
    <2> QED BY <1>3, <1>6, <2>1 DEF Held
<1>8. \A p \in Places : disk'[p] # NoFile => \E i \in Ids : where'[i] = p
    BY <1>3, <1>5, <1>6 DEF Aligned
<1>9. \A i \in Ids : HasRow(i)' <=> HasRow(i)
    BY <1>3 DEF HasRow
<1> QED BY <1>3, <1>4, <1>5, <1>6, <1>7, <1>8, <1>9 DEF Aligned

(* ... the promoted file arrives before its row ...                        *)
LEMMA MovePromotedAligned ==
    ASSUME DupTypes, DupTypes', Safe, Aligned, errors' + kills' = 0, NEW c \in Clients,
           MovePromoted(c)
    PROVE  Aligned'
<1> USE DEF Promoting, Deleting, Rescanning
<1>1. at[c] = "move" /\ PromotionHolds(c)
    BY DEF MovePromoted, Safe
<1>2. PICK u \in Ids, p \in Places, q \in Places, j \in Ids \union {NoRow} :
          u = cur[c].id /\ p = cur[c].from /\ q = cur[c].to /\ j = partner[c]
    <2>1. cur[c] \in Change /\ partner[c] \in Ids \union {NoRow}
        BY <1>1 DEF DupTypes
    <2> QED BY <2>1 DEF Change
<1>3. /\ p \in DupPlaces /\ q \notin DupPlaces /\ where[u] = p
      /\ disk[p] = Content[u] /\ disk[p] # NoFile /\ disk[q] = NoFile
      /\ j # NoRow => Primary(j)
    BY <1>1, <1>2, ContentIsNoFile DEF PromotionHolds, Held
<1>4. disk' = Renamed(p, q) /\ Goto(c, "record")
    <2>1. CASE Failing(disk[cur[c].from] = NoFile)
        BY <1>2, <1>3, <2>1, CountsGrow DEF Failing
    <2> QED BY <1>2, <2>1 DEF MovePromoted
<1>5. /\ at'[c] = "record" /\ UNCHANGED <<where, cur, partner>>
      /\ \A d \in Clients \ {c} : at[d] = "idle" /\ at'[d] = "idle"
    BY <1>1, <1>4 DEF MovePromoted, Goto, DupTypes, Aligned
<1>6. \A i \in Ids : (InHand(i) <=> i = j) /\ (InHand(i)' <=> i = j \/ i = u)
    BY <1>1, <1>2, <1>5 DEF InHand
<1>7. \A r \in Places : ~Landed(r) /\ (Landed(r)' <=> r = q)
    BY <1>1, <1>2, <1>5 DEF Landed
<1>8. /\ disk'[q] = disk[p] /\ disk'[p] = NoFile
      /\ \A r \in Places : r \notin {p, q} => disk'[r] = disk[r]
    BY <1>3, <1>4 DEF Renamed, DupTypes
<1>9. \A i \in Ids : HasRow(i)' <=> HasRow(i)
    BY <1>5 DEF HasRow
<1>10. \A i \in Ids : HasRow(i) => where[i] \in Places
    BY DEF HasRow, DupTypes
<1>11. \A i \in Ids : HasRow(i) => i = j \/ i = u \/ Held(i)'
    <2> SUFFICES ASSUME NEW i \in Ids, HasRow(i), i # j, i # u PROVE Held(i)'
        OBVIOUS
    <2>1. Held(i) /\ where[i] # p
        BY <1>3, <1>6 DEF Aligned
    <2>2. where[i] # q
        BY <1>3, <2>1, ContentIsNoFile DEF Held
    <2> QED BY <1>5, <1>8, <1>10, <2>1, <2>2 DEF Held
<1>12. \A i \in Ids : HasRow(i) /\ (i = j \/ i = u) => disk'[where[i]] = NoFile \/ where[i] = q
    <2>1. disk'[where[u]] = NoFile
        BY <1>3, <1>8
    <2>2. ASSUME NEW i \in Ids, HasRow(i), i = j, where[i] # q PROVE disk'[where[i]] = NoFile
        <3>1. disk[where[i]] = NoFile
            BY <1>6, <1>7, <1>10, <2>2 DEF Aligned
        <3> QED BY <1>8, <1>10, <2>2, <3>1
    <2> QED BY <2>1, <2>2
<1>13. \A r \in Places : disk'[r] # NoFile => r = q \/ \E i \in Ids : where[i] = r
    BY <1>7, <1>8 DEF Aligned
<1> QED BY <1>2, <1>3, <1>5, <1>6, <1>7, <1>8, <1>9, <1>10, <1>11, <1>12, <1>13 DEF Aligned

(* ... and the record makes up for both.                                   *)
LEMMA RecordPromotionAligned ==
    ASSUME DupTypes, DupTypes', Safe, Aligned, errors' + kills' = 0, NEW c \in Clients,
           RecordPromotion(c)
    PROVE  Aligned'
<1> USE DEF Promoting, Deleting, Rescanning
<1>1. at[c] = "record" /\ at'[c] = "idle" /\ PromotionHolds(c) /\ UNCHANGED disk
    BY DEF RecordPromotion, Answer, DupTypes, Safe
<1>2. PICK u \in Ids, p \in Places, q \in Places, j \in Ids \union {NoRow} :
          u = cur[c].id /\ p = cur[c].from /\ q = cur[c].to /\ j = partner[c]
    <2>1. cur[c] \in Change /\ partner[c] \in Ids \union {NoRow}
        BY <1>1 DEF DupTypes
    <2> QED BY <2>1 DEF Change
<1>3. /\ p \in DupPlaces /\ where[u] = p /\ HasRow(u)
      /\ disk[q] = Content[u] /\ disk[p] = NoFile
      /\ \A i \in Ids : where[i] = q => i = j
      /\ j # NoRow => Primary(j)
    BY <1>1, <1>2, DupAssumption DEF PromotionHolds, Aligned, HasRow
<1>4. u # j
    BY <1>3, DupAssumption DEF Primary, IsDup
<1>5. where' = [i \in Ids |-> CASE i = j -> NoPlace
                                [] i # j /\ i = u /\ HasRow(i) -> q
                                [] OTHER -> where[i]]
    BY <1>2, CountsGrow DEF RecordPromotion
<1>6. /\ where'[u] = q
      /\ \A i \in Ids : i # u /\ i # j => where'[i] = where[i]
      /\ \A i \in Ids : i = j => where'[i] = NoPlace
    BY <1>3, <1>4, <1>5
<1>7. \A d \in Clients : at'[d] = "idle" /\ (d # c => at[d] = "idle")
    BY <1>1 DEF RecordPromotion, Answer, DupTypes, Aligned
<1>8. \A i \in Ids : (InHand(i) <=> i = j \/ i = u) /\ ~InHand(i)'
    BY <1>1, <1>2, <1>7 DEF InHand
<1>9. \A r \in Places : (Landed(r) <=> r = q) /\ ~Landed(r)'
    BY <1>1, <1>2, <1>7 DEF Landed
<1>10. \A i \in Ids : HasRow(i)' => i # j /\ (i = u \/ HasRow(i))
    BY <1>6 DEF HasRow
<1>11. \A i \in Ids : HasRow(i)' => Held(i)'
    BY <1>1, <1>3, <1>6, <1>8, <1>10 DEF Aligned, Held
<1>12. \A i, k \in Ids : HasRow(i)' /\ where'[i] = where'[k] => i = k
    <2> SUFFICES ASSUME NEW i \in Ids, NEW k \in Ids, HasRow(i)', where'[i] = where'[k]
                 PROVE  i = k
        OBVIOUS
    <2>1. i # j /\ k # j
        BY <1>6 DEF HasRow
    <2>2. where'[i] = IF i = u THEN q ELSE where[i]
        BY <1>6, <2>1
    <2>3. where'[k] = IF k = u THEN q ELSE where[k]
        BY <1>6, <2>1
    <2>4. \A l, m \in Ids : HasRow(l) /\ where[l] = where[m] => l = m
        BY DEF Aligned
    <2>5. CASE i = u \/ k = u
        BY <1>3, <2>1, <2>2, <2>3, <2>5
    <2>6. CASE i # u /\ k # u
        BY <1>10, <2>2, <2>3, <2>4, <2>6
    <2> QED BY <2>5, <2>6
<1>13. \A r \in Places : disk'[r] # NoFile => \E i \in Ids : where'[i] = r
    <2> SUFFICES ASSUME NEW r \in Places, disk[r] # NoFile, r # q
                 PROVE  \E i \in Ids : where'[i] = r
        BY <1>1, <1>6
    <2>1. PICK i \in Ids : where[i] = r /\ HasRow(i)
        BY <1>9, DupAssumption DEF Aligned, HasRow
    <2>2. ~InHand(i)
        BY <1>9, <2>1 DEF Aligned
    <2> QED BY <1>6, <1>8, <2>1, <2>2
<1> QED BY <1>7, <1>8, <1>9, <1>11, <1>12, <1>13 DEF Aligned

(* A duplicate's row loses its file ...                                    *)
LEMMA UnlinkAligned ==
    ASSUME DupTypes, DupTypes', Aligned, errors' + kills' = 0,
           NEW c \in Clients, NEW e \in todo[c], Unlink(c, e)
    PROVE  Aligned'
<1> USE DEF Promoting, Deleting, Rescanning
<1>1. disk' = [disk EXCEPT ![e.from] = NoFile] /\ TakeUp(c, e, "forget")
    BY CountsGrow DEF Unlink
<1>2. /\ at[c] = "unlink" /\ at'[c] = "forget" /\ UNCHANGED where
      /\ cur'[c] = e /\ todo'[c] = todo[c] \ {e}
      /\ \A d \in Clients \ {c} : at[d] = "idle" /\ at'[d] = "idle"
    BY <1>1 DEF Unlink, TakeUp, DupTypes, Aligned
<1>3. Planned(c) = todo[c] /\ Planned(c)' = Planned(c)
    BY <1>2 DEF Planned
<1>4. PICK u \in Ids, p \in Places : u = e.id /\ p = e.from /\ where[u] = p
    <2>1. e \in Change
        BY DEF DupTypes
    <2>2. where[e.id] = e.from
        BY <1>2, <1>3 DEF Aligned
    <2> QED BY <2>1, <2>2 DEF Change
<1>5. \A i \in Ids : ~InHand(i) /\ (InHand(i)' <=> i = u)
    BY <1>2, <1>4 DEF InHand
<1>6. \A r \in Places : ~Landed(r) /\ ~Landed(r)'
    BY <1>2 DEF Landed
<1>7. disk'[p] = NoFile /\ \A r \in Places : r # p => disk'[r] = disk[r]
    BY <1>1, <1>4 DEF DupTypes
<1>8. \A i \in Ids : HasRow(i)' <=> HasRow(i)
    BY <1>2 DEF HasRow
<1>9. \A i \in Ids : HasRow(i) => i = u \/ Held(i)'
    <2> SUFFICES ASSUME NEW i \in Ids, HasRow(i), i # u PROVE Held(i)'
        OBVIOUS
    <2>1. Held(i) /\ where[i] # p /\ where[i] \in Places
        BY <1>4, <1>5 DEF Aligned, HasRow, DupTypes
    <2> QED BY <1>2, <1>7, <2>1 DEF Held
<1>10. \A r \in Places : disk'[r] # NoFile => \E i \in Ids : where'[i] = r
    BY <1>2, <1>6, <1>7 DEF Aligned
<1>11. /\ \A f \in Planned(c)' : where'[f.id] = f.from
       /\ \A f, g \in Planned(c)' : f.id = g.id => f = g
       /\ cur'[c] \notin todo'[c]
    BY <1>2, <1>3 DEF Aligned
<1> QED BY <1>2, <1>4, <1>5, <1>6, <1>7, <1>8, <1>9, <1>10, <1>11 DEF Aligned

(* ... and goes.                                                           *)
LEMMA ForgetAligned ==
    ASSUME DupTypes, DupTypes', Aligned, errors' + kills' = 0, NEW c \in Clients, Forget(c)
    PROVE  Aligned'
<1> USE DEF Promoting, Deleting, Rescanning
<1>1. where' = [where EXCEPT ![cur[c].id] = NoPlace] /\ Done(c, "unlink")
    BY CountsGrow DEF Forget
<1>2. /\ at[c] = "forget" /\ at'[c] \in {"idle", "unlink"} /\ UNCHANGED <<disk, todo>>
      /\ \A d \in Clients \ {c} : at[d] = "idle" /\ at'[d] = "idle"
    BY <1>1 DEF Forget, Done, DupTypes, Aligned
<1>3. Planned(c) = todo[c] \union {cur[c]} /\ Planned(c)' = todo[c]
    BY <1>2 DEF Planned
<1>4. PICK u \in Ids : u = cur[c].id
    BY <1>2 DEF DupTypes, Change
<1>5. \A i \in Ids : (InHand(i) <=> i = u) /\ ~InHand(i)'
    BY <1>2, <1>4 DEF InHand
<1>6. \A r \in Places : ~Landed(r) /\ ~Landed(r)'
    BY <1>2 DEF Landed
<1>7. where'[u] = NoPlace /\ \A i \in Ids \ {u} : where'[i] = where[i]
    BY <1>1, <1>4 DEF DupTypes
<1>8. \A i \in Ids : HasRow(i)' <=> HasRow(i) /\ i # u
    BY <1>7 DEF HasRow
<1>9. \A i \in Ids : HasRow(i)' => Held(i)'
    BY <1>2, <1>5, <1>7, <1>8 DEF Aligned, Held
<1>10. \A i, k \in Ids : HasRow(i)' /\ where'[i] = where'[k] => i = k
    BY <1>7, <1>8 DEF Aligned, HasRow
<1>11. \A r \in Places : disk'[r] # NoFile => \E i \in Ids : where'[i] = r
    <2> SUFFICES ASSUME NEW r \in Places, disk[r] # NoFile PROVE \E i \in Ids : where'[i] = r
        BY <1>2
    <2>1. PICK i \in Ids : where[i] = r /\ HasRow(i)
        BY <1>6, DupAssumption DEF Aligned, HasRow
    <2>2. ~InHand(i)
        BY <1>6, <2>1 DEF Aligned
    <2> QED BY <1>5, <1>7, <2>1, <2>2
<1>12. /\ \A f \in todo[c] : where'[f.id] = f.from
       /\ \A f, g \in todo[c] : f.id = g.id => f = g
    <2>1. \A f \in todo[c] : f.id \in Ids /\ f.id # u /\ where[f.id] = f.from
        <3>1. \A f \in todo[c] : f \in Change
            BY DEF DupTypes
        <3>2. \A f \in todo[c] : f.id \in Ids
            BY <3>1 DEF Change
        <3> QED BY <1>2, <1>3, <1>4, <3>2 DEF Aligned
    <2> QED BY <1>2, <1>3, <1>7, <2>1 DEF Aligned
<1> QED BY <1>2, <1>3, <1>5, <1>6, <1>9, <1>10, <1>11, <1>12 DEF Aligned

(* A rescan's file arrives before its row ...                              *)
LEMMA ShiftAligned ==
    ASSUME DupTypes, DupTypes', Safe, Aligned, errors' + kills' = 0, NEW c \in Clients, Shift(c)
    PROVE  Aligned'
<1> USE DEF Promoting, Deleting, Rescanning
<1>1. at[c] = "shift" /\ PlanHolds(c) /\ UNCHANGED <<where, todo>>
    BY DEF Shift, Safe, Goto, Done
<1>2. CASE Done(c, "probe") /\ UNCHANGED disk
    <2>1. /\ at'[c] \in {"probe", "idle"}
          /\ \A d \in Clients \ {c} : at'[d] = at[d]
        BY <1>2 DEF Done, DupTypes
    <2>2. Planned(c)' \subseteq Planned(c)
        BY <1>1, <2>1 DEF Planned
    <2> QED BY <1>1, <1>2, <2>1, <2>2, ControlAligned
<1>3. CASE disk' = Renamed(cur[c].from, cur[c].to) /\ Goto(c, "update")
    <2>1. PICK e \in Change, u \in Ids, p \in Places, q \in Places :
              e = cur[c] /\ u = e.id /\ p = e.from /\ q = e.to
        <3>1. cur[c] \in Change
            BY <1>1 DEF DupTypes
        <3> QED BY <3>1 DEF Change
    <2>2. /\ at'[c] = "update" /\ UNCHANGED cur
          /\ \A d \in Clients \ {c} : at[d] = "idle" /\ at'[d] = "idle"
        BY <1>1, <1>3 DEF Goto, DupTypes, Aligned
    <2>3. Planned(c)' = Planned(c) /\ e \in Planned(c)
        BY <1>1, <2>1, <2>2 DEF Planned
    <2>4. where[u] = p /\ disk[q] = NoFile /\ p # q
        BY <1>1, <2>1, <2>3 DEF Aligned, PlanHolds
    <2>5. \A i \in Ids : ~InHand(i) /\ (InHand(i)' <=> i = u)
        BY <1>1, <2>1, <2>2 DEF InHand
    <2>6. \A r \in Places : ~Landed(r) /\ (Landed(r)' <=> r = q)
        BY <1>1, <2>1, <2>2 DEF Landed
    <2>7. /\ disk'[q] = disk[p] /\ disk'[p] = NoFile
          /\ \A r \in Places : r \notin {p, q} => disk'[r] = disk[r]
        BY <1>3, <2>1, <2>4 DEF Renamed, DupTypes
    <2>8. \A i \in Ids : HasRow(i) => Held(i) /\ where[i] \in Places /\ where[i] # q
        BY <2>4, <2>5, ContentIsNoFile DEF Aligned, Held, HasRow, DupTypes
    <2>9. disk[p] = Content[u] /\ HasRow(u)
        BY <2>4, <2>8, DupAssumption DEF Held, HasRow
    <2>10. \A i \in Ids : HasRow(i)' <=> HasRow(i)
        BY <1>1 DEF HasRow
    <2>11. \A i \in Ids : HasRow(i) => i = u \/ Held(i)'
        <3> SUFFICES ASSUME NEW i \in Ids, HasRow(i), i # u PROVE Held(i)'
            OBVIOUS
        <3>1. where[i] # p
            BY <2>4 DEF Aligned
        <3> QED BY <1>1, <2>7, <2>8, <3>1 DEF Held
    <2>12. \A r \in Places : disk'[r] # NoFile => r = q \/ \E i \in Ids : where'[i] = r
        BY <1>1, <2>6, <2>7 DEF Aligned
    <2>13. \A i \in Ids : where'[i] # q
        BY <1>1, <2>8, DupAssumption DEF HasRow
    <2>14. /\ \A f \in Planned(c)' : where'[f.id] = f.from
           /\ \A f, g \in Planned(c)' : f.id = g.id => f = g
           /\ cur'[c] \notin todo'[c]
        BY <1>1, <2>2, <2>3 DEF Aligned
    <2> QED BY <1>1, <2>1, <2>2, <2>4, <2>5, <2>6, <2>7, <2>9, <2>10, <2>11, <2>12, <2>13, <2>14
            DEF Aligned
<1> QED BY <1>2, <1>3 DEF Shift

(* ... which follows it.                                                   *)
LEMMA UpdateAligned ==
    ASSUME DupTypes, DupTypes', Aligned, errors' + kills' = 0, NEW c \in Clients, Update(c)
    PROVE  Aligned'
<1> USE DEF Promoting, Deleting, Rescanning
<1>1. /\ where' = [where EXCEPT ![cur[c].id] = IF HasRow(cur[c].id) THEN cur[c].to ELSE @]
      /\ Done(c, "probe")
    BY CountsGrow DEF Update
<1>2. /\ at[c] = "update" /\ at'[c] \in {"idle", "probe"} /\ UNCHANGED <<disk, todo>>
      /\ \A d \in Clients \ {c} : at[d] = "idle" /\ at'[d] = "idle"
    BY <1>1 DEF Update, Done, DupTypes, Aligned
<1>3. PICK e \in Change, u \in Ids, p \in Places, q \in Places :
          e = cur[c] /\ u = e.id /\ p = e.from /\ q = e.to
    <2>1. cur[c] \in Change
        BY <1>2 DEF DupTypes
    <2> QED BY <2>1 DEF Change
<1>4. Planned(c) = todo[c] \union {e} /\ Planned(c)' = todo[c]
    BY <1>2, <1>3 DEF Planned
<1>5. \A i \in Ids : (InHand(i) <=> i = u) /\ ~InHand(i)'
    BY <1>2, <1>3 DEF InHand
<1>6. \A r \in Places : (Landed(r) <=> r = q) /\ ~Landed(r)'
    BY <1>2, <1>3 DEF Landed
<1>7. /\ where[u] = p /\ HasRow(u) /\ disk[q] = Content[u] /\ disk[p] = NoFile
      /\ \A i \in Ids : where[i] # q
    BY <1>2, <1>3, <1>4, DupAssumption DEF Aligned, HasRow
<1>8. where'[u] = q /\ \A i \in Ids \ {u} : where'[i] = where[i]
    BY <1>1, <1>3, <1>7 DEF DupTypes
<1>9. \A i \in Ids : HasRow(i)' <=> HasRow(i)
    BY <1>7, <1>8, DupAssumption DEF HasRow
<1>10. \A i \in Ids : HasRow(i)' => Held(i)'
    BY <1>2, <1>5, <1>7, <1>8, <1>9 DEF Aligned, Held
<1>11. \A i, k \in Ids : HasRow(i)' /\ where'[i] = where'[k] => i = k
    BY <1>7, <1>8, <1>9 DEF Aligned
<1>12. \A r \in Places : disk'[r] # NoFile => \E i \in Ids : where'[i] = r
    <2> SUFFICES ASSUME NEW r \in Places, disk[r] # NoFile, r # q
                 PROVE  \E i \in Ids : where'[i] = r
        BY <1>2, <1>8
    <2>1. PICK i \in Ids : where[i] = r
        BY <1>6 DEF Aligned
    <2> QED BY <1>7, <1>8, <2>1
<1>13. /\ \A f \in todo[c] : where'[f.id] = f.from
       /\ \A f, g \in todo[c] : f.id = g.id => f = g
    <2>1. \A f \in todo[c] : f.id \in Ids /\ f.id # u /\ where[f.id] = f.from
        <3>1. \A f \in todo[c] : f \in Change
            BY DEF DupTypes
        <3>2. \A f \in todo[c] : f.id \in Ids
            BY <3>1 DEF Change
        <3> QED BY <1>2, <1>3, <1>4, <3>2 DEF Aligned
    <2> QED BY <1>2, <1>4, <1>8, <2>1 DEF Aligned
<1> QED BY <1>2, <1>4, <1>5, <1>6, <1>10, <1>11, <1>12, <1>13 DEF Aligned

(* An archive in order is aligned.                                         *)
LEMMA AlignedInit == DupInit => Aligned
<1> SUFFICES ASSUME DupInit PROVE Aligned
    OBVIOUS
<1>1. \A c \in Clients : at[c] = "idle"
    BY DEF DupInit
<1>2. \A i, j \in Ids : where[i] = where[j] => i = j
    BY DEF DupInit
<1>3. ASSUME NEW i \in Ids PROVE Held(i)
    <2>1. (CHOOSE j \in Ids : where[j] = where[i]) = i
        BY <1>2
    <2>2. where[i] \in Places
        BY DEF DupInit
    <2> QED BY <2>1, <2>2 DEF DupInit, Held
<1>4. \A p \in Places : disk[p] # NoFile => \E i \in Ids : where[i] = p
    BY DEF DupInit
<1>5. \A i \in Ids : ~InHand(i)
    BY <1>1 DEF InHand
<1> QED BY <1>1, <1>2, <1>3, <1>4, <1>5 DEF Aligned, Deleting, Rescanning

(* Requests that have not overlapped had not before, nor had any failed.   *)
LEMMA HistoryGrows ==
    ASSUME DupTypes, [DupNext]_dupVars
    PROVE  /\ ~overlapped' => ~overlapped
           /\ errors' + kills' = 0 => errors + kills = 0
<1> USE DEF Fine, Error, Failing, bounds, Goto, Answer, TakeUp, GiveUp, Done
<1> DEFINE Q == (~overlapped' => ~overlapped) /\ (errors' + kills' = 0 => errors + kills = 0)
<1>0. errors \in Nat /\ kills \in Nat
    BY DEF DupTypes
<1>1. ASSUME NEW c \in Clients, PromoteRequest(c) PROVE Q
    BY <1>1 DEF PromoteRequest, Begin
<1>2. ASSUME NEW c \in Clients, ReadPrimary(c) \/ RemovePrimary(c) PROVE Q
    BY <1>0, <1>2 DEF ReadPrimary, RemovePrimary
<1>3. ASSUME NEW c \in Clients, MovePromoted(c) \/ RecordPromotion(c) PROVE Q
    BY <1>0, <1>3 DEF MovePromoted, RecordPromotion
<1>4. ASSUME NEW c \in Clients, BulkRequest(c) \/ RescanRequest(c) PROVE Q
    BY <1>4 DEF BulkRequest, RescanRequest, Begin
<1>5. ASSUME NEW c \in Clients, Forget(c) \/ Shift(c) \/ Update(c) PROVE Q
    BY <1>0, <1>5 DEF Forget, Shift, Update
<1>6. ASSUME NEW c \in Clients, NEW e \in todo[c], Unlink(c, e) \/ Probe(c, e) PROVE Q
    BY <1>0, <1>6 DEF Unlink, Probe
<1>7. CASE Kill
    BY <1>0, <1>7 DEF Kill
<1>8. CASE UNCHANGED dupVars
    BY <1>8 DEF dupVars
<1> QED BY <1>1, <1>2, <1>3, <1>4, <1>5, <1>6, <1>7, <1>8 DEF DupNext

(* A look fails only with an error, and errors stay counted.               *)
LEMMA ErrorsCount ==
    ASSUME DupTypes, [DupNext]_dupVars
    PROVE  errors' > 0 \/ ((blind' => blind) /\ errors' >= errors)
<1> DEFINE Q == errors' > 0 \/ ((blind' => blind) /\ errors' >= errors)
<1> USE DEF Fine, Error, Failing, bounds
<1>0. errors \in Nat
    BY DEF DupTypes
<1>1. ASSUME NEW c \in Clients, PromoteRequest(c) PROVE Q
    BY <1>0, <1>1 DEF PromoteRequest, Begin
<1>2. ASSUME NEW c \in Clients, ReadPrimary(c) \/ RemovePrimary(c) PROVE Q
    BY <1>0, <1>2 DEF ReadPrimary, RemovePrimary
<1>3. ASSUME NEW c \in Clients, MovePromoted(c) \/ RecordPromotion(c) PROVE Q
    BY <1>0, <1>3 DEF MovePromoted, RecordPromotion
<1>4. ASSUME NEW c \in Clients, BulkRequest(c) \/ RescanRequest(c) PROVE Q
    BY <1>0, <1>4 DEF BulkRequest, RescanRequest, Begin
<1>5. ASSUME NEW c \in Clients, Forget(c) \/ Shift(c) \/ Update(c) PROVE Q
    BY <1>0, <1>5 DEF Forget, Shift, Update
<1>6. ASSUME NEW c \in Clients, NEW e \in todo[c], Unlink(c, e) \/ Probe(c, e) PROVE Q
    BY <1>0, <1>6 DEF Unlink, Probe
<1>7. CASE Kill
    BY <1>0, <1>7 DEF Kill
<1>8. CASE UNCHANGED dupVars
    BY <1>0, <1>8 DEF dupVars
<1>9. Q
    BY <1>1, <1>2, <1>3, <1>4, <1>5, <1>6, <1>7, <1>8 DEF DupNext
<1> QED BY <1>9 DEF Q

(* So a look that failed has been counted.                                 *)
LEMMA BlindCounts ==
    ASSUME DupTypes, [DupNext]_dupVars, blind => errors > 0
    PROVE  blind' => errors' > 0
<1>1. errors' > 0 \/ ((blind' => blind) /\ errors' >= errors)
    BY ErrorsCount
<1>10. CASE errors' > 0
    BY <1>10
<1>11. CASE (blind' => blind) /\ errors' >= errors
    <2>1. errors > 0 => errors' > 0
        <3>1. errors' \in Nat
            BY TypesStep DEF DupTypes
        <3>2. errors \in Nat
            BY DEF DupTypes
        <3> QED BY <1>11, <3>1, <3>2
    <2>2. blind' => blind
        BY <1>11
    <2> QED BY <2>1, <2>2
<1> QED BY <1>1, <1>10, <1>11

(* Every step of requests that do not overlap, nor fail, keeps it so.      *)
LEMMA AlignedStep ==
    ASSUME DupTypes, blind => errors > 0, ~blind => Safe, Serial, [DupNext /\ Careful]_dupVars
    PROVE  Serial'
<1> SUFFICES ASSUME ~overlapped', errors' + kills' = 0 PROVE Aligned'
    BY DEF Serial
<1>1. DupTypes' /\ ~overlapped /\ errors + kills = 0
    BY TypesStep, HistoryGrows
<1>2. ~blind /\ Safe
    BY <1>1 DEF DupTypes
<1>3. Aligned
    BY <1>1 DEF Serial
<1>4. CASE UNCHANGED dupVars
    BY <1>3, <1>4 DEF dupVars, request, Aligned, HasRow, Held, InHand, Landed, Planned
<1>5. ASSUME NEW c \in Clients, PromoteRequest(c) \/ BulkRequest(c) \/ RescanRequest(c)
      PROVE  Aligned'
    BY <1>1, <1>2, <1>3, <1>5, BeginAligned
<1>6. ASSUME NEW c \in Clients, \/ ReadPrimary(c) \/ RemovePrimary(c)
                                \/ MovePromoted(c) \/ RecordPromotion(c)
      PROVE  Aligned'
    BY <1>1, <1>2, <1>3, <1>6, QuietStepAligned, RemovePrimaryAligned, MovePromotedAligned,
       RecordPromotionAligned
<1>7. ASSUME NEW c \in Clients, Forget(c) \/ Shift(c) \/ Update(c) PROVE Aligned'
    BY <1>1, <1>2, <1>3, <1>7, ForgetAligned, ShiftAligned, UpdateAligned
<1>8. ASSUME NEW c \in Clients, NEW e \in todo[c], Unlink(c, e) \/ Probe(c, e) PROVE Aligned'
    BY <1>1, <1>2, <1>3, <1>8, UnlinkAligned, QuietStepAligned
<1>9. ~Kill
    <2>1. errors \in Nat /\ kills \in Nat
        BY DEF DupTypes
    <2>2. kills' # kills + 1
        <3>1. errors' \in Nat /\ kills' \in Nat
            BY <1>1 DEF DupTypes
        <3>2. kills' = 0
            <4>1. \A m, n \in Nat : m + n = 0 => n = 0
                OBVIOUS
            <4> QED BY <3>1, <4>1, Zenon
        <3> QED BY <2>1, <3>2
    <2> QED BY <2>2 DEF Kill
<1>10. CASE DupNext
    BY <1>5, <1>6, <1>7, <1>8, <1>9, <1>10 DEF DupNext
<1> QED BY <1>4, <1>10

(* Along every behaviour: a look that failed has been counted, and while   *)
(* requests follow one another and nothing fails, files and rows differ    *)
(* only by the change in hand.                                             *)
THEOREM SerialHolds == CarefulSpec => []((blind => errors > 0) /\ Serial)
<1>1. DupInit => (blind => errors > 0) /\ Serial
    BY AlignedInit DEF DupInit, Serial
<1>2. /\ DupTypes /\ (~blind => Safe) /\ (blind => errors > 0) /\ Serial
      /\ [DupNext /\ Careful]_dupVars
      => ((blind => errors > 0) /\ Serial)'
    <2>1. [DupNext /\ Careful]_dupVars => [DupNext]_dupVars
        OBVIOUS
    <2> QED BY <2>1, BlindCounts, AlignedStep
<1> QED BY <1>1, <1>2, SafeHolds, PTL DEF CarefulSpec

(* As long as nothing has failed, a content whose copies careful users     *)
(* promote, delete and rescan has a copy with a row whenever no request is *)
(* at work.                                                                *)
THEOREM LastCopyHasRow == CarefulSpec => []LastCopyRegistered
<1>1. DupTypes /\ (~blind => Safe) /\ (blind => errors > 0) => LastCopyRegistered
    <2> SUFFICES ASSUME DupTypes, ~blind => Safe, blind => errors > 0, Quiet, errors + kills = 0,
                        NEW i \in Ids
                 PROVE  \E j \in Same(i) : disk[where[j]] = Content[i]
        BY DEF LastCopyRegistered
    <2>1. Safe /\ ~(errors + kills > 0)
        BY DEF DupTypes
    <2>2. Anchored(Content[i]) \/ Orphaned(Content[i])
        <3>1. ~Travelling(Content[i])
            BY DEF Quiet, Travelling
        <3> QED BY <2>1, <3>1 DEF Safe, Kept
    <2> QED BY <2>2 DEF Anchored, Orphaned, Undisturbed, Firm, Held, Primary, Same
<1> QED BY <1>1, SafeHolds, SerialHolds, PTL

(* If moreover careful users make their requests one after the other, then *)
(* whenever none is at work every row names a place of its own that holds  *)
(* its content, and no file is without a row.                              *)
THEOREM RowsAndFilesAgree == CarefulSpec => []RowsMatchFiles
<1>1. Serial => RowsMatchFiles
    <2> SUFFICES ASSUME Aligned, Quiet
                 PROVE  /\ \A i \in Ids : HasRow(i) => disk[where[i]] = Content[i]
                        /\ \A i, j \in Ids : HasRow(i) /\ where[i] = where[j] => i = j
                        /\ \A p \in Places : disk[p] # NoFile => \E i \in Ids : where[i] = p
        BY DEF Serial, RowsMatchFiles
    <2>1. \A i \in Ids : ~InHand(i)
        BY DEF Quiet, InHand
    <2>2. \A p \in Places : ~Landed(p)
        BY DEF Quiet, Landed
    <2> QED BY <2>1, <2>2 DEF Aligned, Held
<1> QED BY <1>1, SerialHolds, PTL

=============================================================================
