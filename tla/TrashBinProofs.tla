--------------------------- MODULE TrashBinProofs ---------------------------
(* Proofs about TrashBin, for any files, places, requests and bounds.      *)
EXTENDS TrashBin, SequenceTheorems, TLAPS

-----------------------------------------------------------------------------
(* Types, and a request that is under way has an item left and, before it  *)
(* renames, a place it has read.                                           *)
Working ==
    \A c \in Clients :
        /\ at[c] # "idle" => todo[c] # <<>>
        /\ at[c] \in {"resolve", "rename"} => src[c] \in Places

Typed == TrashTypeOK /\ Working

LEMMA CurFile ==
    ASSUME Typed, NEW c \in Clients, at[c] # "idle"
    PROVE  /\ Head(todo[c]) \in Item
           /\ Cur(c) \in Files
           /\ Tail(todo[c]) \in Seq(Item)
           /\ Len(todo[c]) # 1 => Tail(todo[c]) # <<>>
           /\ Len(todo[c]) \in Nat
<1>1. todo[c] \in Seq(Item) /\ todo[c] # <<>>
    BY DEF Typed, TrashTypeOK, Working
<1>2. Head(todo[c]) \in Item /\ Tail(todo[c]) \in Seq(Item) /\ Len(todo[c]) \in Nat
    BY <1>1
<1>3. Len(todo[c]) # 1 => Tail(todo[c]) # <<>>
    <2>1. Len(Tail(todo[c])) = Len(todo[c]) - 1
      BY <1>1, HeadTailProperties
    <2>2. Tail(todo[c]) = <<>> => Len(Tail(todo[c])) = 0
      BY EmptySeq
    <2> QED BY <1>2, <2>1, <2>2
<1> QED BY <1>2, <1>3 DEF Cur, Item

(* Moving on to the next item, or to another step of the same item.        *)
LEMMA NextItemTyped ==
    ASSUME Typed, NEW c \in Clients, at[c] # "idle",
           NextItem(c, "read") \/ NextItem(c, "condemn")
    PROVE  /\ at' \in [Clients -> {"idle", "read", "resolve", "rename", "record", "log",
                                   "refused", "condemn", "remove", "forget"}]
           /\ todo' \in [Clients -> Seq(Item)]
           /\ src' \in [Clients -> Places \union {NoPlace}]
           /\ dst' \in [Clients -> Places \union {NoPlace}]
           /\ Working'
<1> DEFINE t == Tail(todo[c])
<1>1. t \in Seq(Item) /\ (Len(todo[c]) # 1 => t # <<>>)
    BY CurFile
<1> HIDE DEF t
<1>2. todo' = [todo EXCEPT ![c] = t]
    BY DEF NextItem, t
<1>3. /\ at'[c] # "idle" => Len(todo[c]) # 1
      /\ at'[c] \notin {"resolve", "rename"}
    BY DEF NextItem, Typed, TrashTypeOK
<1>4. \A d \in Clients \ {c} : at'[d] = at[d] /\ src'[d] = src[d]
    BY DEF NextItem, Typed, TrashTypeOK
<1>5. Working'
    BY <1>1, <1>2, <1>3, <1>4 DEF Working, Typed, TrashTypeOK
<1> QED BY <1>1, <1>2, <1>5 DEF Typed, TrashTypeOK, NextItem

LEMMA GotoTyped ==
    ASSUME Typed, NEW c \in Clients, at[c] # "idle",
           \E s \in {"record", "log", "remove", "forget"} : Goto(c, s)
    PROVE  /\ at' \in [Clients -> {"idle", "read", "resolve", "rename", "record", "log",
                                   "refused", "condemn", "remove", "forget"}]
           /\ todo' \in [Clients -> Seq(Item)]
           /\ src' \in [Clients -> Places \union {NoPlace}]
           /\ dst' \in [Clients -> Places \union {NoPlace}]
           /\ Working'
BY CurFile DEF Typed, TrashTypeOK, Goto, Working

LEMMA TypedInit == TrashInit => Typed
<1> SUFFICES ASSUME TrashInit PROVE Typed
    OBVIOUS
<1>1. disk \in [Places -> Files \union {NoFile}]
    BY DEF TrashInit
<1>2. where \in [Files -> Places \union {NoPlace}]
    BY TrashAssumption DEF TrashInit, Places
<1>3. todo \in [Clients -> Seq(Item)]
    BY EmptySeq DEF TrashInit
<1>4. faults \in 0..MaxFaults /\ crashes \in 0..MaxCrashes
    BY TrashAssumption DEF TrashInit
<1> QED BY <1>1, <1>2, <1>3, <1>4 DEF TrashInit, Typed, TrashTypeOK, Working

LEMMA TypedStep == Typed /\ [TrashNext]_trashVars => Typed'
<1> SUFFICES ASSUME Typed, [TrashNext]_trashVars PROVE Typed'
    OBVIOUS
<1> USE TrashAssumption
<1>1. ASSUME NEW c \in Clients, DeleteRequest(c) PROVE Typed'
  <2>1. PICK n \in 1..MaxIds : \E ids \in [1..n -> Files] :
            todo' = [todo EXCEPT ![c] =
                        [i \in 1..n |-> [file |-> ids[i], path |-> NoPlace, proxy |-> FALSE]]]
    BY <1>1 DEF DeleteRequest
  <2>2. PICK ids \in [1..n -> Files] :
            todo' = [todo EXCEPT ![c] =
                        [i \in 1..n |-> [file |-> ids[i], path |-> NoPlace, proxy |-> FALSE]]]
    BY <2>1
  <2> DEFINE items == [i \in 1..n |-> [file |-> ids[i], path |-> NoPlace, proxy |-> FALSE]]
  <2>3. \A i \in 1..n : items[i] \in Item
    BY DEF Item
  <2>4. n \in Nat /\ items \in [1..n -> Item]
    BY <2>3
  <2>5. items \in Seq(Item) /\ items # <<>>
    <3>1. items \in Seq(Item)
      BY <2>4
    <3>2. Len(items) = n /\ n # 0
      BY <2>4
    <3> HIDE DEF items
    <3> QED BY <3>1, <3>2, EmptySeq
  <2> HIDE DEF items
  <2>6. todo' = [todo EXCEPT ![c] = items]
    BY <2>2 DEF items
  <2> QED BY <1>1, <2>5, <2>6
      DEF DeleteRequest, Typed, TrashTypeOK, Working, rows, bounds, Unchanged
<1>2. ASSUME NEW c \in Clients, Read(c) PROVE Typed'
  <2>1. at[c] # "idle"
    BY <1>2 DEF Read
  <2>2. CASE NextItem(c, "read")
    BY <1>2, <2>1, <2>2, NextItemTyped
       DEF Read, Typed, TrashTypeOK, rows, Unchanged, Fault
  <2>3. CASE ~NextItem(c, "read")
    BY <1>2, <2>1, <2>3, CurFile
       DEF Read, HasRow, Typed, TrashTypeOK, Working, rows, Unchanged
  <2> QED BY <2>2, <2>3
<1>3. ASSUME NEW c \in Clients, Resolve(c) PROVE Typed'
  <2>1. at[c] # "idle"
    BY <1>3 DEF Resolve
  <2>2. CASE NextItem(c, "read")
    BY <1>3, <2>1, <2>2, NextItemTyped
       DEF Resolve, Typed, TrashTypeOK, rows, Unchanged
  <2>3. CASE ~NextItem(c, "read")
    <3>1. PICK i \in Free(Cur(c)) : /\ dst' = [dst EXCEPT ![c] = TrashNames[Cur(c)][i]]
                                    /\ at' = [at EXCEPT ![c] = "rename"]
                                    /\ UNCHANGED <<todo, src>>
      BY <1>3, <2>3 DEF Resolve
    <3>2. TrashNames[Cur(c)] \in Seq(TrashPlaces) /\ i \in DOMAIN TrashNames[Cur(c)]
      BY <2>1, CurFile DEF Free
    <3>3. TrashNames[Cur(c)][i] \in Places
      BY <3>2 DEF Places
    <3> QED BY <1>3, <3>1, <3>3, <2>1
            DEF Resolve, Typed, TrashTypeOK, Working, rows, Unchanged
  <2> QED BY <2>2, <2>3
<1>4. ASSUME NEW c \in Clients, Rename(c) PROVE Typed'
  <2>1. at[c] # "idle"
    BY <1>4 DEF Rename
  <2>2. disk' \in [Places -> Files \union {NoFile}]
    <3>1. CASE disk' = Moved(disk, src[c], dst[c])
      <4>1. disk \in [Places -> Files \union {NoFile}]
        BY DEF Typed, TrashTypeOK
      <4>2. CASE disk[src[c]] = NoFile
        BY <3>1, <4>1, <4>2 DEF Moved
      <4>3. CASE disk[src[c]] # NoFile
        BY <1>4, <3>1, <4>1, <4>3 DEF Moved, Rename, Typed, Working
      <4> QED BY <4>2, <4>3
    <3> QED BY <1>4, <3>1 DEF Rename, Typed, TrashTypeOK
  <2>3. CASE NextItem(c, "read")
    BY <1>4, <2>1, <2>2, <2>3, NextItemTyped
       DEF Rename, Typed, TrashTypeOK, rows, Unchanged, Fault
  <2>4. CASE Goto(c, "record") /\ UNCHANGED faults
    BY <1>4, <2>1, <2>2, <2>4, GotoTyped
       DEF Rename, Typed, TrashTypeOK, rows, Unchanged
  <2> QED BY <1>4, <2>3, <2>4 DEF Rename
<1>5. ASSUME NEW c \in Clients, Record(c) PROVE Typed'
  <2>1. at[c] # "idle" /\ Cur(c) \in Files
    BY <1>5, CurFile DEF Record
  <2>2. CASE NextItem(c, "read") /\ UNCHANGED rows
    BY <1>5, <2>1, <2>2, NextItemTyped
       DEF Record, SetTrashed, Typed, TrashTypeOK, rows, Unchanged, Fault
  <2>3. CASE SetTrashed(c) /\ UNCHANGED faults
    BY <1>5, <2>1, <2>3, GotoTyped
       DEF Record, SetTrashed, Typed, TrashTypeOK, Unchanged
  <2> QED BY <1>5, <2>2, <2>3 DEF Record
<1>6. ASSUME NEW c \in Clients, Log(c) PROVE Typed'
  <2>1. at[c] # "idle" /\ Cur(c) \in Files
    BY <1>6, CurFile DEF Log
  <2> QED BY <1>6, <2>1, NextItemTyped
          DEF Log, Logged, Typed, TrashTypeOK, rows, Unchanged, Fault
<1>7. ASSUME NEW c \in Clients, TrashRequest(c) PROVE Typed'
  <2>1. PICK f \in Files :
            todo' = [todo EXCEPT ![c] = <<[file |-> f, path |-> NoPlace, proxy |-> FALSE]>>]
    BY <1>7 DEF TrashRequest
  <2>2. <<[file |-> f, path |-> NoPlace, proxy |-> FALSE]>> \in Seq(Item)
    BY DEF Item
  <2>3. <<[file |-> f, path |-> NoPlace, proxy |-> FALSE]>> # <<>>
    OBVIOUS
  <2> QED BY <1>7, <2>1, <2>2, <2>3
          DEF TrashRequest, Typed, TrashTypeOK, Working, rows, Unchanged
<1>8. ASSUME NEW c \in Clients, Answered(c) PROVE Typed'
  <2>1. at[c] # "idle"
    BY <1>8 DEF Answered
  <2> QED BY <1>8, <2>1, CurFile
          DEF Answered, NextItem, Typed, TrashTypeOK, Working, rows, Unchanged
<1>9. ASSUME NEW c \in Clients, EmptyTrash(c) PROVE Typed'
  <2>1. PICK n \in 1..MaxIds : \E order \in [1..n -> trashed] :
            todo' = [todo EXCEPT ![c] = [i \in 1..n |-> Listing(order[i])]]
    BY <1>9 DEF EmptyTrash
  <2>2. PICK order \in [1..n -> trashed] :
            todo' = [todo EXCEPT ![c] = [i \in 1..n |-> Listing(order[i])]]
    BY <2>1
  <2> DEFINE items == [i \in 1..n |-> Listing(order[i])]
  <2>3. \A i \in 1..n : items[i] \in Item
    BY DEF Item, Listing, Typed, TrashTypeOK
  <2>4. n \in Nat /\ items \in [1..n -> Item]
    BY <2>3
  <2>5. items \in Seq(Item) /\ items # <<>>
    <3>1. items \in Seq(Item)
      BY <2>4
    <3>2. Len(items) = n /\ n # 0
      BY <2>4
    <3> HIDE DEF items
    <3> QED BY <3>1, <3>2, EmptySeq
  <2> HIDE DEF items
  <2>6. todo' = [todo EXCEPT ![c] = items]
    BY <2>2 DEF items
  <2> QED BY <1>9, <2>5, <2>6
          DEF EmptyTrash, Typed, TrashTypeOK, Working, rows, bounds
<1>10. ASSUME NEW c \in Clients, Condemn(c) PROVE Typed'
  <2>1. at[c] # "idle" /\ Cur(c) \in Files
    BY <1>10, CurFile DEF Condemn
  <2> QED BY <1>10, <2>1, GotoTyped
          DEF Condemn, Logged, Typed, TrashTypeOK, rows, Unchanged, Fault
<1>11. ASSUME NEW c \in Clients, Remove(c) PROVE Typed'
  <2>1. at[c] # "idle" /\ Cur(c) \in Files
    BY <1>11, CurFile DEF Remove
  <2>2. /\ disk' \in [Places -> Files \union {NoFile}] /\ proxies' \subseteq Files
        /\ faults' \in 0..MaxFaults
        /\ UNCHANGED <<where, trashed, restore, audit, condemned, crashes>>
    <3>1. disk' \in [Places -> Files \union {NoFile}]
      BY <1>11 DEF Remove, Typed, TrashTypeOK
    <3>2. proxies' \subseteq Files
      <4>1. proxies' = proxies \ {Cur(c)} \/ proxies' = proxies
        BY <1>11 DEF Remove
      <4> QED BY <4>1 DEF Typed, TrashTypeOK
    <3>3. faults' \in 0..MaxFaults
      BY <1>11 DEF Remove, Fault, Typed, TrashTypeOK
    <3>4. UNCHANGED <<where, trashed, restore, audit, condemned, crashes>>
      BY <1>11 DEF Remove, rows
    <3> QED BY <3>1, <3>2, <3>3, <3>4
  <2>3. CASE NextItem(c, "condemn")
    BY <2>1, <2>2, <2>3, NextItemTyped DEF Typed, TrashTypeOK
  <2>4. CASE Goto(c, "forget")
    BY <2>1, <2>2, <2>4, GotoTyped DEF Typed, TrashTypeOK
  <2> QED BY <1>11, <2>3, <2>4 DEF Remove
<1>12. ASSUME NEW c \in Clients, Forget(c) PROVE Typed'
  <2>1. at[c] # "idle" /\ Cur(c) \in Files /\ NextItem(c, "condemn")
    BY <1>12, CurFile DEF Forget
  <2>2. /\ where' \in [Files -> Places \union {NoPlace}] /\ trashed' \subseteq Files
        /\ restore' \in [Files -> Places \union {NoPlace}]
    BY <1>12, <2>1 DEF Forget, Typed, TrashTypeOK, rows
  <2>3. faults' \in 0..MaxFaults /\ UNCHANGED <<audit, disk, proxies, condemned, crashes>>
    BY <1>12 DEF Forget, Unchanged, Typed, TrashTypeOK, Fault
  <2> QED BY <2>1, <2>2, <2>3, NextItemTyped DEF Typed, TrashTypeOK
<1>13. CASE \E f \in Files : Generated(f)
  BY <1>13 DEF Generated, rows, request, bounds, Typed, TrashTypeOK, Working
<1>14. CASE Crash
  <2>1. todo' \in [Clients -> Seq(Item)]
    BY <1>14, EmptySeq DEF Crash
  <2> QED BY <1>14, <2>1 DEF Crash, rows, Typed, TrashTypeOK, Working
<1>15. CASE UNCHANGED trashVars
  BY <1>15 DEF trashVars, rows, request, bounds, Typed, TrashTypeOK, Working
<1> QED BY <1>1, <1>2, <1>3, <1>4, <1>5, <1>6, <1>7, <1>8, <1>9, <1>10, <1>11, <1>12, <1>13, <1>14, <1>15
        DEF TrashNext

-----------------------------------------------------------------------------
(* A row that is not in the trash has the place of its file or is gone, so *)
(* that what the first TrashFile saves is that place.                      *)
HomeUntilTrashed == \A f \in Files \ trashed : where[f] \in {HomeOf[f], NoPlace}

KeptInv == Typed /\ HomeUntilTrashed /\ RestorePathKept

LEMMA KeptInit == TrashInit => KeptInv
BY TypedInit DEF KeptInv, TrashInit, HomeUntilTrashed, RestorePathKept

LEMMA KeptStep == KeptInv /\ [TrashNext]_trashVars => KeptInv'
<1> SUFFICES ASSUME KeptInv, [TrashNext]_trashVars PROVE HomeUntilTrashed' /\ RestorePathKept'
    BY TypedStep DEF KeptInv
<1>1. ASSUME NEW c \in Clients, Record(c) PROVE HomeUntilTrashed' /\ RestorePathKept'
  <2>1. CASE UNCHANGED rows
    BY <2>1 DEF rows, KeptInv, HomeUntilTrashed, RestorePathKept
  <2>2. CASE Trashable(Cur(c)) /\ SetTrashed(c)
    <3>1. Cur(c) \in Files \ trashed /\ where[Cur(c)] = HomeOf[Cur(c)]
      BY <1>1, <2>2, CurFile DEF Record, Trashable, HasRow, KeptInv, HomeUntilTrashed
    <3>2. restore' = [restore EXCEPT ![Cur(c)] = HomeOf[Cur(c)]]
      BY <2>2, <3>1 DEF SetTrashed
    <3> HIDE DEF Cur
    <3> QED BY <2>2, <3>1, <3>2
            DEF SetTrashed, KeptInv, Typed, TrashTypeOK, HomeUntilTrashed, RestorePathKept
  <2> QED BY <1>1, <2>1, <2>2 DEF Record
<1>2. ASSUME NEW c \in Clients, Forget(c) PROVE HomeUntilTrashed' /\ RestorePathKept'
  <2>1. Cur(c) \in Files
    BY <1>2, CurFile DEF Forget, KeptInv
  <2> QED BY <1>2, <2>1
          DEF Forget, rows, KeptInv, Typed, TrashTypeOK, HomeUntilTrashed, RestorePathKept
<1>3. CASE UNCHANGED rows
  BY <1>3 DEF rows, KeptInv, HomeUntilTrashed, RestorePathKept
<1>4. ASSUME NEW c \in Clients,
             \/ DeleteRequest(c) \/ Read(c) \/ Resolve(c) \/ Rename(c) \/ Log(c)
             \/ TrashRequest(c) \/ Answered(c) \/ EmptyTrash(c) \/ Condemn(c) \/ Remove(c)
      PROVE  UNCHANGED rows
  BY <1>4 DEF DeleteRequest, Read, Resolve, Rename, Log, TrashRequest, Answered, EmptyTrash,
              Condemn, Remove
<1>5. CASE (\E f \in Files : Generated(f)) \/ Crash \/ UNCHANGED trashVars
  BY <1>3, <1>5 DEF Generated, Crash, trashVars
<1> QED BY <1>1, <1>2, <1>3, <1>4, <1>5 DEF TrashNext

(* However requests overlap, fail or are killed, a trashed row remembers   *)
(* the place its file had before it was first trashed.                     *)
THEOREM RestorePathIsKept == TrashSpec => []RestorePathKept
<1>1. KeptInv => RestorePathKept
    BY DEF KeptInv
<1> QED BY <1>1, KeptInit, KeptStep, PTL DEF TrashSpec

-----------------------------------------------------------------------------
(* With names in _trash/ that no two files share, a file is only ever at   *)
(* places of its own, and what a request renames or removes is one of the  *)
(* places of the file it is about.                                         *)
Names(f) == {TrashNames[f][i] : i \in DOMAIN TrashNames[f]}
PlacesOf(f) == {HomeOf[f]} \union Names(f)
DisjointNames == \A f, g \in Files : f # g => Names(f) \cap Names(g) = {}

PlanOf(c) ==
    /\ at[c] \in {"resolve", "rename"} => src[c] \in PlacesOf(Cur(c))
    /\ at[c] \in {"rename", "record"} => dst[c] \in Names(Cur(c))
    /\ at[c] \in {"condemn", "remove", "forget"} =>
          \A i \in DOMAIN todo[c] : /\ todo[c][i].file \in condemned
                                   /\ todo[c][i].path \in PlacesOf(todo[c][i].file) \union {NoPlace}

AtOwnPlaces ==
    /\ \A p \in Places : disk[p] # NoFile => p \in PlacesOf(disk[p])
    /\ \A f \in Files : where[f] \in PlacesOf(f) \union {NoPlace}

SurvivesInv == Typed /\ AtOwnPlaces /\ (\A c \in Clients : PlanOf(c)) /\ FileSurvives

LEMMA NamesAreTrashPlaces == ASSUME NEW f \in Files PROVE Names(f) \subseteq TrashPlaces
<1>1. TrashNames[f] \in Seq(TrashPlaces)
    BY TrashAssumption
<1> QED BY <1>1 DEF Names

LEMMA PlacesAreOwn ==
    ASSUME DisjointNames, NEW f \in Files, NEW g \in Files, NEW p,
           p \in PlacesOf(f), p \in PlacesOf(g)
    PROVE  f = g
<1>1. HomeOf[f] \in Homes /\ HomeOf[g] \in Homes /\ Homes \cap TrashPlaces = {}
    BY TrashAssumption
<1>2. Names(f) \subseteq TrashPlaces /\ Names(g) \subseteq TrashPlaces
    BY NamesAreTrashPlaces
<1>3. HomeOf[f] = HomeOf[g] => f = g
    BY TrashAssumption
<1> QED BY <1>1, <1>2, <1>3 DEF PlacesOf, DisjointNames

LEMMA SurvivesInit == TrashInit => SurvivesInv
<1> SUFFICES ASSUME TrashInit PROVE SurvivesInv
    OBVIOUS
<1>1. \A f \in Files : HomeOf[f] \in Places
    BY TrashAssumption DEF Places
<1>2. \A f \in Files : disk[HomeOf[f]] = f
    BY <1>1, TrashAssumption DEF TrashInit
<1>3. \A p \in Places : disk[p] # NoFile => HomeOf[disk[p]] = p
    BY TrashAssumption DEF TrashInit
<1>4. AtOwnPlaces
    BY <1>3 DEF AtOwnPlaces, PlacesOf, TrashInit
<1>5. FileSurvives
    BY <1>1, <1>2 DEF FileSurvives
<1>6. \A c \in Clients : PlanOf(c)
    BY DEF PlanOf, TrashInit
<1> QED BY <1>4, <1>5, <1>6, TypedInit DEF SurvivesInv

(* A plan depends on its own request and on what is condemned.             *)
LEMMA PlanKept ==
    ASSUME NEW d \in Clients, PlanOf(d), condemned \subseteq condemned',
           at'[d] = at[d], todo'[d] = todo[d], src'[d] = src[d], dst'[d] = dst[d]
    PROVE  PlanOf(d)'
BY DEF PlanOf, Cur, PlacesOf, Names

LEMMA OtherPlansKept ==
    ASSUME SurvivesInv, NEW c \in Clients, condemned \subseteq condemned',
           \A d \in Clients \ {c} : /\ at'[d] = at[d] /\ todo'[d] = todo[d]
                                    /\ src'[d] = src[d] /\ dst'[d] = dst[d],
           PlanOf(c)'
    PROVE  (\A d \in Clients : PlanOf(d))'
BY PlanKept DEF SurvivesInv

(* The next item of a request has a plan, if this one had.                 *)
LEMMA NextItemPlanned ==
    ASSUME SurvivesInv, NEW c \in Clients, condemned \subseteq condemned',
           \/ NextItem(c, "read") /\ at[c] # "idle"
           \/ NextItem(c, "condemn") /\ at[c] \in {"condemn", "remove", "forget"}
    PROVE  (\A d \in Clients : PlanOf(d))'
<1>1. /\ at \in [Clients -> {"idle", "read", "resolve", "rename", "record", "log",
                            "refused", "condemn", "remove", "forget"}]
      /\ todo \in [Clients -> Seq(Item)] /\ src \in [Clients -> Places \union {NoPlace}]
      /\ dst \in [Clients -> Places \union {NoPlace}]
    BY DEF SurvivesInv, Typed, TrashTypeOK
<1>2. \A d \in Clients \ {c} : /\ at'[d] = at[d] /\ todo'[d] = todo[d]
                              /\ src'[d] = src[d] /\ dst'[d] = dst[d]
    BY <1>1 DEF NextItem
<1>3. CASE NextItem(c, "read") \/ at'[c] = "idle"
  <2>1. at'[c] \in {"idle", "read"}
    BY <1>1, <1>3 DEF NextItem
  <2>2. PlanOf(c)'
    BY <2>1 DEF PlanOf
  <2> QED BY <1>2, <2>2, OtherPlansKept
<1>4. CASE NextItem(c, "condemn") /\ at[c] \in {"condemn", "remove", "forget"} /\ at'[c] # "idle"
  <2>1. at'[c] = "condemn" /\ todo'[c] = Tail(todo[c])
    BY <1>1, <1>4 DEF NextItem
  <2>2. todo[c] \in Seq(Item) /\ todo[c] # <<>>
    BY <1>1, <1>4 DEF SurvivesInv, Typed, Working
  <2>3. \A i \in DOMAIN Tail(todo[c]) : i + 1 \in DOMAIN todo[c] /\ Tail(todo[c])[i] = todo[c][i + 1]
    <3>1. Tail(todo[c]) \in Seq(Item) /\ Len(Tail(todo[c])) = Len(todo[c]) - 1
      BY <2>2, HeadTailProperties
    <3>2. DOMAIN Tail(todo[c]) = 1..Len(Tail(todo[c])) /\ DOMAIN todo[c] = 1..Len(todo[c])
      BY <2>2, <3>1, LenProperties
    <3>3. \A i \in 1..Len(Tail(todo[c])) : Tail(todo[c])[i] = todo[c][i + 1]
      BY <2>2, HeadTailProperties
    <3> QED BY <2>2, <3>1, <3>2, <3>3
  <2>4. \A i \in DOMAIN todo[c] : /\ todo[c][i].file \in condemned
                                 /\ todo[c][i].path \in PlacesOf(todo[c][i].file) \union {NoPlace}
    BY <1>4 DEF SurvivesInv, PlanOf
  <2>5. \A i \in DOMAIN todo'[c] :
            /\ todo'[c][i].file \in condemned'
            /\ todo'[c][i].path \in PlacesOf(todo'[c][i].file) \union {NoPlace}
    BY <2>1, <2>3, <2>4
  <2>6. PlanOf(c)'
    BY <2>1, <2>5 DEF PlanOf, PlacesOf, Names
  <2> QED BY <1>2, <2>6, OtherPlansKept
<1> QED BY <1>3, <1>4

LEMMA GotoPlanned ==
    ASSUME SurvivesInv, NEW c \in Clients, UNCHANGED condemned,
           \/ Goto(c, "log")
           \/ Goto(c, "record") /\ at[c] = "rename"
           \/ Goto(c, "remove") /\ at[c] = "condemn"
           \/ Goto(c, "forget") /\ at[c] = "remove"
    PROVE  (\A d \in Clients : PlanOf(d))'
<1>1. at \in [Clients -> {"idle", "read", "resolve", "rename", "record", "log",
                         "refused", "condemn", "remove", "forget"}]
    BY DEF SurvivesInv, Typed, TrashTypeOK
<1>2. PlanOf(c)'
    BY <1>1 DEF SurvivesInv, PlanOf, Goto, Cur, PlacesOf, Names
<1>3. \A d \in Clients \ {c} : at'[d] = at[d]
    BY <1>1 DEF Goto
<1> QED BY <1>2, <1>3, OtherPlansKept DEF Goto

(* Steps that leave disk, rows and condemned files alone only need a plan. *)
LEMMA StillThere ==
    ASSUME SurvivesInv, UNCHANGED <<rows, disk>>, condemned \subseteq condemned'
    PROVE  AtOwnPlaces' /\ FileSurvives'
<1>1. AtOwnPlaces'
    BY DEF SurvivesInv, AtOwnPlaces, rows, PlacesOf, Names
<1>2. FileSurvives'
    BY DEF SurvivesInv, FileSurvives
<1> QED BY <1>1, <1>2

LEMMA RenameKeeps ==
    ASSUME DisjointNames, SurvivesInv, NEW c \in Clients, Rename(c)
    PROVE  AtOwnPlaces' /\ FileSurvives'
<1>1. CASE UNCHANGED disk
    BY <1>1, StillThere DEF Rename, Unchanged
<1>2. CASE disk' = Moved(disk, src[c], dst[c]) /\ disk' # disk
  <2> DEFINE p == src[c]
             q == dst[c]
             f == disk[p]
  <2>1. /\ p \in Places /\ p \in PlacesOf(Cur(c)) /\ q \in Names(Cur(c)) /\ Cur(c) \in Files
        /\ disk \in [Places -> Files \union {NoFile}]
    BY CurFile DEF Rename, SurvivesInv, Typed, TrashTypeOK, Working, PlanOf
  <2>2. f # NoFile /\ disk' = [disk EXCEPT ![q] = f, ![p] = IF p = q THEN f ELSE NoFile]
    BY <1>2 DEF Moved
  <2>3. f \in Files /\ p \in PlacesOf(f)
    BY <2>1, <2>2 DEF SurvivesInv, AtOwnPlaces
  <2>4. f = Cur(c)
    BY <2>1, <2>3, PlacesAreOwn
  <2>5. q \in Places /\ q \in PlacesOf(f) /\ p # q
    BY <1>2, <2>1, <2>2, <2>4, NamesAreTrashPlaces DEF Places, PlacesOf
  <2>6. disk[q] \in {f, NoFile}
    BY <2>1, <2>3, <2>5, PlacesAreOwn DEF SurvivesInv, AtOwnPlaces
  <2>7. disk' = [disk EXCEPT ![q] = f, ![p] = NoFile]
    BY <2>2, <2>5
  <2> HIDE DEF p, q, f
  <2>8. AtOwnPlaces'
    <3>1. \A r \in Places : disk'[r] # NoFile => r \in PlacesOf(disk'[r])
      BY <2>1, <2>5, <2>7 DEF SurvivesInv, AtOwnPlaces
    <3> QED BY <3>1 DEF Rename, rows, SurvivesInv, AtOwnPlaces, PlacesOf, Names
  <2>9. FileSurvives'
    <3>1. disk'[q] = f
      BY <2>1, <2>5, <2>7
    <3>2. \A g \in Files \ condemned, r \in Places :
              disk[r] = g /\ g # f => disk'[r] = g
      BY <2>1, <2>3, <2>5, <2>6, <2>7, TrashAssumption DEF p, f
    <3> QED BY <2>5, <3>1, <3>2 DEF SurvivesInv, FileSurvives, Rename, Unchanged
  <2> QED BY <2>8, <2>9
<1> QED BY <1>1, <1>2 DEF Rename

LEMMA RemoveKeeps ==
    ASSUME DisjointNames, SurvivesInv, NEW c \in Clients, Remove(c)
    PROVE  AtOwnPlaces' /\ FileSurvives'
<1>1. CASE UNCHANGED disk
    BY <1>1, StillThere DEF Remove
<1>2. CASE disk' = [disk EXCEPT ![Head(todo[c]).path] = NoFile]
  <2>1. todo[c] \in Seq(Item) /\ todo[c] # <<>> /\ disk \in [Places -> Files \union {NoFile}]
    BY DEF Remove, SurvivesInv, Typed, TrashTypeOK, Working
  <2>2. 1 \in DOMAIN todo[c] /\ Head(todo[c]) = todo[c][1]
    <3>1. Len(todo[c]) \in Nat \ {0} /\ DOMAIN todo[c] = 1..Len(todo[c])
      BY <2>1, EmptySeq, LenProperties
    <3> QED BY <2>1, <3>1
  <2>3. /\ Cur(c) \in condemned /\ Cur(c) \in Files
        /\ Head(todo[c]).path \in PlacesOf(Cur(c)) \union {NoPlace}
    BY <2>2, CurFile DEF Remove, SurvivesInv, PlanOf, Cur
  <2>4. AtOwnPlaces'
    BY <1>2, <2>1 DEF Remove, rows, SurvivesInv, AtOwnPlaces, PlacesOf, Names
  <2>5. \A g \in Files \ condemned, r \in Places : disk[r] = g => disk'[r] = g
    <3> SUFFICES ASSUME NEW g \in Files \ condemned, NEW r \in Places, disk[r] = g
                 PROVE  disk'[r] = g
      OBVIOUS
    <3>1. r \in PlacesOf(g)
      BY TrashAssumption DEF SurvivesInv, AtOwnPlaces
    <3>2. r # Head(todo[c]).path
      BY <2>3, <3>1, PlacesAreOwn, TrashAssumption
    <3> QED BY <1>2, <2>1, <3>2
  <2>6. FileSurvives'
    BY <2>5 DEF SurvivesInv, FileSurvives, Remove
  <2> QED BY <2>4, <2>6
<1> QED BY <1>1, <1>2 DEF Remove

LEMMA EmptyTrashPlans ==
    ASSUME SurvivesInv, NEW c \in Clients, EmptyTrash(c)
    PROVE  (\A d \in Clients : PlanOf(d))'
<1>1. PICK n \in 1..MaxIds : \E order \in [1..n -> trashed] :
          todo' = [todo EXCEPT ![c] = [i \in 1..n |-> Listing(order[i])]]
    BY DEF EmptyTrash
<1>2. PICK order \in [1..n -> trashed] :
          todo' = [todo EXCEPT ![c] = [i \in 1..n |-> Listing(order[i])]]
    BY <1>1
<1>3. /\ at \in [Clients -> {"idle", "read", "resolve", "rename", "record", "log",
                            "refused", "condemn", "remove", "forget"}]
      /\ todo \in [Clients -> Seq(Item)] /\ trashed \subseteq Files
    BY DEF SurvivesInv, Typed, TrashTypeOK
<1>4. todo'[c] = [i \in 1..n |-> Listing(order[i])] /\ at'[c] = "condemn"
    BY <1>2, <1>3 DEF EmptyTrash
<1>5. \A i \in 1..n : /\ todo'[c][i].file = order[i] /\ order[i] \in trashed
                     /\ todo'[c][i].path = where[order[i]]
    BY <1>4 DEF Listing
<1>6. \A i \in DOMAIN todo'[c] :
          /\ todo'[c][i].file \in condemned'
          /\ todo'[c][i].path \in PlacesOf(todo'[c][i].file) \union {NoPlace}
  <2>1. DOMAIN todo'[c] = 1..n
    BY <1>4
  <2>2. condemned' = condemned \union trashed
    BY DEF EmptyTrash
  <2>3. \A f \in trashed : where[f] \in PlacesOf(f) \union {NoPlace}
    BY <1>3 DEF SurvivesInv, AtOwnPlaces
  <2> QED BY <1>5, <2>1, <2>2, <2>3
<1>7. PlanOf(c)'
    BY <1>4, <1>6 DEF PlanOf, PlacesOf, Names
<1>8. \A d \in Clients \ {c} : at'[d] = at[d] /\ todo'[d] = todo[d]
    BY <1>2, <1>3 DEF EmptyTrash
<1> QED BY <1>7, <1>8, OtherPlansKept DEF EmptyTrash

LEMMA SurvivesStep ==
    ASSUME DisjointNames PROVE SurvivesInv /\ [TrashNext]_trashVars => SurvivesInv'
<1> SUFFICES ASSUME SurvivesInv, [TrashNext]_trashVars
             PROVE  AtOwnPlaces' /\ (\A d \in Clients : PlanOf(d))' /\ FileSurvives'
    BY TypedStep DEF SurvivesInv
<1>1. /\ at \in [Clients -> {"idle", "read", "resolve", "rename", "record", "log",
                            "refused", "condemn", "remove", "forget"}]
      /\ todo \in [Clients -> Seq(Item)] /\ src \in [Clients -> Places \union {NoPlace}]
      /\ dst \in [Clients -> Places \union {NoPlace}] /\ trashed \subseteq Files
      /\ where \in [Files -> Places \union {NoPlace}]
    BY DEF SurvivesInv, Typed, TrashTypeOK
<1>2. ASSUME NEW c \in Clients, DeleteRequest(c) \/ TrashRequest(c) \/ Answered(c)
      PROVE  AtOwnPlaces' /\ (\A d \in Clients : PlanOf(d))' /\ FileSurvives'
  <2>1. /\ UNCHANGED <<rows, disk, condemned>> /\ at'[c] \in {"idle", "read", "refused"}
        /\ \A d \in Clients \ {c} : /\ at'[d] = at[d] /\ todo'[d] = todo[d]
                                  /\ src'[d] = src[d] /\ dst'[d] = dst[d]
    <3>1. CASE DeleteRequest(c)
      <4>1. UNCHANGED <<rows, disk, condemned, src, dst>> /\ at' = [at EXCEPT ![c] = "read"]
        BY <3>1 DEF DeleteRequest, Unchanged
      <4>2. \A d \in Clients \ {c} : todo'[d] = todo[d]
        BY <1>1, <3>1 DEF DeleteRequest
      <4> QED BY <1>1, <4>1, <4>2
    <3>2. CASE TrashRequest(c)
      BY <1>1, <3>2 DEF TrashRequest, Unchanged
    <3>3. CASE Answered(c)
      BY <1>1, <3>3 DEF Answered, NextItem, Unchanged
    <3> QED BY <1>2, <3>1, <3>2, <3>3
  <2>2. PlanOf(c)'
    BY <2>1 DEF PlanOf
  <2> QED BY <2>1, <2>2, OtherPlansKept, StillThere
<1>3. ASSUME NEW c \in Clients, Read(c)
      PROVE  AtOwnPlaces' /\ (\A d \in Clients : PlanOf(d))' /\ FileSurvives'
  <2>1. AtOwnPlaces' /\ FileSurvives'
    BY <1>3, StillThere DEF Read, Unchanged
  <2>2. CASE NextItem(c, "read")
    BY <1>3, <2>1, <2>2, NextItemPlanned DEF Read, Unchanged
  <2>3. CASE ~NextItem(c, "read")
    <3>1. /\ HasRow(Cur(c)) /\ src' = [src EXCEPT ![c] = where[Cur(c)]]
          /\ at' = [at EXCEPT ![c] = "resolve"] /\ UNCHANGED <<todo, dst>>
      BY <1>3, <2>3 DEF Read
    <3>2. Cur(c) \in Files
      BY <1>3, CurFile DEF Read, SurvivesInv
    <3>3. where[Cur(c)] \in PlacesOf(Cur(c))
      BY <3>1, <3>2 DEF HasRow, SurvivesInv, AtOwnPlaces
    <3>4. PlanOf(c)'
      BY <1>1, <3>1, <3>3 DEF PlanOf, Cur, PlacesOf, Names
    <3> QED BY <1>1, <1>3, <2>1, <3>1, <3>4, OtherPlansKept DEF Read, Unchanged
  <2> QED BY <2>2, <2>3
<1>4. ASSUME NEW c \in Clients, Resolve(c)
      PROVE  AtOwnPlaces' /\ (\A d \in Clients : PlanOf(d))' /\ FileSurvives'
  <2>1. AtOwnPlaces' /\ FileSurvives'
    BY <1>4, StillThere DEF Resolve, Unchanged
  <2>2. CASE NextItem(c, "read")
    BY <1>4, <2>1, <2>2, NextItemPlanned DEF Resolve, Unchanged
  <2>3. CASE ~NextItem(c, "read")
    <3>1. PICK i \in Free(Cur(c)) : /\ dst' = [dst EXCEPT ![c] = TrashNames[Cur(c)][i]]
                                    /\ at' = [at EXCEPT ![c] = "rename"]
                                    /\ UNCHANGED <<todo, src>>
      BY <1>4, <2>3 DEF Resolve
    <3>2. TrashNames[Cur(c)][i] \in Names(Cur(c))
      BY DEF Free, Names
    <3>3. src[c] \in PlacesOf(Cur(c))
      BY <1>4 DEF Resolve, SurvivesInv, PlanOf
    <3>4. PlanOf(c)'
      BY <1>1, <3>1, <3>2, <3>3 DEF PlanOf, Cur, PlacesOf, Names
    <3> QED BY <1>1, <1>4, <2>1, <3>1, <3>4, OtherPlansKept DEF Resolve, Unchanged
  <2> QED BY <2>2, <2>3
<1>5. ASSUME NEW c \in Clients, Rename(c)
      PROVE  AtOwnPlaces' /\ (\A d \in Clients : PlanOf(d))' /\ FileSurvives'
  <2>1. at[c] = "rename" /\ UNCHANGED condemned /\ (Goto(c, "record") \/ NextItem(c, "read"))
    BY <1>5 DEF Rename, Unchanged
  <2> QED BY <1>5, <2>1, RenameKeeps, GotoPlanned, NextItemPlanned
<1>6. ASSUME NEW c \in Clients, Record(c)
      PROVE  AtOwnPlaces' /\ (\A d \in Clients : PlanOf(d))' /\ FileSurvives'
  <2>1. at[c] = "record" /\ UNCHANGED <<disk, condemned>>
    BY <1>6 DEF Record, Unchanged
  <2>2. CASE NextItem(c, "read") /\ UNCHANGED rows
    BY <2>1, <2>2, StillThere, NextItemPlanned
  <2>3. CASE SetTrashed(c)
    <3>1. Cur(c) \in Files /\ dst[c] \in Names(Cur(c))
      BY <2>1, CurFile DEF SurvivesInv, PlanOf
    <3>2. \A f \in Files : where'[f] \in PlacesOf(f) \union {NoPlace}
      BY <1>1, <2>3, <3>1 DEF SetTrashed, SurvivesInv, AtOwnPlaces, PlacesOf
    <3>3. AtOwnPlaces'
      BY <2>1, <3>2 DEF SurvivesInv, AtOwnPlaces, PlacesOf, Names
    <3>4. FileSurvives'
      BY <2>1 DEF SurvivesInv, FileSurvives
    <3> QED BY <2>1, <2>3, <3>3, <3>4, GotoPlanned DEF SetTrashed
  <2> QED BY <1>6, <2>2, <2>3 DEF Record
<1>7. ASSUME NEW c \in Clients, Log(c)
      PROVE  AtOwnPlaces' /\ (\A d \in Clients : PlanOf(d))' /\ FileSurvives'
  BY <1>7, StillThere, NextItemPlanned DEF Log, Unchanged
<1>8. ASSUME NEW c \in Clients, EmptyTrash(c)
      PROVE  AtOwnPlaces' /\ (\A d \in Clients : PlanOf(d))' /\ FileSurvives'
  BY <1>8, StillThere, EmptyTrashPlans DEF EmptyTrash
<1>9. ASSUME NEW c \in Clients, Condemn(c)
      PROVE  AtOwnPlaces' /\ (\A d \in Clients : PlanOf(d))' /\ FileSurvives'
  BY <1>9, StillThere, GotoPlanned DEF Condemn, Unchanged
<1>10. ASSUME NEW c \in Clients, Remove(c)
       PROVE  AtOwnPlaces' /\ (\A d \in Clients : PlanOf(d))' /\ FileSurvives'
  <2>1. at[c] = "remove" /\ UNCHANGED condemned /\ (Goto(c, "forget") \/ NextItem(c, "condemn"))
    BY <1>10 DEF Remove
  <2> QED BY <1>10, <2>1, RemoveKeeps, GotoPlanned, NextItemPlanned
<1>11. ASSUME NEW c \in Clients, Forget(c)
       PROVE  AtOwnPlaces' /\ (\A d \in Clients : PlanOf(d))' /\ FileSurvives'
  <2>1. at[c] = "forget" /\ UNCHANGED <<disk, condemned>> /\ NextItem(c, "condemn")
    BY <1>11 DEF Forget, Unchanged
  <2>2. \A f \in Files : where'[f] \in {where[f], NoPlace}
    BY <1>1, <1>11 DEF Forget, rows
  <2>3. AtOwnPlaces'
    BY <2>1, <2>2 DEF SurvivesInv, AtOwnPlaces, PlacesOf, Names
  <2>4. FileSurvives'
    BY <2>1 DEF SurvivesInv, FileSurvives
  <2> QED BY <2>1, <2>3, <2>4, NextItemPlanned
<1>12. CASE (\E f \in Files : Generated(f)) \/ UNCHANGED trashVars
  <2>1. UNCHANGED <<rows, disk, condemned, at, todo, src, dst>>
    BY <1>12 DEF Generated, trashVars, request
  <2> QED BY <2>1, StillThere, PlanKept DEF SurvivesInv
<1>13. CASE Crash
  <2>1. (\A d \in Clients : PlanOf(d))'
    BY <1>13 DEF Crash, PlanOf
  <2> QED BY <1>13, <2>1, StillThere DEF Crash
<1> QED BY <1>2, <1>3, <1>4, <1>5, <1>6, <1>7, <1>8, <1>9, <1>10, <1>11, <1>12, <1>13
        DEF TrashNext

(* As long as no two files can get the same name in _trash/, no order of   *)
(* concurrent deletes, failures and kills destroys a file that no "empty   *)
(* trash" has listed, even one that is deleted twice or is already there.  *)
THEOREM DisjointNamesSurvive == ASSUME DisjointNames PROVE TrashSpec => []FileSurvives
<1>1. SurvivesInv => FileSurvives
    BY DEF SurvivesInv
<1>2. SurvivesInv /\ [TrashNext]_trashVars => SurvivesInv'
    BY SurvivesStep
<1> QED BY <1>1, <1>2, SurvivesInit, PTL DEF TrashSpec

-----------------------------------------------------------------------------
(* Why rows that are gone have been logged: while no call has failed, a    *)
(* request that removes a listed file has logged it, or found no row any   *)
(* more; and a delete gives a row only places it has chosen.               *)
Chosen == \A c \in Clients : at[c] \in {"rename", "record"} => dst[c] \in Places

LoggedFirst ==
    faults = 0 =>
        \A c \in Clients : at[c] \in {"remove", "forget"} =>
            <<Cur(c), "permanently_deleted">> \in audit

AuditInv == Typed /\ Chosen /\ AuditedDeletion /\ LoggedFirst

(* Steps that take no row away and do not reach "remove".                  *)
LEMMA AuditKept ==
    ASSUME AuditInv, audit \subseteq audit', faults' = 0 => faults = 0,
           \A f \in Files : where'[f] = NoPlace => where[f] = NoPlace,
           \A c \in Clients : at'[c] \in {"remove", "forget"} =>
               at[c] \in {"remove", "forget"} /\ todo'[c] = todo[c]
    PROVE  AuditedDeletion' /\ LoggedFirst'
BY DEF AuditInv, AuditedDeletion, LoggedFirst, HasRow, Cur

(* What all steps do with the places that were chosen.                     *)
LEMMA ChosenStep == Typed /\ Chosen /\ [TrashNext]_trashVars => Chosen'
<1> SUFFICES ASSUME Typed, Chosen, [TrashNext]_trashVars PROVE Chosen'
    OBVIOUS
<1> USE DEF Typed, TrashTypeOK, Chosen
<1>1. ASSUME NEW c \in Clients,
             DeleteRequest(c) \/ TrashRequest(c) \/ EmptyTrash(c) \/ Answered(c)
      PROVE  Chosen'
    BY <1>1 DEF DeleteRequest, TrashRequest, EmptyTrash, Answered, NextItem
<1>2. ASSUME NEW c \in Clients, Read(c) \/ Rename(c) \/ Record(c) \/ Log(c) PROVE Chosen'
    BY <1>2 DEF Read, Rename, Record, SetTrashed, Log, NextItem, Goto
<1>3. ASSUME NEW c \in Clients, Resolve(c) PROVE Chosen'
    <2>1. CASE NextItem(c, "read")
        BY <2>1 DEF NextItem
    <2>2. CASE ~NextItem(c, "read")
        <3>1. PICK i \in Free(Cur(c)) : /\ dst' = [dst EXCEPT ![c] = TrashNames[Cur(c)][i]]
                                        /\ at' = [at EXCEPT ![c] = "rename"]
            BY <1>3, <2>2 DEF Resolve
        <3>2. TrashNames[Cur(c)][i] \in Places
            BY <1>3, CurFile, TrashAssumption DEF Resolve, Free, Places
        <3> QED BY <3>1, <3>2
    <2> QED BY <2>1, <2>2
<1>4. ASSUME NEW c \in Clients, Condemn(c) \/ Remove(c) \/ Forget(c) PROVE Chosen'
    BY <1>4 DEF Condemn, Remove, Forget, NextItem, Goto
<1>5. CASE (\E f \in Files : Generated(f)) \/ Crash \/ UNCHANGED trashVars
    BY <1>5 DEF Generated, Crash, trashVars, request
<1> QED BY <1>1, <1>2, <1>3, <1>4, <1>5 DEF TrashNext

LEMMA AuditStep == AuditInv /\ [TrashNext]_trashVars => AuditInv'
<1> SUFFICES ASSUME AuditInv, [TrashNext]_trashVars PROVE AuditedDeletion' /\ LoggedFirst'
    BY TypedStep, ChosenStep DEF AuditInv
<1> USE TrashAssumption DEF AuditInv, Typed, TrashTypeOK
<1>0. NoPlace \notin Places
    OBVIOUS
<1>1. ASSUME NEW c \in Clients, DeleteRequest(c) \/ TrashRequest(c) \/ EmptyTrash(c)
      PROVE  AuditedDeletion' /\ LoggedFirst'
    BY <1>1, AuditKept DEF DeleteRequest, TrashRequest, EmptyTrash, rows, bounds, Unchanged
<1>2. ASSUME NEW c \in Clients, Read(c) \/ Resolve(c) \/ Rename(c) \/ Answered(c)
      PROVE  AuditedDeletion' /\ LoggedFirst'
    BY <1>2, AuditKept DEF Read, Resolve, Rename, Answered, NextItem, Goto, Fault, rows, Unchanged
<1>3. ASSUME NEW c \in Clients, Record(c)
      PROVE  AuditedDeletion' /\ LoggedFirst'
    <2>1. Cur(c) \in Files /\ dst[c] \in Places
        BY <1>3, CurFile DEF Record, Chosen
    <2>2. \A f \in Files : where'[f] = NoPlace => where[f] = NoPlace
        BY <1>0, <1>3, <2>1 DEF Record, SetTrashed, rows
    <2> QED BY <1>3, <2>2, AuditKept DEF Record, SetTrashed, NextItem, Goto, Fault
<1>4. ASSUME NEW c \in Clients, Log(c)
      PROVE  AuditedDeletion' /\ LoggedFirst'
    BY <1>4, AuditKept DEF Log, Logged, NextItem, Fault, rows
<1>5. ASSUME NEW c \in Clients, Condemn(c), faults' = 0
      PROVE  AuditedDeletion' /\ LoggedFirst'
    <2>1. faults = 0 /\ Cur(c) \in Files
        BY <1>5, CurFile DEF Condemn, Logged, Fault
    <2>2. /\ audit' = audit \union (IF HasRow(Cur(c)) THEN {<<Cur(c), "permanently_deleted">>} ELSE {})
          /\ UNCHANGED rows /\ todo' = todo /\ at' = [at EXCEPT ![c] = "remove"]
        BY <1>5, <2>1 DEF Condemn, Logged, Fault, Goto
    <2>3. <<Cur(c), "permanently_deleted">> \in audit'
        BY <2>1, <2>2 DEF AuditedDeletion
    <2> QED BY <2>1, <2>2, <2>3 DEF AuditedDeletion, LoggedFirst, HasRow, rows, Cur
<1>6. ASSUME NEW c \in Clients, Remove(c)
      PROVE  AuditedDeletion' /\ LoggedFirst'
    BY <1>6, AuditKept DEF Remove, NextItem, Goto, Fault, rows
<1>7. ASSUME NEW c \in Clients, Forget(c), faults' = 0
      PROVE  AuditedDeletion' /\ LoggedFirst'
    <2>1. faults = 0 /\ audit' = audit /\ Cur(c) \in Files
        BY <1>7, CurFile DEF Forget, Fault
    <2>2. <<Cur(c), "permanently_deleted">> \in audit
        BY <1>7, <2>1 DEF Forget, LoggedFirst
    <2>3. \A f \in Files : where'[f] = NoPlace => where[f] = NoPlace \/ f = Cur(c)
        BY <1>7, <2>1 DEF Forget, rows
    <2>4. \A d \in Clients : at'[d] \in {"remove", "forget"} => at'[d] = at[d] /\ todo'[d] = todo[d]
        BY <1>7 DEF Forget, NextItem
    <2> QED BY <2>1, <2>2, <2>3, <2>4 DEF AuditedDeletion, LoggedFirst, HasRow, Cur
<1>8. ASSUME NEW c \in Clients, Condemn(c) \/ Forget(c), faults' # 0
      PROVE  AuditedDeletion' /\ LoggedFirst'
    BY <1>8 DEF AuditedDeletion, LoggedFirst
<1>9. CASE (\E f \in Files : Generated(f)) \/ Crash \/ UNCHANGED trashVars
    BY <1>9, AuditKept DEF Generated, Crash, trashVars, request, rows, bounds
<1> QED BY <1>1, <1>2, <1>3, <1>4, <1>5, <1>6, <1>7, <1>8, <1>9 DEF TrashNext

(* While no call has failed, no row disappears without an entry in the     *)
(* audit log, however requests overlap and are killed (trash.go:167).      *)
THEOREM DeletionsAreAudited == TrashSpec => []AuditedDeletion
<1>1. TrashInit => AuditInv
    <2> SUFFICES ASSUME TrashInit PROVE AuditInv
        OBVIOUS
    <2>1. \A f \in Files : HasRow(f)
        BY TrashAssumption DEF TrashInit, HasRow, Places
    <2> QED BY <2>1, TypedInit DEF TrashInit, AuditInv, Chosen, AuditedDeletion, LoggedFirst
<1>2. AuditInv => AuditedDeletion
    BY DEF AuditInv
<1> QED BY <1>1, <1>2, AuditStep, PTL DEF TrashSpec
=============================================================================
