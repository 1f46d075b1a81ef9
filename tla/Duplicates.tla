----------------------------- MODULE Duplicates -----------------------------
(***************************************************************************)
(* The requests of the web application that sort out duplicates: promote   *)
(* one, delete all that equal their primary, rescan.  Each reads rows,     *)
(* plans, and then changes files and rows one call at a time, with no lock *)
(* against the others.  A file stands for its content, of which there may  *)
(* be several copies; every row has a checksum and is outside the trash.   *)
(***************************************************************************)
EXTENDS Naturals, FiniteSetsExt

CONSTANTS Ids,          (* the rows of file_registry                           *)
          Contents,
          Content,      (* Content[i]: what the checksum and size of i say     *)
          Ext,          (* Ext[i]: the extension of file_name                  *)
          Places,       (* the paths below the archive root                    *)
          DupPlaces,    (* those that isDuplicate accepts                      *)
          Homes,        (* Homes[i]: where a run may have archived i           *)
          Derived,      (* DerivePrimaryPath of the places in DupPlaces        *)
          Beside,       (* Beside[p][i]: the file_name of i in a _duplicates   *)
                        (*   directory next to p                               *)
          Clients,      (* concurrent requests                                 *)
          NoFile, NoPlace, NoRow,
          MaxErrors,    (* bound: calls that fail                              *)
          MaxKills      (* bound: kills of the server                          *)

ASSUME DupAssumption ==
    /\ Ids \subseteq Nat /\ NoRow \notin Ids
    /\ Content \in [Ids -> Contents] /\ NoFile \notin Contents
    /\ DupPlaces \subseteq Places /\ NoPlace \notin Places
    /\ Homes \in [Ids -> SUBSET Places]
    /\ Derived \in [DupPlaces -> Places \ DupPlaces]
    /\ Beside \in [Places \ DupPlaces -> [Ids -> DupPlaces]]
    /\ MaxErrors \in Nat /\ MaxKills \in Nat

VARIABLES where,        (* archive_path of each row, NoPlace without a row     *)
          disk,         (* what is at each place                               *)
          at,           (* the call each request makes next                    *)
          todo,         (* the changes it has planned                          *)
          cur,          (* the change it works on                              *)
          partner,      (* promote: primary_id                                 *)
          victim,       (* promote: the path of that row                       *)
          overlapped,   (* history: two requests have run at the same time     *)
          blind,        (* history: a look at a destination has failed         *)
          errors, kills

request == <<at, todo, cur, partner, victim>>
bounds == <<errors, kills>>
dupVars == <<where, disk, request, overlapped, blind, bounds>>

Change == [id : Ids, from : Places, to : Places]
NoChange == [id |-> NoRow, from |-> NoPlace, to |-> NoPlace]

Promoting == {"primary", "unseat", "move", "record"}
Deleting == {"unlink", "forget"}
Rescanning == {"probe", "shift", "update"}

DupTypeOK ==
    /\ where \in [Ids -> Places \union {NoPlace}]
    /\ disk \in [Places -> Contents \union {NoFile}]
    /\ at \in [Clients -> {"idle"} \union Promoting \union Deleting \union Rescanning]
    /\ todo \in [Clients -> SUBSET Change]
    /\ cur \in [Clients -> Change \union {NoChange}]
    /\ partner \in [Clients -> Ids \union {NoRow}]
    /\ victim \in [Clients -> Places \union {NoPlace}]
    /\ overlapped \in BOOLEAN /\ blind \in BOOLEAN
    /\ errors \in 0..MaxErrors /\ kills \in 0..MaxKills

(* Every row has a place of its own, which holds its content.              *)
DupInit ==
    /\ where \in [Ids -> Places]
    /\ \A i \in Ids : where[i] \in Homes[i]
    /\ \A i, j \in Ids : where[i] = where[j] => i = j
    /\ disk = [p \in Places |-> IF \E i \in Ids : where[i] = p
                                THEN Content[CHOOSE i \in Ids : where[i] = p] ELSE NoFile]
    /\ at = [c \in Clients |-> "idle"]
    /\ todo = [c \in Clients |-> {}]
    /\ cur = [c \in Clients |-> NoChange]
    /\ partner = [c \in Clients |-> NoRow]
    /\ victim = [c \in Clients |-> NoPlace]
    /\ overlapped = FALSE /\ blind = FALSE
    /\ errors = 0 /\ kills = 0

HasRow(i) == where[i] # NoPlace
IsDup(i) == where[i] \in DupPlaces
Primary(i) == HasRow(i) /\ ~IsDup(i)

Fine == UNCHANGED <<blind, bounds>>
Error == errors < MaxErrors /\ errors' = errors + 1 /\ UNCHANGED <<blind, kills>>

(* A call that is refused for a reason, or fails without one.              *)
Failing(reason) == (reason /\ Fine) \/ Error

(* os.Rename replaces what is at its target.                               *)
Renamed(p, q) == [disk EXCEPT ![q] = disk[p], ![p] = NoFile]

-----------------------------------------------------------------------------
(* What a request knows and where it goes.                                 *)

Begin(c) ==
    /\ at[c] = "idle"
    /\ overlapped' = (overlapped \/ \E d \in Clients : at[d] # "idle")
    /\ UNCHANGED <<where, disk, victim>> /\ Fine

Goto(c, s) ==
    /\ at' = [at EXCEPT ![c] = s]
    /\ UNCHANGED <<todo, cur, partner, victim, overlapped>>

Answer(c) ==
    /\ at' = [at EXCEPT ![c] = "idle"]
    /\ cur' = [cur EXCEPT ![c] = NoChange]
    /\ partner' = [partner EXCEPT ![c] = NoRow]
    /\ victim' = [victim EXCEPT ![c] = NoPlace]
    /\ UNCHANGED <<todo, overlapped>>

(* One planned change is taken up, or given up, or done; the next is dealt *)
(* with at step s.                                                         *)
TakeUp(c, e, s) ==
    /\ at' = [at EXCEPT ![c] = s]
    /\ todo' = [todo EXCEPT ![c] = @ \ {e}]
    /\ cur' = [cur EXCEPT ![c] = e]
    /\ UNCHANGED <<partner, victim, overlapped>>

GiveUp(c, e, s) ==
    /\ at' = [at EXCEPT ![c] = IF todo[c] = {e} THEN "idle" ELSE s]
    /\ todo' = [todo EXCEPT ![c] = @ \ {e}]
    /\ UNCHANGED <<cur, partner, victim, overlapped>>

Done(c, s) ==
    /\ at' = [at EXCEPT ![c] = IF todo[c] = {} THEN "idle" ELSE s]
    /\ cur' = [cur EXCEPT ![c] = NoChange]
    /\ UNCHANGED <<todo, partner, victim, overlapped>>

-----------------------------------------------------------------------------
(* POST /api/duplicates/{id}/promote.  primary_id may be left out, and it  *)
(* may be any id.                                                          *)
PromoteRequest(c) ==
    /\ Begin(c)
    /\ \E i \in Ids, j \in Ids \union {NoRow} :
          /\ IsDup(i)
          /\ cur' = [cur EXCEPT ![c] = [id |-> i, from |-> where[i], to |-> Derived[where[i]]]]
          /\ partner' = [partner EXCEPT ![c] = j]
          /\ at' = [at EXCEPT ![c] = IF j = NoRow THEN "move" ELSE "primary"]
    /\ UNCHANGED todo

(* GetFile of the primary; a row that does not exist is passed over.       *)
ReadPrimary(c) ==
    /\ at[c] = "primary"
    /\ LET p == where[partner[c]]
       IN  \/ /\ at' = [at EXCEPT ![c] = IF p = NoPlace THEN "move" ELSE "unseat"]
              /\ victim' = [victim EXCEPT ![c] = p]
              /\ UNCHANGED <<todo, cur, partner, overlapped>> /\ Fine
           \/ Answer(c) /\ Error
    /\ UNCHANGED <<where, disk>>

(* os.Remove of the primary; a missing file is accepted.                   *)
RemovePrimary(c) ==
    /\ at[c] = "unseat"
    /\ \/ disk' = [disk EXCEPT ![victim[c]] = NoFile] /\ Goto(c, "move") /\ Fine
       \/ Answer(c) /\ Error /\ UNCHANGED disk
    /\ UNCHANGED where

(* MkdirAll and os.Rename, without a look at the target.                   *)
MovePromoted(c) ==
    /\ at[c] = "move"
    /\ \/ /\ disk[cur[c].from] # NoFile
          /\ disk' = Renamed(cur[c].from, cur[c].to)
          /\ Goto(c, "record") /\ Fine
       \/ Answer(c) /\ UNCHANGED disk /\ Failing(disk[cur[c].from] = NoFile)
    /\ UNCHANGED where

(* PromoteDuplicateRecord: one transaction, which finds its rows or not.   *)
RecordPromotion(c) ==
    /\ at[c] = "record"
    /\ \/ /\ where' = [i \in Ids |-> CASE i = partner[c] -> NoPlace
                                       [] i # partner[c] /\ i = cur[c].id /\ HasRow(i) -> cur[c].to
                                       [] OTHER -> where[i]]
          /\ Fine
       \/ Error /\ UNCHANGED where
    /\ Answer(c)
    /\ UNCHANGED disk

-----------------------------------------------------------------------------
(* DELETE of all identical duplicates.  GetDuplicateGroups groups by       *)
(* checksum, whatever the names; the primary of a group is its first row   *)
(* outside _duplicates.  The order of the groups is left open.             *)
Same(i) == {j \in Ids : HasRow(j) /\ Content[j] = Content[i]}

(* Mutant: a group without a primary is not passed over.                   *)
IdenticalAnyway ==
    {[id |-> i, from |-> where[i], to |-> where[i]] : i \in {j \in Ids : IsDup(j)}}

Identical ==
    {[id |-> i, from |-> where[i], to |-> where[i]] :
        i \in {j \in Ids : IsDup(j) /\ \E k \in Same(j) : Primary(k)}}

BulkRequest(c) ==
    /\ Begin(c)
    /\ Identical # {}
    /\ todo' = [todo EXCEPT ![c] = Identical]
    /\ at' = [at EXCEPT ![c] = "unlink"]
    /\ UNCHANGED <<cur, partner>>

(* os.Remove; a missing file is accepted.                                  *)
Unlink(c, e) ==
    /\ at[c] = "unlink" /\ e \in todo[c]
    /\ \/ disk' = [disk EXCEPT ![e.from] = NoFile] /\ TakeUp(c, e, "forget") /\ Fine
       \/ GiveUp(c, e, "unlink") /\ Error /\ UNCHANGED disk
    /\ UNCHANGED where

(* Mutant: the row stays.                                                  *)
ForgetNothing(c) ==
    /\ at[c] = "forget"
    /\ Done(c, "unlink") /\ Fine
    /\ UNCHANGED <<where, disk>>

(* DeleteFileRecord; a row that is gone is only reported.                  *)
Forget(c) ==
    /\ at[c] = "forget"
    /\ \/ where' = [where EXCEPT ![cur[c].id] = NoPlace] /\ Fine
       \/ Error /\ UNCHANGED where
    /\ Done(c, "unlink")
    /\ UNCHANGED disk

-----------------------------------------------------------------------------
(* POST of a rescan.  PlanRescan groups by checksum, size and extension;   *)
(* Go visits the groups in any order.                                      *)
Alike(i) == {j \in Same(i) : Ext[j] = Ext[i]}
Primaries(i) == {j \in Alike(i) : ~IsDup(j)}

Promotions ==
    {[id |-> i, from |-> where[i], to |-> Derived[where[i]]] :
        i \in {j \in Ids : HasRow(j) /\ Primaries(j) = {} /\ j = Min(Alike(j))}}

NewDups ==
    {[id |-> i, from |-> where[i], to |-> Beside[where[Min(Primaries(i))]][i]] :
        i \in {j \in Ids : Primary(j) /\ j # Min(Primaries(j))}}

PlanRescan == Promotions \union NewDups

RescanRequest(c) ==
    /\ Begin(c)
    /\ PlanRescan # {}
    /\ todo' = [todo EXCEPT ![c] = PlanRescan]
    /\ at' = [at EXCEPT ![c] = "probe"]
    /\ UNCHANGED <<cur, partner>>

(* Mutant: rename without a look at the target, as promote does.           *)
ProbeNothing(c, e) ==
    /\ at[c] = "probe" /\ e \in todo[c]
    /\ TakeUp(c, e, "shift") /\ Fine
    /\ UNCHANGED <<where, disk>>

(* MkdirAll and os.Stat, of which any error counts as "does not exist".    *)
Probe(c, e) ==
    /\ at[c] = "probe" /\ e \in todo[c]
    /\ \/ disk[e.to] = NoFile /\ TakeUp(c, e, "shift") /\ Fine
       \/ GiveUp(c, e, "probe") /\ Failing(disk[e.to] # NoFile)
       \/ /\ TakeUp(c, e, "shift")
          /\ errors < MaxErrors /\ errors' = errors + 1 /\ blind' = TRUE /\ UNCHANGED kills
    /\ UNCHANGED <<where, disk>>

(* os.Rename.                                                              *)
Shift(c) ==
    /\ at[c] = "shift"
    /\ \/ /\ disk[cur[c].from] # NoFile
          /\ disk' = Renamed(cur[c].from, cur[c].to)
          /\ Goto(c, "update") /\ Fine
       \/ Done(c, "probe") /\ UNCHANGED disk /\ Failing(disk[cur[c].from] = NoFile)
    /\ UNCHANGED where

(* UpdateArchivePath, which does not mind if the row is gone.              *)
Update(c) ==
    /\ at[c] = "update"
    /\ \/ /\ where' = [where EXCEPT ![cur[c].id] = IF HasRow(cur[c].id) THEN cur[c].to ELSE @]
          /\ Fine
       \/ Error /\ UNCHANGED where
    /\ Done(c, "probe")
    /\ UNCHANGED disk

-----------------------------------------------------------------------------
Kill ==
    /\ kills < MaxKills
    /\ \E c \in Clients : at[c] # "idle"
    /\ kills' = kills + 1
    /\ at' = [c \in Clients |-> "idle"]
    /\ todo' = [c \in Clients |-> {}]
    /\ cur' = [c \in Clients |-> NoChange]
    /\ partner' = [c \in Clients |-> NoRow]
    /\ victim' = [c \in Clients |-> NoPlace]
    /\ UNCHANGED <<where, disk, overlapped, blind, errors>>

DupNext ==
    \/ \E c \in Clients :
          \/ PromoteRequest(c) \/ ReadPrimary(c) \/ RemovePrimary(c)
          \/ MovePromoted(c) \/ RecordPromotion(c)
          \/ BulkRequest(c) \/ Forget(c)
          \/ RescanRequest(c) \/ Shift(c) \/ Update(c)
          \/ \E e \in todo[c] : Unlink(c, e) \/ Probe(c, e)
    \/ Kill

DupSpec == DupInit /\ [][DupNext]_dupVars

(* Requests that a careful user makes.  No two rescans run at a time, and  *)
(* a promotion runs on its own and when every row has its file, to a path  *)
(* that is free or the primary's.  If it replaces a primary, this has the  *)
(* same content, and nothing fails once it is gone.  Nothing fails between *)
(* a rescan's rename and its UPDATE.                                       *)
Alone(c) == \A d \in Clients \ {c} : at[d] = "idle" /\ at'[d] = "idle"

Sound(e, j) ==
    /\ \A i \in Ids : HasRow(i) => disk[where[i]] = Content[i]
    /\ j # NoRow => Primary(j) /\ Content[j] = Content[e.id]
    /\ disk[e.to] = NoFile \/ (j # NoRow /\ where[j] = e.to)

Careful ==
    /\ \A c, d \in Clients : at'[c] \in Rescanning /\ at'[d] \in Rescanning => c = d
    /\ \A c \in Clients : at[c] \in Promoting \/ at'[c] \in Promoting => Alone(c)
    /\ \A c \in Clients : at[c] = "idle" /\ at'[c] \in Promoting => Sound(cur'[c], partner'[c])
    /\ \A c \in Clients : at[c] = "update" \/ (at[c] \in {"move", "record"} /\ partner[c] # NoRow)
                           => UNCHANGED bounds

CarefulSpec == DupInit /\ [][DupNext /\ Careful]_dupVars

-----------------------------------------------------------------------------
CopiesSurvive == \A i \in Ids : \E p \in Places : disk[p] = Content[i]

(* Whatever is promoted, deleted and rescanned, by requests that overlap,  *)
(* fail and are killed, a copy of every content stays on the disk: deletes *)
(* are "only" of "files whose checksum matches the corresponding primary"  *)
(* (duplicates.go:180) and a rescan avoids "overwriting" (:285).  Nothing  *)
(* is said once a rescan's os.Stat of a destination has failed: it takes   *)
(* any error for a free path (blind), and its rename may replace a file.   *)
LastCopySurvives == ~blind => CopiesSurvive

(* As long as nothing has failed, such a copy also has a row, whenever no  *)
(* request is at work: no last copy drops out of the registry.             *)
Quiet == \A c \in Clients : at[c] = "idle"

LastCopyRegistered ==
    Quiet /\ errors + kills = 0 =>
        \A i \in Ids : \E j \in Same(i) : disk[where[j]] = Content[i]

(* If moreover requests have not overlapped, rows and files agree: each    *)
(* row names a place of its own that holds its content, and no file is     *)
(* without a row.                                                          *)
RowsMatchFiles ==
    Quiet /\ ~overlapped /\ errors + kills = 0 =>
        /\ \A i \in Ids : HasRow(i) => disk[where[i]] = Content[i]
        /\ \A i, j \in Ids : HasRow(i) /\ where[i] = where[j] => i = j
        /\ \A p \in Places : disk[p] # NoFile => \E i \in Ids : where[i] = p

=============================================================================
