------------------------------ MODULE TrashBin ------------------------------
(***************************************************************************)
(* The trash of the web application: requests that move archived files to  *)
(* _trash/, ask for them back and delete them for good.  Each request      *)
(* reads a row, looks for a free name, renames the file and updates the    *)
(* row, and requests run concurrently with no lock around these steps.  A  *)
(* file stands for its content and for its row.                            *)
(***************************************************************************)
EXTENDS Naturals, Sequences

CONSTANTS Files,        (* the registered files                                *)
          Homes,        (* places in the dated directories                     *)
          TrashPlaces,  (* places in _trash/                                   *)
          HomeOf,       (* HomeOf[f]: archive_path of f before it is trashed   *)
          TrashNames,   (* TrashNames[f]: the names resolveTrashPath tries     *)
          Clients,      (* concurrent requests                                 *)
          MaxIds,       (* bound: ids in one request or one listing            *)
          NoFile, NoPlace,
          MaxFaults,    (* bound: calls that fail                              *)
          MaxCrashes    (* bound: kills of the server                          *)

Places == Homes \union TrashPlaces

ASSUME TrashAssumption ==
    /\ Homes \cap TrashPlaces = {} /\ NoPlace \notin Places /\ NoFile \notin Files
    /\ HomeOf \in [Files -> Homes]
    /\ \A f, g \in Files : HomeOf[f] = HomeOf[g] => f = g
    /\ TrashNames \in [Files -> Seq(TrashPlaces)]
    /\ MaxIds \in Nat /\ MaxFaults \in Nat /\ MaxCrashes \in Nat

VARIABLES where,        (* archive_path of each row, NoPlace without a row     *)
          trashed,      (* rows whose trashed_at is set                        *)
          restore,      (* restore_path of each row                            *)
          audit,        (* file_actions: pairs of a file and an action         *)
          disk,         (* what is at each place                               *)
          proxies,      (* files with a proxy on the disk and in the row       *)
          at,           (* where each request is                               *)
          todo,         (* what it has still to do                             *)
          src, dst,     (* the places it read and chose                        *)
          condemned,    (* history: files that some "empty trash" has listed   *)
          faults, crashes

rows == <<where, trashed, restore>>
request == <<at, todo, src, dst>>
bounds == <<faults, crashes>>
trashVars == <<rows, audit, disk, proxies, request, condemned, bounds>>

Item == [file : Files, path : Places \union {NoPlace}, proxy : BOOLEAN]

TrashTypeOK ==
    /\ where \in [Files -> Places \union {NoPlace}]
    /\ trashed \subseteq Files
    /\ restore \in [Files -> Places \union {NoPlace}]
    /\ audit \subseteq Files \X {"trashed", "permanently_deleted"}
    /\ disk \in [Places -> Files \union {NoFile}]
    /\ proxies \subseteq Files
    /\ at \in [Clients -> {"idle", "read", "resolve", "rename", "record", "log",
                           "refused", "condemn", "remove", "forget"}]
    /\ todo \in [Clients -> Seq(Item)]
    /\ src \in [Clients -> Places \union {NoPlace}]
    /\ dst \in [Clients -> Places \union {NoPlace}]
    /\ condemned \subseteq Files
    /\ faults \in 0..MaxFaults /\ crashes \in 0..MaxCrashes

TrashInit ==
    /\ where = HomeOf
    /\ trashed = {}
    /\ restore = [f \in Files |-> NoPlace]
    /\ audit = {}
    /\ disk = [p \in Places |-> IF \E f \in Files : HomeOf[f] = p
                                THEN CHOOSE f \in Files : HomeOf[f] = p ELSE NoFile]
    /\ proxies = {}
    /\ at = [c \in Clients |-> "idle"]
    /\ todo = [c \in Clients |-> <<>>]
    /\ src = [c \in Clients |-> NoPlace]
    /\ dst = [c \in Clients |-> NoPlace]
    /\ condemned = {}
    /\ faults = 0 /\ crashes = 0

HasRow(f) == where[f] # NoPlace

Fault == faults < MaxFaults /\ faults' = faults + 1 /\ UNCHANGED crashes

-----------------------------------------------------------------------------
(* What a request knows and where it goes.                                 *)

Cur(c) == Head(todo[c]).file
Goto(c, s) == at' = [at EXCEPT ![c] = s] /\ UNCHANGED <<todo, src, dst>>

(* On to the next item, at step s, or to the answer.                       *)
NextItem(c, s) ==
    /\ todo' = [todo EXCEPT ![c] = Tail(@)]
    /\ at' = [at EXCEPT ![c] = IF Len(todo[c]) = 1 THEN "idle" ELSE s]
    /\ src' = [src EXCEPT ![c] = NoPlace]
    /\ dst' = [dst EXCEPT ![c] = NoPlace]

Unchanged == UNCHANGED <<proxies, condemned, crashes>>

-----------------------------------------------------------------------------
(* DELETE /api/files/{id} and POST /api/files/bulk-trash: the same steps   *)
(* for one id or for several, which may repeat.                            *)

DeleteRequest(c) ==
    /\ at[c] = "idle"
    /\ \E n \in 1..MaxIds : \E ids \in [1..n -> Files] :
          todo' = [todo EXCEPT ![c] =
                      [i \in 1..n |-> [file |-> ids[i], path |-> NoPlace, proxy |-> FALSE]]]
    /\ at' = [at EXCEPT ![c] = "read"]
    /\ UNCHANGED <<rows, audit, disk, src, dst, bounds>> /\ Unchanged

(* GetFile, which also finds rows that are in the trash.                   *)
Read(c) ==
    /\ at[c] = "read"
    /\ \/ /\ HasRow(Cur(c))
          /\ src' = [src EXCEPT ![c] = where[Cur(c)]]
          /\ at' = [at EXCEPT ![c] = "resolve"]
          /\ UNCHANGED <<todo, dst, faults>>
       \/ ~HasRow(Cur(c)) /\ NextItem(c, "read") /\ UNCHANGED faults
       \/ Fault /\ NextItem(c, "read")
    /\ UNCHANGED <<rows, audit, disk>> /\ Unchanged

(* resolveTrashPath: the first name that is free, if there is one.         *)
Free(f) == {i \in DOMAIN TrashNames[f] : disk[TrashNames[f][i]] = NoFile}

(* Mutant: the plain name, without os.Stat.                                *)
ResolveBlindly(c) ==
    /\ at[c] = "resolve"
    /\ dst' = [dst EXCEPT ![c] = TrashNames[Cur(c)][1]]
    /\ at' = [at EXCEPT ![c] = "rename"]
    /\ UNCHANGED <<todo, src, rows, audit, disk, faults>> /\ Unchanged

Resolve(c) ==
    /\ at[c] = "resolve"
    /\ IF Free(Cur(c)) # {}
       THEN \E i \in Free(Cur(c)) :
               /\ \A j \in Free(Cur(c)) : i <= j
               /\ dst' = [dst EXCEPT ![c] = TrashNames[Cur(c)][i]]
               /\ at' = [at EXCEPT ![c] = "rename"]
               /\ UNCHANGED <<todo, src>>
       ELSE NextItem(c, "read")
    /\ UNCHANGED <<rows, audit, disk, faults>> /\ Unchanged

(* Mutant: a copy that creates its target before it opens its source.      *)
MovedByCopy(d, p, q) == [d EXCEPT ![q] = d[p], ![p] = NoFile]

(* os.Rename replaces what is at its target; a missing source is accepted. *)
Moved(d, p, q) ==
    IF d[p] = NoFile THEN d ELSE [d EXCEPT ![q] = d[p], ![p] = IF p = q THEN d[p] ELSE NoFile]

Rename(c) ==
    /\ at[c] = "rename"
    /\ \/ /\ disk' = Moved(disk, src[c], dst[c])
          /\ Goto(c, "record")
          /\ UNCHANGED faults
       \/ Fault /\ NextItem(c, "read") /\ UNCHANGED disk
    /\ UNCHANGED <<rows, audit>> /\ Unchanged

(* TrashFile: UPDATE ... WHERE id = f AND trashed_at IS NULL.              *)
Trashable(f) == HasRow(f) /\ f \notin trashed

SetTrashed(c) ==
    /\ where' = [where EXCEPT ![Cur(c)] = dst[c]]
    /\ restore' = [restore EXCEPT ![Cur(c)] = where[Cur(c)]]
    /\ trashed' = trashed \union {Cur(c)}
    /\ Goto(c, "log")

(* Mutant: UPDATE without the condition on trashed_at.                     *)
RecordAnyRow(c) ==
    /\ at[c] = "record"
    /\ \/ HasRow(Cur(c)) /\ SetTrashed(c) /\ UNCHANGED faults
       \/ ~HasRow(Cur(c)) /\ NextItem(c, "read") /\ UNCHANGED <<rows, faults>>
       \/ Fault /\ NextItem(c, "read") /\ UNCHANGED rows
    /\ UNCHANGED <<audit, disk>> /\ Unchanged

Record(c) ==
    /\ at[c] = "record"
    /\ \/ Trashable(Cur(c)) /\ SetTrashed(c) /\ UNCHANGED faults
       \/ ~Trashable(Cur(c)) /\ NextItem(c, "read") /\ UNCHANGED <<rows, faults>>
       \/ Fault /\ NextItem(c, "read") /\ UNCHANGED rows
    /\ UNCHANGED <<audit, disk>> /\ Unchanged

(* LogFileAction(f, a): the foreign key refuses an id without a row, and   *)
(* nobody looks at the error.                                              *)
Logged(f, a) ==
    \/ audit' = audit \union (IF HasRow(f) THEN {<<f, a>>} ELSE {}) /\ UNCHANGED faults
    \/ Fault /\ UNCHANGED audit

Log(c) ==
    /\ at[c] = "log"
    /\ Logged(Cur(c), "trashed")
    /\ NextItem(c, "read")
    /\ UNCHANGED <<rows, disk>> /\ Unchanged

-----------------------------------------------------------------------------
(* POST /api/trash/{id}/restore and DELETE /api/trash/{id}: both ask       *)
(* GetFile for the row and refuse unless its TrashedAt is set; GetFile     *)
(* does not select trashed_at.                                             *)
GetFileTrashedAt(f) == FALSE

TrashRequest(c) ==
    /\ at[c] = "idle"
    /\ \E f \in Files :
          /\ ~HasRow(f) \/ ~GetFileTrashedAt(f)
          /\ todo' = [todo EXCEPT ![c] = <<[file |-> f, path |-> NoPlace, proxy |-> FALSE]>>]
    /\ at' = [at EXCEPT ![c] = "refused"]
    /\ UNCHANGED <<rows, audit, disk, src, dst, faults>> /\ Unchanged

Answered(c) ==
    /\ at[c] = "refused"
    /\ NextItem(c, "idle")
    /\ UNCHANGED <<rows, audit, disk, faults>> /\ Unchanged

-----------------------------------------------------------------------------
(* DELETE /api/trash: ListTrashedFiles, newest first (any order here); it  *)
(* does not select proxy_path.                                             *)
Listing(f) == [file |-> f, path |-> where[f], proxy |-> FALSE]

EmptyTrash(c) ==
    /\ at[c] = "idle" /\ trashed # {}
    /\ \E n \in 1..MaxIds : \E order \in [1..n -> trashed] :
          /\ \A f \in trashed : \E i \in 1..n : order[i] = f
          /\ \A i, j \in 1..n : order[i] = order[j] => i = j
          /\ todo' = [todo EXCEPT ![c] = [i \in 1..n |-> Listing(order[i])]]
    /\ at' = [at EXCEPT ![c] = "condemn"]
    /\ condemned' = condemned \union trashed
    /\ UNCHANGED <<rows, audit, disk, proxies, src, dst, bounds>>

(* Mutant: the record is deleted first and the foreign key refuses the     *)
(* log entry.                                                              *)
CondemnForgetting(c) ==
    /\ at[c] = "condemn"
    /\ where' = [where EXCEPT ![Cur(c)] = NoPlace]
    /\ trashed' = trashed \ {Cur(c)}
    /\ Goto(c, "remove")
    /\ UNCHANGED <<restore, audit, disk, faults>> /\ Unchanged

Condemn(c) ==
    /\ at[c] = "condemn"
    /\ Logged(Cur(c), "permanently_deleted")
    /\ Goto(c, "remove")
    /\ UNCHANGED <<rows, disk>> /\ Unchanged

(* os.Remove of the listed path; a missing file is accepted.               *)
Remove(c) ==
    /\ at[c] = "remove"
    /\ \/ /\ disk' = [disk EXCEPT ![Head(todo[c]).path] = NoFile]
          /\ proxies' = IF Head(todo[c]).proxy THEN proxies \ {Cur(c)} ELSE proxies
          /\ Goto(c, "forget")
          /\ UNCHANGED faults
       \/ Fault /\ NextItem(c, "condemn") /\ UNCHANGED <<disk, proxies>>
    /\ UNCHANGED <<rows, audit, condemned, crashes>>

(* DeleteFileRecord.                                                       *)
Forget(c) ==
    /\ at[c] = "forget"
    /\ \/ /\ where' = [where EXCEPT ![Cur(c)] = NoPlace]
          /\ restore' = [restore EXCEPT ![Cur(c)] = NoPlace]
          /\ trashed' = trashed \ {Cur(c)}
          /\ UNCHANGED faults
       \/ Fault /\ UNCHANGED rows
    /\ NextItem(c, "condemn")
    /\ UNCHANGED <<audit, disk>> /\ Unchanged

-----------------------------------------------------------------------------
(* The proxy worker generates a proxy; the server is killed and started.   *)
Generated(f) ==
    /\ HasRow(f) /\ f \notin trashed
    /\ proxies' = proxies \union {f}
    /\ UNCHANGED <<rows, audit, disk, request, condemned, bounds>>

Crash ==
    /\ crashes < MaxCrashes
    /\ crashes' = crashes + 1
    /\ at' = [c \in Clients |-> "idle"]
    /\ todo' = [c \in Clients |-> <<>>]
    /\ src' = [c \in Clients |-> NoPlace]
    /\ dst' = [c \in Clients |-> NoPlace]
    /\ UNCHANGED <<rows, audit, disk, proxies, condemned, faults>>

TrashNext ==
    \/ \E c \in Clients :
          \/ DeleteRequest(c) \/ Read(c) \/ Resolve(c) \/ Rename(c) \/ Record(c) \/ Log(c)
          \/ TrashRequest(c) \/ Answered(c)
          \/ EmptyTrash(c) \/ Condemn(c) \/ Remove(c) \/ Forget(c)
    \/ \E f \in Files : Generated(f)
    \/ Crash

TrashSpec == TrashInit /\ [][TrashNext]_trashVars

(* One request at a time, and none that names a file twice or one that is  *)
(* already in the trash.                                                   *)
Idle == \A c \in Clients : at[c] = "idle"

Orderly ==
    /\ \A c \in Clients : at[c] = "idle" /\ at'[c] # "idle" => Idle
    /\ \A c \in Clients : at[c] = "idle" /\ at'[c] = "read" =>
          \A i, j \in DOMAIN todo'[c] :
              /\ todo'[c][i].file \notin trashed
              /\ todo'[c][i].file = todo'[c][j].file => i = j

OrderlySpec == TrashInit /\ [][TrashNext /\ Orderly]_trashVars

-----------------------------------------------------------------------------
(* A trashed row remembers the dated place of its file, however many       *)
(* requests trash it: the guard of TrashFile (files.go:246) keeps a second *)
(* one from overwriting restore_path with a name in the trash.             *)
RestorePathKept == \A f \in trashed : restore[f] = HomeOf[f]

(* Trashing never destroys a file: until an "empty trash" has listed it,   *)
(* it is somewhere in the archive ("a safe destination", duplicates.go:61).*)
FileSurvives == \A f \in Files \ condemned : \E p \in Places : disk[p] = f

(* Between requests a row and its file are at the same place, and no file  *)
(* is without a row: delete "moves a file to the _trash directory and      *)
(* marks it as trashed in the registry" (duplicates.go:29).                *)
RowsAndFiles ==
    Idle =>
        /\ \A f \in Files : HasRow(f) => disk[where[f]] = f
        /\ \A p \in Places : disk[p] # NoFile => where[disk[p]] = p

(* A row that is gone has left an entry in the audit log, which must be    *)
(* written "before deleting the registry record" (trash.go:119).           *)
AuditedDeletion ==
    faults = 0 => \A f \in Files : ~HasRow(f) => <<f, "permanently_deleted">> \in audit

(* A request to restore "moves a trashed file back" (trash.go:28): it is   *)
(* not answered with "trashed file not found" while the file is there.     *)
RestoreFinds == \A c \in Clients : at[c] = "refused" => Cur(c) \notin trashed

(* Deleting for good removes the "proxy file if one was generated"         *)
(* (trash.go:175).                                                         *)
ProxiesRemoved == \A f \in proxies : HasRow(f) \/ ~Idle

=============================================================================
