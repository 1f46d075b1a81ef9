---------------------------- MODULE SharedArchive ----------------------------
(***************************************************************************)
(* An archiving run and the trash of the web application at work on one    *)
(* archive and one registry: two processes, of which only the run takes    *)
(* the lock.  A place that a delete has emptied is free for the run while  *)
(* the row still names it; the run's copies may be renamed by requests.    *)
(*                                                                         *)
(* The run is Archiver's, step by step; the requests are those of TrashBin *)
(* for one file at a time, without the audit log and the proxies.  A file  *)
(* stands for its row, so it arrives once.                                 *)
(***************************************************************************)
EXTENDS Archiver

CONSTANTS Clients,      (* requests that are handled at a time                 *)
          TrashPlaces,  (* places in _trash/                                   *)
          TrashNames    (* TrashNames[f]: the names resolveTrashPath tries     *)

ASSUME SharedAssumption ==
    /\ MaxArrivals = 1
    /\ TrashPlaces \cap Paths = {} /\ None \notin Paths \union TrashPlaces
    /\ TrashNames \in [Files -> Seq(TrashPlaces)]

VARIABLES bin,          (* what each place in _trash/ holds                    *)
          binned,       (* archive_path of the rows whose trashed_at is set    *)
          at,           (* the call each request makes next                    *)
          row,          (* the row it works on                                 *)
          src, dst,     (* the path it read, the path it chose                 *)
          listed,       (* the rows and paths an emptying has still to do      *)
          handle,       (* where in _trash/ the copy is that a run has open    *)
          condemned     (* history: files that an emptying has listed          *)

trash == <<bin, binned>>
request == <<at, row, src, dst, listed>>
sharedVars == <<vars, trash, request, handle, condemned>>

Places == Paths \union TrashPlaces
Contents == Files \union {None, Partial}

SharedTypeOK ==
    /\ bin \in [TrashPlaces -> Contents]
    /\ binned \in [Files -> TrashPlaces \union {None}]
    /\ at \in [Clients -> {"idle", "resolve", "rename", "record", "remove", "forget"}]
    /\ row \in [Clients -> Files \union {None}]
    /\ src \in [Clients -> Places \union {None}]
    /\ dst \in [Clients -> TrashPlaces \union {None}]
    /\ listed \in [Clients -> SUBSET (Files \X TrashPlaces)]
    /\ handle \in [Runners -> TrashPlaces \union {None}]
    /\ condemned \subseteq Files

SharedInit ==
    /\ Init
    /\ bin = [t \in TrashPlaces |-> None]
    /\ binned = [f \in Files |-> None]
    /\ at = [c \in Clients |-> "idle"]
    /\ row = [c \in Clients |-> None]
    /\ src = [c \in Clients |-> None] /\ dst = [c \in Clients |-> None]
    /\ listed = [c \in Clients |-> {}]
    /\ handle = [r \in Runners |-> None]
    /\ condemned = {}

-----------------------------------------------------------------------------
Trashed == {f \in Files : binned[f] # None}

(* The place a row names.                                                  *)
ArchivePath(f) ==
    IF f \in Trashed THEN binned[f]
    ELSE CHOOSE p \in Paths : \E i \in DOMAIN registry[p] : registry[p][i] = f

HasRow(f) == Registered(f) \/ f \in Trashed

OnDisk(p) == IF p \in Paths THEN archive[p] ELSE bin[p]

GoOn(c, call) == at' = [at EXCEPT ![c] = call]

(* The request is answered.                                                *)
Answer(c) ==
    /\ GoOn(c, "idle")
    /\ row' = [row EXCEPT ![c] = None]
    /\ src' = [src EXCEPT ![c] = None] /\ dst' = [dst EXCEPT ![c] = None]
    /\ listed' = [listed EXCEPT ![c] = {}]

-----------------------------------------------------------------------------
(* DELETE /api/files/{id}.                                                 *)

DeleteRequest(c) ==
    /\ at[c] = "idle"
    /\ \E f \in Files :
          /\ HasRow(f)
          /\ row' = [row EXCEPT ![c] = f]
          /\ src' = [src EXCEPT ![c] = ArchivePath(f)]
    /\ GoOn(c, "resolve")
    /\ UNCHANGED <<vars, trash, dst, listed, handle, condemned>>

(* The first name that is not in _trash/.                                  *)
ResolveTrashPath(c) ==
    /\ at[c] = "resolve"
    /\ \E i \in DOMAIN TrashNames[row[c]] :
          /\ bin[TrashNames[row[c]][i]] = None
          /\ \A j \in 1..(i - 1) : bin[TrashNames[row[c]][j]] # None
          /\ dst' = [dst EXCEPT ![c] = TrashNames[row[c]][i]]
    /\ GoOn(c, "rename")
    /\ UNCHANGED <<vars, trash, row, src, listed, handle, condemned>>

(* os.Rename, for which a missing file is no error; a copy that a run has  *)
(* open stays open in its new place.                                       *)
Rename(c) ==
    /\ at[c] = "rename"
    /\ archive' = [p \in Paths |-> IF p = src[c] THEN None ELSE archive[p]]
    /\ bin' = [t \in TrashPlaces |-> CASE OnDisk(src[c]) = None -> bin[t]
                                       [] t = dst[c] -> OnDisk(src[c])
                                       [] t = src[c] -> None
                                       [] OTHER -> bin[t]]
    /\ handle' = [r \in Runners |-> IF At(r, "write") /\ Dest(r) = src[c] THEN dst[c] ELSE handle[r]]
    /\ GoOn(c, "record")
    /\ UNCHANGED <<lockVars, source, tables, owner, job, binned, row, src, dst, listed, condemned>>

DropAt(s, i) == SubSeq(s, 1, i - 1) \o SubSeq(s, i + 1, Len(s))

(* The registry without the row of f, of which there is one at most.       *)
Without(f) ==
    [p \in Paths |->
        IF \E i \in DOMAIN registry[p] : registry[p][i] = f
        THEN DropAt(registry[p], CHOOSE i \in DOMAIN registry[p] : registry[p][i] = f)
        ELSE registry[p]]

(* A mutant of Record: trashed_at is set and archive_path is not.          *)
RecordKeepingPath(c) ==
    /\ at[c] = "record"
    /\ binned' = [binned EXCEPT ![row[c]] = src[c]]
    /\ registry' = Without(row[c])
    /\ Answer(c)
    /\ UNCHANGED <<lockVars, disk, history, owner, job, bin, handle, condemned>>

(* A mutant of Record: UPDATE ... WHERE archive_path = the path it read.   *)
RecordByPath(c) ==
    /\ at[c] = "record"
    /\ binned' = [f \in Files |-> IF HasRow(f) /\ ArchivePath(f) = src[c] THEN dst[c] ELSE binned[f]]
    /\ registry' = [registry EXCEPT ![src[c]] = <<>>]
    /\ Answer(c)
    /\ UNCHANGED <<lockVars, disk, history, owner, job, bin, handle, condemned>>

(* TrashFile: UPDATE ... WHERE id = row AND trashed_at IS NULL.            *)
Record(c) ==
    /\ at[c] = "record"
    /\ binned' = [f \in Files |-> IF f = row[c] /\ Registered(f) THEN dst[c] ELSE binned[f]]
    /\ registry' = Without(row[c])
    /\ Answer(c)
    /\ UNCHANGED <<lockVars, disk, history, owner, job, bin, handle, condemned>>

-----------------------------------------------------------------------------
(* DELETE /api/trash.                                                      *)

EmptyTrash(c) ==
    /\ at[c] = "idle" /\ Trashed # {}
    /\ listed' = [listed EXCEPT ![c] = {<<f, binned[f]>> : f \in Trashed}]
    /\ condemned' = condemned \union Trashed
    /\ GoOn(c, "remove")
    /\ UNCHANGED <<vars, trash, row, src, dst, handle>>

(* On to the next item, or the answer.                                     *)
NextItem(c, rest) ==
    IF rest = {} THEN Answer(c)
    ELSE /\ GoOn(c, "remove")
         /\ row' = [row EXCEPT ![c] = None]
         /\ listed' = [listed EXCEPT ![c] = rest]
         /\ UNCHANGED <<src, dst>>

(* os.Remove of a listed path; a missing file is accepted.                 *)
Remove(c) ==
    /\ at[c] = "remove"
    /\ \E item \in listed[c] :
          /\ row' = [row EXCEPT ![c] = item[1]]
          /\ listed' = [listed EXCEPT ![c] = @ \ {item}]
          /\ bin' = [t \in TrashPlaces |-> IF t = item[2] THEN None ELSE bin[t]]
          /\ archive' = [p \in Paths |-> IF p = item[2] THEN None ELSE archive[p]]
    /\ GoOn(c, "forget")
    /\ UNCHANGED <<lockVars, source, tables, owner, job, binned, src, dst, handle, condemned>>

(* It fails and the item is passed over.                                   *)
RemoveFails(c) ==
    /\ at[c] = "remove"
    /\ Error
    /\ \E item \in listed[c] : NextItem(c, listed[c] \ {item})
    /\ UNCHANGED <<lock, phase, crashes, disk, tables, owner, job, trash, handle, condemned>>

(* DeleteFileRecord; if it fails the row stays.                            *)
DeleteRecord(c) ==
    /\ at[c] = "forget"
    /\ \/ /\ binned' = [binned EXCEPT ![row[c]] = None]
          /\ registry' = Without(row[c])
          /\ UNCHANGED errors
       \/ Error /\ UNCHANGED <<binned, registry>>
    /\ NextItem(c, listed[c])
    /\ UNCHANGED <<lock, phase, crashes, disk, history, owner, job, bin, handle, condemned>>

(* A call fails, or the server is killed: the request ends where it is.    *)
Abort(c) ==
    /\ at[c] # "idle"
    /\ Error
    /\ Answer(c)
    /\ UNCHANGED <<lock, phase, crashes, disk, tables, owner, job, trash, handle, condemned>>

-----------------------------------------------------------------------------
(* A step of Archiver.  A run whose open copy was renamed writes to it in  *)
(* its new place.                                                          *)
RunStep ==
    /\ Next
    /\ handle' = [r \in Runners |-> IF pc'[r] = "write" THEN handle[r] ELSE None]
    /\ bin' = [t \in TrashPlaces |->
                 IF bin[t] = Partial /\ \E r \in Runners : handle[r] = t /\ pc'[r] = "verify"
                 THEN cur[CHOOSE r \in Runners : handle[r] = t /\ pc'[r] = "verify"]
                 ELSE bin[t]]
    /\ UNCHANGED <<binned, request, condemned>>

Web == \E c \in Clients :
          \/ DeleteRequest(c) \/ ResolveTrashPath(c) \/ Rename(c) \/ Record(c)
          \/ EmptyTrash(c) \/ Remove(c) \/ RemoveFails(c) \/ DeleteRecord(c)
          \/ Abort(c)

(* One run, and requests at any time.                                      *)
SharedNext == \/ RunStep /\ Exclusive'
              \/ Web

SharedSpec == SharedInit /\ [][SharedNext]_sharedVars

(* One request at a time, for a file that is not in the trash, and nothing *)
(* goes wrong between the rename and the UPDATE.                           *)
Careful ==
    /\ \A c, d \in Clients : at'[c] # "idle" /\ at'[d] # "idle" => c = d
    /\ \A c \in Clients : at[c] = "idle" /\ at'[c] = "resolve" => row'[c] \notin Trashed
    /\ \A c \in Clients : at[c] = "record" /\ at'[c] = "idle" => UNCHANGED errors

CarefulSpec == SharedInit /\ [][SharedNext /\ Careful]_sharedVars

-----------------------------------------------------------------------------
(* NoLoss next to the web server ("safe to call from both the CLI archiver *)
(* and the web UI server", db.go:13, which says so of the database): a     *)
(* file put in the source and not taken back is whole in the source, the   *)
(* archive or the trash, unless its own row was in the trash when that was *)
(* emptied.                                                                *)
Kept ==
    \A f \in owed \ condemned :
        \/ f \in source
        \/ \E p \in Paths : archive[p] = f
        \/ \E t \in TrashPlaces : bin[t] = f

(* RegistrySound next to requests: apart from rows whose file a delete is  *)
(* taking away, a row names a place of its own that holds its file; and a  *)
(* row in the trash names its file's place there until it is listed.       *)
Leaving == {row[c] : c \in {d \in Clients : at[d] = "record"}}

RowsTrue ==
    /\ \A f \in Files \ Leaving : Registered(f) =>
          /\ archive[ArchivePath(f)] = f
          /\ \A g \in Files \ (Leaving \union {f}) :
                Registered(g) => ArchivePath(g) # ArchivePath(f)
    /\ \A f \in Trashed \ condemned : OnDisk(binned[f]) = f

(* A request never touches the copy that a run is making or has not yet    *)
(* registered, nor a place that the run has found free.                    *)
RunUndisturbed ==
    [][\A r \in Runners :
          /\ pc[r] \in {"create", "register"} \union Holding
          /\ UNCHANGED job
          => archive'[Dest(r)] = archive[Dest(r)]]_sharedVars
=============================================================================
