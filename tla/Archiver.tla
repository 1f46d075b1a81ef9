------------------------------ MODULE Archiver ------------------------------
(***************************************************************************)
(* An archiving run: main() takes the lock and, for every file of the      *)
(* source, processFile chooses a free place in the archive, copies the     *)
(* file, compares sizes, removes the source and writes a registry row;     *)
(* processJob then writes the outcome to the history.  Each system or      *)
(* database call is a step of its own; between two of them the process may *)
(* be killed, another process may run and the owner of the source          *)
(* directory may add or take away files.                                   *)
(*                                                                         *)
(* A file stands for its content: two different members of Files have      *)
(* different contents, even when they compete for the same names.  Files   *)
(* are not empty, so that a file cut short is never the whole file.  A     *)
(* copy is one write: of two processes that write to one place the last    *)
(* one wins, and their bytes are not mixed.                                *)
(***************************************************************************)
EXTENDS RunLock, Sequences, FiniteSets

CONSTANTS Files,        (* the files that may appear in the source             *)
          Ignored,      (* those that shouldIgnore rejects                     *)
          Paths,        (* places in the archive                               *)
          Candidates,   (* for each file, the places handleCollision tries:    *)
                        (*   main, _duplicates, _duplicates with _01 .. _99    *)
          None,         (* no file                                             *)
          Partial,      (* the beginning of a file                             *)
          MaxArrivals   (* bound: how often a file is put in the source        *)

ASSUME FilesAssumption ==
    /\ Ignored \subseteq Files
    /\ None \notin Files /\ Partial \notin Files /\ None # Partial

ASSUME NoneAssumption == None \notin {"SUCCESS", "FAILED", "SKIPPED"}

ASSUME CandidatesAssumption ==
    \A f \in Files : /\ Candidates[f] \in Seq(Paths)
                     /\ Candidates[f] # <<>>
                     /\ \A i, j \in DOMAIN Candidates[f] :
                           Candidates[f][i] = Candidates[f][j] => i = j

ASSUME ArrivalsAssumption == MaxArrivals \in Nat

VARIABLES source,       (* the files in the source directories                 *)
          archive,      (* what each place of the archive holds                *)
          registry,     (* the file_registry rows that name each place         *)
          history,      (* the latest history row of each file                 *)
          owed,         (* files put in the source and not taken back          *)
          arrivals,     (* how often each file was put in the source           *)
          pc,           (* the call each process makes next                    *)
          todo,         (* what Walk has still to visit                        *)
          cur,          (* the file processFile works on                       *)
          slot,         (* the place it has reached in Candidates              *)
          result        (* the status processJob is about to log               *)

disk == <<source, archive>>
tables == <<registry, history>>
owner == <<owed, arrivals>>
job == <<pc, todo, cur, slot, result>>
vars == <<lockVars, disk, tables, owner, job>>

Statuses == {"SUCCESS", "FAILED", "SKIPPED"}

Calls == {"begin", "walk", "probe", "create", "write", "verify",
          "remove", "register", "log"}

TypeOK ==
    /\ LockTypeOK
    /\ source \subseteq Files
    /\ archive \in [Paths -> Files \cup {None, Partial}]
    /\ registry \in [Paths -> Seq(Files)]
    /\ history \in [Files -> Statuses \cup {None}]
    /\ owed \subseteq Files
    /\ arrivals \in [Files -> 0..MaxArrivals]
    /\ pc \in [Runners -> Calls]
    /\ todo \in [Runners -> SUBSET Files]
    /\ cur \in [Runners -> Files \cup {None}]
    /\ slot \in [Runners -> Nat]
    /\ result \in [Runners -> Statuses \cup {None}]
    /\ \A r \in Runners :
          pc[r] \in {"probe", "create", "write", "verify", "remove", "register"} =>
             /\ cur[r] \in Files
             /\ slot[r] \in DOMAIN Candidates[cur[r]]
    /\ \A r \in Runners : pc[r] = "log" => cur[r] \in Files

Init ==
    /\ LockInit
    /\ source = {}
    /\ archive = [p \in Paths |-> None]
    /\ registry = [p \in Paths |-> <<>>]
    /\ history = [f \in Files |-> None]
    /\ owed = {}
    /\ arrivals = [f \in Files |-> 0]
    /\ pc = [r \in Runners |-> "begin"]
    /\ todo = [r \in Runners |-> {}]
    /\ cur = [r \in Runners |-> None]
    /\ slot = [r \in Runners |-> 1]
    /\ result = [r \in Runners |-> None]

-----------------------------------------------------------------------------
At(r, call) == phase[r] = "locked" /\ pc[r] = call

Goto(r, call) == pc' = [pc EXCEPT ![r] = call]

(* The place handleCollision has chosen, or is looking at.                 *)
Dest(r) == Candidates[cur[r]][slot[r]]

SetDest(r, content) == archive' = [archive EXCEPT ![Dest(r)] = content]

(* processFile returns; processJob logs the status next.                   *)
Outcome(r, status) ==
    /\ Goto(r, "log")
    /\ result' = [result EXCEPT ![r] = status]

(* What a process that ends forgets.                                       *)
Forget(r) ==
    /\ Goto(r, "begin")
    /\ todo' = [todo EXCEPT ![r] = {}]
    /\ cur' = [cur EXCEPT ![r] = None]
    /\ slot' = [slot EXCEPT ![r] = 1]
    /\ result' = [result EXCEPT ![r] = None]

-----------------------------------------------------------------------------
(* What the mutants of PROJECT.json put in the place of the actions below: *)
(* each is a slip that the code could have had.                            *)

(* The loop of handleCollision does not change the suffix.                 *)
ProbeSamePlace(r) ==
    /\ At(r, "probe")
    /\ archive[Dest(r)] # None
    /\ slot[r] < Len(Candidates[cur[r]])
    /\ UNCHANGED vars

(* handleCollision returns _99 although it exists.                         *)
ReuseLastPlace(r) ==
    /\ At(r, "probe")
    /\ archive[Dest(r)] # None
    /\ slot[r] = Len(Candidates[cur[r]])
    /\ Goto(r, "create")
    /\ UNCHANGED <<lockVars, disk, tables, owner, todo, cur, slot, result>>

(* The place is cleaned up when the registry row cannot be written.        *)
RegisterFailsRollingBack(r) ==
    /\ At(r, "register")
    /\ Error
    /\ SetDest(r, None)
    /\ Outcome(r, "FAILED")
    /\ UNCHANGED <<lock, phase, crashes, source, tables, owner, todo, cur, slot>>

(* The error of the registry INSERT is dropped.                            *)
RegisterFailsSilently(r) ==
    /\ At(r, "register")
    /\ Error
    /\ Outcome(r, "SUCCESS")
    /\ UNCHANGED <<lock, phase, crashes, disk, tables, owner, todo, cur, slot>>

(* The row names the place the file should have had without collision.     *)
RegisterFirstPlace(r) ==
    /\ At(r, "register")
    /\ registry' = [registry EXCEPT ![Candidates[cur[r]][1]] = Append(@, cur[r])]
    /\ Outcome(r, "SUCCESS")
    /\ UNCHANGED <<lockVars, disk, history, owner, todo, cur, slot>>

(* The error of os.Remove(source) is dropped.                              *)
RegisterAnyway(r) ==
    /\ At(r, "remove")
    /\ \/ cur[r] \notin source /\ UNCHANGED errors
       \/ Error
    /\ Goto(r, "register")
    /\ UNCHANGED <<lock, phase, crashes, disk, tables, owner, todo, cur, slot, result>>

(* processFile returns before it writes the registry row.                  *)
RemoveSourceOnly(r) ==
    /\ At(r, "remove")
    /\ cur[r] \in source
    /\ source' = source \ {cur[r]}
    /\ Outcome(r, "SUCCESS")
    /\ UNCHANGED <<lockVars, archive, tables, owner, todo, cur, slot>>

(* The source is removed after the copy and before the comparison.         *)
WriteAndRelease(r) ==
    /\ At(r, "write")
    /\ SetDest(r, cur[r])
    /\ source' = source \ {cur[r]}
    /\ Goto(r, "verify")
    /\ UNCHANGED <<lockVars, tables, owner, todo, cur, slot, result>>

(* Files that were logged once are not tried again.                        *)
BeginWithUnlogged(r) ==
    /\ At(r, "begin")
    /\ Goto(r, "walk")
    /\ todo' = [todo EXCEPT ![r] = {f \in source : history[f] = None}]
    /\ UNCHANGED <<lockVars, disk, tables, owner, cur, slot, result>>

-----------------------------------------------------------------------------
(* The owner of the source directory: not part of the program.             *)

Arrive(f) ==
    /\ f \notin source
    /\ arrivals[f] < MaxArrivals
    /\ source' = source \cup {f}
    /\ owed' = owed \cup {f}
    /\ arrivals' = [arrivals EXCEPT ![f] = @ + 1]
    /\ UNCHANGED <<lockVars, archive, tables, job>>

Withdraw(f) ==
    /\ f \in source
    /\ source' = source \ {f}
    /\ owed' = owed \ {f}
    /\ UNCHANGED <<lockVars, archive, tables, arrivals, job>>

-----------------------------------------------------------------------------
(* main: the steps of the lock, and what they mean for the job.            *)

Launch(r) ==
    /\ Check(r) \/ Create(r) \/ CreateFails(r)
    /\ UNCHANGED <<disk, tables, owner, job>>

(* The jobs are loaded and Walk reads the names in the source directory.   *)
(* A job whose paths do not validate and a directory that cannot be read   *)
(* are passed over, with a line in the history that is about no file.      *)
Begin(r) ==
    /\ At(r, "begin")
    /\ Goto(r, "walk")
    /\ \/ todo' = [todo EXCEPT ![r] = source] /\ UNCHANGED errors
       \/ Error /\ \E read \in SUBSET source : todo' = [todo EXCEPT ![r] = read]
    /\ UNCHANGED <<lock, phase, crashes, disk, tables, owner, cur, slot, result>>

(* The database or the configuration cannot be read: os.Exit(1).           *)
GiveUp(r) ==
    /\ pc[r] = "begin"
    /\ ExitOnError(r)
    /\ UNCHANGED <<disk, tables, owner, job>>

(* The jobs are done and main returns.                                     *)
Finish(r) ==
    /\ pc[r] = "walk"
    /\ todo[r] = {}
    /\ Return(r)
    /\ Forget(r)
    /\ UNCHANGED <<disk, tables, owner>>

(* The process is killed: the disk and the database keep what they have.   *)
Kill(r) ==
    /\ Crash(r)
    /\ Forget(r)
    /\ UNCHANGED <<disk, tables, owner>>

Unlock ==
    /\ RemoveStale
    /\ UNCHANGED <<disk, tables, owner, job>>

-----------------------------------------------------------------------------
(* processJob: Walk calls back for the next name it has read.              *)

Visit(r, f) ==
    /\ At(r, "walk")
    /\ f \in todo[r]
    /\ todo' = [todo EXCEPT ![r] = @ \ {f}]
    /\ cur' = [cur EXCEPT ![r] = f]
    /\ UNCHANGED <<lock, phase, crashes, disk, tables, owner>>

(* Lstat fails: the file went away after Walk read the names, or cannot be *)
(* accessed.                                                               *)
VisitMissing(r) ==
    /\ \/ \E f \in Files \ source : Visit(r, f) /\ UNCHANGED errors
       \/ \E f \in source : Visit(r, f) /\ Error
    /\ Outcome(r, "FAILED")
    /\ UNCHANGED slot

VisitIgnored(r) ==
    /\ \E f \in source \cap Ignored : Visit(r, f)
    /\ Outcome(r, "SKIPPED")
    /\ UNCHANGED <<errors, slot>>

(* processFile builds the name in the archive and calls handleCollision.   *)
VisitFile(r) ==
    /\ \E f \in source \ Ignored : Visit(r, f)
    /\ Goto(r, "probe")
    /\ slot' = [slot EXCEPT ![r] = 1]
    /\ UNCHANGED <<errors, result>>

-----------------------------------------------------------------------------
(* handleCollision: one os.Stat for each place, up to the first one that   *)
(* does not exist.  An error other than "does not exist" counts as taken.  *)

ProbeFree(r) ==
    /\ At(r, "probe")
    /\ archive[Dest(r)] = None
    /\ Goto(r, "create")
    /\ UNCHANGED <<lockVars, disk, tables, owner, todo, cur, slot, result>>

Taken(r) ==
    /\ At(r, "probe")
    /\ \/ archive[Dest(r)] # None /\ UNCHANGED errors
       \/ Error
    /\ UNCHANGED <<lock, phase, crashes, disk, tables, owner, todo, cur>>

ProbeNext(r) ==
    /\ Taken(r)
    /\ slot[r] < Len(Candidates[cur[r]])
    /\ slot' = [slot EXCEPT ![r] = @ + 1]
    /\ UNCHANGED <<pc, result>>

(* "too many duplicates for file": _99 is taken too.                       *)
TooManyDuplicates(r) ==
    /\ Taken(r)
    /\ slot[r] = Len(Candidates[cur[r]])
    /\ Outcome(r, "FAILED")
    /\ UNCHANGED slot

-----------------------------------------------------------------------------
(* copyAndVerify.                                                          *)

(* The source opens and os.Create makes the place, or truncates what       *)
(* another process has put there since it was looked at.                   *)
CreateDest(r) ==
    /\ At(r, "create")
    /\ cur[r] \in source
    /\ SetDest(r, Partial)
    /\ Goto(r, "write")
    /\ UNCHANGED <<lockVars, source, tables, owner, todo, cur, slot, result>>

(* MkdirAll, os.Open or os.Create fails.                                   *)
CreateDestFails(r) ==
    /\ At(r, "create")
    /\ \/ cur[r] \notin source /\ UNCHANGED errors
       \/ Error
    /\ Outcome(r, "FAILED")
    /\ UNCHANGED <<lock, phase, crashes, disk, tables, owner, todo, cur, slot>>

(* io.Copy writes the file; into a file without a name when another        *)
(* process has removed the place.                                          *)
Write(r) ==
    /\ At(r, "write")
    /\ IF archive[Dest(r)] = None THEN UNCHANGED archive ELSE SetDest(r, cur[r])
    /\ Goto(r, "verify")
    /\ UNCHANGED <<lockVars, source, tables, owner, todo, cur, slot, result>>

(* io.Copy fails: what was written stays in the archive.                   *)
WriteFails(r) ==
    /\ At(r, "write")
    /\ Error
    /\ Outcome(r, "FAILED")
    /\ UNCHANGED <<lock, phase, crashes, disk, tables, owner, todo, cur, slot>>

(* Both files exist and have the same size.                                *)
Verified(r) ==
    /\ At(r, "verify")
    /\ cur[r] \in source
    /\ archive[Dest(r)] \in Files
    /\ Goto(r, "remove")
    /\ UNCHANGED <<lockVars, disk, tables, owner, todo, cur, slot, result>>

(* The sizes differ, because the place does not hold this file or because  *)
(* the source has grown since it was read: the copy is removed.            *)
SizeMismatch(r) ==
    /\ At(r, "verify")
    /\ cur[r] \in source
    /\ archive[Dest(r)] # None
    /\ \/ archive[Dest(r)] # cur[r] /\ UNCHANGED errors
       \/ Error
    /\ SetDest(r, None)
    /\ Outcome(r, "FAILED")
    /\ UNCHANGED <<lock, phase, crashes, source, tables, owner, todo, cur, slot>>

(* os.Stat of the source or of the copy fails: the copy, if any, stays.    *)
VerifyFails(r) ==
    /\ At(r, "verify")
    /\ \/ (cur[r] \notin source \/ archive[Dest(r)] = None) /\ UNCHANGED errors
       \/ Error
    /\ Outcome(r, "FAILED")
    /\ UNCHANGED <<lock, phase, crashes, disk, tables, owner, todo, cur, slot>>

-----------------------------------------------------------------------------
(* processFile after the copy, and processJob after processFile.           *)

RemoveSource(r) ==
    /\ At(r, "remove")
    /\ cur[r] \in source
    /\ source' = source \ {cur[r]}
    /\ Goto(r, "register")
    /\ UNCHANGED <<lockVars, archive, tables, owner, todo, cur, slot, result>>

(* os.Remove of the source fails: the copy is removed.                     *)
RollBack(r) ==
    /\ At(r, "remove")
    /\ \/ cur[r] \notin source /\ UNCHANGED errors
       \/ Error
    /\ SetDest(r, None)
    /\ Outcome(r, "FAILED")
    /\ UNCHANGED <<lock, phase, crashes, source, tables, owner, todo, cur, slot>>

(* Neither the source nor the copy can be removed: both stay.              *)
RollBackFails(r) ==
    /\ At(r, "remove")
    /\ Error
    /\ Outcome(r, "FAILED")
    /\ UNCHANGED <<lock, phase, crashes, disk, tables, owner, todo, cur, slot>>

Register(r) ==
    /\ At(r, "register")
    /\ registry' = [registry EXCEPT ![Dest(r)] = Append(@, cur[r])]
    /\ Outcome(r, "SUCCESS")
    /\ UNCHANGED <<lockVars, disk, history, owner, todo, cur, slot>>

(* The INSERT fails: the file is archived, has no row and counts as failed. *)
RegisterFails(r) ==
    /\ At(r, "register")
    /\ Error
    /\ Outcome(r, "FAILED")
    /\ UNCHANGED <<lock, phase, crashes, disk, tables, owner, todo, cur, slot>>

(* logHistory; when the INSERT fails it only prints a message.             *)
LogHistory(r) ==
    /\ At(r, "log")
    /\ \/ history' = [history EXCEPT ![cur[r]] = result[r]] /\ UNCHANGED errors
       \/ UNCHANGED history /\ Error
    /\ Goto(r, "walk")
    /\ cur' = [cur EXCEPT ![r] = None]
    /\ slot' = [slot EXCEPT ![r] = 1]
    /\ result' = [result EXCEPT ![r] = None]
    /\ UNCHANGED <<lock, phase, crashes, disk, registry, owner, todo>>

-----------------------------------------------------------------------------
(* One call of a run past the lock.                                        *)
JobStep(r) ==
    \/ Begin(r) \/ VisitMissing(r) \/ VisitIgnored(r) \/ VisitFile(r)
    \/ ProbeFree(r) \/ ProbeNext(r) \/ TooManyDuplicates(r)
    \/ CreateDest(r) \/ CreateDestFails(r) \/ Write(r) \/ WriteFails(r)
    \/ Verified(r) \/ SizeMismatch(r) \/ VerifyFails(r)
    \/ RemoveSource(r) \/ RollBack(r) \/ RollBackFails(r)
    \/ Register(r) \/ RegisterFails(r) \/ LogHistory(r)
    \/ Finish(r)

Next ==
    \/ \E r \in Runners : Launch(r) \/ GiveUp(r) \/ Kill(r) \/ JobStep(r)
    \/ \E f \in Files : Arrive(f) \/ Withdraw(f)
    \/ Unlock

(* Any number of runs at any time.                                         *)
Spec == Init /\ [][Next]_vars

(* Runs that do not overlap: what the lock is there to ensure.             *)
SoloSpec == Init /\ [][Next /\ Exclusive']_vars

(* The scheduler runs a started process.                                   *)
Progress == \A r \in Runners : WF_vars(JobStep(r))

(* The operator starts the tool again and again and clears the lock file   *)
(* of a run that did not remove it.                                        *)
Operation == WF_vars(Unlock) /\ \A r \in Runners : WF_vars(Launch(r))

FairSpec == Spec /\ Progress /\ Operation

-----------------------------------------------------------------------------
Registered(f) == \E p \in Paths : \E i \in DOMAIN registry[p] : registry[p][i] = f

Rows(f) ==
    UNION {{p} \X {i \in DOMAIN registry[p] : registry[p][i] = f} : p \in Paths}

(* Calls between the creation of the copy and the release of the source.   *)
Holding == {"write", "verify", "remove"}

(* A place that holds a whole file, which is not the copy a run is making. *)
Settled(p) ==
    /\ archive[p] \in Files
    /\ \A r \in Runners : pc[r] \in Holding => Dest(r) # p

(* The archive as the abstract specification sees it: whole files only.    *)
Holds == [p \in Paths |-> IF archive[p] \in Files THEN archive[p] ELSE None]

Custody == INSTANCE ArchiveCustody
             WITH inSource <- source,
                  holds <- Holds,
                  settled <- {p \in Paths : Settled(p)}

-----------------------------------------------------------------------------
(* README.md: the source is removed only after successful verification;    *)
(* DEVELOPER_NOTES.md: an interrupted process loses no data.  A file that  *)
(* was put in the source, and that its owner did not take back, is whole   *)
(* in the source or whole somewhere in the archive: at every moment, after *)
(* every kill and every failed call of processFile.                        *)
NoLoss == \A f \in owed : f \in source \/ \E p \in Paths : archive[p] = f

(* A registry row describes what is on the disk: a place has at most one   *)
(* row, and a place with a row holds the very file of the row.             *)
RegistrySound ==
    \A p \in Paths : registry[p] # <<>> =>
        Len(registry[p]) = 1 /\ archive[p] = registry[p][1]

(* handleCollision and the two roll-backs: a run never overwrites and      *)
(* never removes a whole file in the archive but the copy it has just made. *)
ArchiveStable == [][\A p \in Paths : Settled(p) => archive'[p] = archive[p]]_vars

(* A run that has the archive to itself keeps the promise of the abstract  *)
(* specification: every step, kills and failures included, is one of its   *)
(* steps or is invisible to it.                                            *)
ImplementsCustody == Custody!CustodySpec

(* When nothing was killed and no call failed, a file that the run took    *)
(* from the source is in the registry by the time the run goes on.         *)
FaultFreeIsRegistered ==
    crashes = 0 /\ errors = 0 =>
        \A f \in owed \ source :
            \/ Registered(f)
            \/ \E r \in Runners : pc[r] = "register" /\ cur[r] = f

(* processJob logs SUCCESS only for a file whose row was written, even     *)
(* when runs overlap.                                                      *)
SuccessIsRegistered ==
    \A f \in Files : history[f] = "SUCCESS" => Registered(f)

(* However runs overlap, fail and are killed, a file gets at most one row  *)
(* for each time it was put in the source: only the run whose os.Remove    *)
(* took the file writes a row.                                             *)
RegisteredOnce == \A f \in Files : Cardinality(Rows(f)) <= arrivals[f]

(* A run that is not killed comes to its end, whatever fails and whatever  *)
(* is put in the source meanwhile.                                         *)
RunEnds == \A r \in Runners : phase[r] = "locked" ~> phase[r] # "locked"

(* As long as the operator keeps starting the tool, a file does not stay   *)
(* in the source for ever: kills, failed calls and left-over locks only    *)
(* delay it.  The exception the code makes: all its places are taken.      *)
Drains ==
    \A f \in Files \ Ignored :
        f \in source ~> \/ f \notin source
                        \/ \A i \in DOMAIN Candidates[f] : archive[Candidates[f][i]] # None

(* README.md: the lock file prevents concurrent runs, and the source is    *)
(* removed only after successful verification.  NoLoss once every run has  *)
(* ended, for any number of launches.                                      *)
NoLossAtRest == Holders = {} => NoLoss

(* DEVELOPER_NOTES.md 5.2: file_registry stores metadata for every file    *)
(* successfully archived.  A file the run took from the source has a row,  *)
(* or the run is about to write it.                                        *)
ArchivedIsRegistered ==
    \A f \in owed \ source :
        \/ Registered(f)
        \/ \E r \in Runners : pc[r] = "register" /\ cur[r] = f

-----------------------------------------------------------------------------
(* Why NoLoss and RegistrySound hold when runs do not overlap.             *)

(* A process that does not hold the lock has forgotten its job.            *)
Idle == \A r \in Runners : phase[r] # "locked" => pc[r] = "begin"

(* What a run has found out about its place is still so when it acts on    *)
(* it: free before os.Create, cut short until io.Copy returns, whole from  *)
(* then on, and in no registry row.                                        *)
PlaceKnown ==
    \A r \in Runners :
        /\ pc[r] = "create" => archive[Dest(r)] = None
        /\ pc[r] = "write" => archive[Dest(r)] = Partial
        /\ pc[r] \in {"verify", "remove", "register"} => archive[Dest(r)] = cur[r]
        /\ pc[r] \in {"create", "register"} \cup Holding => registry[Dest(r)] = <<>>

(* Until the run removes it, the file it works on is in the source, unless *)
(* the owner took it back.                                                 *)
SourceKept ==
    \A r \in Runners :
        pc[r] \in {"probe", "create"} \cup Holding => cur[r] \in source \/ cur[r] \notin owed

SoloInv ==
    /\ TypeOK
    /\ Exclusive
    /\ Idle
    /\ PlaceKnown
    /\ SourceKept
    /\ RegistrySound
    /\ NoLoss
=============================================================================
