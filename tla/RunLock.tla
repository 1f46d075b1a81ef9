------------------------------ MODULE RunLock ------------------------------
(***************************************************************************)
(* The single-instance lock of the command-line archiver: the file         *)
(* .filearchiver.lock that main() looks for, creates and, when it returns, *)
(* removes.  Looking and creating are two system calls (os.Stat, then      *)
(* os.Create without O_EXCL), so another process may run between them.     *)
(***************************************************************************)
EXTENDS Naturals

CONSTANTS Runners,      (* processes that may run the command in one directory *)
          MaxCrashes,   (* bound: how often a process is killed                *)
          MaxErrors     (* bound: how often a system or database call fails    *)

ASSUME BoundsAssumption == MaxCrashes \in Nat /\ MaxErrors \in Nat

VARIABLES lock,         (* does the lock file exist?                           *)
          phase,        (* where each process is with respect to the lock      *)
          crashes,      (* kills so far                                        *)
          errors        (* failed calls so far                                 *)

lockVars == <<lock, phase, crashes, errors>>

Phases == {"off", "checked", "locked"}

LockTypeOK ==
    /\ lock \in BOOLEAN
    /\ phase \in [Runners -> Phases]
    /\ crashes \in 0..MaxCrashes
    /\ errors \in 0..MaxErrors

LockInit ==
    /\ lock = FALSE
    /\ phase = [r \in Runners |-> "off"]
    /\ crashes = 0
    /\ errors = 0

Holders == {r \in Runners : phase[r] = "locked"}

(* A system or database call returns an error.                             *)
Error == errors < MaxErrors /\ errors' = errors + 1

SetPhase(r, p) == phase' = [phase EXCEPT ![r] = p]

-----------------------------------------------------------------------------
(* What the mutants of PROJECT.json put in the place of the operations.    *)

CheckUnguarded(r) ==
    /\ phase[r] = "off"
    /\ SetPhase(r, "checked")
    /\ UNCHANGED <<lock, crashes, errors>>

CheckReleasingOnRefusal(r) ==
    /\ phase[r] = "off"
    /\ phase' = IF lock THEN phase ELSE [phase EXCEPT ![r] = "checked"]
    /\ lock' = FALSE
    /\ UNCHANGED <<crashes, errors>>

ReturnKeepingLock(r) ==
    /\ phase[r] = "locked"
    /\ SetPhase(r, "off")
    /\ UNCHANGED <<lock, crashes, errors>>

-----------------------------------------------------------------------------
(* acquireLock, first call: os.Stat finds no lock file.  (When it finds    *)
(* one the process prints a message and exits: no state changes.)          *)
Check(r) ==
    /\ phase[r] = "off"
    /\ ~lock
    /\ SetPhase(r, "checked")
    /\ UNCHANGED <<lock, crashes, errors>>

(* acquireLock, second call: os.Create makes the file, or truncates one    *)
(* that appeared in the meantime; it succeeds either way.                  *)
Create(r) ==
    /\ phase[r] = "checked"
    /\ lock' = TRUE
    /\ SetPhase(r, "locked")
    /\ UNCHANGED <<crashes, errors>>

(* os.Create fails: main exits with status 1 and holds nothing.            *)
CreateFails(r) ==
    /\ phase[r] = "checked"
    /\ Error
    /\ SetPhase(r, "off")
    /\ UNCHANGED <<lock, crashes>>

(* main returns and the deferred releaseLock removes the lock file,        *)
(* whichever process made it.                                              *)
Return(r) ==
    /\ phase[r] = "locked"
    /\ lock' = FALSE
    /\ SetPhase(r, "off")
    /\ UNCHANGED <<crashes, errors>>

(* An error before the jobs (database, configuration, usage, backup, init) *)
(* ends main with os.Exit(1), which runs no deferred call.                 *)
ExitOnError(r) ==
    /\ phase[r] = "locked"
    /\ Error
    /\ SetPhase(r, "off")
    /\ UNCHANGED <<lock, crashes>>

(* The process is killed.                                                  *)
Crash(r) ==
    /\ phase[r] # "off"
    /\ crashes < MaxCrashes
    /\ crashes' = crashes + 1
    /\ SetPhase(r, "off")
    /\ UNCHANGED <<lock, errors>>

(* The operator removes a left-over lock file, as the README tells him to, *)
(* once no run is active.                                                  *)
RemoveStale ==
    /\ lock
    /\ Holders = {}
    /\ lock' = FALSE
    /\ UNCHANGED <<phase, crashes, errors>>

LockNext ==
    \/ \E r \in Runners :
          \/ Check(r) \/ Create(r) \/ CreateFails(r)
          \/ Return(r) \/ ExitOnError(r) \/ Crash(r)
    \/ RemoveStale

(* A run that is neither killed nor ended by an error comes to its end.    *)
LockFairness == \A r \in Runners : WF_lockVars(Return(r))

LockSpec == LockInit /\ [][LockNext]_lockVars /\ LockFairness

-----------------------------------------------------------------------------
(* Launches whose Stat-to-Create windows never coincide: the only case in  *)
(* which the lock can do what it is for.                                   *)
Launching == {r \in Runners : phase[r] = "checked"}

OneLaunchAtATime == \A q, r \in Launching : q = r

SerialSpec ==
    LockInit /\ [][LockNext /\ OneLaunchAtATime']_lockVars /\ LockFairness

-----------------------------------------------------------------------------
(* README.md: a .filearchiver.lock file prevents concurrent runs.          *)
(* At most one process is past acquireLock.                                *)
Exclusive == \A q, r \in Holders : q = r

(* A process past acquireLock has its lock file: nobody removes it under   *)
(* the process's feet, so that every later launch is refused.              *)
HolderHasLock == Holders # {} => lock

(* README.md: remove the lock file "if a previous run crashed".  A lock    *)
(* file without a running process means that some process was killed.      *)
StaleMeansCrash == lock /\ Holders = {} => crashes > 0

(* DEVELOPER_NOTES.md: the lock file is removed on a clean exit.  While no *)
(* process was killed or ended by an error, a lock file that exists is     *)
(* removed later, by some run, and runs that overlap do not keep it alive. *)
LockIsFreed == lock ~> (~lock \/ crashes > 0 \/ errors > 0)

=============================================================================
