--------------------------- MODULE ArchiverProofs --------------------------
(***************************************************************************)
(* Theorems about Archiver and the lock it extends, for any processes,     *)
(* files, places, candidates and bounds.                                   *)
(***************************************************************************)
EXTENDS Archiver, FiniteSetTheorems, TLAPS

-----------------------------------------------------------------------------
(* The lock.                                                               *)

(* What makes exclusion inductive when launches do not coincide: while a   *)
(* process is past acquireLock the file exists and nobody is between the   *)
(* two calls of acquireLock, since os.Stat would have found the file.      *)
SerialInv ==
    /\ LockTypeOK
    /\ OneLaunchAtATime
    /\ Exclusive
    /\ HolderHasLock
    /\ Holders # {} => Launching = {}

(* An idle machine without a lock file is where it starts.                 *)
LEMMA SerialInit == LockInit => SerialInv
<1> SUFFICES ASSUME LockInit PROVE SerialInv
  OBVIOUS
<1>1. LockTypeOK
  <2>1. lock \in BOOLEAN
    BY Zenon DEF LockInit
  <2> QED
    BY <2>1, BoundsAssumption DEF LockInit, LockTypeOK, Phases
<1>2. Holders = {} /\ Launching = {}
  BY DEF LockInit, Holders, Launching
<1> QED
  BY <1>1, <1>2 DEF SerialInv, OneLaunchAtATime, Exclusive, HolderHasLock

(* Launches whose two calls do not coincide keep it.                       *)
LEMMA SerialStep ==
  SerialInv /\ [LockNext /\ OneLaunchAtATime']_lockVars => SerialInv'
<1> SUFFICES ASSUME SerialInv, [LockNext /\ OneLaunchAtATime']_lockVars
             PROVE  SerialInv'
  OBVIOUS
<1> USE BoundsAssumption DEF SerialInv, LockTypeOK, Exclusive, HolderHasLock,
        OneLaunchAtATime, Holders, Launching, Phases, SetPhase, Error
<1>1. CASE UNCHANGED lockVars
  BY <1>1 DEF lockVars
<1>2. ASSUME NEW r \in Runners, Check(r), OneLaunchAtATime'
      PROVE  SerialInv'
  BY <1>2 DEF Check
<1>3. ASSUME NEW r \in Runners, Create(r)
      PROVE  SerialInv'
  <2>1. lock'
    BY <1>3, Zenon DEF Create
  <2>2. LockTypeOK'
    <3>1. lock' \in BOOLEAN
      BY <1>3, Zenon DEF Create
    <3> QED
      BY <1>3, <3>1 DEF Create
  <2>3. Holders = {}
    BY <1>3 DEF Create
  <2> QED
    BY <1>3, <2>1, <2>2, <2>3 DEF Create
<1>4. ASSUME NEW r \in Runners, CreateFails(r)
      PROVE  SerialInv'
  BY <1>4 DEF CreateFails
<1>5. ASSUME NEW r \in Runners, Return(r)
      PROVE  SerialInv'
  <2>1. lock' \in BOOLEAN
    BY <1>5, Zenon DEF Return
  <2>2. LockTypeOK'
    BY <1>5, <2>1 DEF Return
  <2>3. Holders' = {}
    BY <1>5 DEF Return
  <2> QED
    BY <1>5, <2>2, <2>3 DEF Return
<1>6. ASSUME NEW r \in Runners, ExitOnError(r)
      PROVE  SerialInv'
  BY <1>6 DEF ExitOnError
<1>7. ASSUME NEW r \in Runners, Crash(r)
      PROVE  SerialInv'
  BY <1>7 DEF Crash
<1>8. CASE RemoveStale
  BY <1>8 DEF RemoveStale
<1> QED
  BY <1>1, <1>2, <1>3, <1>4, <1>5, <1>6, <1>7, <1>8 DEF LockNext

(* Launches that do not coincide never run together, whatever crashes and  *)
(* errors happen in between.                                               *)
THEOREM SerialLaunchesExclude == SerialSpec => []Exclusive
<1>1. SerialInv => Exclusive
  BY DEF SerialInv
<1> QED
  BY <1>1, SerialInit, SerialStep, PTL DEF SerialSpec

(* ... and no run loses its lock file to another one's end or refusal.     *)
THEOREM HoldersKeepTheLock == SerialSpec => []HolderHasLock
<1>1. SerialInv => HolderHasLock
  BY DEF SerialInv
<1> QED
  BY <1>1, SerialInit, SerialStep, PTL DEF SerialSpec

-----------------------------------------------------------------------------
(* The run.                                                                *)

LEMMA InitTypeOK == Init => TypeOK
<1> SUFFICES ASSUME Init PROVE TypeOK
  OBVIOUS
<1>1. LockTypeOK
  <2>1. lock \in BOOLEAN
    BY Zenon DEF Init, LockInit
  <2> QED
    BY <2>1, BoundsAssumption DEF Init, LockInit, LockTypeOK, Phases
<1> QED
  BY <1>1, ArrivalsAssumption DEF Init, TypeOK, Statuses, Calls

(* The steps of the lock, taken by themselves.                             *)
LEMMA LockStepTypeOK ==
  ASSUME LockTypeOK, NEW r \in Runners,
         Check(r) \/ Create(r) \/ CreateFails(r) \/ Return(r)
           \/ ExitOnError(r) \/ Crash(r) \/ RemoveStale
  PROVE  LockTypeOK'
<1> USE BoundsAssumption DEF LockTypeOK, Phases, SetPhase, Error
<1>1. lock' \in BOOLEAN
  <2>1. CASE lock' = lock
    BY <2>1
  <2>2. CASE lock' = TRUE
    BY <2>2, Zenon
  <2>3. CASE lock' = FALSE
    BY <2>3, Zenon
  <2> QED
    BY <2>1, <2>2, <2>3
       DEF Check, Create, CreateFails, Return, ExitOnError, Crash, RemoveStale
<1>2. crashes' \in 0..MaxCrashes /\ errors' \in 0..MaxErrors
  BY DEF Check, Create, CreateFails, Return, ExitOnError, Crash, RemoveStale
<1>3. phase' \in [Runners -> Phases]
  BY DEF Check, Create, CreateFails, Return, ExitOnError, Crash, RemoveStale
<1> QED
  BY <1>1, <1>2, <1>3

(* While a file is being processed, the place handleCollision has reached  *)
(* is a place of the archive.                                              *)
Processing == {"probe", "create", "write", "verify", "remove", "register"}

LEMMA DestIsPath ==
  ASSUME TypeOK, NEW r \in Runners, pc[r] \in Processing
  PROVE  Dest(r) \in Paths /\ cur[r] \in Files /\ slot[r] \in 1..Len(Candidates[cur[r]])
BY CandidatesAssumption DEF TypeOK, Dest, Processing

(* Calls of a run leave the lock alone, but may use up an error.           *)
LEMMA ErrorTypeOK ==
  ASSUME LockTypeOK, UNCHANGED <<lock, phase, crashes>>, UNCHANGED errors \/ Error
  PROVE  LockTypeOK'
BY BoundsAssumption DEF LockTypeOK, Error

(* Every step keeps the types: in particular slot stays a position in the  *)
(* candidates of the file, so that handleCollision never runs past _99.    *)
LEMMA StepTypeOK == TypeOK /\ [Next]_vars => TypeOK'
<1> SUFFICES ASSUME TypeOK, [Next]_vars PROVE TypeOK'
  OBVIOUS
<1> USE CandidatesAssumption, FilesAssumption
        DEF TypeOK, Statuses, Calls, At, Goto, disk, tables, owner, job
<1>1. CASE UNCHANGED vars
  BY <1>1 DEF vars, lockVars, LockTypeOK
<1>2. ASSUME NEW r \in Runners, Launch(r) PROVE TypeOK'
  <2>1. LockTypeOK'
    BY <1>2, LockStepTypeOK DEF Launch
  <2> QED
    BY <1>2, <2>1 DEF Launch
<1>3. ASSUME NEW r \in Runners, GiveUp(r) PROVE TypeOK'
  <2>1. LockTypeOK'
    BY <1>3, LockStepTypeOK DEF GiveUp
  <2> QED
    BY <1>3, <2>1 DEF GiveUp
<1>4. ASSUME NEW r \in Runners, Kill(r) PROVE TypeOK'
  <2>1. LockTypeOK'
    BY <1>4, LockStepTypeOK DEF Kill
  <2> QED
    BY <1>4, <2>1 DEF Kill, Forget
<1>5. CASE Unlock
  <2>1. LockTypeOK'
    BY <1>5, BoundsAssumption, Zenon DEF Unlock, RemoveStale, LockTypeOK
  <2> QED
    BY <1>5, <2>1 DEF Unlock
<1>6. ASSUME NEW f \in Files, Arrive(f) PROVE TypeOK'
  BY <1>6, ArrivalsAssumption DEF Arrive, lockVars, LockTypeOK
<1>7. ASSUME NEW f \in Files, Withdraw(f) PROVE TypeOK'
  BY <1>7 DEF Withdraw, lockVars, LockTypeOK
<1>8. ASSUME NEW r \in Runners, JobStep(r) PROVE TypeOK'
  <2>1. CASE Begin(r)
    <3>1. LockTypeOK'
      BY <2>1, ErrorTypeOK DEF Begin
    <3>2. PICK read \in SUBSET source : todo' = [todo EXCEPT ![r] = read]
      BY <2>1 DEF Begin
    <3> QED
      BY <2>1, <3>1, <3>2 DEF Begin
  <2>2. CASE VisitMissing(r)
    <3>1. LockTypeOK'
      BY <2>2, ErrorTypeOK DEF VisitMissing, Visit
    <3>2. PICK f \in Files : Visit(r, f)
      BY <2>2 DEF VisitMissing
    <3> QED
      BY <2>2, <3>1, <3>2 DEF VisitMissing, Visit, Outcome
  <2>3. CASE VisitIgnored(r)
    <3>1. LockTypeOK'
      BY <2>3 DEF VisitIgnored, Visit, lockVars, LockTypeOK
    <3> QED
      BY <2>3, <3>1 DEF VisitIgnored, Visit, Outcome
  <2>4. CASE VisitFile(r)
    <3>1. LockTypeOK'
      BY <2>4 DEF VisitFile, Visit, lockVars, LockTypeOK
    <3> QED
      BY <2>4, <3>1 DEF VisitFile, Visit
  <2>5. CASE ProbeFree(r)
    <3>1. LockTypeOK'
      BY <2>5 DEF ProbeFree, lockVars, LockTypeOK
    <3> QED
      BY <2>5, <3>1 DEF ProbeFree
  <2>6. CASE ProbeNext(r)
    <3>1. LockTypeOK'
      BY <2>6, ErrorTypeOK DEF ProbeNext, Taken
    <3>2. cur[r] \in Files /\ slot[r] + 1 \in DOMAIN Candidates[cur[r]]
      <4>1. cur[r] \in Files /\ slot[r] \in 1..Len(Candidates[cur[r]])
        BY <2>6, DestIsPath DEF ProbeNext, Taken, Processing
      <4>2. slot[r] < Len(Candidates[cur[r]])
        BY <2>6 DEF ProbeNext
      <4> QED
        BY <4>1, <4>2
    <3>3. slot' = [slot EXCEPT ![r] = slot[r] + 1] /\ UNCHANGED <<pc, cur, result>>
      BY <2>6 DEF ProbeNext, Taken
    <3>4. UNCHANGED <<disk, tables, owner, todo>>
      BY <2>6 DEF ProbeNext, Taken
    <3>5. slot' \in [Runners -> Nat]
      BY <3>2, <3>3
    <3>6. \A q \in Runners : pc'[q] \in {"probe", "create", "write", "verify", "remove", "register"}
             => cur'[q] \in Files /\ slot'[q] \in DOMAIN Candidates[cur'[q]]
      BY <3>2, <3>3
    <3> QED
      BY <3>1, <3>3, <3>4, <3>5, <3>6
  <2>7. CASE TooManyDuplicates(r)
    <3>1. LockTypeOK'
      BY <2>7, ErrorTypeOK DEF TooManyDuplicates, Taken
    <3> QED
      BY <2>7, <3>1, DestIsPath DEF TooManyDuplicates, Taken, Outcome, Processing
  <2>8. CASE CreateDest(r)
    <3>1. LockTypeOK'
      BY <2>8 DEF CreateDest, lockVars, LockTypeOK
    <3> QED
      BY <2>8, <3>1, DestIsPath DEF CreateDest, SetDest, Processing
  <2>9. CASE CreateDestFails(r)
    <3>1. LockTypeOK'
      BY <2>9, ErrorTypeOK DEF CreateDestFails
    <3> QED
      BY <2>9, <3>1 DEF CreateDestFails, Outcome
  <2>10. CASE Write(r)
    <3>1. LockTypeOK'
      BY <2>10 DEF Write, lockVars, LockTypeOK
    <3> QED
      BY <2>10, <3>1, DestIsPath DEF Write, SetDest, Processing
  <2>11. CASE WriteFails(r)
    <3>1. LockTypeOK'
      BY <2>11, ErrorTypeOK DEF WriteFails
    <3> QED
      BY <2>11, <3>1 DEF WriteFails, Outcome
  <2>12. CASE Verified(r)
    <3>1. LockTypeOK'
      BY <2>12 DEF Verified, lockVars, LockTypeOK
    <3> QED
      BY <2>12, <3>1 DEF Verified
  <2>13. CASE SizeMismatch(r)
    <3>1. LockTypeOK'
      BY <2>13, ErrorTypeOK DEF SizeMismatch
    <3> QED
      BY <2>13, <3>1, DestIsPath DEF SizeMismatch, SetDest, Outcome, Processing
  <2>14. CASE VerifyFails(r)
    <3>1. LockTypeOK'
      BY <2>14, ErrorTypeOK DEF VerifyFails
    <3> QED
      BY <2>14, <3>1 DEF VerifyFails, Outcome
  <2>15. CASE RemoveSource(r)
    <3>1. LockTypeOK'
      BY <2>15 DEF RemoveSource, lockVars, LockTypeOK
    <3> QED
      BY <2>15, <3>1 DEF RemoveSource
  <2>16. CASE RollBack(r)
    <3>1. LockTypeOK'
      BY <2>16, ErrorTypeOK DEF RollBack
    <3> QED
      BY <2>16, <3>1, DestIsPath DEF RollBack, SetDest, Outcome, Processing
  <2>17. CASE RollBackFails(r)
    <3>1. LockTypeOK'
      BY <2>17, ErrorTypeOK DEF RollBackFails
    <3> QED
      BY <2>17, <3>1 DEF RollBackFails, Outcome
  <2>18. CASE Register(r)
    <3>1. LockTypeOK'
      BY <2>18 DEF Register, lockVars, LockTypeOK
    <3> QED
      BY <2>18, <3>1, DestIsPath DEF Register, Outcome, Processing
  <2>19. CASE RegisterFails(r)
    <3>1. LockTypeOK'
      BY <2>19, ErrorTypeOK DEF RegisterFails
    <3> QED
      BY <2>19, <3>1 DEF RegisterFails, Outcome
  <2>20. CASE LogHistory(r)
    <3>1. LockTypeOK'
      BY <2>20, ErrorTypeOK DEF LogHistory
    <3> QED
      BY <2>20, <3>1 DEF LogHistory
  <2>21. CASE Finish(r)
    <3>1. LockTypeOK'
      BY <2>21, LockStepTypeOK DEF Finish
    <3> QED
      BY <2>21, <3>1 DEF Finish, Forget
  <2> QED
    BY <1>8, <2>1, <2>2, <2>3, <2>4, <2>5, <2>6, <2>7, <2>8, <2>9, <2>10, <2>11, <2>12, <2>13, <2>14, <2>15, <2>16, <2>17, <2>18, <2>19, <2>20, <2>21 DEF JobStep
<1> QED
  BY <1>1, <1>2, <1>3, <1>4, <1>5, <1>6, <1>7, <1>8 DEF Next

(* Any number of runs, at any time, keep the types.                        *)
THEOREM TypesHold == Spec => []TypeOK
BY InitTypeOK, StepTypeOK, PTL DEF Spec

(* A run that does not overlap with another is the only one with a job.    *)
LEMMA OthersAtBegin ==
  ASSUME SoloInv, NEW r \in Runners, phase[r] = "locked", NEW q \in Runners, q # r
  PROVE  pc[q] = "begin"
BY DEF SoloInv, Exclusive, Holders, Idle

LEMMA InitSoloInv == Init => SoloInv
<1> SUFFICES ASSUME Init PROVE SoloInv
  OBVIOUS
<1>1. TypeOK
  BY InitTypeOK
<1>2. Exclusive /\ Idle
  BY DEF Init, LockInit, Exclusive, Holders, Idle
<1>3. PlaceKnown /\ SourceKept
  BY DEF Init, PlaceKnown, SourceKept, Holding
<1>4. RegistrySound /\ NoLoss
  BY DEF Init, RegistrySound, NoLoss
<1> QED
  BY <1>1, <1>2, <1>3, <1>4 DEF SoloInv

LEMMA StepSoloInv == SoloInv /\ [Next /\ Exclusive']_vars => SoloInv'
<1> SUFFICES ASSUME SoloInv, [Next /\ Exclusive']_vars PROVE SoloInv'
  OBVIOUS
<1>0. TypeOK'
  BY StepTypeOK DEF SoloInv
<1>e. Exclusive'
  BY DEF SoloInv, Exclusive, Holders, vars, lockVars
<1> SUFFICES Idle' /\ PlaceKnown' /\ SourceKept' /\ RegistrySound' /\ NoLoss'
  BY <1>0, <1>e DEF SoloInv
<1> USE FilesAssumption, CandidatesAssumption
        DEF SoloInv, TypeOK, Idle, PlaceKnown, SourceKept, RegistrySound, NoLoss,
            At, Goto, Dest, Holding, disk, tables, owner, job, lockVars
<1>1. CASE UNCHANGED vars
  BY <1>1 DEF vars
<1>2. ASSUME NEW r \in Runners, Launch(r)
      PROVE  Idle' /\ PlaceKnown' /\ SourceKept' /\ RegistrySound' /\ NoLoss'
  BY <1>2 DEF Launch, Check, Create, CreateFails, SetPhase, LockTypeOK
<1>3. ASSUME NEW r \in Runners, GiveUp(r)
      PROVE  Idle' /\ PlaceKnown' /\ SourceKept' /\ RegistrySound' /\ NoLoss'
  BY <1>3 DEF GiveUp, ExitOnError, SetPhase, LockTypeOK
<1>4. ASSUME NEW r \in Runners, Kill(r)
      PROVE  Idle' /\ PlaceKnown' /\ SourceKept' /\ RegistrySound' /\ NoLoss'
  BY <1>4 DEF Kill, Forget, Crash, SetPhase, LockTypeOK
<1>5. CASE Unlock
  BY <1>5 DEF Unlock, RemoveStale
<1>6. ASSUME NEW f \in Files, Arrive(f)
      PROVE  Idle' /\ PlaceKnown' /\ SourceKept' /\ RegistrySound' /\ NoLoss'
  BY <1>6 DEF Arrive
<1>7. ASSUME NEW f \in Files, Withdraw(f)
      PROVE  Idle' /\ PlaceKnown' /\ SourceKept' /\ RegistrySound' /\ NoLoss'
  BY <1>7 DEF Withdraw
<1>8. ASSUME NEW r \in Runners, JobStep(r)
      PROVE  Idle' /\ PlaceKnown' /\ SourceKept' /\ RegistrySound' /\ NoLoss'
  <2> \A q \in Runners : q # r => pc[q] = "begin"
    BY <1>8, OthersAtBegin DEF JobStep, Begin, CreateDest, CreateDestFails, Finish, LogHistory, ProbeFree, ProbeNext, Register, RegisterFails, RemoveSource, Return, RollBack, RollBackFails, SizeMismatch, Taken, TooManyDuplicates, Verified, VerifyFails, Visit, VisitFile, VisitIgnored, VisitMissing, Write, WriteFails
  <2>1. CASE Begin(r)
    BY <2>1 DEF Begin
  <2>2. CASE VisitMissing(r)
    BY <2>2 DEF VisitMissing, Visit, Outcome
  <2>3. CASE VisitIgnored(r)
    BY <2>3 DEF VisitIgnored, Visit, Outcome
  <2>4. CASE VisitFile(r)
    BY <2>4 DEF VisitFile, Visit
  <2>5. CASE ProbeFree(r)
    BY <2>5 DEF ProbeFree
  <2>6. CASE ProbeNext(r)
    BY <2>6 DEF ProbeNext, Taken
  <2>7. CASE TooManyDuplicates(r)
    BY <2>7 DEF TooManyDuplicates, Taken, Outcome
  <2>8. CASE CreateDest(r)
    BY <2>8 DEF CreateDest, SetDest
  <2>9. CASE CreateDestFails(r)
    BY <2>9 DEF CreateDestFails, Outcome
  <2>10. CASE Write(r)
    <3>1. Dest(r) \in Paths /\ cur[r] \in Files
      BY <2>10, DestIsPath DEF Write, Processing
    <3>2. archive[Dest(r)] = Partial /\ registry[Dest(r)] = <<>>
      BY <2>10 DEF Write
    <3>3. archive' = [archive EXCEPT ![Dest(r)] = cur[r]]
      BY <2>10, <3>2 DEF Write, SetDest
    <3>4. pc' = [pc EXCEPT ![r] = "verify"]
      BY <2>10 DEF Write
    <3>5. UNCHANGED <<lock, phase, source, tables, owner, cur, slot>>
      BY <2>10 DEF Write
    <3>6. Idle' /\ SourceKept'
      BY <2>10, <3>4, <3>5 DEF Write
    <3>7. PlaceKnown'
      <4> SUFFICES ASSUME NEW q \in Runners
                   PROVE  /\ pc'[q] = "create" => archive'[Dest(q)'] = None
                          /\ pc'[q] = "write" => archive'[Dest(q)'] = Partial
                          /\ pc'[q] \in {"verify", "remove", "register"} => archive'[Dest(q)'] = cur'[q]
                          /\ pc'[q] \in {"create", "register"} \cup Holding => registry'[Dest(q)'] = <<>>
        BY Zenon DEF PlaceKnown
      <4>1. CASE q = r
        <5>1. pc'[q] = "verify" /\ cur'[q] = cur[r] /\ Dest(q)' = Dest(r)
          BY <3>4, <3>5, <4>1
        <5>2. archive'[Dest(r)] = cur[r] /\ registry'[Dest(r)] = <<>>
          BY <3>1, <3>2, <3>3, <3>5
        <5> QED
          BY <5>1, <5>2
      <4>2. CASE q # r
        <5>1. pc'[q] = "begin"
          BY <3>4, <4>2
        <5> QED
          BY <5>1
      <4> QED
        BY <4>1, <4>2
    <3>8. RegistrySound' /\ NoLoss'
      BY <3>1, <3>2, <3>3, <3>5
    <3> QED
      BY <3>6, <3>7, <3>8
  <2>11. CASE WriteFails(r)
    BY <2>11 DEF WriteFails, Outcome
  <2>12. CASE Verified(r)
    BY <2>12 DEF Verified
  <2>13. CASE SizeMismatch(r)
    BY <2>13 DEF SizeMismatch, SetDest, Outcome
  <2>14. CASE VerifyFails(r)
    BY <2>14 DEF VerifyFails, Outcome
  <2>15. CASE RemoveSource(r)
    BY <2>15 DEF RemoveSource
  <2>16. CASE RollBack(r)
    BY <2>16 DEF RollBack, SetDest, Outcome
  <2>17. CASE RollBackFails(r)
    BY <2>17 DEF RollBackFails, Outcome
  <2>18. CASE Register(r)
    BY <2>18 DEF Register, Outcome
  <2>19. CASE RegisterFails(r)
    BY <2>19 DEF RegisterFails, Outcome
  <2>20. CASE LogHistory(r)
    BY <2>20 DEF LogHistory
  <2>21. CASE Finish(r)
    BY <2>21 DEF Finish, Forget, Return, SetPhase
  <2> QED
    BY <1>8, <2>1, <2>2, <2>3, <2>4, <2>5, <2>6, <2>7, <2>8, <2>9, <2>10, <2>11, <2>12, <2>13, <2>14, <2>15, <2>16, <2>17, <2>18, <2>19, <2>20, <2>21 DEF JobStep
<1> QED
  BY <1>1, <1>2, <1>3, <1>4, <1>5, <1>6, <1>7, <1>8 DEF Next

(* DEVELOPER_NOTES.md 7: no interrupted run loses data.  Whatever fails and *)
(* whenever runs are killed, as long as they do not overlap, every file    *)
(* that was put in the source and not taken back is whole in the source or *)
(* in the archive.                                                         *)
THEOREM NothingIsLost == SoloSpec => []NoLoss
<1>1. SoloInv => NoLoss
  BY DEF SoloInv
<1> QED
  BY <1>1, InitSoloInv, StepSoloInv, PTL DEF SoloSpec

(* Under the same conditions a registry row names the file that lies at    *)
(* its place, which no other row names.                                    *)
THEOREM RegistryDescribesDisk == SoloSpec => []RegistrySound
<1>1. SoloInv => RegistrySound
  BY DEF SoloInv
<1> QED
  BY <1>1, InitSoloInv, StepSoloInv, PTL DEF SoloSpec

(* The only steps that touch the archive are those of the run that has     *)
(* chosen the place, and it chose a free one.                              *)
LEMMA StepArchiveStable ==
  ASSUME SoloInv, [Next /\ Exclusive']_vars, NEW p \in Paths, Settled(p)
  PROVE  archive'[p] = archive[p]
<1> USE FilesAssumption
        DEF SoloInv, TypeOK, PlaceKnown, Settled, At, Holding, disk
<1>1. CASE UNCHANGED archive
  BY <1>1
<1>2. ASSUME NEW r \in Runners, CreateDest(r) PROVE archive'[p] = archive[p]
  BY <1>2 DEF CreateDest, SetDest
<1>3. ASSUME NEW r \in Runners, Write(r) PROVE archive'[p] = archive[p]
  BY <1>3 DEF Write, SetDest
<1>4. ASSUME NEW r \in Runners, SizeMismatch(r) PROVE archive'[p] = archive[p]
  BY <1>4 DEF SizeMismatch, SetDest
<1>5. ASSUME NEW r \in Runners, RollBack(r) PROVE archive'[p] = archive[p]
  BY <1>5 DEF RollBack, SetDest
<1>6. ASSUME NEW r \in Runners, JobStep(r) PROVE archive'[p] = archive[p]
  BY <1>1, <1>2, <1>3, <1>4, <1>5, <1>6
     DEF JobStep, Begin, CreateDestFails, Finish, LogHistory, ProbeFree, ProbeNext, Register, RegisterFails, RemoveSource, RollBackFails, Taken, TooManyDuplicates, Verified, VerifyFails, Visit, VisitFile, VisitIgnored, VisitMissing, WriteFails
<1> QED
  BY <1>1, <1>6
     DEF Next, Launch, GiveUp, Kill, Arrive, Withdraw, Unlock, vars

(* A whole file in the archive is never overwritten and never removed by a *)
(* run, except the copy it has just made.                                  *)
THEOREM SettledPlacesLast == SoloSpec => ArchiveStable
<1>1. SoloInv /\ [Next /\ Exclusive']_vars =>
        [\A p \in Paths : Settled(p) => archive'[p] = archive[p]]_vars
  BY StepArchiveStable
<1> QED
  BY <1>1, InitSoloInv, StepSoloInv, PTL DEF SoloSpec, ArchiveStable

-----------------------------------------------------------------------------
(* The refinement.  A step that touches neither the disk nor what the      *)
(* owner asked for can only change which places are settled.               *)
Final == {p \in Paths : Settled(p)}

CustodyStep == [Custody!CustodyNext]_(Custody!custodyVars)

LEMMA SamePlaces ==
  ASSUME TypeOK, UNCHANGED <<source, owed, archive>>,
         \A q \in Runners : /\ pc'[q] \in Holding <=> pc[q] \in Holding
                            /\ pc[q] \in Holding => Dest(q)' = Dest(q)
  PROVE  CustodyStep
<1>1. Holds' = Holds
  BY DEF Holds
<1>2. Final' = Final
  BY DEF Final, Settled
<1> QED
  BY <1>1, <1>2 DEF CustodyStep, Custody!custodyVars, Final

(* A run that gives its place up leaves its copy there for good.           *)
LEMMA PlaceGivenUp ==
  ASSUME SoloInv, UNCHANGED <<source, owed, archive>>,
         NEW r \in Runners, phase[r] = "locked", pc[r] \in Holding,
         pc'[r] \notin Holding, \A q \in Runners : q # r => pc'[q] = pc[q]
  PROVE  CustodyStep
<1> DEFINE p == Dest(r)
<1>1. p \in Paths
  BY DestIsPath DEF SoloInv, Processing, Holding
<1>2. Holds' = Holds
  BY DEF Holds
<1>3. \A q \in Runners : q # r => pc[q] \notin Holding
  BY OthersAtBegin DEF Holding
<1>4. \A x \in Paths : Settled(x) <=> archive[x] \in Files /\ x # p
  BY <1>3 DEF Settled
<1>5. \A x \in Paths : Settled(x)' <=> archive[x] \in Files
  BY <1>3 DEF Settled
<1>6. CASE archive[p] \in Files
  <2>1. Final' = Final \cup {p}
    BY <1>1, <1>4, <1>5, <1>6 DEF Final
  <2>2. Holds[p] # None
    BY <1>1, <1>6, FilesAssumption DEF Holds
  <2>3. Custody!Settle(p)
    BY <1>2, <2>1, <2>2 DEF Custody!Settle, Final
  <2> QED
    BY <1>1, <2>3 DEF CustodyStep, Custody!CustodyNext
<1>7. CASE archive[p] \notin Files
  <2>1. Final' = Final
    BY <1>4, <1>5, <1>7 DEF Final
  <2> QED
    BY <1>2, <2>1 DEF CustodyStep, Custody!custodyVars, Final
<1> QED
  BY <1>6, <1>7

LEMMA InitCustody == Init => Custody!CustodyInit
<1> SUFFICES ASSUME Init PROVE Custody!CustodyInit
  OBVIOUS
<1>1. Holds = [p \in Paths |-> None]
  BY FilesAssumption DEF Init, Holds
<1>2. Final = {}
  BY FilesAssumption DEF Init, Final, Settled
<1> QED
  BY <1>1, <1>2 DEF Init, Custody!CustodyInit, Final

LEMMA StepCustody == SoloInv /\ [Next /\ Exclusive']_vars => CustodyStep
<1> SUFFICES ASSUME SoloInv, [Next /\ Exclusive']_vars PROVE CustodyStep
  OBVIOUS
<1> USE FilesAssumption DEF SoloInv, TypeOK, At, Goto, disk, tables, owner, job, lockVars
<1>1. CASE UNCHANGED vars
  BY <1>1, SamePlaces DEF vars, Dest
<1>2. ASSUME NEW r \in Runners, Launch(r) PROVE CustodyStep
  BY <1>2, SamePlaces DEF Launch, Dest
<1>3. ASSUME NEW r \in Runners, GiveUp(r) PROVE CustodyStep
  BY <1>3, SamePlaces DEF GiveUp, Dest
<1>4. ASSUME NEW r \in Runners, Kill(r) PROVE CustodyStep
  <2>1. CASE pc[r] \in Holding
    <3>1. phase[r] = "locked"
      BY <2>1 DEF Idle, Holding
    <3> QED
      BY <1>4, <2>1, <3>1, PlaceGivenUp DEF Kill, Forget, Holding
  <2>2. CASE pc[r] \notin Holding
    BY <1>4, <2>2, SamePlaces DEF Kill, Forget, Dest, Holding
  <2> QED
    BY <2>1, <2>2
<1>5. CASE Unlock
  BY <1>5, SamePlaces DEF Unlock, Dest
<1>6. ASSUME NEW f \in Files, Arrive(f) PROVE CustodyStep
  <2>1. Holds' = Holds /\ Final' = Final
    BY <1>6 DEF Arrive, Holds, Final, Settled, Dest
  <2>2. Custody!Deposit(f)
    BY <1>6, <2>1 DEF Arrive, Custody!Deposit, Final
  <2> QED
    BY <2>2 DEF CustodyStep, Custody!CustodyNext
<1>7. ASSUME NEW f \in Files, Withdraw(f) PROVE CustodyStep
  <2>1. Holds' = Holds /\ Final' = Final
    BY <1>7 DEF Withdraw, Holds, Final, Settled, Dest
  <2>2. Custody!TakeBack(f)
    BY <1>7, <2>1 DEF Withdraw, Custody!TakeBack, Final
  <2> QED
    BY <2>2 DEF CustodyStep, Custody!CustodyNext
<1>8. ASSUME NEW r \in Runners, JobStep(r) PROVE CustodyStep
  <2>1. CASE Begin(r)
    BY <2>1, SamePlaces DEF Begin, Dest, Holding
  <2>2. CASE VisitMissing(r)
    BY <2>2, SamePlaces DEF VisitMissing, Visit, Outcome, Dest, Holding
  <2>3. CASE VisitIgnored(r)
    BY <2>3, SamePlaces DEF VisitIgnored, Visit, Outcome, Dest, Holding
  <2>4. CASE VisitFile(r)
    BY <2>4, SamePlaces DEF VisitFile, Visit, Dest, Holding
  <2>5. CASE ProbeFree(r)
    BY <2>5, SamePlaces DEF ProbeFree, Dest, Holding
  <2>6. CASE ProbeNext(r)
    BY <2>6, SamePlaces DEF ProbeNext, Taken, Dest, Holding
  <2>7. CASE TooManyDuplicates(r)
    BY <2>7, SamePlaces DEF TooManyDuplicates, Taken, Outcome, Dest, Holding
  <2>8. CASE CreateDestFails(r)
    BY <2>8, SamePlaces DEF CreateDestFails, Outcome, Dest, Holding
  <2>9. CASE Verified(r)
    BY <2>9, SamePlaces DEF Verified, Dest, Holding
  <2>10. CASE Register(r)
    BY <2>10, SamePlaces DEF Register, Outcome, Dest, Holding
  <2>11. CASE RegisterFails(r)
    BY <2>11, SamePlaces DEF RegisterFails, Outcome, Dest, Holding
  <2>12. CASE LogHistory(r)
    BY <2>12, SamePlaces DEF LogHistory, Dest, Holding
  <2>13. CASE Finish(r)
    BY <2>13, SamePlaces DEF Finish, Forget, Return, Dest, Holding
  <2>14. CASE WriteFails(r)
    BY <2>14, PlaceGivenUp DEF WriteFails, Outcome, Holding
  <2>15. CASE VerifyFails(r)
    BY <2>15, PlaceGivenUp DEF VerifyFails, Outcome, Holding
  <2>16. CASE RollBackFails(r)
    BY <2>16, PlaceGivenUp DEF RollBackFails, Outcome, Holding
  <2>20. \A q \in Runners : q # r => pc[q] = "begin"
    BY <1>8, OthersAtBegin DEF JobStep, Begin, CreateDest, CreateDestFails, Finish, LogHistory, ProbeFree, ProbeNext, Register, RegisterFails, RemoveSource, Return, RollBack, RollBackFails, SizeMismatch, Taken, TooManyDuplicates, Verified, VerifyFails, Visit, VisitFile, VisitIgnored, VisitMissing, Write, WriteFails
  <2>21. pc[r] \in {"create", "register"} \cup Holding => Dest(r) \in Paths /\ cur[r] \in Files
    BY DestIsPath DEF Processing, Holding
  <2>22. CASE CreateDest(r)
    <3>1. Holds' = Holds
      BY <2>22, <2>21 DEF CreateDest, SetDest, PlaceKnown, Holds
    <3>2. Final' = Final
      BY <2>20, <2>21, <2>22 DEF CreateDest, SetDest, PlaceKnown, Final, Settled, Holding, Dest
    <3> QED
      BY <2>22, <3>1, <3>2 DEF CreateDest, CustodyStep, Custody!custodyVars, Final
  <2>23. CASE Write(r)
    <3>1. archive[Dest(r)] = Partial /\ archive' = [archive EXCEPT ![Dest(r)] = cur[r]]
      BY <2>23 DEF Write, PlaceKnown, SetDest
    <3>2. Holds[Dest(r)] = None /\ Holds' = [Holds EXCEPT ![Dest(r)] = cur[r]]
      BY <2>21, <2>23, <3>1 DEF Write, Holds, Holding
    <3>3. Final' = Final
      BY <2>20, <2>21, <2>23, <3>1 DEF Write, Final, Settled, Holding, Dest
    <3>4. Custody!Store(cur[r], Dest(r))
      BY <2>23, <3>2, <3>3 DEF Write, Custody!Store, Final
    <3> QED
      BY <2>21, <2>23, <3>4 DEF Write, CustodyStep, Custody!CustodyNext, Holding
  <2>24. ASSUME SizeMismatch(r) \/ RollBack(r) PROVE CustodyStep
    <3>1. /\ pc[r] \in {"verify", "remove"}
          /\ archive' = [archive EXCEPT ![Dest(r)] = None]
          /\ pc' = [pc EXCEPT ![r] = "log"]
          /\ UNCHANGED <<source, owed, cur, slot>>
      BY <2>24 DEF SizeMismatch, RollBack, SetDest, Outcome
    <3>2. Dest(r) \in Paths /\ cur[r] \in Files /\ archive[Dest(r)] = cur[r]
      BY <2>21, <3>1 DEF PlaceKnown, Holding
    <3>3. Holds[Dest(r)] = cur[r] /\ Holds' = [Holds EXCEPT ![Dest(r)] = None]
      BY <3>1, <3>2 DEF Holds
    <3>4. Final' = Final /\ Dest(r) \notin Final
      BY <2>20, <3>1, <3>2 DEF Final, Settled, Holding, Dest
    <3>5. cur[r] \in source \cup (Files \ owed)
      BY <3>1, <3>2 DEF SourceKept, Holding
    <3>6. Custody!Discard(Dest(r))
      BY <3>1, <3>3, <3>4, <3>5 DEF Custody!Discard, Final
    <3> QED
      BY <3>2, <3>6 DEF CustodyStep, Custody!CustodyNext
  <2>25. CASE RemoveSource(r)
    <3>1. Dest(r) \in Paths /\ cur[r] \in Files /\ archive[Dest(r)] = cur[r]
      BY <2>21, <2>25 DEF RemoveSource, PlaceKnown, Holding
    <3>2. Holds[Dest(r)] = cur[r] /\ Holds' = Holds
      BY <2>25, <3>1 DEF RemoveSource, Holds
    <3>3. Final' = Final \cup {Dest(r)}
      BY <2>20, <2>25, <3>1 DEF RemoveSource, Final, Settled, Holding, Dest
    <3>4. Custody!Release(cur[r], Dest(r))
      BY <2>25, <3>2, <3>3 DEF RemoveSource, Custody!Release, Final
    <3> QED
      BY <3>1, <3>4 DEF CustodyStep, Custody!CustodyNext
  <2> QED
    BY <1>8, <2>1, <2>2, <2>3, <2>4, <2>5, <2>6, <2>7, <2>8, <2>9, <2>10, <2>11, <2>12, <2>13, <2>14, <2>15, <2>16, <2>22, <2>23, <2>24, <2>25 DEF JobStep
<1> QED
  BY <1>1, <1>2, <1>3, <1>4, <1>5, <1>6, <1>7, <1>8 DEF Next

(* Runs that do not overlap implement the abstract custody specification:  *)
(* a file leaves the source only when a place that holds it is final, and  *)
(* final places never change.                                              *)
THEOREM RunsKeepCustody == SoloSpec => ImplementsCustody
<1>1. SoloInv /\ [Next /\ Exclusive']_vars => [Custody!CustodyNext]_(Custody!custodyVars)
  BY StepCustody DEF CustodyStep
<1> QED
  BY <1>1, InitCustody, InitSoloInv, StepSoloInv, PTL
     DEF SoloSpec, ImplementsCustody, Custody!CustodySpec

-----------------------------------------------------------------------------
(* SUCCESS is pending only for the file the run has just registered.       *)
SuccessInv ==
    /\ TypeOK
    /\ \A r \in Runners : result[r] = "SUCCESS" => pc[r] = "log" /\ Registered(cur[r])
    /\ SuccessIsRegistered

(* Rows are only added: what is registered stays registered.               *)
LEMMA RegisteredStays ==
  ASSUME TypeOK, NEW f,
         \/ UNCHANGED registry
         \/ \E p \in Paths, g \in Files : registry' = [registry EXCEPT ![p] = Append(@, g)]
  PROVE  Registered(f) => Registered(f)'
<1>1. CASE UNCHANGED registry
  BY <1>1 DEF Registered
<1>2. ASSUME NEW p \in Paths, NEW g \in Files,
             registry' = [registry EXCEPT ![p] = Append(@, g)], Registered(f)
      PROVE  Registered(f)'
  <2>1. PICK q \in Paths : \E i \in DOMAIN registry[q] : registry[q][i] = f
    BY <1>2 DEF Registered
  <2>2. PICK i \in DOMAIN registry[q] : registry[q][i] = f
    BY <2>1
  <2>3. registry[q] \in Seq(Files)
    BY DEF TypeOK
  <2>4. i \in DOMAIN registry'[q] /\ registry'[q][i] = f
    BY <1>2, <2>2, <2>3 DEF TypeOK
  <2> QED
    BY <2>4 DEF Registered
<1> QED
  BY <1>1, <1>2

LEMMA InitSuccessInv == Init => SuccessInv
BY InitTypeOK, NoneAssumption DEF Init, SuccessInv, SuccessIsRegistered

LEMMA StepSuccessInv == SuccessInv /\ [Next]_vars => SuccessInv'
<1> SUFFICES ASSUME SuccessInv, [Next]_vars PROVE SuccessInv'
  OBVIOUS
<1>0. TypeOK'
  BY StepTypeOK DEF SuccessInv
<1> USE DEF SuccessInv, TypeOK, SuccessIsRegistered, At, Goto, tables, job
<1> DEFINE Pending == \A r \in Runners : result[r] = "SUCCESS" => pc[r] = "log" /\ Registered(cur[r])
<1> SUFFICES Pending' /\ SuccessIsRegistered'
  BY <1>0
<1>a. ASSUME UNCHANGED registry PROVE \A f : Registered(f) <=> Registered(f)'
  BY <1>a DEF Registered
<1>1. CASE UNCHANGED vars
  BY <1>1, <1>a DEF vars
<1>2. ASSUME NEW r \in Runners, Launch(r) \/ GiveUp(r)
      PROVE  Pending' /\ SuccessIsRegistered'
  BY <1>2, <1>a DEF Launch, GiveUp
<1>3. ASSUME NEW r \in Runners, Kill(r)
      PROVE  Pending' /\ SuccessIsRegistered'
  BY <1>3, <1>a, NoneAssumption DEF Kill, Forget
<1>4. ASSUME Unlock \/ \E f \in Files : Arrive(f) \/ Withdraw(f)
      PROVE  Pending' /\ SuccessIsRegistered'
  BY <1>4, <1>a DEF Unlock, Arrive, Withdraw
<1>5. ASSUME NEW r \in Runners, JobStep(r)
      PROVE  Pending' /\ SuccessIsRegistered'
  <2>1. CASE Begin(r)
    BY <2>1, <1>a, NoneAssumption DEF Begin
  <2>2. CASE VisitMissing(r)
    BY <2>2, <1>a, NoneAssumption DEF VisitMissing, Visit, Outcome
  <2>3. CASE VisitIgnored(r)
    BY <2>3, <1>a, NoneAssumption DEF VisitIgnored, Visit, Outcome
  <2>4. CASE VisitFile(r)
    BY <2>4, <1>a, NoneAssumption DEF VisitFile, Visit
  <2>5. CASE ProbeFree(r)
    BY <2>5, <1>a, NoneAssumption DEF ProbeFree
  <2>6. CASE ProbeNext(r)
    BY <2>6, <1>a, NoneAssumption DEF ProbeNext, Taken
  <2>7. CASE TooManyDuplicates(r)
    BY <2>7, <1>a, NoneAssumption DEF TooManyDuplicates, Taken, Outcome
  <2>8. CASE CreateDest(r)
    BY <2>8, <1>a, NoneAssumption DEF CreateDest
  <2>9. CASE CreateDestFails(r)
    BY <2>9, <1>a, NoneAssumption DEF CreateDestFails, Outcome
  <2>10. CASE Write(r)
    BY <2>10, <1>a, NoneAssumption DEF Write
  <2>11. CASE WriteFails(r)
    BY <2>11, <1>a, NoneAssumption DEF WriteFails, Outcome
  <2>12. CASE Verified(r)
    BY <2>12, <1>a, NoneAssumption DEF Verified
  <2>13. CASE SizeMismatch(r)
    BY <2>13, <1>a, NoneAssumption DEF SizeMismatch, Outcome
  <2>14. CASE VerifyFails(r)
    BY <2>14, <1>a, NoneAssumption DEF VerifyFails, Outcome
  <2>15. CASE RemoveSource(r)
    BY <2>15, <1>a, NoneAssumption DEF RemoveSource
  <2>16. CASE RollBack(r)
    BY <2>16, <1>a, NoneAssumption DEF RollBack, Outcome
  <2>17. CASE RollBackFails(r)
    BY <2>17, <1>a, NoneAssumption DEF RollBackFails, Outcome
  <2>18. CASE Register(r)
    <3>1. Dest(r) \in Paths /\ cur[r] \in Files
      BY <2>18, DestIsPath DEF Register, Processing
    <3>2. /\ registry' = [registry EXCEPT ![Dest(r)] = Append(@, cur[r])]
          /\ pc' = [pc EXCEPT ![r] = "log"] /\ UNCHANGED <<cur, history>>
          /\ result' = [result EXCEPT ![r] = "SUCCESS"]
      BY <2>18 DEF Register, Outcome
    <3>3. \A f : Registered(f) => Registered(f)'
      BY <3>1, <3>2, RegisteredStays
    <3>4. Registered(cur[r])'
      <4> DEFINE n == Len(registry[Dest(r)]) + 1
      <4>1. registry[Dest(r)] \in Seq(Files)
        BY <3>1
      <4>2. n \in DOMAIN registry'[Dest(r)] /\ registry'[Dest(r)][n] = cur[r]
        BY <3>1, <3>2, <4>1
      <4> QED
        BY <3>1, <3>2, <4>2 DEF Registered
    <3>5. SuccessIsRegistered'
      BY <3>2, <3>3
    <3>6. Pending'
      BY <3>2, <3>3, <3>4
    <3> QED
      BY <3>5, <3>6
  <2>19. CASE RegisterFails(r)
    BY <2>19, <1>a, NoneAssumption DEF RegisterFails, Outcome
  <2>20. CASE LogHistory(r)
    BY <2>20, <1>a, NoneAssumption DEF LogHistory
  <2>21. CASE Finish(r)
    BY <2>21, <1>a, NoneAssumption DEF Finish, Forget
  <2> QED
    BY <1>5, <2>1, <2>2, <2>3, <2>4, <2>5, <2>6, <2>7, <2>8, <2>9, <2>10, <2>11, <2>12, <2>13, <2>14, <2>15, <2>16, <2>17, <2>18, <2>19, <2>20, <2>21 DEF JobStep
<1> QED
  BY <1>1, <1>2, <1>3, <1>4, <1>5 DEF Next

(* The history never claims a success that the registry does not show, for *)
(* any number of runs that overlap, fail and are killed in any way.        *)
THEOREM SuccessImpliesRow == Spec => []SuccessIsRegistered
<1>1. SuccessInv => SuccessIsRegistered
  BY DEF SuccessInv
<1> QED
  BY <1>1, InitSuccessInv, StepSuccessInv, PTL DEF Spec

-----------------------------------------------------------------------------
(* Rows, runs about to write one and the file itself in the source: each   *)
(* of them takes one arrival of the file.                                  *)
Registering(f) == {r \in Runners : pc[r] = "register" /\ cur[r] = f}

InSource(f) == IF f \in source THEN 1 ELSE 0

Counted(f) ==
    /\ IsFiniteSet(Rows(f)) /\ IsFiniteSet(Registering(f))
    /\ Cardinality(Rows(f)) + Cardinality(Registering(f)) + InSource(f) <= arrivals[f]

CountInv == TypeOK /\ \A f \in Files : Counted(f)

LEMMA InitCountInv == Init => CountInv
<1> SUFFICES ASSUME Init, NEW f \in Files PROVE Counted(f)
  BY InitTypeOK DEF CountInv
<1>1. Rows(f) = {}
  BY DEF Init, Rows
<1>2. Registering(f) = {}
  BY DEF Init, Registering
<1> QED
  BY <1>1, <1>2, FS_EmptySet DEF Init, Counted, InSource

(* A step that writes no row, brings no file and lets nobody become about  *)
(* to write one.                                                           *)
Uncounting ==
    /\ registry' = registry /\ arrivals' = arrivals /\ source' \subseteq source
    /\ \A r \in Runners : pc'[r] = "register" => pc[r] = "register" /\ cur'[r] = cur[r]

LEMMA UncountingKeeps ==
  ASSUME TypeOK, NEW f \in Files, Counted(f), Uncounting
  PROVE  Counted(f)'
<1>1. Rows(f)' = Rows(f)
  BY DEF Uncounting, Rows
<1>2. Registering(f)' \subseteq Registering(f)
  BY DEF Uncounting, Registering
<1>3. /\ IsFiniteSet(Registering(f)')
      /\ Cardinality(Registering(f)') <= Cardinality(Registering(f))
  BY <1>2, FS_Subset DEF Counted
<1>4. /\ Cardinality(Registering(f)') \in Nat /\ Cardinality(Registering(f)) \in Nat
      /\ Cardinality(Rows(f)) \in Nat
  BY <1>3, FS_CardinalityType DEF Counted
<1>5. InSource(f)' <= InSource(f) /\ InSource(f) \in Nat /\ InSource(f)' \in Nat
  BY DEF Uncounting, InSource
<1>6. arrivals[f] \in Nat /\ arrivals'[f] = arrivals[f]
  BY ArrivalsAssumption DEF TypeOK, Uncounting
<1> QED
  BY <1>1, <1>3, <1>4, <1>5, <1>6 DEF Counted

LEMMA ArriveCounts ==
  ASSUME TypeOK, NEW f \in Files, Counted(f), NEW g \in Files, Arrive(g)
  PROVE  Counted(f)'
<1>1. Rows(f)' = Rows(f) /\ Registering(f)' = Registering(f)
  BY DEF Arrive, Rows, Registering, tables, job
<1>2. Cardinality(Registering(f)) \in Nat /\ Cardinality(Rows(f)) \in Nat
  BY FS_CardinalityType DEF Counted
<1>3. arrivals[f] \in Nat
  BY ArrivalsAssumption DEF TypeOK
<1>4. CASE f = g
  <2>1. InSource(f) = 0 /\ InSource(f)' = 1 /\ arrivals'[f] = arrivals[f] + 1
    BY <1>4, <1>3 DEF Arrive, InSource, TypeOK
  <2> QED
    BY <1>1, <1>2, <1>3, <2>1 DEF Counted
<1>5. CASE f # g
  <2>1. InSource(f)' = InSource(f) /\ arrivals'[f] = arrivals[f]
    BY <1>5 DEF Arrive, InSource, TypeOK
  <2> QED
    BY <1>1, <2>1 DEF Counted
<1> QED
  BY <1>4, <1>5

LEMMA RemoveSourceCounts ==
  ASSUME TypeOK, NEW f \in Files, Counted(f), NEW r \in Runners, RemoveSource(r)
  PROVE  Counted(f)'
<1>1. Rows(f)' = Rows(f) /\ arrivals' = arrivals
  BY DEF RemoveSource, Rows, tables, owner
<1>2. /\ Cardinality(Registering(f)) \in Nat /\ Cardinality(Rows(f)) \in Nat
      /\ arrivals[f] \in Nat
  BY FS_CardinalityType, ArrivalsAssumption DEF Counted, TypeOK
<1>3. CASE cur[r] = f
  <2>1. r \notin Registering(f) /\ Registering(f)' = Registering(f) \cup {r}
    BY <1>3 DEF RemoveSource, At, Goto, Registering, TypeOK
  <2>2. /\ IsFiniteSet(Registering(f)')
        /\ Cardinality(Registering(f)') = Cardinality(Registering(f)) + 1
    BY <2>1, FS_AddElement DEF Counted
  <2>3. InSource(f) = 1 /\ InSource(f)' = 0
    BY <1>3 DEF RemoveSource, InSource
  <2> QED
    BY <1>1, <1>2, <2>2, <2>3 DEF Counted
<1>4. CASE cur[r] # f
  <2>1. Registering(f)' = Registering(f)
    BY <1>4 DEF RemoveSource, At, Goto, Registering, TypeOK
  <2>2. InSource(f)' = InSource(f)
    BY <1>4 DEF RemoveSource, InSource
  <2> QED
    BY <1>1, <2>1, <2>2 DEF Counted
<1> QED
  BY <1>3, <1>4

LEMMA RegisterCounts ==
  ASSUME TypeOK, NEW f \in Files, Counted(f), NEW r \in Runners, Register(r)
  PROVE  Counted(f)'
<1> DEFINE n == Len(registry[Dest(r)]) + 1
<1>1. Dest(r) \in Paths /\ cur[r] \in Files
  BY DestIsPath DEF Register, At, Processing, TypeOK
<1>2. registry' = [registry EXCEPT ![Dest(r)] = Append(@, cur[r])]
  BY DEF Register
<1>3. /\ arrivals' = arrivals /\ InSource(f)' = InSource(f)
      /\ pc' = [pc EXCEPT ![r] = "log"] /\ cur' = cur
  BY DEF Register, Outcome, Goto, disk, owner, InSource
<1>4. registry[Dest(r)] \in Seq(Files) /\ registry \in [Paths -> Seq(Files)]
  BY <1>1 DEF TypeOK
<1>5. /\ Cardinality(Registering(f)) \in Nat /\ Cardinality(Rows(f)) \in Nat
      /\ arrivals[f] \in Nat /\ InSource(f) \in Nat
  BY FS_CardinalityType, ArrivalsAssumption DEF Counted, TypeOK, InSource
<1>6. /\ \A p \in Paths \ {Dest(r)} : registry'[p] = registry[p]
      /\ DOMAIN registry'[Dest(r)] = DOMAIN registry[Dest(r)] \cup {n}
      /\ n \notin DOMAIN registry[Dest(r)]
      /\ registry'[Dest(r)][n] = cur[r]
      /\ \A i \in DOMAIN registry[Dest(r)] : registry'[Dest(r)][i] = registry[Dest(r)][i]
  BY <1>1, <1>2, <1>4
<1>7. CASE cur[r] = f
  <2>1. Rows(f)' = Rows(f) \cup {<<Dest(r), n>>} /\ <<Dest(r), n>> \notin Rows(f)
    BY <1>1, <1>6, <1>7 DEF Rows
  <2>2. /\ IsFiniteSet(Rows(f)')
        /\ Cardinality(Rows(f)') = Cardinality(Rows(f)) + 1
    BY <2>1, FS_AddElement DEF Counted
  <2>3. r \in Registering(f) /\ Registering(f)' = Registering(f) \ {r}
    BY <1>3, <1>7 DEF Register, At, Registering, TypeOK
  <2>4. /\ IsFiniteSet(Registering(f)')
        /\ Cardinality(Registering(f)') = Cardinality(Registering(f)) - 1
    BY <2>3, FS_RemoveElement DEF Counted
  <2> QED
    BY <1>3, <1>5, <2>2, <2>4 DEF Counted
<1>8. CASE cur[r] # f
  <2>1. Rows(f)' = Rows(f)
    BY <1>1, <1>6, <1>8 DEF Rows
  <2>2. Registering(f)' = Registering(f)
    BY <1>3, <1>8 DEF Register, At, Registering, TypeOK
  <2> QED
    BY <1>3, <2>1, <2>2 DEF Counted
<1> QED
  BY <1>7, <1>8

(* Only Arrive, RemoveSource and Register count.                           *)
LEMMA OtherStepsUncounting ==
  ASSUME TypeOK, [Next]_vars
  PROVE  \/ Uncounting
         \/ \E f \in Files : Arrive(f)
         \/ \E r \in Runners : RemoveSource(r) \/ Register(r)
<1> USE DEF TypeOK, At, Goto, tables, disk, owner, job, Uncounting
<1>1. CASE UNCHANGED vars
  BY <1>1 DEF vars
<1>2. ASSUME NEW r \in Runners, Launch(r) \/ GiveUp(r) PROVE Uncounting
  BY <1>2 DEF Launch, GiveUp
<1>3. ASSUME NEW r \in Runners, Kill(r) PROVE Uncounting
  BY <1>3 DEF Kill, Forget
<1>4. ASSUME NEW f \in Files, Withdraw(f) PROVE Uncounting
  BY <1>4 DEF Withdraw
<1>5. ASSUME Unlock PROVE Uncounting
  BY <1>5 DEF Unlock
<1>6. ASSUME NEW r \in Runners, JobStep(r), ~RemoveSource(r), ~Register(r) PROVE Uncounting
  <2>1. CASE Begin(r) \/ VisitMissing(r) \/ VisitIgnored(r) \/ VisitFile(r)
    BY <2>1 DEF Begin, VisitMissing, VisitIgnored, VisitFile, Visit, Outcome
  <2>2. CASE ProbeFree(r) \/ ProbeNext(r) \/ TooManyDuplicates(r)
    BY <2>2 DEF ProbeFree, ProbeNext, TooManyDuplicates, Taken, Outcome
  <2>3. CASE CreateDest(r) \/ CreateDestFails(r) \/ Write(r) \/ WriteFails(r)
    BY <2>3 DEF CreateDest, CreateDestFails, Write, WriteFails, Outcome
  <2>4. CASE Verified(r) \/ SizeMismatch(r) \/ VerifyFails(r)
    BY <2>4 DEF Verified, SizeMismatch, VerifyFails, Outcome
  <2>5. CASE RollBack(r) \/ RollBackFails(r) \/ RegisterFails(r)
    BY <2>5 DEF RollBack, RollBackFails, RegisterFails, Outcome
  <2>6. CASE LogHistory(r)
    BY <2>6 DEF LogHistory
  <2>7. CASE Finish(r)
    BY <2>7 DEF Finish, Forget
  <2> QED
    BY <1>6, <2>1, <2>2, <2>3, <2>4, <2>5, <2>6, <2>7 DEF JobStep
<1> QED
  BY <1>1, <1>2, <1>3, <1>4, <1>5, <1>6 DEF Next

(* However runs overlap, fail and are killed, a file has at most one row   *)
(* for each time it was put in the source.                                 *)
THEOREM RowsFollowArrivals == Spec => []RegisteredOnce
<1>1. CountInv /\ [Next]_vars => CountInv'
  <2> SUFFICES ASSUME CountInv, [Next]_vars PROVE CountInv'
    OBVIOUS
  <2>1. TypeOK'
    BY StepTypeOK DEF CountInv
  <2>2. ASSUME NEW f \in Files PROVE Counted(f)'
    BY UncountingKeeps, ArriveCounts, RemoveSourceCounts, RegisterCounts, OtherStepsUncounting DEF CountInv
  <2> QED
    BY <2>1, <2>2 DEF CountInv
<1>2. CountInv => RegisteredOnce
  <2> SUFFICES ASSUME CountInv, NEW f \in Files PROVE Cardinality(Rows(f)) <= arrivals[f]
    BY DEF RegisteredOnce
  <2>1. /\ Cardinality(Registering(f)) \in Nat /\ Cardinality(Rows(f)) \in Nat
        /\ arrivals[f] \in Nat /\ InSource(f) \in Nat
    BY FS_CardinalityType, ArrivalsAssumption DEF CountInv, Counted, TypeOK, InSource
  <2> QED
    BY <2>1 DEF CountInv, Counted
<1> QED
  BY <1>1, <1>2, InitCountInv, PTL DEF Spec

-----------------------------------------------------------------------------
(* A file leaves the source by the step that makes a run register it, and  *)
(* what keeps the run from that is counted as a kill or a failed call.     *)
FaultFreeInv == TypeOK /\ FaultFreeIsRegistered

Faultless == crashes = 0 /\ errors = 0

(* A step without a fault that writes no row takes no file that is owed    *)
(* from the source and lets no run forget to register one.                 *)
Following ==
    /\ registry' = registry /\ owed' \ source' \subseteq owed \ source
    /\ \A r \in Runners : pc[r] = "register" => pc'[r] = "register" /\ cur'[r] = cur[r]

LEMMA FaultlessSteps ==
  ASSUME TypeOK, [Next]_vars, Faultless'
  PROVE  /\ Faultless
         /\ \/ Following
            \/ \E r \in Runners : RemoveSource(r) \/ Register(r)
<1> USE BoundsAssumption DEF TypeOK, LockTypeOK, Faultless, At, Goto, tables, disk, owner, job,
        lockVars, Following, Error
<1>1. CASE UNCHANGED vars
  BY <1>1 DEF vars
<1>2. ASSUME NEW r \in Runners, Launch(r) PROVE Faultless /\ Following
  BY <1>2 DEF Launch, Check, Create, CreateFails
<1>3. ASSUME NEW r \in Runners, GiveUp(r) PROVE FALSE
  BY <1>3 DEF GiveUp, ExitOnError
<1>4. ASSUME NEW r \in Runners, Kill(r) PROVE FALSE
  BY <1>4 DEF Kill, Crash
<1>5. ASSUME NEW f \in Files, Arrive(f) \/ Withdraw(f) PROVE Faultless /\ Following
  BY <1>5 DEF Arrive, Withdraw
<1>6. ASSUME Unlock PROVE Faultless /\ Following
  BY <1>6 DEF Unlock, RemoveStale
<1>7. ASSUME NEW r \in Runners, JobStep(r)
      PROVE  Faultless /\ (Following \/ RemoveSource(r) \/ Register(r))
  <2>1. CASE Begin(r) \/ VisitMissing(r) \/ VisitIgnored(r) \/ VisitFile(r)
    BY <2>1 DEF Begin, VisitMissing, VisitIgnored, VisitFile, Visit, Outcome
  <2>2. CASE ProbeFree(r) \/ ProbeNext(r) \/ TooManyDuplicates(r)
    BY <2>2 DEF ProbeFree, ProbeNext, TooManyDuplicates, Taken, Outcome
  <2>3. CASE CreateDest(r) \/ CreateDestFails(r) \/ Write(r) \/ WriteFails(r)
    BY <2>3 DEF CreateDest, CreateDestFails, Write, WriteFails, Outcome
  <2>4. CASE Verified(r) \/ SizeMismatch(r) \/ VerifyFails(r)
    BY <2>4 DEF Verified, SizeMismatch, VerifyFails, Outcome
  <2>5. CASE RollBack(r) \/ RollBackFails(r) \/ RegisterFails(r)
    BY <2>5 DEF RollBack, RollBackFails, RegisterFails, Outcome
  <2>6. CASE LogHistory(r)
    BY <2>6 DEF LogHistory
  <2>7. CASE Finish(r)
    BY <2>7 DEF Finish, Forget, Return
  <2>8. CASE RemoveSource(r) \/ Register(r)
    BY <2>8 DEF RemoveSource, Register
  <2> QED
    BY <1>7, <2>1, <2>2, <2>3, <2>4, <2>5, <2>6, <2>7, <2>8 DEF JobStep
<1> QED
  BY <1>1, <1>2, <1>3, <1>4, <1>5, <1>6, <1>7 DEF Next

LEMMA StepFaultFree == FaultFreeInv /\ [Next]_vars => FaultFreeInv'
<1> SUFFICES ASSUME FaultFreeInv, [Next]_vars, Faultless',
                    NEW f \in owed', f \notin source'
             PROVE  \/ Registered(f)'
                    \/ \E r \in Runners : pc'[r] = "register" /\ cur'[r] = f
  BY StepTypeOK DEF FaultFreeInv, FaultFreeIsRegistered, Faultless
<1> USE DEF FaultFreeInv
<1>1. Faultless
  BY FaultlessSteps
<1>2. CASE Following
  <2>1. f \in owed /\ f \notin source
    BY <1>2 DEF Following
  <2>2. Registered(f) => Registered(f)'
    BY <1>2 DEF Following, Registered
  <2> QED
    BY <1>1, <1>2, <2>1, <2>2 DEF Following, FaultFreeIsRegistered, Faultless
<1>3. ASSUME NEW r \in Runners, RemoveSource(r) PROVE
             \/ Registered(f)'
             \/ \E q \in Runners : pc'[q] = "register" /\ cur'[q] = f
  <2>1. pc'[r] = "register" /\ cur' = cur
    BY <1>3 DEF RemoveSource, Goto, TypeOK
  <2>2. CASE f = cur[r]
    BY <2>1, <2>2
  <2>3. CASE f # cur[r]
    <3>1. f \in owed /\ f \notin source
      BY <1>3, <2>3 DEF RemoveSource, owner
    <3>2. Registered(f) => Registered(f)'
      BY <1>3 DEF RemoveSource, tables, Registered
    <3>3. \A q \in Runners : pc[q] = "register" => pc'[q] = "register"
      BY <1>3 DEF RemoveSource, Goto, TypeOK
    <3> QED
      BY <1>1, <2>1, <3>1, <3>2, <3>3 DEF FaultFreeIsRegistered, Faultless
  <2> QED
    BY <2>2, <2>3
<1>4. ASSUME NEW r \in Runners, Register(r) PROVE
             \/ Registered(f)'
             \/ \E q \in Runners : pc'[q] = "register" /\ cur'[q] = f
  <2>1. f \in owed /\ f \notin source /\ cur' = cur
    BY <1>4 DEF Register, owner, disk
  <2>2. Dest(r) \in Paths /\ cur[r] \in Files
    BY <1>4, DestIsPath DEF Register, At, Processing
  <2>3. registry' = [registry EXCEPT ![Dest(r)] = Append(@, cur[r])]
    BY <1>4 DEF Register
  <2>4. Registered(f) => Registered(f)'
    BY <2>2, <2>3, RegisteredStays
  <2>5. CASE f = cur[r]
    <3> DEFINE n == Len(registry[Dest(r)]) + 1
    <3>1. registry[Dest(r)] \in Seq(Files)
      BY <2>2 DEF TypeOK
    <3>2. n \in DOMAIN registry'[Dest(r)] /\ registry'[Dest(r)][n] = cur[r]
      BY <2>2, <2>3, <3>1 DEF TypeOK
    <3> QED
      BY <2>2, <2>5, <3>2 DEF Registered
  <2>6. CASE f # cur[r]
    <3>1. \A q \in Runners \ {r} : pc'[q] = pc[q]
      BY <1>4 DEF Register, Outcome, Goto, TypeOK
    <3> QED
      BY <1>1, <2>1, <2>4, <2>6, <3>1 DEF FaultFreeIsRegistered, Faultless
  <2> QED
    BY <2>5, <2>6
<1> QED
  BY <1>2, <1>3, <1>4, FaultlessSteps

(* While nothing was killed and no call failed, a file that runs took from *)
(* the source is registered or about to be, however the runs overlap.      *)
THEOREM FaultFreeRunsRegister == Spec => []FaultFreeIsRegistered
<1>1. Init => FaultFreeInv
  BY InitTypeOK DEF Init, FaultFreeInv, FaultFreeIsRegistered
<1>2. FaultFreeInv => FaultFreeIsRegistered
  BY DEF FaultFreeInv
<1> QED
  BY <1>1, <1>2, StepFaultFree, PTL DEF Spec

=============================================================================
