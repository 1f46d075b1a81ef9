------------------------- MODULE SharedArchiveProofs ------------------------
(***************************************************************************)
(* Theorems about SharedArchive: one run next to one request at a time,    *)
(* for any files, places, candidates, names in the trash and bounds.       *)
(***************************************************************************)
EXTENDS SharedArchive, ArchiverProofs, SequenceTheorems

(* A row at place p describes f.                                           *)
Names(p, f) == \E i \in DOMAIN registry[p] : registry[p][i] = f

(* The variables of the requests; no copy that a run has open was renamed. *)
RequestTypes ==
    /\ bin \in [TrashPlaces -> Files \union {None}]
    /\ binned \in [Files -> TrashPlaces \union {None}]
    /\ at \in [Clients -> {"idle", "resolve", "rename", "record", "remove", "forget"}]
    /\ row \in [Clients -> Files \union {None}]
    /\ src \in [Clients -> Paths \union {None}]
    /\ dst \in [Clients -> TrashPlaces \union {None}]
    /\ listed \in [Clients -> SUBSET (Files \X TrashPlaces)]
    /\ handle = [r \in Runners |-> None]
    /\ condemned \subseteq Files

(* What a run has found out about its place is still so.                   *)
CopyKnown ==
    \A r \in Runners :
        /\ pc[r] = "create" => archive[Dest(r)] = None
        /\ pc[r] = "write" => archive[Dest(r)] = Partial
        /\ pc[r] \in {"verify", "remove", "register"} => archive[Dest(r)] = cur[r]

RunInv == TypeOK /\ Exclusive /\ Idle /\ CopyKnown /\ SourceKept

(* A file comes once, and has one row once it has left the source.         *)
RowsApart ==
    \A f \in Files :
        /\ \A p, q \in Paths : \A i \in DOMAIN registry[p], j \in DOMAIN registry[q] :
              registry[p][i] = f /\ registry[q][j] = f => p = q /\ i = j
        /\ Registered(f) => f \notin Trashed
        /\ HasRow(f) => f \notin source
        /\ HasRow(f) \/ f \in source => arrivals[f] = 1

(* What a run works on has no row, and is gone when it is registered.      *)
WorkIsNew ==
    \A r \in Runners :
        /\ pc[r] \in Processing => ~HasRow(cur[r]) /\ arrivals[cur[r]] = 1
        /\ pc[r] = "register" => cur[r] \notin source

(* A row that no delete is taking away names the place of its file.        *)
RowsHeld ==
    \A f \in Files \ Leaving : \A p \in Paths : Names(p, f) => archive[p] = f

(* ... and so does one in the trash until it is listed.                    *)
BinHeld == \A f \in Trashed \ condemned : bin[binned[f]] = f

(* What lies in the trash has a row for it or is going to.                 *)
BinKnown ==
    \A t \in TrashPlaces : bin[t] \in Files =>
        \/ bin[t] \in condemned
        \/ binned[bin[t]] = t
        \/ \E c \in Clients : at[c] = "record" /\ row[c] = bin[t] /\ dst[c] = t

(* Requests come one after the other.                                      *)
OneRequest == \A c, d \in Clients : at[c] # "idle" /\ at[d] # "idle" => c = d

(* What a request has found out is still so when it acts on it.            *)
Knows(c) ==
    /\ at[c] \in {"resolve", "rename", "record"} =>
          row[c] \in Files /\ src[c] \in Paths /\ Names(src[c], row[c])
    /\ at[c] = "rename" => dst[c] \in TrashPlaces /\ bin[dst[c]] = None
    /\ at[c] = "record" => dst[c] \in TrashPlaces /\ bin[dst[c]] = row[c]
    /\ at[c] \in {"remove", "forget"} =>
          Trashed \subseteq condemned /\ listed[c] \subseteq condemned \X TrashPlaces
    /\ at[c] = "forget" => row[c] \in condemned

RequestsKnow == \A c \in Clients : Knows(c)

(* What the requests and the run rely on of each other.                    *)
WebInv ==
    /\ RequestTypes /\ OneRequest /\ RequestsKnow
    /\ RowsApart /\ WorkIsNew /\ RowsHeld /\ BinHeld /\ BinKnown /\ Kept

SharedInv == RunInv /\ WebInv

-----------------------------------------------------------------------------
(* The run.  Its own steps keep what it knows about its place, whatever    *)
(* the registry says; requests must leave that place alone.                *)

(* A run that does not overlap with another is the only one with a job.    *)
LEMMA OthersIdle ==
  ASSUME RunInv, NEW r \in Runners, phase[r] = "locked", NEW q \in Runners, q # r
  PROVE  pc[q] = "begin"
BY DEF RunInv, Exclusive, Holders, Idle

(* What a run knows stays so in its own steps, whatever the registry       *)
(* holds.                                                                  *)
LEMMA RunKeepsRunInv == RunInv /\ Next /\ Exclusive' => RunInv'
<1> SUFFICES ASSUME RunInv, Next, Exclusive' PROVE Idle' /\ CopyKnown' /\ SourceKept'
  BY StepTypeOK DEF RunInv
<1> USE FilesAssumption, CandidatesAssumption
        DEF RunInv, TypeOK, Idle, CopyKnown, SourceKept,
            At, Goto, Dest, Holding, disk, tables, owner, job, lockVars
<1>2. ASSUME NEW r \in Runners, Launch(r)
      PROVE  Idle' /\ CopyKnown' /\ SourceKept'
  BY <1>2 DEF Launch, Check, Create, CreateFails, SetPhase, LockTypeOK
<1>3. ASSUME NEW r \in Runners, GiveUp(r)
      PROVE  Idle' /\ CopyKnown' /\ SourceKept'
  BY <1>3 DEF GiveUp, ExitOnError, SetPhase, LockTypeOK
<1>4. ASSUME NEW r \in Runners, Kill(r)
      PROVE  Idle' /\ CopyKnown' /\ SourceKept'
  BY <1>4 DEF Kill, Forget, Crash, SetPhase, LockTypeOK
<1>5. ASSUME Unlock PROVE Idle' /\ CopyKnown' /\ SourceKept'
  BY <1>5 DEF Unlock, RemoveStale
<1>6. ASSUME NEW f \in Files, Arrive(f)
      PROVE  Idle' /\ CopyKnown' /\ SourceKept'
  BY <1>6 DEF Arrive
<1>7. ASSUME NEW f \in Files, Withdraw(f)
      PROVE  Idle' /\ CopyKnown' /\ SourceKept'
  BY <1>7 DEF Withdraw
<1>8. ASSUME NEW r \in Runners, JobStep(r)
      PROVE  Idle' /\ CopyKnown' /\ SourceKept'
  <2> \A q \in Runners : q # r => pc[q] = "begin"
    BY <1>8, OthersIdle
       DEF JobStep, Begin, Visit, VisitMissing, VisitIgnored, VisitFile, Taken, ProbeFree, ProbeNext,
           TooManyDuplicates, CreateDest, CreateDestFails, Write, WriteFails, Verified, SizeMismatch,
           VerifyFails, RemoveSource, RollBack, RollBackFails, Register, RegisterFails, LogHistory,
           Finish, Return
  <2>1. CASE Begin(r)
    BY <2>1 DEF Begin
  <2>2. CASE VisitMissing(r)
    BY <2>2 DEF VisitMissing, Visit, Outcome
  <2>3. CASE VisitIgnored(r)
    BY <2>3 DEF VisitIgnored, Visit, Outcome
  <2>4. CASE VisitFile(r)
    BY <2>4 DEF VisitFile, Visit
  <2>5. CASE ProbeFree(r)
    BY <2>5 DEF ProbeFree
  <2>6. CASE ProbeNext(r)
    BY <2>6 DEF ProbeNext, Taken
  <2>7. CASE TooManyDuplicates(r)
    BY <2>7 DEF TooManyDuplicates, Taken, Outcome
  <2>8. CASE CreateDest(r)
    BY <2>8 DEF CreateDest, SetDest
  <2>9. CASE CreateDestFails(r)
    BY <2>9 DEF CreateDestFails, Outcome
  <2>10. CASE Write(r)
    BY <2>10 DEF Write, SetDest
  <2>11. CASE WriteFails(r)
    BY <2>11 DEF WriteFails, Outcome
  <2>12. CASE Verified(r)
    BY <2>12 DEF Verified
  <2>13. CASE SizeMismatch(r)
    BY <2>13 DEF SizeMismatch, SetDest, Outcome
  <2>14. CASE VerifyFails(r)
    BY <2>14 DEF VerifyFails, Outcome
  <2>15. CASE RemoveSource(r)
    BY <2>15 DEF RemoveSource
  <2>16. CASE RollBack(r)
    BY <2>16 DEF RollBack, SetDest, Outcome
  <2>17. CASE RollBackFails(r)
    BY <2>17 DEF RollBackFails, Outcome
  <2>18. CASE Register(r)
    BY <2>18 DEF Register, Outcome
  <2>19. CASE RegisterFails(r)
    BY <2>19 DEF RegisterFails, Outcome
  <2>20. CASE LogHistory(r)
    BY <2>20 DEF LogHistory
  <2>21. CASE Finish(r)
    BY <2>21 DEF Finish, Forget, Return, SetPhase
  <2> QED
    BY <1>8, <2>1, <2>2, <2>3, <2>4, <2>5, <2>6, <2>7, <2>8, <2>9, <2>10, <2>11, <2>12, <2>13, <2>14,
       <2>15, <2>16, <2>17, <2>18, <2>19, <2>20, <2>21 DEF JobStep
<1> QED
  BY <1>2, <1>3, <1>4, <1>5, <1>6, <1>7, <1>8 DEF Next

-----------------------------------------------------------------------------
(* What the steps of a run do to the disk and to the rows.                 *)

(* A run works on the file it worked on, or on one from the source.        *)
Carries ==
    \A q \in Runners :
        /\ pc'[q] \in Processing => cur'[q] \in source \/ (pc[q] \in Processing /\ cur'[q] = cur[q])
        /\ pc'[q] = "register" => pc[q] = "register" /\ cur'[q] = cur[q]

Still == UNCHANGED <<source, archive, registry, owner>> /\ Carries

(* The copy a run makes is begun, finished or given up.                    *)
Copies(r) ==
    /\ pc[r] \in {"create"} \union Holding /\ pc'[r] # pc[r]
    /\ \E x \in Files \union {None, Partial} : archive' = [archive EXCEPT ![Dest(r)] = x]
    /\ archive[Dest(r)] = cur[r] => cur[r] \in source \/ cur[r] \notin owed
    /\ UNCHANGED <<source, registry, owner>> /\ Carries

(* A step of a run makes a copy, releases a source, registers, or leaves   *)
(* the disk and the rows alone.                                            *)
LEMMA RunEffects ==
  ASSUME RunInv, Next
  PROVE  \/ Still
         \/ \E r \in Runners : Copies(r) \/ RemoveSource(r) \/ Register(r)
         \/ \E f \in Files : Arrive(f) \/ Withdraw(f)
<1> USE FilesAssumption
        DEF RunInv, TypeOK, CopyKnown, SourceKept, Still, Carries, Processing,
            At, Goto, Holding, disk, tables, owner, job
<1>1. ASSUME NEW r \in Runners, Launch(r) \/ GiveUp(r) PROVE Still
  BY <1>1 DEF Launch, GiveUp
<1>2. ASSUME NEW r \in Runners, Kill(r) PROVE Still
  BY <1>2 DEF Kill, Forget
<1>3. ASSUME Unlock PROVE Still
  BY <1>3 DEF Unlock
<1>4. ASSUME NEW r \in Runners, JobStep(r)
      PROVE  Still \/ Copies(r) \/ RemoveSource(r) \/ Register(r)
  <2>1. ASSUME Begin(r) PROVE Still
    BY <2>1 DEF Begin
  <2>2. ASSUME VisitMissing(r) PROVE Still
    BY <2>2 DEF VisitMissing, Visit, Outcome
  <2>3. ASSUME VisitIgnored(r) PROVE Still
    BY <2>3 DEF VisitIgnored, Visit, Outcome
  <2>4. ASSUME VisitFile(r) PROVE Still
    <3>1. PICK f \in source : Visit(r, f)
      BY <2>4 DEF VisitFile
    <3>2. cur' = [cur EXCEPT ![r] = f] /\ pc' = [pc EXCEPT ![r] = "probe"]
      BY <2>4, <3>1 DEF VisitFile, Visit
    <3>3. UNCHANGED <<source, archive, registry, owner>>
      BY <3>1 DEF Visit
    <3>4. ASSUME NEW q \in Runners
          PROVE  /\ pc'[q] \in Processing => cur'[q] \in source \/ (pc[q] \in Processing /\ cur'[q] = cur[q])
                 /\ pc'[q] = "register" => pc[q] = "register" /\ cur'[q] = cur[q]
      BY <3>1, <3>2
    <3>5. Carries
      BY <3>4
    <3> QED
      BY <3>3, <3>5
  <2>5. ASSUME ProbeFree(r) PROVE Still
    BY <2>5 DEF ProbeFree
  <2>6. ASSUME ProbeNext(r) PROVE Still
    BY <2>6 DEF ProbeNext, Taken
  <2>7. ASSUME TooManyDuplicates(r) PROVE Still
    BY <2>7 DEF TooManyDuplicates, Taken, Outcome
  <2>8. ASSUME CreateDest(r) PROVE Copies(r)
    BY <2>8 DEF CreateDest, SetDest, Copies
  <2>9. ASSUME CreateDestFails(r) PROVE Still
    BY <2>9 DEF CreateDestFails, Outcome
  <2>10. ASSUME Write(r) PROVE Copies(r)
    BY <2>10 DEF Write, SetDest, Copies
  <2>11. ASSUME WriteFails(r) PROVE Still
    BY <2>11 DEF WriteFails, Outcome
  <2>12. ASSUME Verified(r) PROVE Still
    BY <2>12 DEF Verified
  <2>13. ASSUME SizeMismatch(r) PROVE Copies(r)
    BY <2>13 DEF SizeMismatch, SetDest, Outcome, Copies
  <2>14. ASSUME VerifyFails(r) PROVE Still
    BY <2>14 DEF VerifyFails, Outcome
  <2>15. CASE RemoveSource(r)
    BY <2>15
  <2>16. ASSUME RollBack(r) PROVE Copies(r)
    BY <2>16 DEF RollBack, SetDest, Outcome, Copies
  <2>17. ASSUME RollBackFails(r) PROVE Still
    BY <2>17 DEF RollBackFails, Outcome
  <2>18. CASE Register(r)
    BY <2>18
  <2>19. ASSUME RegisterFails(r) PROVE Still
    BY <2>19 DEF RegisterFails, Outcome
  <2>20. ASSUME LogHistory(r) PROVE Still
    BY <2>20 DEF LogHistory
  <2>21. ASSUME Finish(r) PROVE Still
    BY <2>21 DEF Finish, Forget, Return, SetPhase
  <2> QED
    BY <1>4, <2>1, <2>2, <2>3, <2>4, <2>5, <2>6, <2>7, <2>8, <2>9, <2>10, <2>11, <2>12, <2>13, <2>14,
       <2>15, <2>16, <2>17, <2>18, <2>19, <2>20, <2>21 DEF JobStep
<1> QED
  BY <1>1, <1>2, <1>3, <1>4 DEF Next

(* The open copy of a run stays where it is, so its steps leave the trash  *)
(* alone.                                                                  *)
LEMMA RunLeavesTrash ==
  ASSUME RunInv, RequestTypes, RunStep
  PROVE  UNCHANGED <<bin, binned, request, handle, condemned>>
<1>1. \A r \in Runners : handle[r] = None
  BY DEF RequestTypes
<1>2. handle' = handle
  BY <1>1 DEF RequestTypes, RunStep
<1>3. None \notin TrashPlaces
  BY SharedAssumption
<1>4. bin' = [t \in TrashPlaces |-> bin[t]]
  BY <1>1, <1>3 DEF RunStep
<1>5. bin' = bin
  BY <1>4 DEF RequestTypes
<1> QED
  BY <1>2, <1>5 DEF RunStep

(* What a step of a run leaves of the invariant.                           *)
LEMMA RunLeavesRequests ==
  ASSUME WebInv, UNCHANGED <<bin, binned, request, handle, condemned>>
  PROVE  /\ RequestTypes' /\ OneRequest' /\ BinHeld' /\ BinKnown'
         /\ Leaving' = Leaving /\ Trashed' = Trashed
BY DEF WebInv, RequestTypes, OneRequest, BinHeld, BinKnown, Leaving, Trashed, request

(* Without a change to the rows a file keeps the rows it has.              *)
LEMMA SameRows ==
  ASSUME UNCHANGED <<registry, binned>>, NEW f
  PROVE  (HasRow(f)' <=> HasRow(f)) /\ (Registered(f)' <=> Registered(f)) /\ (\A p : Names(p, f)' <=> Names(p, f))
BY DEF HasRow, Registered, Trashed, Names

(* ... and a request what it knows.                                        *)
LEMMA SameRowsKnown ==
  ASSUME WebInv, UNCHANGED <<registry, binned, request, bin, condemned>>
  PROVE  RequestsKnow'
BY DEF WebInv, RequestsKnow, Knows, Names, Trashed, request

(* A row makes its file registered.                                        *)
LEMMA NamesRegister ==
  ASSUME NEW p \in Paths, NEW f, Names(p, f)
  PROVE  Registered(f) /\ HasRow(f)
BY DEF Names, Registered, HasRow

(* What a run goes on with has no row yet.                                 *)
LEMMA CarriesKeeps ==
  ASSUME RunInv, WebInv, Carries, UNCHANGED <<source, registry, owner, binned>>
  PROVE  WorkIsNew'
<1> SUFFICES ASSUME NEW q \in Runners
             PROVE  /\ pc'[q] \in Processing => ~HasRow(cur[q])' /\ arrivals'[cur'[q]] = 1
                    /\ pc'[q] = "register" => cur'[q] \notin source'
  BY DEF WorkIsNew
<1>1. arrivals' = arrivals /\ source' = source /\ registry' = registry /\ binned' = binned
  BY DEF owner
<1>2. ASSUME pc'[q] \in Processing PROVE ~HasRow(cur[q])' /\ arrivals'[cur'[q]] = 1
  <2>1. ~HasRow(cur'[q]) /\ arrivals[cur'[q]] = 1
    <3>1. CASE cur'[q] \in source
      BY <3>1 DEF WebInv, RowsApart, RunInv, TypeOK
    <3>2. CASE pc[q] \in Processing /\ cur'[q] = cur[q]
      BY <3>2 DEF WebInv, WorkIsNew
    <3> QED
      BY <1>2, <3>1, <3>2 DEF Carries
  <2> QED
    BY <1>1, <2>1 DEF HasRow, Registered, Trashed
<1>3. ASSUME pc'[q] = "register" PROVE cur'[q] \notin source'
  BY <1>1, <1>3 DEF Carries, WebInv, WorkIsNew
<1> QED
  BY <1>2, <1>3

(* A step that leaves the disk and the rows alone.                         *)
LEMMA StillKeeps ==
  ASSUME RunInv, WebInv, Still, UNCHANGED <<bin, binned, request, handle, condemned>>
  PROVE  WebInv'
<1>1. RequestTypes' /\ OneRequest' /\ BinHeld' /\ BinKnown' /\ Leaving' = Leaving /\ Trashed' = Trashed
  BY RunLeavesRequests
<1>2. RequestsKnow'
  BY SameRowsKnown DEF Still
<1>3. RowsApart'
  BY <1>1, SameRows DEF WebInv, RowsApart, Still, owner
<1>4. WorkIsNew'
  BY CarriesKeeps DEF Still
<1>5. RowsHeld'
  BY <1>1 DEF WebInv, RowsHeld, Still, Names
<1>6. Kept'
  BY DEF WebInv, Kept, Still, owner
<1> QED
  BY <1>1, <1>2, <1>3, <1>4, <1>5, <1>6 DEF WebInv

(* A run begins, finishes or gives up a copy at a place whose rows, if any, *)
(* are those of files that a request is taking away.                       *)
LEMMA CopiesKeeps ==
  ASSUME RunInv, WebInv, NEW r \in Runners, Copies(r), UNCHANGED <<bin, binned, request, handle, condemned>>
  PROVE  WebInv'
<1>1. RequestTypes' /\ OneRequest' /\ BinHeld' /\ BinKnown' /\ Leaving' = Leaving /\ Trashed' = Trashed
  BY RunLeavesRequests
<1>2. UNCHANGED <<source, registry, owner>> /\ Carries
  BY DEF Copies
<1>3. RequestsKnow'
  BY <1>2, SameRowsKnown
<1>4. RowsApart'
  BY <1>1, <1>2, SameRows DEF WebInv, RowsApart, owner
<1>5. WorkIsNew'
  BY <1>2, CarriesKeeps
<1>6. /\ pc[r] \in Processing /\ Dest(r) \in Paths /\ cur[r] \in Files
      /\ archive[Dest(r)] \in {None, Partial, cur[r]}
  <2>1. pc[r] \in {"create", "write", "verify", "remove"}
    BY DEF Copies, Holding
  <2> QED
    BY <2>1, DestIsPath DEF Processing, RunInv, CopyKnown
<1>7. ASSUME NEW p \in Paths, p # Dest(r) PROVE archive'[p] = archive[p]
  BY <1>6, <1>7 DEF Copies, RunInv, TypeOK
<1>8. RowsHeld'
  <2> SUFFICES ASSUME NEW f \in Files \ Leaving, NEW p \in Paths, Names(p, f)
               PROVE  archive'[p] = f
    BY <1>1, <1>2 DEF RowsHeld, Names
  <2>1. archive[p] = f
    BY DEF WebInv, RowsHeld
  <2>2. HasRow(f)
    BY NamesRegister
  <2>3. f # cur[r]
    BY <1>6, <2>2 DEF WebInv, WorkIsNew
  <2>4. p # Dest(r)
    BY <1>6, <2>1, <2>3, FilesAssumption
  <2> QED
    BY <1>7, <2>1, <2>4
<1>9. Kept'
  <2> SUFFICES ASSUME NEW f \in owed \ condemned, f \notin source, \A t \in TrashPlaces : bin[t] # f
               PROVE  \E p \in Paths : archive'[p] = f
    BY <1>2 DEF Kept, owner
  <2>1. PICK p \in Paths : archive[p] = f
    BY DEF WebInv, Kept
  <2>2. f \in Files
    BY DEF RunInv, TypeOK
  <2>3. p # Dest(r)
    BY <1>6, <2>1, <2>2, FilesAssumption DEF Copies
  <2> QED
    BY <1>7, <2>1, <2>3
<1> QED
  BY <1>1, <1>3, <1>4, <1>5, <1>8, <1>9 DEF WebInv

(* The source is removed when the copy is whole.                           *)
LEMMA RemoveSourceKeeps ==
  ASSUME RunInv, WebInv, NEW r \in Runners, RemoveSource(r), UNCHANGED <<bin, binned, request, handle, condemned>>
  PROVE  WebInv'
<1>1. RequestTypes' /\ OneRequest' /\ BinHeld' /\ BinKnown' /\ Leaving' = Leaving /\ Trashed' = Trashed
  BY RunLeavesRequests
<1>2. /\ source' = source \ {cur[r]} /\ pc' = [pc EXCEPT ![r] = "register"] /\ pc[r] = "remove"
      /\ UNCHANGED <<archive, registry, owed, arrivals, cur, slot>>
  BY DEF RemoveSource, tables, owner, Goto, At
<1>3. RequestsKnow'
  BY <1>2, SameRowsKnown
<1>4. RowsApart'
  BY <1>1, <1>2, SameRows DEF WebInv, RowsApart
<1>5. WorkIsNew'
  <2> SUFFICES ASSUME NEW q \in Runners
               PROVE  /\ pc'[q] \in Processing => ~HasRow(cur[q])' /\ arrivals'[cur'[q]] = 1
                      /\ pc'[q] = "register" => cur'[q] \notin source'
    BY DEF WorkIsNew
  <2>1. pc'[q] \in Processing => pc[q] \in Processing
    BY <1>2 DEF RunInv, TypeOK, Processing
  <2>2. HasRow(cur[q])' <=> HasRow(cur[q])
    BY <1>2 DEF HasRow, Registered, Trashed
  <2>3. pc'[q] = "register" => q = r \/ pc[q] = "register"
    BY <1>2 DEF RunInv, TypeOK
  <2> QED
    BY <1>2, <2>1, <2>2, <2>3 DEF WebInv, WorkIsNew
<1>6. RowsHeld'
  BY <1>1, <1>2 DEF WebInv, RowsHeld, Names
<1>7. Kept'
  <2>1. Dest(r) \in Paths /\ archive[Dest(r)] = cur[r]
    BY <1>2, DestIsPath DEF RunInv, CopyKnown, Processing
  <2> QED
    BY <1>2, <2>1 DEF WebInv, Kept
<1> QED
  BY <1>1, <1>3, <1>4, <1>5, <1>6, <1>7 DEF WebInv

(* A file is put in the source for the first and last time.                *)
LEMMA ArriveKeeps ==
  ASSUME RunInv, WebInv, NEW g \in Files, Arrive(g), UNCHANGED <<bin, binned, request, handle, condemned>>
  PROVE  WebInv'
<1>1. RequestTypes' /\ OneRequest' /\ BinHeld' /\ BinKnown' /\ Leaving' = Leaving /\ Trashed' = Trashed
  BY RunLeavesRequests
<1>2. /\ source' = source \union {g} /\ owed' = owed \union {g}
      /\ arrivals' = [arrivals EXCEPT ![g] = arrivals[g] + 1]
      /\ UNCHANGED <<archive, registry, pc, cur>>
  BY DEF Arrive, tables, job
<1>3. arrivals[g] = 0 /\ arrivals \in [Files -> 0..1]
  BY SharedAssumption DEF Arrive, RunInv, TypeOK
<1>4. RequestsKnow'
  BY <1>2, SameRowsKnown
<1>5. ~HasRow(g)
  BY <1>3 DEF WebInv, RowsApart
<1>6. RowsApart'
  <2> SUFFICES ASSUME NEW f \in Files
               PROVE  /\ \A p, q \in Paths : \A i \in DOMAIN registry[p], j \in DOMAIN registry[q] :
                            registry[p][i] = f /\ registry[q][j] = f => p = q /\ i = j
                      /\ Registered(f) => f \notin Trashed
                      /\ HasRow(f) => f \notin source'
                      /\ HasRow(f) \/ f \in source' => arrivals'[f] = 1
    BY <1>1, <1>2, SameRows DEF RowsApart
  <2>1. f # g => arrivals'[f] = arrivals[f]
    BY <1>2, <1>3
  <2>2. arrivals'[g] = 1
    BY <1>2, <1>3
  <2> QED
    BY <1>2, <1>5, <2>1, <2>2 DEF WebInv, RowsApart
<1>7. WorkIsNew'
  <2> SUFFICES ASSUME NEW q \in Runners
               PROVE  /\ pc[q] \in Processing => ~HasRow(cur[q]) /\ arrivals'[cur[q]] = 1
                      /\ pc[q] = "register" => cur[q] \notin source'
    BY <1>2, SameRows DEF WorkIsNew, HasRow, Registered, Trashed
  <2>1. pc[q] \in Processing => cur[q] \in Files
    BY DestIsPath DEF RunInv
  <2>2. pc[q] \in Processing => arrivals[cur[q]] = 1 /\ cur[q] # g
    BY <1>3 DEF WebInv, WorkIsNew
  <2> QED
    BY <1>2, <1>3, <2>1, <2>2 DEF WebInv, WorkIsNew, Processing
<1>8. RowsHeld'
  BY <1>1, <1>2 DEF WebInv, RowsHeld, Names
<1>9. Kept'
  BY <1>2 DEF WebInv, Kept
<1> QED
  BY <1>1, <1>4, <1>6, <1>7, <1>8, <1>9 DEF WebInv

(* The owner takes a file back.                                            *)
LEMMA WithdrawKeeps ==
  ASSUME RunInv, WebInv, NEW g \in Files, Withdraw(g), UNCHANGED <<bin, binned, request, handle, condemned>>
  PROVE  WebInv'
<1>1. RequestTypes' /\ OneRequest' /\ BinHeld' /\ BinKnown' /\ Leaving' = Leaving /\ Trashed' = Trashed
  BY RunLeavesRequests
<1>2. /\ source' = source \ {g} /\ owed' = owed \ {g}
      /\ UNCHANGED <<archive, arrivals, registry, pc, cur>>
  BY DEF Withdraw, tables, job
<1>3. RequestsKnow'
  BY <1>2, SameRowsKnown
<1>4. RowsApart'
  BY <1>1, <1>2, SameRows DEF WebInv, RowsApart
<1>5. WorkIsNew'
  BY <1>2, SameRows DEF WebInv, WorkIsNew, HasRow, Registered, Trashed
<1>6. RowsHeld'
  BY <1>1, <1>2 DEF WebInv, RowsHeld, Names
<1>7. Kept'
  BY <1>2 DEF WebInv, Kept
<1> QED
  BY <1>1, <1>3, <1>4, <1>5, <1>6, <1>7 DEF WebInv

(* The registration adds the row of a file that had none.                  *)
LEMMA RegisterAdds ==
  ASSUME RunInv, NEW r \in Runners, Register(r)
  PROVE  LET n == Len(registry[Dest(r)]) + 1
         IN  /\ Dest(r) \in Paths /\ cur[r] \in Files
             /\ n \in DOMAIN registry'[Dest(r)] /\ registry'[Dest(r)][n] = cur[r]
             /\ \A p \in Paths : \A i \in DOMAIN registry[p] :
                   i \in DOMAIN registry'[p] /\ registry'[p][i] = registry[p][i]
             /\ \A p \in Paths : \A i \in DOMAIN registry'[p] :
                   \/ i \in DOMAIN registry[p] /\ registry'[p][i] = registry[p][i]
                   \/ p = Dest(r) /\ i = n
<1>1. Dest(r) \in Paths /\ cur[r] \in Files
  BY DestIsPath DEF RunInv, Register, At, Processing
<1>2. registry' = [registry EXCEPT ![Dest(r)] = Append(registry[Dest(r)], cur[r])]
  BY DEF Register
<1>3. registry \in [Paths -> Seq(Files)] /\ registry[Dest(r)] \in Seq(Files)
  BY <1>1 DEF RunInv, TypeOK
<1>4. /\ \A p \in Paths \ {Dest(r)} : registry'[p] = registry[p]
      /\ registry'[Dest(r)] = Append(registry[Dest(r)], cur[r])
  BY <1>1, <1>2, <1>3
<1>5. PICK n : n = Len(registry[Dest(r)]) + 1
  OBVIOUS
<1>6. /\ DOMAIN registry'[Dest(r)] = DOMAIN registry[Dest(r)] \union {n}
      /\ registry'[Dest(r)][n] = cur[r]
      /\ \A i \in DOMAIN registry[Dest(r)] : registry'[Dest(r)][i] = registry[Dest(r)][i]
  BY <1>1, <1>3, <1>4, <1>5
<1>7. /\ n \in DOMAIN registry'[Dest(r)]
      /\ \A p \in Paths : \A i \in DOMAIN registry[p] :
                   i \in DOMAIN registry'[p] /\ registry'[p][i] = registry[p][i]
      /\ \A p \in Paths : \A i \in DOMAIN registry'[p] :
                   \/ i \in DOMAIN registry[p] /\ registry'[p][i] = registry[p][i]
                   \/ p = Dest(r) /\ i = n
  BY <1>4, <1>6, Zenon
<1> QED
  BY <1>1, <1>5, <1>6, <1>7

(* The copy gets its row, at a place where other rows are leaving.         *)
LEMMA RegisterKeeps ==
  ASSUME RunInv, WebInv, NEW r \in Runners, Register(r), UNCHANGED <<bin, binned, request, handle, condemned>>
  PROVE  WebInv'
<1>1. RequestTypes' /\ OneRequest' /\ BinHeld' /\ BinKnown' /\ Leaving' = Leaving /\ Trashed' = Trashed
  BY RunLeavesRequests
<1>2. /\ pc' = [pc EXCEPT ![r] = "log"] /\ pc[r] = "register"
      /\ UNCHANGED <<source, archive, owed, arrivals, cur, slot>>
  BY DEF Register, Outcome, Goto, At, disk, owner
<1>3. ~HasRow(cur[r]) /\ arrivals[cur[r]] = 1 /\ cur[r] \notin source
  BY <1>2 DEF WebInv, WorkIsNew, Processing
<1>4. PICK n : /\ Dest(r) \in Paths /\ cur[r] \in Files
               /\ n \in DOMAIN registry'[Dest(r)] /\ registry'[Dest(r)][n] = cur[r]
               /\ \A p \in Paths : \A i \in DOMAIN registry[p] :
                     i \in DOMAIN registry'[p] /\ registry'[p][i] = registry[p][i]
               /\ \A p \in Paths : \A i \in DOMAIN registry'[p] :
                     \/ i \in DOMAIN registry[p] /\ registry'[p][i] = registry[p][i]
                     \/ p = Dest(r) /\ i = n
  BY RegisterAdds
<1>5. /\ \A f : \A p \in Paths : Names(p, f) => Names(p, f)'
      /\ \A f : \A p \in Paths : Names(p, f)' => Names(p, f) \/ (p = Dest(r) /\ f = cur[r])
  BY <1>4, Zenon DEF Names
<1>6. \A f : (Registered(f)' => Registered(f) \/ f = cur[r]) /\ (HasRow(f)' => HasRow(f) \/ f = cur[r])
  <2>1. ASSUME NEW f, Registered(f)' PROVE Registered(f) \/ f = cur[r]
    <3>1. PICK p \in Paths : Names(p, f)'
      BY <2>1 DEF Registered, Names
    <3>2. Names(p, f) \/ f = cur[r]
      BY <1>5, <3>1
    <3> QED
      BY <3>2, NamesRegister
  <2> QED
    BY <1>1, <2>1 DEF HasRow
<1>7. RequestsKnow'
  <2> SUFFICES ASSUME NEW c \in Clients
               PROVE  /\ at[c] \in {"resolve", "rename", "record"} =>
                            row[c] \in Files /\ src[c] \in Paths /\ Names(src[c], row[c])'
                      /\ at[c] = "rename" => dst[c] \in TrashPlaces /\ bin[dst[c]] = None
                      /\ at[c] = "record" => dst[c] \in TrashPlaces /\ bin[dst[c]] = row[c]
                      /\ at[c] \in {"remove", "forget"} =>
                            Trashed \subseteq condemned /\ listed[c] \subseteq condemned \X TrashPlaces
                      /\ at[c] = "forget" => row[c] \in condemned
    BY <1>1, Zenon DEF RequestsKnow, Knows, request, Names
  <2>1. at[c] \in {"resolve", "rename", "record"} =>
           row[c] \in Files /\ src[c] \in Paths /\ Names(src[c], row[c])'
    <3>1. UNCHANGED <<row, src>>
      BY DEF request
    <3> QED
      BY <1>5, <3>1 DEF WebInv, RequestsKnow, Knows, Names
  <2> QED
    BY <2>1 DEF WebInv, RequestsKnow, Knows
<1>8. RowsApart'
  <2> SUFFICES ASSUME NEW f \in Files
               PROVE  /\ \A p, q \in Paths : \A i \in DOMAIN registry'[p], j \in DOMAIN registry'[q] :
                            registry'[p][i] = f /\ registry'[q][j] = f => p = q /\ i = j
                      /\ Registered(f)' => f \notin Trashed
                      /\ HasRow(f)' => f \notin source
                      /\ HasRow(f)' \/ f \in source => arrivals[f] = 1
    BY <1>1, <1>2 DEF RowsApart
  <2>1. CASE f = cur[r]
    <3>1. ASSUME NEW p \in Paths, NEW i \in DOMAIN registry'[p], registry'[p][i] = f
          PROVE  p = Dest(r) /\ i = n
      <4>1. ~(i \in DOMAIN registry[p] /\ registry[p][i] = f)
        BY <1>3, <2>1 DEF HasRow, Registered
      <4> QED
        BY <1>4, <3>1, <4>1
    <3>2. f \notin Trashed
      BY <1>3, <2>1 DEF HasRow
    <3> QED
      BY <1>3, <2>1, <3>1, <3>2
  <2>2. CASE f # cur[r]
    <3>1. ASSUME NEW p \in Paths, NEW i \in DOMAIN registry'[p], registry'[p][i] = f
          PROVE  i \in DOMAIN registry[p] /\ registry[p][i] = f
      BY <1>4, <2>2, <3>1
    <3>2. (Registered(f)' => Registered(f)) /\ (HasRow(f)' => HasRow(f))
      BY <1>6, <2>2
    <3>3. \A p, q \in Paths : \A i \in DOMAIN registry[p], j \in DOMAIN registry[q] :
              registry[p][i] = f /\ registry[q][j] = f => p = q /\ i = j
      BY DEF WebInv, RowsApart
    <3>4. \A p, q \in Paths : \A i \in DOMAIN registry'[p], j \in DOMAIN registry'[q] :
              registry'[p][i] = f /\ registry'[q][j] = f => p = q /\ i = j
      <4> SUFFICES ASSUME NEW p \in Paths, NEW q \in Paths,
                          NEW i \in DOMAIN registry'[p], NEW j \in DOMAIN registry'[q],
                          registry'[p][i] = f, registry'[q][j] = f
                   PROVE  p = q /\ i = j
        OBVIOUS
      <4>1. i \in DOMAIN registry[p] /\ registry[p][i] = f
        BY <3>1
      <4>2. j \in DOMAIN registry[q] /\ registry[q][j] = f
        BY <3>1
      <4> QED
        BY <3>3, <4>1, <4>2
    <3> QED
      BY <3>2, <3>4 DEF WebInv, RowsApart
  <2> QED
    BY <2>1, <2>2
<1>9. WorkIsNew'
  <2> SUFFICES ASSUME NEW q \in Runners
               PROVE  /\ pc'[q] \in Processing => ~HasRow(cur[q])' /\ arrivals'[cur'[q]] = 1
                      /\ pc'[q] = "register" => cur'[q] \notin source'
    BY DEF WorkIsNew
  <2>1. CASE q = r
    BY <1>2, <2>1 DEF RunInv, TypeOK, Processing
  <2>2. CASE q # r
    <3>1. pc'[q] = "begin"
      BY <1>2, <2>2, OthersIdle DEF Register, At, RunInv, TypeOK
    <3> QED
      BY <3>1 DEF Processing
  <2> QED
    BY <2>1, <2>2
<1>10. RowsHeld'
  <2>1. archive[Dest(r)] = cur[r]
    BY <1>2 DEF RunInv, CopyKnown
  <2>2. \A f \in Files \ Leaving : \A p \in Paths : Names(p, f)' => archive[p] = f
    BY <1>5, <2>1 DEF WebInv, RowsHeld
  <2> QED
    BY <1>1, <1>2, <2>2 DEF RowsHeld
<1>11. Kept'
  BY <1>2 DEF WebInv, Kept
<1> QED
  BY <1>1, <1>7, <1>8, <1>9, <1>10, <1>11 DEF WebInv

(* All steps of a run keep the invariant.                                  *)
LEMMA RunStepKeeps == SharedInv /\ RunStep /\ Exclusive' => SharedInv'
<1> SUFFICES ASSUME RunInv, WebInv, RunStep, Exclusive' PROVE RunInv' /\ WebInv'
  BY DEF SharedInv
<1>1. UNCHANGED <<bin, binned, request, handle, condemned>>
  BY RunLeavesTrash DEF WebInv
<1>2. Next
  BY DEF RunStep
<1>3. RunInv'
  BY <1>2, RunKeepsRunInv
<1>4. WebInv'
  BY <1>1, <1>2, RunEffects, StillKeeps, CopiesKeeps, RemoveSourceKeeps, RegisterKeeps, ArriveKeeps, WithdrawKeeps
<1> QED
  BY <1>3, <1>4

-----------------------------------------------------------------------------
(* The row of a file is taken out of the registry.                         *)

(* The elements that are left, and where.                                  *)
LEMMA DropAtSeq ==
  ASSUME NEW S, NEW s \in Seq(S), NEW k \in 1..Len(s)
  PROVE  /\ DropAt(s, k) \in Seq(S) /\ Len(DropAt(s, k)) = Len(s) - 1
         /\ \A i \in 1..(Len(s) - 1) : DropAt(s, k)[i] = IF i < k THEN s[i] ELSE s[i + 1]
<1>1. Len(s) \in Nat /\ k \in Nat
  OBVIOUS
<1>2. PICK front : front = SubSeq(s, 1, k - 1)
  OBVIOUS
<1>3. PICK back : back = SubSeq(s, k + 1, Len(s))
  OBVIOUS
<1>4. front \in Seq(S) /\ Len(front) = k - 1 /\ \A i \in 1..(k - 1) : front[i] = s[i]
  BY SubSeqProperties, <1>1, <1>2
<1>5. back \in Seq(S) /\ Len(back) = Len(s) - k
  BY SubSeqProperties, <1>1, <1>3
<1>6. \A i \in 1..(Len(s) - k) : back[i] = s[k + i]
  BY SubSeqProperties, <1>1, <1>3
<1>7. DropAt(s, k) = front \o back
  BY <1>2, <1>3 DEF DropAt
<1>8. DropAt(s, k) \in Seq(S) /\ Len(DropAt(s, k)) = Len(s) - 1
  <2>1. DropAt(s, k) \in Seq(S) /\ Len(DropAt(s, k)) = Len(front) + Len(back)
    BY <1>4, <1>5, <1>7, ConcatProperties
  <2> QED
    BY <1>1, <1>4, <1>5, <2>1
<1>9. ASSUME NEW i \in 1..(Len(s) - 1)
      PROVE  DropAt(s, k)[i] = IF i < k THEN s[i] ELSE s[i + 1]
  <2>1. DropAt(s, k)[i] = IF i <= k - 1 THEN front[i] ELSE back[i - (k - 1)]
    BY <1>1, <1>4, <1>5, <1>7, ConcatProperties
  <2>2. CASE i < k
    BY <1>1, <1>4, <2>1, <2>2
  <2>3. CASE ~(i < k)
    <3>1. i - (k - 1) \in 1..(Len(s) - k) /\ k + (i - (k - 1)) = i + 1
      BY <1>1, <2>3
    <3> QED
      BY <1>1, <1>6, <2>1, <2>3, <3>1
  <2> QED
    BY <2>2, <2>3
<1> QED
  BY <1>8, <1>9

(* Every other element stays.                                              *)
LEMMA DropAtKeeps ==
  ASSUME NEW S, NEW s \in Seq(S), NEW k \in 1..Len(s), NEW x, x # s[k]
  PROVE  /\ (\E i \in DOMAIN DropAt(s, k) : DropAt(s, k)[i] = x) => (\E i \in DOMAIN s : s[i] = x)
         /\ (\E i \in DOMAIN s : s[i] = x) => (\E i \in DOMAIN DropAt(s, k) : DropAt(s, k)[i] = x)
<1>1. DOMAIN s = 1..Len(s) /\ DOMAIN DropAt(s, k) = 1..(Len(s) - 1) /\ Len(s) \in Nat
  BY DropAtSeq
<1>2. \A i \in 1..(Len(s) - 1) : DropAt(s, k)[i] = IF i < k THEN s[i] ELSE s[i + 1]
  BY DropAtSeq
<1>3. ASSUME NEW i \in 1..(Len(s) - 1), DropAt(s, k)[i] = x PROVE \E j \in 1..Len(s) : s[j] = x
  <2>1. CASE i < k
    BY <1>3, <1>2, <1>1, <2>1
  <2>2. CASE ~(i < k)
    <3>1. i + 1 \in 1..Len(s) /\ s[i + 1] = x
       BY <1>3, <1>2, <1>1, <2>2
    <3> QED BY <3>1
  <2> QED BY <2>1, <2>2
<1>4. ASSUME NEW j \in 1..Len(s), s[j] = x PROVE \E i \in 1..(Len(s) - 1) : DropAt(s, k)[i] = x
  <2>1. CASE j < k
    <3>1. j \in 1..(Len(s) - 1) /\ DropAt(s, k)[j] = x
       BY <1>4, <1>2, <1>1, <2>1
    <3> QED BY <3>1
  <2>2. CASE j > k
    <3>1. j - 1 \in 1..(Len(s) - 1) /\ ~(j - 1 < k) /\ (j - 1) + 1 = j
       BY <1>1, <2>2
    <3>2. DropAt(s, k)[j - 1] = x
       BY <1>4, <1>2, <3>1
    <3> QED BY <3>1, <3>2
  <2>3. j # k
    BY <1>4
  <2> QED BY <2>1, <2>2, <2>3, <1>1
<1> QED
  BY <1>1, <1>3, <1>4

(* ... and as often as it was there.                                       *)
LEMMA DropAtOnce ==
  ASSUME NEW S, NEW s \in Seq(S), NEW k \in 1..Len(s), NEW x,
         \A i, j \in DOMAIN s : s[i] = x /\ s[j] = x => i = j
  PROVE  \A i, j \in DOMAIN DropAt(s, k) : DropAt(s, k)[i] = x /\ DropAt(s, k)[j] = x => i = j
<1>1. DOMAIN s = 1..Len(s) /\ DOMAIN DropAt(s, k) = 1..(Len(s) - 1) /\ Len(s) \in Nat
  BY DropAtSeq
<1>2. \A i \in 1..(Len(s) - 1) : DropAt(s, k)[i] = IF i < k THEN s[i] ELSE s[i + 1]
  BY DropAtSeq
<1> SUFFICES ASSUME NEW i \in 1..(Len(s) - 1), NEW j \in 1..(Len(s) - 1),
                    DropAt(s, k)[i] = x, DropAt(s, k)[j] = x
             PROVE  i = j
  BY <1>1
<1>3. PICK a : a = IF i < k THEN i ELSE i + 1
  OBVIOUS
<1>4. PICK b : b = IF j < k THEN j ELSE j + 1
  OBVIOUS
<1>5. a \in DOMAIN s /\ s[a] = x
  BY <1>1, <1>2, <1>3
<1>6. b \in DOMAIN s /\ s[b] = x
  BY <1>1, <1>2, <1>4
<1>7. a = b
  BY <1>5, <1>6
<1> QED
  BY <1>3, <1>4, <1>7

(* All rows but those of f stay, each at its place and once.               *)
LEMMA WithoutRows ==
  ASSUME RunInv, RowsApart, NEW f \in Files
  PROVE  /\ Without(f) \in [Paths -> Seq(Files)]
         /\ \A p \in Paths, g \in Files :
               (\E i \in DOMAIN Without(f)[p] : Without(f)[p][i] = g) <=> g # f /\ Names(p, g)
         /\ \A g \in Files, p \in Paths : \A i, j \in DOMAIN Without(f)[p] :
               Without(f)[p][i] = g /\ Without(f)[p][j] = g => i = j
<1>1. /\ registry \in [Paths -> Seq(Files)]
      /\ \A g \in Files, p \in Paths : \A i, j \in DOMAIN registry[p] :
            registry[p][i] = g /\ registry[p][j] = g => i = j
  BY DEF RunInv, TypeOK, RowsApart
<1>2. ASSUME NEW p \in Paths
      PROVE  /\ Without(f)[p] \in Seq(Files)
             /\ \A g \in Files : (\E i \in DOMAIN Without(f)[p] : Without(f)[p][i] = g) <=> g # f /\ Names(p, g)
             /\ \A g \in Files : \A i, j \in DOMAIN Without(f)[p] :
                   Without(f)[p][i] = g /\ Without(f)[p][j] = g => i = j
  <2>1. CASE ~Names(p, f)
    <3>1. Without(f)[p] = registry[p]
      BY <2>1 DEF Without, Names
    <3> QED
      BY <1>1, <2>1, <3>1 DEF Names
  <2>2. CASE Names(p, f)
    <3>1. PICK k : k = CHOOSE i \in DOMAIN registry[p] : registry[p][i] = f
      OBVIOUS
    <3>2. k \in DOMAIN registry[p] /\ registry[p][k] = f
      BY <2>2, <3>1 DEF Names
    <3>3. PICK s : s = registry[p]
      OBVIOUS
    <3>4. s \in Seq(Files) /\ k \in 1..Len(s) /\ s[k] = f
      BY <1>1, <3>2, <3>3
    <3>5. Without(f)[p] = DropAt(s, k)
      BY <2>2, <3>1, <3>3 DEF Without, Names
    <3>6. DropAt(s, k) \in Seq(Files)
      BY <3>4, DropAtSeq
    <3>7. ASSUME NEW g \in Files
          PROVE  /\ (\E i \in DOMAIN DropAt(s, k) : DropAt(s, k)[i] = g) <=> g # f /\ Names(p, g)
                 /\ \A i, j \in DOMAIN DropAt(s, k) : DropAt(s, k)[i] = g /\ DropAt(s, k)[j] = g => i = j
      <4>1. \A i, j \in DOMAIN s : s[i] = g /\ s[j] = g => i = j
        BY <1>1, <3>3
      <4>2. \A i, j \in DOMAIN DropAt(s, k) : DropAt(s, k)[i] = g /\ DropAt(s, k)[j] = g => i = j
        BY <3>4, <4>1, DropAtOnce
      <4>3. ASSUME g # f
            PROVE  (\E i \in DOMAIN DropAt(s, k) : DropAt(s, k)[i] = g) <=> Names(p, g)
        <5>1. g # s[k]
          BY <3>4, <4>3
        <5>2. (\E i \in DOMAIN DropAt(s, k) : DropAt(s, k)[i] = g) => (\E i \in DOMAIN s : s[i] = g)
          BY <3>4, <5>1, DropAtKeeps
        <5>3. (\E i \in DOMAIN s : s[i] = g) => (\E i \in DOMAIN DropAt(s, k) : DropAt(s, k)[i] = g)
          BY <3>4, <5>1, DropAtKeeps
        <5> QED
          BY <3>3, <5>2, <5>3, Zenon DEF Names
      <4>4. g = f => ~\E i \in DOMAIN DropAt(s, k) : DropAt(s, k)[i] = g
        <5>1. /\ DOMAIN s = 1..Len(s) /\ DOMAIN DropAt(s, k) = 1..(Len(s) - 1) /\ Len(s) \in Nat
              /\ \A i \in 1..(Len(s) - 1) : DropAt(s, k)[i] = IF i < k THEN s[i] ELSE s[i + 1]
          BY <3>4, DropAtSeq
        <5>2. ASSUME g = f, NEW i \in 1..(Len(s) - 1), DropAt(s, k)[i] = g PROVE FALSE
          <6>1. CASE i < k
            <7>1. i \in DOMAIN s /\ s[i] = g /\ i # k
              BY <3>4, <5>1, <5>2, <6>1
            <7> QED
              BY <3>4, <4>1, <5>1, <5>2, <7>1
          <6>2. CASE ~(i < k)
            <7>1. i + 1 \in DOMAIN s /\ s[i + 1] = g /\ i + 1 # k
              BY <3>4, <5>1, <5>2, <6>2
            <7> QED
              BY <3>4, <4>1, <5>1, <5>2, <7>1
          <6> QED
            BY <6>1, <6>2
        <5> QED
          BY <5>1, <5>2
      <4> QED
        BY <4>2, <4>3, <4>4
    <3> QED
      BY <3>5, <3>6, <3>7
  <2> QED
    BY <2>1, <2>2
<1>3. Without(f) = [p \in Paths |-> Without(f)[p]]
  BY DEF Without
<1> QED
  BY <1>2, <1>3

-----------------------------------------------------------------------------
(* The requests.                                                           *)

(* What a request must leave alone for the run.                            *)
Beside ==
    /\ UNCHANGED <<lock, phase, crashes, source, history, owner, job>>
    /\ UNCHANGED errors \/ Error
    /\ archive' \in [Paths -> Files \union {None, Partial}]
    /\ registry' \in [Paths -> Seq(Files)]
    /\ \A r \in Runners :
          pc[r] \in {"create", "register"} \union Holding => archive'[Dest(r)] = archive[Dest(r)]

(* A step beside the run takes nothing from it.                            *)
LEMMA BesideKeepsRun ==
  ASSUME RunInv, Beside
  PROVE  RunInv'
<1>1. UNCHANGED <<lock, phase, crashes, source, history, owed, arrivals, pc, todo, cur, slot, result>>
  BY DEF Beside, owner, job
<1>2. LockTypeOK'
  BY ErrorTypeOK DEF RunInv, TypeOK, Beside
<1>3. TypeOK'
  BY <1>1, <1>2 DEF RunInv, TypeOK, Beside
<1>4. Exclusive' /\ Idle' /\ SourceKept'
  BY <1>1 DEF RunInv, Exclusive, Holders, Idle, SourceKept
<1>5. CopyKnown'
  BY <1>1 DEF RunInv, Beside, CopyKnown, Dest, Holding
<1> QED
  BY <1>3, <1>4, <1>5 DEF RunInv

(* A request has the web server to itself.                                 *)
LEMMA OthersRest ==
  ASSUME WebInv, NEW c \in Clients, at[c] # "idle", NEW d \in Clients, d # c
  PROVE  at[d] = "idle"
BY DEF WebInv, OneRequest

(* Careful users make one request at a time.                               *)
LEMMA CarefulKeepsOne ==
  ASSUME Careful
  PROVE  OneRequest'
BY DEF Careful, OneRequest

(* A request that knows is the only one that has to.                       *)
LEMMA OneKnows ==
  ASSUME WebInv, Careful, NEW c \in Clients, at'[c] # "idle" => Knows(c)',
         \A d \in Clients : at'[d] # "idle" => d = c
  PROVE  RequestsKnow'
BY DEF RequestsKnow, Knows

(* When a request is answered none is left.                                *)
LEMMA Answered ==
  ASSUME WebInv, NEW c \in Clients, at[c] # "idle", Answer(c)
  PROVE  /\ \A d \in Clients : at'[d] = "idle"
         /\ RequestsKnow' /\ OneRequest' /\ Leaving' = {}
         /\ row' \in [Clients -> Files \union {None}]
         /\ src' \in [Clients -> Paths \union {None}]
         /\ dst' \in [Clients -> TrashPlaces \union {None}]
         /\ listed' \in [Clients -> SUBSET (Files \X TrashPlaces)]
         /\ at' \in [Clients -> {"idle", "resolve", "rename", "record", "remove", "forget"}]
<1>1. \A d \in Clients : at'[d] = "idle"
  BY OthersRest DEF Answer, GoOn, WebInv, RequestTypes
<1>2. RequestsKnow' /\ OneRequest' /\ Leaving' = {}
  BY <1>1 DEF RequestsKnow, Knows, OneRequest, Leaving
<1>3. /\ row' \in [Clients -> Files \union {None}]
      /\ src' \in [Clients -> Paths \union {None}]
      /\ dst' \in [Clients -> TrashPlaces \union {None}]
  BY DEF Answer, WebInv, RequestTypes
<1>4. /\ listed' \in [Clients -> SUBSET (Files \X TrashPlaces)]
      /\ at' \in [Clients -> {"idle", "resolve", "rename", "record", "remove", "forget"}]
  BY DEF Answer, GoOn, WebInv, RequestTypes
<1> QED
  BY <1>1, <1>2, <1>3, <1>4

(* A step that changes nothing but the request itself.                     *)
Aside ==
    /\ UNCHANGED <<lock, phase, crashes, disk, tables, owner, job, trash, handle>>
    /\ UNCHANGED errors \/ Error
    /\ condemned \subseteq condemned' /\ condemned' \subseteq Files

(* ... that lets the files and the rows be.                                *)
LEMMA AsideKeeps ==
  ASSUME RunInv, WebInv, Aside, Leaving = {}, Leaving' = {},
         \A c \in Clients : at[c] # "record"
  PROVE  /\ RunInv' /\ RowsApart' /\ WorkIsNew' /\ RowsHeld' /\ BinHeld' /\ BinKnown' /\ Kept'
<1>1. UNCHANGED <<source, archive, registry, history, owner, owed, arrivals, job, pc, cur, slot, bin, binned>>
  BY DEF Aside, disk, tables, owner, job, trash
<1>2. RunInv'
  <2>1. Beside
    BY <1>1 DEF Aside, Beside, RunInv, TypeOK
  <2> QED
    BY <2>1, BesideKeepsRun
<1>3. RowsApart'
  BY <1>1, SameRows DEF WebInv, RowsApart, Trashed
<1>4. WorkIsNew'
  BY <1>1 DEF WebInv, WorkIsNew, HasRow, Registered, Trashed
<1>5. RowsHeld'
  BY <1>1 DEF WebInv, RowsHeld, Names
<1>6. BinHeld' /\ BinKnown'
  BY <1>1 DEF Aside, WebInv, BinHeld, BinKnown, Trashed
<1>7. Kept'
  BY <1>1 DEF Aside, WebInv, Kept
<1> QED
  BY <1>2, <1>3, <1>4, <1>5, <1>6, <1>7

(* A delete reads the place of a row that is not in the trash.             *)
LEMMA DeleteRequestKeeps ==
  ASSUME RunInv, WebInv, Careful, NEW c \in Clients, DeleteRequest(c)
  PROVE  RunInv' /\ WebInv'
<1>1. PICK f \in Files : /\ HasRow(f) /\ row' = [row EXCEPT ![c] = f]
                         /\ src' = [src EXCEPT ![c] = ArchivePath(f)]
  BY DEF DeleteRequest
<1>2. /\ at[c] = "idle" /\ at' = [at EXCEPT ![c] = "resolve"]
      /\ UNCHANGED <<vars, trash, dst, listed, handle, condemned>>
  BY DEF DeleteRequest, GoOn
<1>3. at'[c] = "resolve" /\ row'[c] = f /\ src'[c] = ArchivePath(f)
  BY <1>1, <1>2 DEF WebInv, RequestTypes
<1>4. f \notin Trashed /\ Registered(f)
  BY <1>1, <1>2, <1>3 DEF Careful, HasRow
<1>5. ArchivePath(f) \in Paths /\ Names(ArchivePath(f), f)
  BY <1>4 DEF ArchivePath, Registered, Names
<1>6. \A d \in Clients : at'[d] # "idle" => d = c
  BY <1>3 DEF Careful
<1>7. \A d \in Clients : d # c => at[d] = "idle" /\ at'[d] = "idle"
  BY <1>2, <1>6 DEF WebInv, RequestTypes
<1>8. Leaving = {} /\ Leaving' = {} /\ \A d \in Clients : at[d] # "record"
  BY <1>2, <1>3, <1>7 DEF Leaving
<1>9. Aside
  BY <1>2 DEF Aside, vars, lockVars, WebInv, RequestTypes
<1>10. RequestTypes'
  BY <1>1, <1>2, <1>5 DEF WebInv, RequestTypes, trash
<1>11. Knows(c)'
  <2>1. Names(src[c], row[c])'
    BY <1>2, <1>3, <1>5 DEF Names, vars, tables
  <2> QED
    BY <1>3, <1>5, <2>1 DEF Knows
<1>12. RequestsKnow'
  BY <1>6, <1>11, OneKnows
<1> QED
  BY <1>8, <1>9, <1>10, <1>12, AsideKeeps, CarefulKeepsOne DEF WebInv

(* It finds a name in the trash that is free.                              *)
LEMMA ResolveKeeps ==
  ASSUME RunInv, WebInv, Careful, NEW c \in Clients, ResolveTrashPath(c)
  PROVE  RunInv' /\ WebInv'
<1>1. PICK t : bin[t] = None /\ dst' = [dst EXCEPT ![c] = t] /\ \E i \in DOMAIN TrashNames[row[c]] : t = TrashNames[row[c]][i]
  BY DEF ResolveTrashPath
<1>2. /\ at[c] = "resolve" /\ at' = [at EXCEPT ![c] = "rename"]
      /\ UNCHANGED <<vars, trash, row, src, listed, handle, condemned>>
  BY DEF ResolveTrashPath, GoOn
<1>3. row[c] \in Files /\ src[c] \in Paths /\ Names(src[c], row[c])
  BY <1>2 DEF WebInv, RequestsKnow, Knows
<1>4. t \in TrashPlaces
  BY <1>1, <1>3, SharedAssumption
<1>5. at'[c] = "rename" /\ dst'[c] = t
  BY <1>1, <1>2 DEF WebInv, RequestTypes
<1>6. \A d \in Clients : d # c => at[d] = "idle" /\ at'[d] = "idle"
  BY <1>2, OthersRest DEF WebInv, RequestTypes
<1>7. Leaving = {} /\ Leaving' = {} /\ \A d \in Clients : at[d] # "record"
  BY <1>2, <1>5, <1>6 DEF Leaving
<1>8. Aside
  BY <1>2 DEF Aside, vars, lockVars, WebInv, RequestTypes
<1>9. RequestTypes'
  BY <1>1, <1>2, <1>4 DEF WebInv, RequestTypes, trash
<1>10. Knows(c)'
  <2>1. Names(src[c], row[c])' /\ row'[c] \in Files /\ src'[c] \in Paths /\ bin' = bin
    BY <1>2, <1>3 DEF Names, vars, tables, trash
  <2> QED
    BY <1>1, <1>4, <1>5, <2>1 DEF Knows
<1>11. RequestsKnow'
  BY <1>6, <1>10, OneKnows
<1> QED
  BY <1>7, <1>8, <1>9, <1>11, AsideKeeps, CarefulKeepsOne DEF WebInv

(* A request that ends before the rename, or in the trash, changes nothing. *)
LEMMA AbortKeeps ==
  ASSUME RunInv, WebInv, Careful, NEW c \in Clients, Abort(c)
  PROVE  RunInv' /\ WebInv'
<1>1. /\ at[c] # "idle" /\ Answer(c) /\ Error
      /\ UNCHANGED <<lock, phase, crashes, disk, tables, owner, job, trash, handle, condemned>>
  BY DEF Abort
<1>2. \A d \in Clients : at'[d] = "idle"
  BY <1>1, Answered
<1>3. errors' # errors
  BY <1>1, BoundsAssumption DEF Error, RunInv, TypeOK, LockTypeOK
<1>4. at[c] # "record"
  BY <1>2, <1>3 DEF Careful
<1>5. \A d \in Clients : at[d] # "record"
  BY <1>1, <1>4, OthersRest
<1>6. Leaving = {}
  BY <1>5 DEF Leaving
<1>7. Aside
  BY <1>1 DEF Aside, WebInv, RequestTypes
<1>8. RequestTypes'
  BY <1>1, Answered DEF WebInv, RequestTypes, trash
<1> QED
  BY <1>1, <1>5, <1>6, <1>7, <1>8, AsideKeeps, Answered DEF WebInv

(* An emptying lists the rows in the trash, which condemns their files.    *)
LEMMA EmptyTrashKeeps ==
  ASSUME RunInv, WebInv, Careful, NEW c \in Clients, EmptyTrash(c)
  PROVE  RunInv' /\ WebInv'
<1>1. /\ at[c] = "idle" /\ at' = [at EXCEPT ![c] = "remove"]
      /\ listed' = [listed EXCEPT ![c] = {<<f, binned[f]>> : f \in Trashed}]
      /\ condemned' = condemned \union Trashed
      /\ UNCHANGED <<vars, trash, row, src, dst, handle>>
  BY DEF EmptyTrash, GoOn
<1>2. Trashed \subseteq Files /\ \A f \in Trashed : binned[f] \in TrashPlaces
  BY DEF Trashed, WebInv, RequestTypes
<1>3. /\ at'[c] = "remove" /\ listed'[c] = {<<f, binned[f]>> : f \in Trashed}
      /\ Trashed' = Trashed
  BY <1>1 DEF WebInv, RequestTypes, Trashed, trash
<1>4. \A d \in Clients : at'[d] # "idle" => d = c
  BY <1>3 DEF Careful
<1>5. \A d \in Clients : d # c => at[d] = "idle" /\ at'[d] = "idle"
  BY <1>1, <1>4 DEF WebInv, RequestTypes
<1>6. Leaving = {} /\ Leaving' = {} /\ \A d \in Clients : at[d] # "record"
  BY <1>1, <1>3, <1>5 DEF Leaving
<1>7. Aside
  BY <1>1, <1>2 DEF Aside, vars, lockVars, WebInv, RequestTypes
<1>8. RequestTypes'
  <2>1. listed' \in [Clients -> SUBSET (Files \X TrashPlaces)]
    BY <1>1, <1>2 DEF WebInv, RequestTypes
  <2> QED
    BY <1>1, <1>2, <2>1 DEF WebInv, RequestTypes, trash
<1>9. Knows(c)'
  <2>1. Trashed' \subseteq condemned' /\ listed'[c] \subseteq condemned' \X TrashPlaces
    BY <1>1, <1>2, <1>3
  <2> QED
    BY <1>3, <2>1 DEF Knows
<1>10. RequestsKnow'
  BY <1>4, <1>9, OneKnows
<1> QED
  BY <1>6, <1>7, <1>8, <1>10, AsideKeeps, CarefulKeepsOne DEF WebInv

(* After an item of an emptying comes the next one or the answer.          *)
LEMMA NextItemKnows ==
  ASSUME WebInv, Careful, NEW c \in Clients, at[c] \in {"remove", "forget"},
         NEW rest \in SUBSET listed[c], NextItem(c, rest),
         Trashed' \subseteq condemned, condemned' = condemned
  PROVE  /\ RequestsKnow' /\ Leaving' = {}
         /\ row' \in [Clients -> Files \union {None}]
         /\ src' \in [Clients -> Paths \union {None}]
         /\ dst' \in [Clients -> TrashPlaces \union {None}]
         /\ listed' \in [Clients -> SUBSET (Files \X TrashPlaces)]
         /\ at' \in [Clients -> {"idle", "resolve", "rename", "record", "remove", "forget"}]
<1>1. CASE rest = {}
  BY <1>1, Answered DEF NextItem
<1>2. CASE rest # {}
  <2>1. /\ at' = [at EXCEPT ![c] = "remove"] /\ row' = [row EXCEPT ![c] = None]
        /\ listed' = [listed EXCEPT ![c] = rest] /\ UNCHANGED <<src, dst>>
    BY <1>2 DEF NextItem, GoOn
  <2>2. at'[c] = "remove" /\ listed'[c] = rest
    BY <2>1 DEF WebInv, RequestTypes
  <2>3. \A d \in Clients : d # c => at'[d] = "idle"
    BY <2>1, OthersRest DEF WebInv, RequestTypes
  <2>4. rest \subseteq condemned \X TrashPlaces
    BY DEF WebInv, RequestsKnow, Knows
  <2>5. Knows(c)'
    BY <2>2, <2>4 DEF Knows
  <2>6. RequestsKnow'
    BY <2>3, <2>5, OneKnows
  <2>7. Leaving' = {}
    BY <2>2, <2>3 DEF Leaving
  <2>8. rest \in SUBSET (Files \X TrashPlaces)
    BY DEF WebInv, RequestTypes
  <2> QED
    BY <2>1, <2>6, <2>7, <2>8 DEF WebInv, RequestTypes
<1> QED
  BY <1>1, <1>2

(* An item is passed over.                                                 *)
LEMMA RemoveFailsKeeps ==
  ASSUME RunInv, WebInv, Careful, NEW c \in Clients, RemoveFails(c)
  PROVE  RunInv' /\ WebInv'
<1>1. PICK rest \in SUBSET listed[c] : NextItem(c, rest)
  BY DEF RemoveFails
<1>2. /\ at[c] = "remove" /\ Error
      /\ UNCHANGED <<lock, phase, crashes, disk, tables, owner, job, trash, handle, condemned>>
  BY DEF RemoveFails
<1>3. Trashed' = Trashed /\ Trashed \subseteq condemned
  BY <1>2 DEF Trashed, trash, WebInv, RequestsKnow, Knows
<1>4. \A d \in Clients : at[d] # "record"
  BY <1>2, OthersRest
<1>5. Leaving = {}
  BY <1>4 DEF Leaving
<1>6. Aside
  BY <1>2 DEF Aside, WebInv, RequestTypes
<1>7. RequestTypes' /\ RequestsKnow' /\ Leaving' = {}
  BY <1>1, <1>2, <1>3, NextItemKnows DEF WebInv, RequestTypes, trash
<1> QED
  BY <1>4, <1>5, <1>6, <1>7, AsideKeeps, CarefulKeepsOne DEF WebInv

(* The emptying removes what it has listed, which it has condemned.        *)
LEMMA RemoveKeeps ==
  ASSUME RunInv, WebInv, Careful, NEW c \in Clients, Remove(c)
  PROVE  RunInv' /\ WebInv'
<1>1. PICK item \in listed[c] :
         /\ row' = [row EXCEPT ![c] = item[1]]
         /\ listed' = [listed EXCEPT ![c] = listed[c] \ {item}]
         /\ bin' = [t \in TrashPlaces |-> IF t = item[2] THEN None ELSE bin[t]]
         /\ archive' = [p \in Paths |-> IF p = item[2] THEN None ELSE archive[p]]
  BY DEF Remove
<1>2. /\ at[c] = "remove" /\ at' = [at EXCEPT ![c] = "forget"]
      /\ UNCHANGED <<lockVars, source, tables, owner, job, binned, src, dst, handle, condemned>>
  BY DEF Remove, GoOn
<1>3. Trashed \subseteq condemned /\ listed[c] \subseteq condemned \X TrashPlaces
  BY <1>2 DEF WebInv, RequestsKnow, Knows
<1>4. item[1] \in condemned /\ item[2] \in TrashPlaces /\ condemned \subseteq Files
  BY <1>3 DEF WebInv, RequestTypes
<1>5. item[2] \notin Paths
  BY <1>4, SharedAssumption
<1>6. archive' = archive
  <2>1. archive' = [p \in Paths |-> archive[p]]
    BY <1>1, <1>5
  <2> QED
    BY <2>1 DEF RunInv, TypeOK
<1>7. /\ at'[c] = "forget" /\ row'[c] = item[1] /\ listed'[c] = listed[c] \ {item}
      /\ Trashed' = Trashed
  BY <1>1, <1>2 DEF WebInv, RequestTypes, Trashed
<1>8. \A d \in Clients : d # c => at[d] = "idle" /\ at'[d] = "idle"
  BY <1>2, OthersRest DEF WebInv, RequestTypes
<1>9. Leaving = {} /\ Leaving' = {} /\ \A d \in Clients : at[d] # "record"
  BY <1>2, <1>7, <1>8 DEF Leaving
<1>10. RunInv'
  <2>1. Beside
    BY <1>2, <1>6 DEF Beside, RunInv, TypeOK, lockVars, tables
  <2> QED
    BY <2>1, BesideKeepsRun
<1>11. RequestTypes'
  BY <1>1, <1>2, <1>4 DEF WebInv, RequestTypes
<1>12. RequestsKnow'
  <2>1. Knows(c)'
    BY <1>2, <1>3, <1>4, <1>7 DEF Knows
  <2> QED
    BY <1>8, <2>1, OneKnows
<1>13. UNCHANGED <<source, registry, binned, owed, arrivals, pc, cur, slot, condemned>>
  BY <1>2 DEF tables, owner, job
<1>14. RowsApart' /\ WorkIsNew'
  BY <1>7, <1>13, SameRows DEF WebInv, RowsApart, WorkIsNew, HasRow, Registered, Trashed
<1>15. RowsHeld' /\ BinHeld'
  BY <1>3, <1>6, <1>7, <1>9, <1>13 DEF WebInv, RowsHeld, BinHeld, Names
<1>16. \A t \in TrashPlaces : bin[t] \in Files => bin[t] \in condemned
  <2> SUFFICES ASSUME NEW t \in TrashPlaces, bin[t] \in Files PROVE bin[t] \in condemned
    OBVIOUS
  <2>1. binned[bin[t]] = t => bin[t] \in Trashed
    BY SharedAssumption DEF Trashed
  <2> QED
    BY <1>3, <1>9, <2>1 DEF WebInv, BinKnown
<1>17. \A t \in TrashPlaces : bin'[t] = bin[t] \/ bin'[t] = None
  BY <1>1
<1>18. BinKnown'
  BY <1>13, <1>16, <1>17, FilesAssumption DEF BinKnown
<1>19. Kept'
  <2> SUFFICES ASSUME NEW f \in owed \ condemned, f \notin source, \A p \in Paths : archive[p] # f
               PROVE  FALSE
    BY <1>6, <1>13 DEF Kept
  <2>1. PICK t \in TrashPlaces : bin[t] = f
    BY DEF WebInv, Kept
  <2> QED
    BY <1>16, <2>1 DEF RunInv, TypeOK
<1> QED
  BY <1>10, <1>11, <1>12, <1>14, <1>15, <1>18, <1>19, CarefulKeepsOne DEF WebInv

(* A delete moves the file of its row from a place that no run is at to    *)
(* one that is free.                                                       *)
LEMMA RenameMoves ==
  ASSUME RunInv, WebInv, NEW c \in Clients, Rename(c)
  PROVE  /\ row[c] \in Files /\ src[c] \in Paths /\ archive[src[c]] = row[c] /\ HasRow(row[c])
         /\ dst[c] \in TrashPlaces /\ bin[dst[c]] = None
         /\ \A p \in Paths : archive'[p] = IF p = src[c] THEN None ELSE archive[p]
         /\ \A t \in TrashPlaces : bin'[t] = IF t = dst[c] THEN row[c] ELSE bin[t]
         /\ \A r \in Runners : pc[r] \in {"create", "register"} \union Holding => Dest(r) # src[c]
         /\ handle' = handle
<1>1. at[c] = "rename"
  BY DEF Rename
<1>2. row[c] \in Files /\ src[c] \in Paths /\ Names(src[c], row[c]) /\ dst[c] \in TrashPlaces /\ bin[dst[c]] = None
  BY <1>1 DEF WebInv, RequestsKnow, Knows
<1>3. \A d \in Clients : at[d] # "record"
  BY <1>1, OthersRest
<1>4. archive[src[c]] = row[c] /\ HasRow(row[c])
  BY <1>2, <1>3, NamesRegister DEF WebInv, RowsHeld, Leaving
<1>5. \A p \in Paths : archive'[p] = IF p = src[c] THEN None ELSE archive[p]
  BY DEF Rename
<1>6. src[c] \notin TrashPlaces /\ OnDisk(src[c]) = row[c] /\ row[c] # None
  BY <1>2, <1>4, SharedAssumption, FilesAssumption DEF OnDisk
<1>7. \A t \in TrashPlaces : bin'[t] = IF t = dst[c] THEN row[c] ELSE bin[t]
  BY <1>6 DEF Rename
<1>8. ASSUME NEW r \in Runners, pc[r] \in {"create", "register"} \union Holding PROVE Dest(r) # src[c]
  <2>1. pc[r] \in Processing /\ cur[r] # row[c]
    BY <1>4, <1>8 DEF WebInv, WorkIsNew, Processing, Holding
  <2>2. archive[Dest(r)] \in {None, Partial, cur[r]}
    BY <1>8 DEF RunInv, CopyKnown, Holding
  <2> QED
    BY <1>2, <1>4, <2>1, <2>2, FilesAssumption
<1>9. handle' = handle
  <2>1. \A r \in Runners : ~(At(r, "write") /\ Dest(r) = src[c])
    BY <1>8 DEF At, Holding
  <2>2. handle' = [r \in Runners |-> handle[r]]
    BY <2>1 DEF Rename
  <2> QED
    BY <2>2 DEF WebInv, RequestTypes
<1> QED
  BY <1>2, <1>4, <1>5, <1>7, <1>8, <1>9

(* The moved file has its row at the old place until that is updated.      *)
LEMMA RenameKeeps ==
  ASSUME RunInv, WebInv, Careful, NEW c \in Clients, Rename(c)
  PROVE  RunInv' /\ WebInv'
<1>1. /\ at[c] = "rename" /\ at' = [at EXCEPT ![c] = "record"]
      /\ UNCHANGED <<lockVars, source, tables, owner, job, binned, row, src, dst, listed, condemned>>
  BY DEF Rename, GoOn
<1>2. UNCHANGED <<source, registry, binned, owed, arrivals, pc, cur, slot, condemned>>
  BY <1>1 DEF tables, owner, job
<1>3. PICK f \in Files : f = row[c] /\ HasRow(f) /\ archive[src[c]] = f
  BY RenameMoves
<1>4. /\ src[c] \in Paths /\ dst[c] \in TrashPlaces /\ bin[dst[c]] = None
      /\ \A p \in Paths : archive'[p] = IF p = src[c] THEN None ELSE archive[p]
      /\ \A t \in TrashPlaces : bin'[t] = IF t = dst[c] THEN f ELSE bin[t]
      /\ \A r \in Runners : pc[r] \in {"create", "register"} \union Holding => Dest(r) # src[c]
      /\ handle' = handle
  BY <1>3, RenameMoves
<1>5. at'[c] = "record" /\ Trashed' = Trashed
  BY <1>1 DEF WebInv, RequestTypes, Trashed
<1>6. \A d \in Clients : d # c => at[d] = "idle" /\ at'[d] = "idle"
  BY <1>1, OthersRest DEF WebInv, RequestTypes
<1>7. Leaving = {} /\ Leaving' = {f} /\ \A d \in Clients : at[d] # "record"
  BY <1>1, <1>3, <1>5, <1>6 DEF Leaving
<1>8. RunInv'
  <2>1. archive' \in [Paths -> Files \union {None, Partial}]
    BY <1>4 DEF Rename, RunInv, TypeOK
  <2>2. \A r \in Runners : pc[r] \in {"create", "register"} \union Holding => archive'[Dest(r)] = archive[Dest(r)]
    <3> SUFFICES ASSUME NEW r \in Runners, pc[r] \in {"create", "register"} \union Holding
                 PROVE  archive'[Dest(r)] = archive[Dest(r)]
      OBVIOUS
    <3>1. Dest(r) \in Paths
      BY DestIsPath DEF RunInv, Processing, Holding
    <3> QED
      BY <1>4, <3>1
  <2>3. Beside
    BY <1>1, <2>1, <2>2 DEF Beside, RunInv, TypeOK, lockVars, tables
  <2> QED
    BY <2>3, BesideKeepsRun
<1>9. RequestTypes'
  <2>1. bin' \in [TrashPlaces -> Files \union {None}]
    BY <1>4 DEF Rename, WebInv, RequestTypes
  <2> QED
    BY <1>1, <1>4, <2>1 DEF WebInv, RequestTypes
<1>10. RequestsKnow'
  <2>1. Names(src[c], row[c])' /\ row'[c] \in Files /\ src'[c] \in Paths
    <3>1. Names(src[c], row[c]) /\ row[c] \in Files /\ src[c] \in Paths
      BY <1>1 DEF WebInv, RequestsKnow, Knows
    <3> QED
      BY <1>1, <1>2, <3>1 DEF Names
  <2>2. dst'[c] \in TrashPlaces /\ bin'[dst'[c]] = row'[c]
    BY <1>1, <1>3, <1>4
  <2>3. Knows(c)'
    BY <1>5, <2>1, <2>2 DEF Knows
  <2> QED
    BY <1>6, <2>3, OneKnows
<1>11. RowsApart' /\ WorkIsNew'
  BY <1>2, <1>5, SameRows DEF WebInv, RowsApart, WorkIsNew, HasRow, Registered, Trashed
<1>12. RowsHeld'
  <2> SUFFICES ASSUME NEW g \in Files \ {f}, NEW p \in Paths, Names(p, g) PROVE archive'[p] = g
    BY <1>2, <1>7 DEF RowsHeld, Names
  <2>1. archive[p] = g
    BY <1>7 DEF WebInv, RowsHeld
  <2> QED
    BY <1>3, <1>4, <2>1
<1>13. BinHeld'
  <2> SUFFICES ASSUME NEW g \in Trashed \ condemned PROVE bin'[binned[g]] = g
    BY <1>2, <1>5 DEF BinHeld
  <2>1. bin[binned[g]] = g /\ g \in Files /\ binned[g] \in TrashPlaces
    BY DEF WebInv, BinHeld, Trashed, RequestTypes
  <2>2. binned[g] # dst[c]
    BY <1>4, <2>1, FilesAssumption
  <2> QED
    BY <1>4, <2>1, <2>2
<1>14. BinKnown'
  <2> SUFFICES ASSUME NEW t \in TrashPlaces, bin'[t] \in Files
               PROVE  \/ bin'[t] \in condemned
                      \/ binned[bin'[t]] = t
                      \/ \E d \in Clients : at'[d] = "record" /\ row'[d] = bin'[t] /\ dst'[d] = t
    BY <1>2 DEF BinKnown
  <2>1. CASE t = dst[c]
    BY <1>1, <1>3, <1>4, <1>5, <2>1
  <2>2. CASE t # dst[c]
    <3>1. bin'[t] = bin[t]
      BY <1>4, <2>2
    <3>2. bin[t] \in condemned \/ binned[bin[t]] = t
      BY <1>7, <3>1 DEF WebInv, BinKnown
    <3> QED
      BY <3>1, <3>2
  <2> QED
    BY <2>1, <2>2
<1>15. Kept'
  <2> SUFFICES ASSUME NEW g \in owed \ condemned, g \notin source
               PROVE  \/ \E p \in Paths : archive'[p] = g
                      \/ \E t \in TrashPlaces : bin'[t] = g
    BY <1>2 DEF Kept
  <2>1. g \in Files
    BY DEF RunInv, TypeOK
  <2>2. CASE g = f
    BY <1>4, <2>2
  <2>3. ASSUME g # f, NEW p \in Paths, archive[p] = g PROVE archive'[p] = g
    BY <1>3, <1>4, <2>3
  <2>4. ASSUME NEW t \in TrashPlaces, bin[t] = g PROVE bin'[t] = g
    BY <1>4, <2>1, <2>4, FilesAssumption
  <2> QED
    BY <2>2, <2>3, <2>4 DEF WebInv, Kept
<1> QED
  BY <1>8, <1>9, <1>10, <1>11, <1>12, <1>13, <1>14, <1>15, CarefulKeepsOne DEF WebInv

(* A file loses its row outside the trash, and may have one in it.         *)
LEMMA RowTaken ==
  ASSUME RunInv, WebInv, NEW f \in Files, registry' = Without(f),
         UNCHANGED <<source, arrivals, pc, cur>>,
         \A g \in Files : g # f => binned'[g] = binned[g],
         binned'[f] # None => HasRow(f)
  PROVE  /\ registry' \in [Paths -> Seq(Files)]
         /\ \A g \in Files : \A p \in Paths : Names(p, g)' => g # f /\ Names(p, g)
         /\ \A g \in Files : \A p \in Paths : g # f /\ Names(p, g) => Names(p, g)'
         /\ RowsApart' /\ WorkIsNew'
<1>1. RowsApart
  BY DEF WebInv
<1>2. /\ registry' \in [Paths -> Seq(Files)]
      /\ \A g \in Files : \A p \in Paths : Names(p, g)' => g # f /\ Names(p, g)
      /\ \A g \in Files : \A p \in Paths : g # f /\ Names(p, g) => Names(p, g)'
      /\ \A g \in Files, p \in Paths : \A i, j \in DOMAIN registry'[p] :
            registry'[p][i] = g /\ registry'[p][j] = g => i = j
  <2>1. \A p \in Paths, g \in Files :
           (\E i \in DOMAIN registry'[p] : registry'[p][i] = g) <=> g # f /\ Names(p, g)
    BY <1>1, WithoutRows
  <2>2. registry' \in [Paths -> Seq(Files)]
    BY <1>1, WithoutRows
  <2>3. \A g \in Files, p \in Paths : \A i, j \in DOMAIN registry'[p] :
            registry'[p][i] = g /\ registry'[p][j] = g => i = j
    BY <1>1, WithoutRows
  <2>4. \A g \in Files : \A p \in Paths : Names(p, g)' => g # f /\ Names(p, g)
    BY <2>1 DEF Names
  <2>5. \A g \in Files : \A p \in Paths : g # f /\ Names(p, g) => Names(p, g)'
    BY <2>1 DEF Names
  <2> QED
    BY <2>2, <2>3, <2>4, <2>5
<1>3. \A g \in Files : (Registered(g)' => g # f /\ Registered(g)) /\ (HasRow(g)' => HasRow(g))
  <2> SUFFICES ASSUME NEW g \in Files
               PROVE  (Registered(g)' => g # f /\ Registered(g)) /\ (HasRow(g)' => HasRow(g))
    OBVIOUS
  <2>1. ASSUME Registered(g)' PROVE g # f /\ Registered(g)
    <3>1. PICK p \in Paths : Names(p, g)'
      BY <2>1 DEF Registered, Names
    <3> QED
      BY <1>2, <3>1, NamesRegister
  <2>2. g \in Trashed' => HasRow(g)
    BY DEF Trashed, HasRow
  <2> QED
    BY <2>1, <2>2 DEF HasRow
<1>4. RowsApart'
  <2> SUFFICES ASSUME NEW g \in Files
               PROVE  /\ \A p, q \in Paths : \A i \in DOMAIN registry'[p], j \in DOMAIN registry'[q] :
                            registry'[p][i] = g /\ registry'[q][j] = g => p = q /\ i = j
                      /\ Registered(g)' => g \notin Trashed'
                      /\ HasRow(g)' => g \notin source
                      /\ HasRow(g)' \/ g \in source => arrivals[g] = 1
    BY DEF RowsApart
  <2>1. ASSUME NEW p \in Paths, NEW q \in Paths, Names(p, g)', Names(q, g)' PROVE p = q
    <3>1. Names(p, g) /\ Names(q, g)
      BY <1>2, <2>1
    <3> QED
      BY <1>1, <3>1 DEF RowsApart, Names
  <2>2. \A p, q \in Paths : \A i \in DOMAIN registry'[p], j \in DOMAIN registry'[q] :
            registry'[p][i] = g /\ registry'[q][j] = g => p = q /\ i = j
    <3> SUFFICES ASSUME NEW p \in Paths, NEW q \in Paths,
                        NEW i \in DOMAIN registry'[p], NEW j \in DOMAIN registry'[q],
                        registry'[p][i] = g, registry'[q][j] = g
                 PROVE  p = q /\ i = j
      OBVIOUS
    <3>1. p = q
      BY <2>1 DEF Names
    <3> QED
      BY <1>2, <3>1
  <2>3. Registered(g)' => g \notin Trashed'
    BY <1>1, <1>3 DEF RowsApart, Trashed
  <2> QED
    BY <1>1, <1>3, <2>2, <2>3 DEF RowsApart
<1>5. WorkIsNew'
  <2> SUFFICES ASSUME NEW q \in Runners
               PROVE  /\ pc[q] \in Processing => ~HasRow(cur[q])' /\ arrivals[cur[q]] = 1
                      /\ pc[q] = "register" => cur[q] \notin source
    BY DEF WorkIsNew
  <2>1. ASSUME pc[q] \in Processing PROVE ~HasRow(cur[q])'
    <3>1. cur[q] \in Files /\ ~HasRow(cur[q]) /\ cur'[q] = cur[q]
      BY <2>1, DestIsPath DEF RunInv, WebInv, WorkIsNew
    <3> QED
      BY <1>3, <3>1
  <2> QED
    BY <2>1 DEF WebInv, WorkIsNew
<1> QED
  BY <1>2, <1>4, <1>5

(* The row follows the file to the trash.                                  *)
LEMMA RecordKeeps ==
  ASSUME RunInv, WebInv, Careful, NEW c \in Clients, Record(c)
  PROVE  RunInv' /\ WebInv'
<1>1. /\ at[c] = "record" /\ at[c] # "idle" /\ Answer(c) /\ registry' = Without(row[c])
      /\ binned' = [f \in Files |-> IF f = row[c] /\ Registered(f) THEN dst[c] ELSE binned[f]]
      /\ UNCHANGED <<lockVars, disk, history, owner, job, bin, handle, condemned>>
  BY DEF Record
<1>2. UNCHANGED <<lock, phase, crashes, errors, source, archive, history, owed, arrivals, pc, todo, cur, slot, result, bin, handle, condemned>>
  BY <1>1 DEF lockVars, disk, owner, job
<1>3. /\ row[c] \in Files /\ src[c] \in Paths /\ Names(src[c], row[c])
      /\ dst[c] \in TrashPlaces /\ bin[dst[c]] = row[c]
  BY <1>1 DEF WebInv, RequestsKnow, Knows
<1>4. PICK f \in Files : f = row[c]
  BY <1>3
<1>5. Registered(f) /\ HasRow(f)
  BY <1>3, <1>4, NamesRegister
<1>6. \A g \in Files : binned'[g] = IF g = f THEN dst[c] ELSE binned[g]
  BY <1>1, <1>4, <1>5
<1>7. /\ registry' \in [Paths -> Seq(Files)]
      /\ \A g \in Files : \A p \in Paths : Names(p, g)' => g # f /\ Names(p, g)
      /\ RowsApart' /\ WorkIsNew'
  BY <1>1, <1>2, <1>4, <1>5, <1>6, RowTaken
<1>8. Leaving = {f}
  BY <1>1, <1>4, OthersRest DEF Leaving
<1>9. RequestsKnow' /\ OneRequest' /\ Leaving' = {}
  BY <1>1, Answered
<1>10. RunInv'
  <2>1. Beside
    BY <1>1, <1>2, <1>7 DEF Beside, RunInv, TypeOK
  <2> QED
    BY <2>1, BesideKeepsRun
<1>11. RequestTypes'
  <2>1. binned' \in [Files -> TrashPlaces \union {None}]
    BY <1>1, <1>3 DEF WebInv, RequestTypes
  <2> QED
    BY <1>1, <1>2, <2>1, Answered DEF WebInv, RequestTypes
<1>12. RowsHeld'
  BY <1>2, <1>7, <1>8, <1>9 DEF WebInv, RowsHeld
<1>13. BinHeld'
  BY <1>2, <1>3, <1>4, <1>6 DEF WebInv, BinHeld, Trashed
<1>14. BinKnown'
  <2> SUFFICES ASSUME NEW t \in TrashPlaces, bin[t] \in Files, bin[t] \notin condemned
               PROVE  binned'[bin[t]] = t
    BY <1>2 DEF BinKnown
  <2>1. CASE binned[bin[t]] = t
    <3>1. f \notin Trashed
      BY <1>5 DEF WebInv, RowsApart
    <3>2. bin[t] \in Trashed
      BY <2>1, SharedAssumption DEF Trashed
    <3> QED
      BY <1>6, <2>1, <3>1, <3>2
  <2>2. ASSUME NEW d \in Clients, at[d] = "record", row[d] = bin[t], dst[d] = t PROVE binned'[bin[t]] = t
    <3>1. d = c
      BY <1>1, <2>2, OthersRest
    <3> QED
      BY <1>4, <1>6, <2>2, <3>1
  <2> QED
    BY <2>1, <2>2 DEF WebInv, BinKnown
<1>15. Kept'
  BY <1>2 DEF WebInv, Kept
<1> QED
  BY <1>7, <1>9, <1>10, <1>11, <1>12, <1>13, <1>14, <1>15 DEF WebInv

(* A removed file, or one passed over, loses its row.                      *)
LEMMA DeleteRecordKeeps ==
  ASSUME RunInv, WebInv, Careful, NEW c \in Clients, DeleteRecord(c)
  PROVE  RunInv' /\ WebInv'
<1>1. /\ at[c] = "forget" /\ NextItem(c, listed[c])
      /\ UNCHANGED <<lock, phase, crashes, disk, history, owner, job, bin, handle, condemned>>
  BY DEF DeleteRecord
<1>2. UNCHANGED <<source, archive, history, owed, arrivals, pc, todo, cur, slot, result>>
  BY <1>1 DEF disk, owner, job
<1>3. Trashed \subseteq condemned /\ row[c] \in condemned /\ row[c] \in Files
  BY <1>1 DEF WebInv, RequestsKnow, Knows, RequestTypes
<1>4. \A d \in Clients : at[d] # "record"
  BY <1>1, OthersRest
<1>5. Leaving = {}
  BY <1>4 DEF Leaving
<1>6. \A t \in TrashPlaces : bin[t] \in Files => bin[t] \in condemned
  <2> SUFFICES ASSUME NEW t \in TrashPlaces, bin[t] \in Files PROVE bin[t] \in condemned
    OBVIOUS
  <2>1. binned[bin[t]] = t => bin[t] \in Trashed
    BY SharedAssumption DEF Trashed
  <2> QED
    BY <1>3, <1>4, <2>1 DEF WebInv, BinKnown
<1>7. /\ registry' \in [Paths -> Seq(Files)] /\ binned' \in [Files -> TrashPlaces \union {None}]
      /\ Trashed' \subseteq condemned /\ (UNCHANGED errors \/ Error)
      /\ \A g \in Files : \A p \in Paths : Names(p, g)' => Names(p, g)
      /\ RowsApart' /\ WorkIsNew'
  <2>1. CASE binned' = [binned EXCEPT ![row[c]] = None] /\ registry' = Without(row[c]) /\ UNCHANGED errors
    <3>1. binned \in [Files -> TrashPlaces \union {None}]
      BY DEF WebInv, RequestTypes
    <3>2. \A g \in Files : binned'[g] = IF g = row[c] THEN None ELSE binned[g]
      BY <1>3, <2>1, <3>1
    <3>3. /\ registry' \in [Paths -> Seq(Files)]
          /\ \A g \in Files : \A p \in Paths : Names(p, g)' => g # row[c] /\ Names(p, g)
          /\ RowsApart' /\ WorkIsNew'
      BY <1>2, <1>3, <2>1, <3>2, RowTaken
    <3>4. Trashed' \subseteq condemned
      BY <1>3, <3>2 DEF Trashed
    <3> QED
      BY <1>3, <2>1, <3>1, <3>3, <3>4
  <2>2. CASE Error /\ UNCHANGED <<binned, registry>>
    <3>1. RowsApart' /\ WorkIsNew'
      BY <1>2, <2>2, SameRows DEF WebInv, RowsApart, WorkIsNew, HasRow, Registered, Trashed
    <3> QED
      BY <1>3, <2>2, <3>1 DEF Names, Trashed, WebInv, RequestTypes, RunInv, TypeOK
  <2> QED
    BY <2>1, <2>2 DEF DeleteRecord
<1>8. RunInv'
  <2>1. Beside
    BY <1>1, <1>2, <1>7 DEF Beside, RunInv, TypeOK
  <2> QED
    BY <2>1, BesideKeepsRun
<1>9. /\ RequestsKnow' /\ Leaving' = {} /\ RequestTypes'
  <2>1. condemned' = condemned /\ listed[c] \in SUBSET listed[c]
    BY <1>1
  <2>2. /\ RequestsKnow' /\ Leaving' = {}
        /\ row' \in [Clients -> Files \union {None}]
        /\ src' \in [Clients -> Paths \union {None}]
        /\ dst' \in [Clients -> TrashPlaces \union {None}]
        /\ listed' \in [Clients -> SUBSET (Files \X TrashPlaces)]
        /\ at' \in [Clients -> {"idle", "resolve", "rename", "record", "remove", "forget"}]
    BY <1>1, <1>7, <2>1, NextItemKnows
  <2> QED
    BY <1>1, <1>7, <2>2 DEF WebInv, RequestTypes
<1>10. RowsHeld'
  BY <1>2, <1>5, <1>7, <1>9 DEF WebInv, RowsHeld
<1>11. BinHeld'
  BY <1>1, <1>7 DEF BinHeld
<1>12. BinKnown'
  BY <1>1, <1>6 DEF BinKnown
<1>13. Kept'
  BY <1>1, <1>2 DEF WebInv, Kept
<1> QED
  BY <1>7, <1>8, <1>9, <1>10, <1>11, <1>12, <1>13, CarefulKeepsOne DEF WebInv

-----------------------------------------------------------------------------
(* The specification.                                                      *)

(* An empty archive, and nobody at work.                                   *)
LEMMA InitSharedInv == SharedInit => SharedInv
<1> SUFFICES ASSUME SharedInit PROVE RunInv /\ WebInv
  BY DEF SharedInv
<1>1. Init
  BY DEF SharedInit
<1>2. RunInv
  BY <1>1, InitSoloInv DEF SoloInv, PlaceKnown, RunInv, CopyKnown
<1>3. \A f, p : p \in Paths => ~Names(p, f)
  BY <1>1 DEF Init, Names
<1>4. Trashed = {} /\ Leaving = {}
  BY DEF SharedInit, Trashed, Leaving
<1>5. \A f \in Files : ~HasRow(f) /\ ~Registered(f) /\ f \notin source
  BY <1>1, <1>4 DEF Init, HasRow, Registered
<1>6. RequestTypes /\ OneRequest /\ RequestsKnow
  BY DEF SharedInit, RequestTypes, OneRequest, RequestsKnow, Knows
<1>7. RowsApart
  BY <1>1, <1>5 DEF RowsApart, Init
<1>8. WorkIsNew
  BY <1>1 DEF WorkIsNew, Processing, Init
<1>9. RowsHeld /\ BinHeld /\ BinKnown /\ Kept
  BY <1>1, <1>3, <1>4, FilesAssumption DEF SharedInit, Init, RowsHeld, BinHeld, BinKnown, Kept
<1> QED
  BY <1>2, <1>6, <1>7, <1>8, <1>9 DEF WebInv

(* The steps of the run and of careful requests keep the invariant.        *)
LEMMA StepSharedInv == SharedInv /\ [SharedNext /\ Careful]_sharedVars => SharedInv'
<1> SUFFICES ASSUME RunInv, WebInv, [SharedNext /\ Careful]_sharedVars PROVE RunInv' /\ WebInv'
  BY DEF SharedInv
<1>1. CASE RunStep /\ Exclusive'
  BY <1>1, RunStepKeeps DEF SharedInv
<1>2. CASE Web /\ Careful
  BY <1>2, DeleteRequestKeeps, ResolveKeeps, RenameKeeps, RecordKeeps, EmptyTrashKeeps,
     RemoveKeeps, RemoveFailsKeeps, DeleteRecordKeeps, AbortKeeps DEF Web
<1>3. CASE UNCHANGED sharedVars
  <2>1. Beside /\ Still
    BY <1>3 DEF sharedVars, vars, lockVars, disk, tables, owner, job, Beside, Still, Carries, RunInv, TypeOK
  <2>2. UNCHANGED <<bin, binned, request, handle, condemned>>
    BY <1>3 DEF sharedVars, trash
  <2> QED
    BY <2>1, <2>2, BesideKeepsRun, StillKeeps
<1> QED
  BY <1>1, <1>2, <1>3 DEF SharedNext

(* The invariant holds as long as users are careful.                       *)
THEOREM SharedInvHolds == CarefulSpec => []SharedInv
BY InitSharedInv, StepSharedInv, PTL DEF CarefulSpec

(* Next to careful requests, whatever fails and whenever the run or the    *)
(* server is killed, a file that was put in the source and not taken back  *)
(* is whole in the source, the archive or the trash, unless its own row    *)
(* was there when the trash was emptied.                                   *)
THEOREM NothingIsLostBesideRequests == CarefulSpec => []Kept
<1>1. SharedInv => Kept
  BY DEF SharedInv, WebInv
<1> QED
  BY <1>1, SharedInvHolds, PTL

(* Under the same conditions the rows that no delete is taking away name   *)
(* places of their own that hold their files, in the archive and in the    *)
(* trash.                                                                  *)
THEOREM RowsStayTrue == CarefulSpec => []RowsTrue
<1>1. SharedInv => RowsTrue
  <2> SUFFICES ASSUME RunInv, WebInv PROVE RowsTrue
    BY DEF SharedInv
  <2>1. ASSUME NEW f \in Files \ Leaving, Registered(f)
        PROVE  ArchivePath(f) \in Paths /\ archive[ArchivePath(f)] = f
    <3>1. f \notin Trashed
      BY <2>1 DEF WebInv, RowsApart
    <3>2. ArchivePath(f) \in Paths /\ Names(ArchivePath(f), f)
      BY <2>1, <3>1 DEF ArchivePath, Registered, Names
    <3> QED
      BY <3>2 DEF WebInv, RowsHeld
  <2>2. ASSUME NEW f \in Trashed \ condemned PROVE OnDisk(binned[f]) = f
    <3>1. binned[f] \in TrashPlaces /\ bin[binned[f]] = f
      BY DEF WebInv, BinHeld, Trashed, RequestTypes
    <3> QED
      BY <3>1, SharedAssumption DEF OnDisk
  <2>3. \A f \in Files \ Leaving : Registered(f) =>
           /\ archive[ArchivePath(f)] = f
           /\ \A g \in Files \ (Leaving \union {f}) : Registered(g) => ArchivePath(g) # ArchivePath(f)
    BY <2>1
  <2> QED
    BY <2>2, <2>3 DEF RowsTrue
<1> QED
  BY <1>1, SharedInvHolds, PTL

(* A step that leaves the job of the run as it is leaves its place alone.  *)
LEMMA StepUndisturbed ==
  ASSUME SharedInv, [SharedNext /\ Careful]_sharedVars,
         NEW r \in Runners, pc[r] \in {"create", "register"} \union Holding, UNCHANGED job
  PROVE  archive'[Dest(r)] = archive[Dest(r)]
<1>1. RunInv /\ WebInv /\ Dest(r) \in Paths
  BY DestIsPath DEF SharedInv, RunInv, Processing, Holding
<1>2. CASE UNCHANGED archive
  BY <1>2
<1>3. ASSUME NEW c \in Clients, Rename(c) PROVE archive'[Dest(r)] = archive[Dest(r)]
  BY <1>1, <1>3, RenameMoves
<1>4. ASSUME NEW c \in Clients, Remove(c) PROVE archive'[Dest(r)] = archive[Dest(r)]
  <2>1. PICK item \in listed[c] : archive' = [p \in Paths |-> IF p = item[2] THEN None ELSE archive[p]]
    BY <1>4 DEF Remove
  <2>2. item[2] \in TrashPlaces
    BY <1>1, <2>1 DEF WebInv, RequestTypes
  <2> QED
    BY <1>1, <2>1, <2>2, SharedAssumption
<1>5. ASSUME Web, \A d \in Clients : ~Rename(d) /\ ~Remove(d)
      PROVE  UNCHANGED archive
  BY <1>5 DEF Web, DeleteRequest, ResolveTrashPath, Record, EmptyTrash, RemoveFails, DeleteRecord, Abort, vars, disk
<1>6. ASSUME RunStep PROVE UNCHANGED archive
  <2>1. Next
    BY <1>6 DEF RunStep
  <2>2. ASSUME NEW q \in Runners, Copies(q) PROVE UNCHANGED archive
    BY <2>2 DEF Copies, job
  <2> QED
    BY <1>1, <2>1, <2>2, RunEffects DEF Still, RemoveSource, Register, Arrive, Withdraw, disk
<1> QED
  BY <1>2, <1>3, <1>4, <1>5, <1>6 DEF SharedNext, sharedVars, vars, disk, Web

(* No careful request touches the copy that a run is making or has not yet *)
(* registered, nor a place that the run has found free.                    *)
THEOREM RequestsLeaveTheRunAlone == CarefulSpec => RunUndisturbed
<1>1. SharedInv /\ [SharedNext /\ Careful]_sharedVars =>
         [\A r \in Runners :
             /\ pc[r] \in {"create", "register"} \union Holding
             /\ UNCHANGED job
             => archive'[Dest(r)] = archive[Dest(r)]]_sharedVars
  BY StepUndisturbed
<1> QED
  BY <1>1, SharedInvHolds, PTL DEF CarefulSpec, RunUndisturbed
=============================================================================
