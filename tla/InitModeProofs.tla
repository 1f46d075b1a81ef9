--------------------------- MODULE InitModeProofs ---------------------------
(* Theorems about InitMode, for any files, places and candidates.          *)
EXTENDS InitMode, TLAPS

(* The file in hand is where it was found until it is moved to the place   *)
(* chosen for it, which is free, and there until it is registered.         *)
CurHeld == pc \in {"probe", "move"} => Held(cur)
DestFree == pc = "move" => ~Held(dest)
DestHeld == pc = "register" => Held(dest)
Typed == InitTypeOK /\ CurHeld /\ DestFree /\ DestHeld

(* A path that the run has still to do holds a file without a row, so no   *)
(* place that was found free, and no place that has a row, is visited      *)
(* later; nor has the file in hand a row.  So it is for one job.           *)
ListedHeld == \A p \in todo : Held(p) /\ registry[p] = <<>>
CurFresh == pc \in {"probe", "move"} => registry[cur] = <<>> /\ cur \notin todo
DestFresh == pc = "register" => registry[dest] = <<>> /\ dest \notin todo
RowsHeld == \A p \in Places : registry[p] # <<>> => Held(p) /\ registry[p] = <<disk[p]>>
FreshRegistry == pc = "walk" => registry = Empty

Arranged ==
    /\ RowsHeld /\ FreshRegistry
    /\ ListedHeld /\ CurFresh /\ DestFresh

(* NothingLost and RegistryMatches with all they rest on.                  *)
InitInv == Typed /\ (blind = 0 => FilesSurvive)
RowsInv == Typed /\ (blind = 0 => Arranged)

-----------------------------------------------------------------------------
(* At first no run is under way.                                           *)
LEMMA TypedStart == ArchiveInit => Typed
<1> SUFFICES ASSUME ArchiveInit PROVE Typed
    OBVIOUS
<1>1. registry \in [Places -> Seq(Files)]
    BY DEF ArchiveInit, Empty
<1>2. clean \in BOOLEAN /\ settled \in BOOLEAN /\ both \in BOOLEAN
    BY DEF ArchiveInit
<1>3. errors \in 0..MaxErrors /\ blind \in 0..MaxBlind /\ slot \in Nat
    BY InitAssumption DEF ArchiveInit
<1>4. disk \in [Places -> Files \union {None}] /\ pc = "off" /\ todo = {}
    BY DEF ArchiveInit
<1>5. job \in 1..Jobs
    BY InitAssumption DEF ArchiveInit
<1> QED BY <1>1, <1>2, <1>3, <1>4, <1>5 DEF Typed, InitTypeOK, CurHeld, DestFree, DestHeld

(* Types, and that the file in hand is where the run believes it is.       *)
LEMMA TypedStep == Typed /\ [InitNext]_initVars => Typed'
<1> SUFFICES ASSUME Typed, [InitNext]_initVars PROVE Typed'
    OBVIOUS
<1> USE InitAssumption DEF Typed, InitTypeOK, CurHeld, DestFree, DestHeld, Held,
                          NoError, Skip, history, bounds
<1>e. ASSUME Error
      PROVE  /\ errors' \in 0..MaxErrors /\ blind' = blind
             /\ clean' \in BOOLEAN /\ settled' \in BOOLEAN
  <2>1. errors' \in 0..MaxErrors /\ blind' = blind
    BY <1>e DEF Error
  <2>2. clean' = FALSE /\ settled' = FALSE
    BY <1>e DEF Error
  <2> QED BY ONLY <2>1, <2>2
<1>1. CASE Start
    BY <1>1 DEF Start, Empty
<1>2. CASE Walk
  <2>1. PICK S \in SUBSET Places : Listed(S) /\ (NoError \/ Error)
    BY <1>2 DEF Walk
  <2> QED BY <2>1, <1>e DEF Listed
<1>3. ASSUME NEW p \in Places, PassOver(p) PROVE Typed'
    BY <1>3, <1>e DEF PassOver, Next
<1>4. ASSUME NEW p \in Places, Keep(p) PROVE Typed'
    BY <1>4 DEF Keep, Next
<1>5. ASSUME NEW p \in Places, TakeUp(p) PROVE Typed'
    BY <1>5, <1>e DEF TakeUp, Next
<1>6. CASE ProbeFree
  <2>1. Tried[slot] \in Places
    <3>1. disk[cur] \in Files /\ cur \in Places
      BY <1>6 DEF ProbeFree
    <3>2. Tried \in Seq(Places) /\ slot \in DOMAIN Tried
      BY <1>6, <3>1 DEF Tried, ProbeFree
    <3> HIDE DEF Typed, InitTypeOK
    <3> QED BY <3>2
  <2> QED BY <1>6, <2>1 DEF ProbeFree
<1>7. CASE ProbeNext
    BY <1>7, <1>e DEF ProbeNext
<1>8. CASE TooMany
    BY <1>8 DEF TooMany
<1>9. CASE Move
    BY <1>9 DEF Move, Moved
<1>10. CASE MoveFails
    BY <1>10, <1>e DEF MoveFails
<1>11. CASE Register
  <2>1. disk[dest] \in Files \union {None} /\ dest \in Places
    BY <1>11 DEF Register
  <2>2. disk[dest] \in Files
    BY <1>11 DEF Register
  <2> QED BY <1>11, <2>2 DEF Register
<1>12. CASE RegisterFails
    BY <1>12, <1>e DEF RegisterFails
<1>13. CASE Finish
    BY <1>13 DEF Finish, Over
<1>14. CASE RemoveUnseen
  <2>1. blind' \in 0..MaxBlind /\ errors' \in 0..MaxErrors
    BY <1>14 DEF RemoveUnseen, Over
  <2>2. clean' = FALSE /\ settled' = FALSE
    BY <1>14 DEF RemoveUnseen
  <2>3. disk' \in [Places -> Files \union {None}]
    BY <1>14 DEF RemoveUnseen
  <2>4. /\ registry' \in [Places -> Seq(Files)]
        /\ pc' \in {"off", "walk"} /\ job' \in 1..Jobs
        /\ todo' = {} /\ both' \in BOOLEAN /\ slot' \in Nat
    BY <1>14 DEF RemoveUnseen, Over
  <2> QED BY <2>1, <2>2, <2>3, <2>4
<1>15. CASE Kill
    BY <1>15 DEF Kill
<1>16. CASE UNCHANGED initVars
    BY <1>16 DEF initVars, run
<1> QED BY <1>1, <1>2, <1>3, <1>4, <1>5, <1>6, <1>7, <1>8, <1>9, <1>10, <1>11,
           <1>12, <1>13, <1>14, <1>15, <1>16 DEF InitNext, Step

-----------------------------------------------------------------------------
(* What os.Rename does: one file changes its place.                        *)
LEMMA MoveKeeps ==
    ASSUME Typed, Move
    PROVE  /\ cur \in Places /\ dest \in Places /\ dest # cur
           /\ disk[cur] # None /\ disk[dest] = None
           /\ disk'[dest] = disk[cur]
           /\ \A p \in Places \ {cur, dest} : disk'[p] = disk[p]
<1>1. /\ cur \in Places /\ dest \in Places /\ dest # cur
      /\ disk[cur] # None /\ disk[dest] = None
    BY DEF Typed, InitTypeOK, CurHeld, DestFree, Held, Move
<1>2. /\ disk'[dest] = disk[cur]
      /\ \A p \in Places \ {cur, dest} : disk'[p] = disk[p]
    BY <1>1 DEF Move, Moved, Typed, InitTypeOK
<1> QED BY <1>1, <1>2

(* Only Move and the removal of _duplicates change the disk.               *)
LEMMA DiskMoves == [InitNext]_initVars => disk' = disk \/ Move \/ RemoveUnseen
<1> SUFFICES ASSUME [InitNext]_initVars PROVE disk' = disk \/ Move \/ RemoveUnseen
    OBVIOUS
<1>1. CASE UNCHANGED initVars
    BY <1>1 DEF initVars
<1>2. CASE Start \/ Walk \/ Finish \/ Kill
    BY <1>2 DEF Start, Walk, Listed, Finish, Kill
<1>3. ASSUME NEW p \in Places, PassOver(p) \/ Keep(p) \/ TakeUp(p)
      PROVE  disk' = disk
    BY <1>3 DEF PassOver, Keep, TakeUp, Next
<1>4. CASE ProbeFree \/ ProbeNext \/ TooMany
    BY <1>4 DEF ProbeFree, ProbeNext, TooMany
<1>5. CASE MoveFails \/ Register \/ RegisterFails
    BY <1>5 DEF MoveFails, Register, RegisterFails
<1> QED BY <1>1, <1>2, <1>3, <1>4, <1>5 DEF InitNext, Step

(* The removal is counted.                                                 *)
LEMMA DiskStays ==
    Typed /\ [InitNext]_initVars => disk' = disk \/ Move \/ blind' # 0
BY DiskMoves, InitAssumption DEF RemoveUnseen, Typed, InitTypeOK

(* No step but the blind removal takes a file off the disk.                *)
LEMMA SurviveStep ==
    Typed /\ FilesSurvive /\ [InitNext]_initVars => blind' # 0 \/ FilesSurvive'
<1> SUFFICES ASSUME Typed, FilesSurvive, Move PROVE FilesSurvive'
    BY DiskStays DEF FilesSurvive
<1>1. ASSUME NEW f \in Files PROVE \E p \in Places : disk'[p] = f
  <2>1. PICK p \in Places : disk[p] = f
    BY DEF FilesSurvive
  <2>2. p # dest
    BY <1>1, <2>1, MoveKeeps, InitAssumption
  <2>3. CASE p = cur
    BY <2>1, <2>3, MoveKeeps
  <2>4. CASE p # cur
    BY <2>1, <2>2, <2>4, MoveKeeps
  <2> QED BY <2>3, <2>4
<1> QED BY <1>1 DEF FilesSurvive

-----------------------------------------------------------------------------
(* At first there are no rows.                                             *)
LEMMA ArrangedStart == ArchiveInit => Arranged
<1> SUFFICES ASSUME ArchiveInit PROVE Arranged
    OBVIOUS
<1>1. \A p \in Places : registry[p] = <<>>
    BY DEF ArchiveInit, Empty
<1> QED BY <1>1 DEF ArchiveInit, Arranged, RowsHeld, FreshRegistry, ListedHeld,
                    CurFresh, DestFresh

(* A run for one job registers each path once, and after it is done with   *)
(* it.                                                                     *)
LEMMA ArrangedStep ==
    ASSUME Jobs = 1, Typed, Arranged, [InitNext]_initVars, blind' = blind
    PROVE  Arranged'
<1> USE InitAssumption DEF Typed, InitTypeOK, CurHeld, DestFree, DestHeld, Arranged,
        RowsHeld, FreshRegistry, ListedHeld, CurFresh, DestFresh, Held,
        NoError, Skip
<1>1. CASE Start
  <2>1. \A p \in Places : registry'[p] = <<>>
    BY <1>1 DEF Start, Empty
  <2> QED BY <1>1, <2>1 DEF Start
<1>2. CASE Walk
  <2>1. PICK S \in SUBSET {p \in Places : Held(p)} : Listed(S)
    BY <1>2 DEF Walk
  <2>2. \A p \in Places : registry[p] = <<>>
    BY <1>2 DEF Walk, Empty
  <2> QED BY <2>1, <2>2 DEF Listed
<1>3. ASSUME NEW p \in Places, PassOver(p) PROVE Arranged'
    BY <1>3 DEF PassOver, Next
<1>4. ASSUME NEW p \in Places, Keep(p) PROVE Arranged'
    BY <1>4 DEF Keep, Next
<1>5. ASSUME NEW p \in Places, TakeUp(p) PROVE Arranged'
    BY <1>5 DEF TakeUp, Next
<1>6. CASE ProbeFree
    BY <1>6 DEF ProbeFree
<1>7. CASE ProbeNext
    BY <1>7 DEF ProbeNext
<1>8. CASE TooMany
    BY <1>8 DEF TooMany
<1>9. CASE Move
  <2>1. registry' = registry /\ todo' = todo /\ dest' = dest /\ pc' = "register"
    BY <1>9 DEF Move
  <2>2. \A p \in Places : registry[p] # <<>> => p # cur /\ p # dest
    BY <1>9, MoveKeeps DEF Move
  <2>3. RowsHeld'
    BY <1>9, MoveKeeps, <2>1, <2>2
  <2>4. \A p \in todo : p # cur /\ p # dest
    BY <1>9, MoveKeeps DEF Move
  <2>5. ListedHeld' /\ DestFresh'
    BY <1>9, MoveKeeps, <2>1, <2>2, <2>4
  <2> QED BY <2>1, <2>3, <2>5
<1>10. CASE MoveFails
    BY <1>10 DEF MoveFails
<1>11. CASE Register
  <2>1. dest \in Places /\ registry[dest] = <<>> /\ dest \notin todo /\ disk[dest] \in Files
    BY <1>11 DEF Register
  <2>2. /\ registry'[dest] = Append(registry[dest], disk[dest])
        /\ \A p \in Places \ {dest} : registry'[p] = registry[p]
    BY <1>11, <2>1 DEF Register
  <2>3. registry'[dest] = <<disk[dest]>>
    BY <2>1, <2>2
  <2>4. disk' = disk /\ todo' = todo /\ pc' = "next"
    BY <1>11 DEF Register
  <2>5. RowsHeld'
    BY <2>1, <2>2, <2>3, <2>4
  <2> QED BY <2>1, <2>2, <2>4, <2>5
<1>12. CASE RegisterFails
    BY <1>12 DEF RegisterFails
<1>13. CASE Finish
    BY <1>13 DEF Finish, Over
<1>14. CASE RemoveUnseen
    BY <1>14 DEF RemoveUnseen
<1>15. CASE Kill
    BY <1>15 DEF Kill
<1>16. CASE UNCHANGED initVars
    BY <1>16 DEF initVars, run
<1> QED BY <1>1, <1>2, <1>3, <1>4, <1>5, <1>6, <1>7, <1>8, <1>9, <1>10, <1>11,
           <1>12, <1>13, <1>14, <1>15, <1>16 DEF InitNext, Step

(* Only a failed look into _duplicates counts as blind, and it stays so.   *)
LEMMA BlindStays == Typed /\ [InitNext]_initVars => blind' = blind \/ blind' # 0
<1> SUFFICES ASSUME Typed, [InitNext]_initVars PROVE blind' = blind \/ blind' # 0
    OBVIOUS
<1>1. CASE RemoveUnseen
    BY <1>1, InitAssumption DEF RemoveUnseen, Typed, InitTypeOK
<1>2. CASE UNCHANGED initVars
    BY <1>2 DEF initVars, bounds
<1>3. CASE Start \/ Walk \/ Finish \/ Kill
    BY <1>3 DEF Start, Walk, Finish, Kill, NoError, Error, bounds
<1>4. ASSUME NEW p \in Places, PassOver(p) \/ Keep(p) \/ TakeUp(p)
      PROVE  blind' = blind
    BY <1>4 DEF PassOver, Keep, TakeUp, NoError, Error, bounds
<1>5. CASE ProbeFree \/ ProbeNext \/ TooMany
    BY <1>5 DEF ProbeFree, ProbeNext, TooMany, NoError, Error, bounds
<1>6. CASE Move \/ MoveFails \/ Register \/ RegisterFails
    BY <1>6 DEF Move, MoveFails, Register, RegisterFails, NoError, Error, bounds
<1> QED BY <1>1, <1>2, <1>3, <1>4, <1>5, <1>6 DEF InitNext, Step

-----------------------------------------------------------------------------
(* Whatever fails and whenever a run is killed, each file stays below the  *)
(* directory, unless _duplicates could not be read when it was to be       *)
(* removed (main.go, runInitMode).                                         *)
THEOREM InitKeepsFiles == InitSpec => []NothingLost
<1>1. ArchiveInit => InitInv
    BY TypedStart, InitAssumption DEF InitInv, ArchiveInit, FilesSurvive
<1>2. InitInv /\ [InitNext]_initVars => InitInv'
  <2> SUFFICES ASSUME InitInv, [InitNext]_initVars PROVE InitInv'
    OBVIOUS
  <2>1. Typed'
    BY TypedStep DEF InitInv
  <2>2. blind' = 0 => FilesSurvive'
    BY BlindStays, SurviveStep DEF InitInv
  <2> QED BY <2>1, <2>2 DEF InitInv
<1>3. InitInv => NothingLost
    BY DEF InitInv, NothingLost
<1> QED BY <1>1, <1>2, <1>3, PTL DEF InitSpec

(* For a directory that is the destination of one job, the rows describe   *)
(* the disk at every moment of every run (main.go, runInitMode and         *)
(* logFileRegistry), with the same exception.                              *)
THEOREM OneJobRegistry == ASSUME Jobs = 1 PROVE InitSpec => []RegistryMatches
<1>1. ArchiveInit => RowsInv
    BY TypedStart, ArrangedStart DEF RowsInv
<1>2. RowsInv /\ [InitNext]_initVars => RowsInv'
  <2> SUFFICES ASSUME RowsInv, [InitNext]_initVars PROVE RowsInv'
    OBVIOUS
  <2>1. Typed'
    BY TypedStep DEF RowsInv
  <2>2. blind' = blind \/ blind' # 0
    BY BlindStays DEF RowsInv
  <2>3. blind' = 0 => Arranged'
    BY <2>2, ArrangedStep DEF RowsInv
  <2> QED BY <2>1, <2>3 DEF RowsInv
<1>3. RowsInv => RegistryMatches
    BY DEF RowsInv, Arranged, RowsHeld, RegistryMatches
<1> QED BY <1>1, <1>2, <1>3, PTL DEF InitSpec

-----------------------------------------------------------------------------
(* What a run has arranged stays.                                          *)

(* The places where a file can ever be.                                    *)
Reached ==
    Found \union {p \in Places : \E f \in Files, q \in Places :
                      \E i \in DOMAIN Candidates[f][q] : p = Candidates[f][q][i]}

(* The duplicates of a file that handleCollision names are names of        *)
(* duplicates of its first choice to isExistingDuplicateFile, as they are  *)
(* for names that do not end in _01 or the like themselves.                *)
PlainNames ==
    \A f \in Files, p \in Reached \ Dated : \A i \in DOMAIN Candidates[f][p] :
        LET c == Candidates[f][p]
        IN  \/ c[i] = p
            \/ c[i] \in Dated /\ i = 1
            \/ c[i] \in DOMAIN Original /\ Original[c[i]] = c[1]

(* No place is left for the file at p.                                     *)
AllTaken(p) == \A i \in DOMAIN Candidates[disk[p]][p] : Held(Candidates[disk[p]][p][i])

(* The file at p is left there by a run in which nothing fails.            *)
Placed(p) == Stays(p) \/ AllTaken(p)

(* It is still to be done, or in hand.                                     *)
Underway(p) == p \in todo \/ (pc \in {"probe", "move"} /\ p = cur)

(* No file is anywhere else.                                               *)
HeldReached == \A p \in Places : Held(p) => p \in Reached

(* A file in hand is neither in a dated directory nor ignored, and goes to *)
(* one of its candidates.                                                  *)
Movable ==
    /\ pc \in {"probe", "move"} => cur \notin Dated \union Ignored
    /\ pc = "move" => dest \in Reached

(* When no run is under way nothing is left to do.                         *)
OffIdle == pc = "off" => todo = {}

(* What is known of the file in hand while nothing has failed: it is to be *)
(* moved, and the places before the next one tried, or before the one      *)
(* chosen, are taken.                                                      *)
Probing ==
    /\ pc \in {"probe", "move"} => ~Stays(cur)
    /\ pc = "probe" => slot >= 1 /\ \A i \in DOMAIN Tried : i < slot => Held(Tried[i])
    /\ pc = "move" => \E i \in DOMAIN Tried :
          Tried[i] = dest /\ \A j \in DOMAIN Tried : j < i => Held(Tried[j])

(* Every file is where it is to be, or its turn has yet to come.           *)
AllPlaced == \A p \in Places \ Ignored : Held(p) => Placed(p) \/ Underway(p)

(* A run in which nothing has failed.                                      *)
CleanPart == Probing /\ (pc \notin {"off", "walk"} => AllPlaced)

(* After one that ended so.                                                *)
SettledPart ==
    /\ \A p \in Places \ Ignored : Held(p) => Placed(p)
    /\ pc # "move"
    /\ pc = "probe" => AllTaken(cur)

(* What holds whatever has failed.                                         *)
PlacesInv == Typed /\ HeldReached /\ Movable /\ OffIdle

(* SettledStays with all it rests on.                                      *)
SettledInv ==
    /\ PlacesInv
    /\ clean => CleanPart
    /\ settled => SettledPart

(* Every file has its row, has no place left, or has its turn still to     *)
(* come.                                                                   *)
AllRegistered ==
    pc # "walk" => \A p \in Places \ Ignored : Held(p) =>
        \/ registry[p] = <<disk[p]>> \/ (p \notin Dated /\ AllTaken(p))
        \/ Underway(p) \/ (pc = "register" /\ p = dest)

(* CleanRunRegistersAll with all it rests on, for one job.                 *)
RegisterInv ==
    /\ SettledInv
    /\ clean => Arranged /\ AllRegistered

-----------------------------------------------------------------------------
(* The places tried for the file in hand are places of the directory.      *)
LEMMA TriedPlaces ==
    ASSUME Typed, pc \in {"probe", "move"}
    PROVE  /\ cur \in Places /\ disk[cur] \in Files
           /\ Tried \in Seq(Places)
           /\ \A i \in DOMAIN Tried : i \in Nat /\ i >= 1 /\ Tried[i] \in Places
<1>1. cur \in Places /\ disk[cur] \in Files
    BY DEF Typed, InitTypeOK, CurHeld, Held
<1>2. Tried \in Seq(Places)
    BY <1>1, InitAssumption DEF Tried
<1> QED BY <1>1, <1>2

(* Moves lead to candidates, and leave dated directories and ignored files *)
(* alone.                                                                  *)
LEMMA PlacesStep == PlacesInv /\ [InitNext]_initVars => PlacesInv'
<1> SUFFICES ASSUME PlacesInv, [InitNext]_initVars PROVE PlacesInv'
    OBVIOUS
<1>0. Typed /\ Typed'
    BY TypedStep DEF PlacesInv
<1> SUFFICES HeldReached' /\ Movable' /\ OffIdle'
    BY <1>0 DEF PlacesInv
<1> USE DEF PlacesInv, HeldReached, Movable, OffIdle, Held, Skip
<1>1. CASE Start \/ Kill
    BY <1>1 DEF Start, Kill
<1>2. CASE Walk
    BY <1>2 DEF Walk, Listed
<1>3. ASSUME NEW p \in Places, PassOver(p) PROVE HeldReached' /\ Movable' /\ OffIdle'
    BY <1>3 DEF PassOver, Next
<1>4. ASSUME NEW p \in Places, Keep(p) PROVE HeldReached' /\ Movable' /\ OffIdle'
    BY <1>4 DEF Keep, Next
<1>5. ASSUME NEW p \in Places, TakeUp(p) PROVE HeldReached' /\ Movable' /\ OffIdle'
    <2>1. p \notin Dated \union Ignored
        BY <1>5, InitAssumption DEF TakeUp, Stays
    <2> QED BY <1>5, <2>1 DEF TakeUp, Next
<1>6. CASE ProbeFree
    <2>1. Tried[slot] \in Reached
        BY <1>0, <1>6, TriedPlaces DEF ProbeFree, Reached, Tried
    <2> QED BY <1>6, <2>1 DEF ProbeFree
<1>7. CASE ProbeNext \/ TooMany
    BY <1>7 DEF ProbeNext, TooMany
<1>8. CASE Move
    <2>1. HeldReached'
        BY <1>0, <1>8, MoveKeeps DEF Move
    <2> QED BY <1>8, <2>1 DEF Move
<1>9. CASE MoveFails \/ Register \/ RegisterFails
    BY <1>9 DEF MoveFails, Register, RegisterFails
<1>10. CASE Finish \/ RemoveUnseen
    BY <1>10 DEF Finish, RemoveUnseen, Over
<1>11. CASE UNCHANGED initVars
    BY <1>11 DEF initVars, run
<1> QED BY <1>1, <1>2, <1>3, <1>4, <1>5, <1>6, <1>7, <1>8, <1>9, <1>10, <1>11 DEF InitNext, Step

(* Where the disk stays as it is, so does what is said of it.              *)
LEMMA SameDisk ==
    ASSUME disk' = disk, NEW p
    PROVE  /\ Held(p)' <=> Held(p)
           /\ Stays(p)' <=> Stays(p)
           /\ AllTaken(p)' <=> AllTaken(p)
           /\ Placed(p)' <=> Placed(p)
BY DEF Held, Stays, AllTaken, Placed

(* A move in a run without failures leaves every other file as it was      *)
(* arranged, since the place it vacates is nobody's candidate, and the new *)
(* place is one to stay at.                                                *)
LEMMA MoveArranges ==
    ASSUME PlainNames, PlacesInv, Probing, Move
    PROVE  /\ \A p \in Places \ {cur, dest} : Held(p) =>
                 (Stays(p) => Stays(p)') /\ (p \notin Dated /\ AllTaken(p) => AllTaken(p)')
           /\ Stays(dest)'
<1>0. Typed /\ pc = "move" /\ ~Stays(cur) /\ cur \notin Dated
    BY DEF PlacesInv, Probing, Move, Movable
<1>1. \A q \in Places \ {cur} : Held(q) => Held(q)'
    BY <1>0, MoveKeeps DEF Held
<1>2. \A q \in Dated : q \in Places \ {cur}
    BY <1>0, InitAssumption
<1>3. ASSUME NEW p \in Places \ {cur, dest}, Stays(p) PROVE Stays(p)'
    <2>1. CASE p \in Dated
        BY <2>1 DEF Stays
    <2>2. CASE p \in DOMAIN Original /\ Held(Original[p])
        <3>1. Original[p] \in Dated
            BY <2>2, InitAssumption
        <3> QED BY <1>1, <1>2, <2>2, <3>1 DEF Stays
    <2> QED BY <1>3, <2>1, <2>2 DEF Stays
<1>4. ASSUME NEW p \in Places \ {cur, dest}, Held(p), AllTaken(p), p \notin Dated
      PROVE  AllTaken(p)'
    <2> PICK c : c = Candidates[disk[p]][p]
        OBVIOUS
    <2>1. p \in Reached /\ disk[p] \in Files /\ disk'[p] = disk[p]
        BY <1>0, <1>4, MoveKeeps DEF PlacesInv, HeldReached, Held, Typed, InitTypeOK
    <2>2. c \in Seq(Places)
        BY <2>1, InitAssumption
    <2>3. ASSUME NEW i \in DOMAIN c PROVE c[i] # cur
        <3>1. \/ c[i] = p
              \/ c[i] \in Dated
              \/ c[i] \in DOMAIN Original /\ Original[c[i]] = c[1]
            BY <1>4, <2>1, <2>3 DEF PlainNames
        <3>2. Held(c[1])
            BY <1>4, <2>2, <2>3 DEF AllTaken
        <3>3. c[i] \in DOMAIN Original /\ Original[c[i]] = c[1] => Stays(c[i])
            BY <3>2 DEF Stays
        <3> QED BY <1>0, <1>4, <3>1, <3>3
    <2>4. ASSUME NEW i \in DOMAIN c PROVE Held(c[i])'
        <3>1. c[i] \in Places /\ Held(c[i])
            BY <1>4, <2>2, <2>4 DEF AllTaken
        <3> QED BY <1>1, <2>3, <3>1
    <2>5. c = Candidates[disk'[p]][p]
        BY <2>1
    <2> QED BY <2>4, <2>5 DEF AllTaken, Held
<1>5. Stays(dest)'
    <2>0. dest' = dest
        BY DEF Move
    <2>1. PICK i \in DOMAIN Tried :
              Tried[i] = dest /\ \A j \in DOMAIN Tried : j < i => Held(Tried[j])
        BY <1>0 DEF Probing
    <2>2. cur \in Places /\ disk[cur] \in Files /\ Tried \in Seq(Places) /\ cur \in Reached
        BY <1>0, TriedPlaces DEF PlacesInv, HeldReached, Held, Typed, InitTypeOK, CurHeld
    <2>3. dest # cur
        BY <1>0, MoveKeeps
    <2>4. \/ dest \in Dated
          \/ dest \in DOMAIN Original /\ Original[dest] = Tried[1]
        BY <1>0, <2>1, <2>2, <2>3 DEF PlainNames, Tried
    <2>5. CASE dest \in Dated
        BY <2>0, <2>5 DEF Stays
    <2>6. CASE dest \in DOMAIN Original /\ Original[dest] = Tried[1]
        <3>1. Tried[1] \in Dated /\ dest \notin Dated
            BY <2>6, InitAssumption
        <3>2. i # 1 /\ i \in Nat /\ i >= 1 /\ 1 \in DOMAIN Tried
            BY <2>1, <2>2, <3>1
        <3>3. Held(Tried[1])
            BY <2>1, <3>2
        <3> QED BY <1>1, <1>2, <2>0, <2>6, <3>1, <3>3 DEF Stays
    <2> QED BY <2>4, <2>5, <2>6
<1> QED BY <1>3, <1>4, <1>5 DEF Stays

-----------------------------------------------------------------------------
(* Only Start makes a run clean; every failure ends that.                  *)
LEMMA CleanBefore ==
    [InitNext]_initVars /\ clean' =>
        Start \/ (clean /\ blind' = blind /\ ~MoveFails /\ ~RegisterFails /\ ~Kill /\ ~RemoveUnseen)
<1> SUFFICES ASSUME [InitNext]_initVars, clean', ~Start
             PROVE  /\ clean /\ blind' = blind
                    /\ ~MoveFails /\ ~RegisterFails /\ ~Kill /\ ~RemoveUnseen
    OBVIOUS
<1>1. ~Error /\ ~MoveFails /\ ~RegisterFails /\ ~Kill /\ ~RemoveUnseen
    BY DEF Error, MoveFails, RegisterFails, Kill, RemoveUnseen
<1> USE <1>1 DEF NoError, history, bounds
<1>2. CASE Walk
    BY <1>2 DEF Walk
<1>3. ASSUME NEW p \in Places, PassOver(p) \/ Keep(p) \/ TakeUp(p) PROVE clean /\ blind' = blind
    BY <1>3 DEF PassOver, Keep, TakeUp
<1>4. CASE ProbeFree \/ ProbeNext \/ TooMany \/ Move \/ Register
    BY <1>4 DEF ProbeFree, ProbeNext, TooMany, Move, Register
<1>5. CASE Finish
    BY <1>5 DEF Finish
<1>6. CASE UNCHANGED initVars
    BY <1>6 DEF initVars
<1> QED BY <1>2, <1>3, <1>4, <1>5, <1>6 DEF InitNext, Step

(* A run without failures puts each file, when its turn comes, where such  *)
(* a run leaves it.                                                        *)
LEMMA CleanStep ==
    ASSUME PlainNames, PlacesInv, clean => CleanPart, [InitNext]_initVars, clean'
    PROVE  CleanPart'
<1>0. Typed
    BY DEF PlacesInv
<1>1. CASE Start
    BY <1>1 DEF Start, CleanPart, Probing
<1> SUFFICES ASSUME ~Start PROVE CleanPart'
    BY <1>1
<1>c. /\ clean /\ CleanPart /\ ~Error
      /\ ~MoveFails /\ ~RegisterFails /\ ~Kill /\ ~RemoveUnseen
    BY CleanBefore DEF Error
<1> USE <1>0, <1>c DEF CleanPart, AllPlaced
<1>2. CASE Walk
    <2>1. pc' = "next" /\ disk' = disk /\ todo' = {p \in Places : Held(p)}
        BY <1>2 DEF Walk, Listed
    <2>2. AllPlaced'
        BY <2>1, SameDisk DEF Underway
    <2> QED BY <2>1, <2>2 DEF Probing
<1>3. ASSUME NEW p \in Places, PassOver(p) PROVE CleanPart'
    <2>1. /\ pc = "next" /\ pc' = "next" /\ disk' = disk /\ todo' = todo \ {p}
          /\ p \in Ignored \/ ~Held(p)
        BY <1>3 DEF PassOver, Next
    <2>2. AllPlaced'
        BY <2>1, SameDisk DEF Underway
    <2> QED BY <2>1, <2>2 DEF Probing
<1>4. ASSUME NEW p \in Places, Keep(p) PROVE CleanPart'
    <2>1. /\ pc = "next" /\ pc' = "register" /\ disk' = disk /\ todo' = todo \ {p}
          /\ Placed(p)
        BY <1>4 DEF Keep, Next, Placed
    <2>2. AllPlaced'
        BY <2>1, SameDisk DEF Underway
    <2> QED BY <2>1, <2>2 DEF Probing
<1>5. ASSUME NEW p \in Places, TakeUp(p) PROVE CleanPart'
    <2>1. /\ pc = "next" /\ pc' = "probe" /\ disk' = disk /\ todo' = todo \ {p}
          /\ cur' = p /\ slot' = 1 /\ ~Stays(p)
        BY <1>5 DEF TakeUp, Next
    <2>2. AllPlaced'
        BY <2>1, SameDisk DEF Underway
    <2>3. Tried' = Candidates[disk[p]][p] /\ disk[p] \in Files
        BY <1>5, <2>1 DEF TakeUp, Tried, Held, Typed, InitTypeOK
    <2>4. \A i \in DOMAIN Tried' : i >= 1 /\ i \in Nat
        <3>1. Candidates[disk[p]][p] \in Seq(Places)
            BY <2>3, InitAssumption
        <3> QED BY <2>3, <3>1
    <2>5. Probing'
        BY <2>1, <2>4, SameDisk DEF Probing
    <2> QED BY <2>2, <2>5
<1>6. CASE ProbeFree
    <2>1. /\ pc = "probe" /\ pc' = "move" /\ UNCHANGED <<disk, todo, cur>>
          /\ slot \in DOMAIN Tried /\ dest' = Tried[slot] /\ Tried' = Tried
        BY <1>6 DEF ProbeFree, Tried
    <2>2. AllPlaced'
        BY <2>1, SameDisk DEF Underway
    <2>3. Probing'
        BY <2>1, SameDisk DEF Probing
    <2> QED BY <2>2, <2>3
<1>7. CASE ProbeNext
    <2>1. /\ pc = "probe" /\ UNCHANGED <<disk, todo, cur, pc>>
          /\ slot \in DOMAIN Tried /\ Held(Tried[slot]) /\ slot' = slot + 1 /\ Tried' = Tried
        BY <1>7 DEF ProbeNext, Tried
    <2>2. AllPlaced'
        BY <2>1, SameDisk DEF Underway
    <2>3. slot \in Nat /\ \A i \in DOMAIN Tried : i \in Nat
        BY <2>1, TriedPlaces DEF Typed, InitTypeOK
    <2>4. slot' >= 1 /\ \A i \in DOMAIN Tried : i < slot' => Held(Tried[i])
        BY <2>1, <2>3 DEF Probing
    <2>5. Probing'
        BY <2>1, <2>4, SameDisk DEF Probing
    <2> QED BY <2>2, <2>5
<1>8. CASE TooMany
    <2>1. /\ pc = "probe" /\ pc' = "next" /\ UNCHANGED <<disk, todo>>
          /\ slot \notin DOMAIN Tried
        BY <1>8 DEF TooMany, Skip
    <2>2. slot \in Nat /\ Tried \in Seq(Places)
        BY <2>1, TriedPlaces DEF Typed, InitTypeOK
    <2>3. \A i \in DOMAIN Tried : i < slot
        BY <2>1, <2>2 DEF Probing
    <2>4. AllTaken(cur)
        BY <2>1, <2>3 DEF Probing, AllTaken, Tried
    <2>5. AllPlaced'
        BY <2>1, <2>4, SameDisk DEF Underway, Placed
    <2> QED BY <2>1, <2>5 DEF Probing
<1>9. CASE Move
    <2>1. /\ pc = "move" /\ pc' = "register" /\ UNCHANGED <<todo, dest>>
          /\ cur \in Places /\ disk'[cur] = None
        <3>1. disk'[cur] = None
            BY <1>9, MoveKeeps DEF Move, Moved, Typed, InitTypeOK
        <3> QED BY <1>9, <3>1, MoveKeeps DEF Move
    <2>2. \A p \in Places \ {cur, dest} : Held(p)' => Held(p)
        BY <1>9, MoveKeeps DEF Held
    <2>3. /\ \A p \in Places \ {cur, dest} : Held(p) /\ Placed(p) => Placed(p)'
          /\ Stays(dest)'
        BY <1>9, MoveArranges DEF Placed, Stays
    <2>4. ASSUME NEW p \in Places \ Ignored, Held(p)' PROVE Placed(p)' \/ Underway(p)'
        <3>1. CASE p = dest
            BY <2>1, <2>3, <3>1 DEF Placed, Held, Stays
        <3>2. CASE p # dest
            <4>1. p # cur
                BY <2>1, <2>4 DEF Held
            <4> QED BY <2>1, <2>2, <2>3, <2>4, <3>2, <4>1 DEF Underway
        <3> QED BY <3>1, <3>2
    <2>5. AllPlaced'
        BY <2>4
    <2> QED BY <2>1, <2>5 DEF Probing
<1>10. CASE Register
    <2>1. pc = "register" /\ pc' = "next" /\ UNCHANGED <<disk, todo>>
        BY <1>10 DEF Register, Skip
    <2>2. AllPlaced'
        BY <2>1, SameDisk DEF Underway
    <2> QED BY <2>1, <2>2 DEF Probing
<1>11. CASE Finish
    BY <1>11 DEF Finish, Over, Probing
<1>12. CASE UNCHANGED initVars
    <2>1. UNCHANGED <<disk, pc, todo, cur, slot, dest, Tried>>
        BY <1>12 DEF initVars, run, Tried
    <2>2. AllPlaced => AllPlaced'
        BY <2>1, SameDisk DEF Underway
    <2>3. Probing'
        BY <2>1, SameDisk DEF Probing
    <2> QED BY <2>1, <2>2, <2>3
<1> QED BY <1>2, <1>3, <1>4, <1>5, <1>6, <1>7, <1>8, <1>9, <1>10, <1>11, <1>12 DEF InitNext, Step

-----------------------------------------------------------------------------
(* What a run without failures has left in place is left in place by the   *)
(* next ones: none of its files finds a better place.                      *)
LEMMA SettledStep ==
    ASSUME PlacesInv, clean => CleanPart, settled => SettledPart, [InitNext]_initVars, settled'
    PROVE  SettledPart' /\ (settled => disk' = disk)
<1>0. ~Error /\ ~RemoveUnseen /\ ~MoveFails /\ ~RegisterFails
    BY DEF Error, RemoveUnseen, MoveFails, RegisterFails
<1>1. CASE ~settled
    <2>1. Finish /\ clean
        <3>1. settled' # settled
            BY <1>1
        <3>2. ~UNCHANGED initVars /\ ~Start /\ ~Kill /\ ~NoError
            BY <3>1 DEF initVars, history, Start, Kill, NoError
        <3>3. ~(Walk \/ ProbeFree \/ ProbeNext \/ TooMany \/ Move \/ Register)
            BY <1>0, <3>2 DEF Walk, ProbeFree, ProbeNext, TooMany, Move, Register
        <3>4. ~(\E p \in Places : PassOver(p) \/ Keep(p) \/ TakeUp(p))
            BY <1>0, <3>2 DEF PassOver, Keep, TakeUp
        <3>5. Finish
            BY <1>0, <3>2, <3>3, <3>4 DEF InitNext, Step
        <3> QED BY <1>1, <3>5 DEF Finish
    <2>2. pc = "next" /\ todo = {} /\ disk' = disk /\ pc' \in {"off", "walk"}
        BY <2>1 DEF Finish, Over
    <2>3. \A p \in Places \ Ignored : Held(p) => Placed(p)
        BY <2>1, <2>2 DEF CleanPart, AllPlaced, Underway
    <2> QED BY <1>1, <2>2, <2>3, SameDisk DEF SettledPart
<1>2. CASE settled
    <2>1. /\ \A p \in Places \ Ignored : Held(p) => Placed(p)
          /\ pc # "move"
          /\ pc = "probe" => AllTaken(cur)
        BY <1>2 DEF SettledPart
    <2>2. ASSUME disk' = disk, pc' # "move", pc' = "probe" => AllTaken(cur')
          PROVE  SettledPart' /\ (settled => disk' = disk)
        <3>1. (pc' = "probe" => AllTaken(cur)')
            BY <2>2 DEF AllTaken, Held
        <3> QED BY <2>1, <2>2, <3>1, SameDisk DEF SettledPart
    <2>3. CASE Start \/ Kill \/ Walk \/ Finish
        BY <2>2, <2>3 DEF Start, Kill, Walk, Listed, Finish, Over
    <2>4. ASSUME NEW p \in Places, PassOver(p) \/ Keep(p)
          PROVE  SettledPart' /\ (settled => disk' = disk)
        BY <2>2, <2>4 DEF PassOver, Keep, Next
    <2>5. ASSUME NEW p \in Places, TakeUp(p)
          PROVE  SettledPart' /\ (settled => disk' = disk)
        <3>1. AllTaken(p)
            BY <1>0, <2>1, <2>5 DEF TakeUp, Placed
        <3> QED BY <2>2, <2>5, <3>1 DEF TakeUp, Next
    <2>6. ~ProbeFree
        BY <2>1 DEF ProbeFree, AllTaken, Tried
    <2>7. CASE ProbeNext \/ TooMany
        BY <2>1, <2>2, <2>7 DEF ProbeNext, TooMany, Skip
    <2>8. ~Move
        BY <2>1 DEF Move
    <2>9. CASE Register
        BY <2>2, <2>9 DEF Register, Skip
    <2>10. CASE UNCHANGED initVars
        BY <2>1, <2>2, <2>10 DEF initVars, run
    <2> QED BY <1>0, <2>3, <2>4, <2>5, <2>6, <2>7, <2>8, <2>9, <2>10 DEF InitNext, Step
<1> QED BY <1>1, <1>2

(* At first the files are where they were found.                           *)
LEMMA SettledInit == ArchiveInit => SettledInv
<1> SUFFICES ASSUME ArchiveInit PROVE SettledInv
    OBVIOUS
<1>1. HeldReached
    <2>1. ASSUME NEW p \in Places, Held(p) PROVE p \in Found
        <3>1. disk[p] \in Files
            BY <2>1 DEF ArchiveInit, Held
        <3>2. PICK q \in Found : disk[q] = disk[p]
            BY <3>1 DEF ArchiveInit
        <3> QED BY <2>1, <3>2, InitAssumption DEF ArchiveInit, Held
    <2> QED BY <2>1 DEF HeldReached, Reached
<1>2. pc = "off" /\ todo = {} /\ ~clean /\ ~settled
    BY DEF ArchiveInit
<1> QED BY <1>1, <1>2, TypedStart DEF SettledInv, PlacesInv, Movable, OffIdle

(* The parts together.                                                     *)
LEMMA SettledInvStep == ASSUME PlainNames PROVE SettledInv /\ [InitNext]_initVars => SettledInv'
BY PlacesStep, CleanStep, SettledStep DEF SettledInv

(* Where names do not end in a suffix of handleCollision's, what a run     *)
(* without failures has arranged is moved by no later run, until something *)
(* fails, however often a run is killed (main.go, runInitMode;             *)
(* README.md:159).                                                         *)
THEOREM PlainNamesSettle == ASSUME PlainNames PROVE InitSpec => SettledStays
<1>1. SettledInv /\ [InitNext]_initVars => [settled /\ blind' = blind => disk' = disk]_initVars
    <2> SUFFICES ASSUME SettledInv, [InitNext]_initVars, settled, blind' = blind
                 PROVE  disk' = disk
        OBVIOUS
    <2>1. ~Move
        BY DEF SettledInv, SettledPart, Move
    <2>2. ~RemoveUnseen
        BY DEF RemoveUnseen, SettledInv, PlacesInv, Typed, InitTypeOK
    <2> QED BY <2>1, <2>2, DiskMoves
<1> QED BY <1>1, SettledInit, SettledInvStep, PTL DEF InitSpec, SettledStays

-----------------------------------------------------------------------------
(* A run for one job in which nothing fails passes no file over.           *)
LEMMA RegisteredStep ==
    ASSUME PlainNames, Jobs = 1, PlacesInv, clean => CleanPart, OffIdle,
           clean => Arranged /\ AllRegistered, [InitNext]_initVars, clean'
    PROVE  Arranged' /\ AllRegistered'
<1>0. Typed
    BY DEF PlacesInv
<1>1. CASE Start
    <2>1. /\ todo' = {} /\ pc' = "walk" /\ registry' = Empty
        BY <1>1 DEF Start, OffIdle
    <2>2. \A p \in Places : registry'[p] = <<>>
        BY <2>1 DEF Empty
    <2> QED BY <2>1, <2>2 DEF Arranged, RowsHeld, FreshRegistry, ListedHeld, CurFresh,
                              DestFresh, AllRegistered
<1> SUFFICES ASSUME ~Start PROVE Arranged' /\ AllRegistered'
    BY <1>1
<1>c. /\ clean /\ CleanPart /\ Arranged /\ AllRegistered /\ ~Error
      /\ ~MoveFails /\ ~RegisterFails /\ ~Kill /\ ~RemoveUnseen
    BY CleanBefore DEF Error
<1>a. Arranged'
    BY <1>0, <1>c, ArrangedStep, CleanBefore
<1> SUFFICES AllRegistered'
    BY <1>a
<1> USE <1>0, <1>c
<1>2. CASE Walk
    <2>1. pc' = "next" /\ disk' = disk /\ todo' = {p \in Places : Held(p)}
        BY <1>2 DEF Walk, Listed
    <2> QED BY <2>1, SameDisk DEF Underway, AllRegistered
<1>3. ASSUME NEW p \in Places, PassOver(p) PROVE AllRegistered'
    <2>1. /\ pc = "next" /\ pc' = "next" /\ UNCHANGED <<disk, registry>> /\ todo' = todo \ {p}
          /\ p \in Ignored \/ ~Held(p)
        BY <1>3 DEF PassOver, Next
    <2> QED BY <2>1, SameDisk DEF Underway, AllRegistered
<1>4. ASSUME NEW p \in Places, Keep(p) PROVE AllRegistered'
    <2>1. /\ pc = "next" /\ pc' = "register" /\ UNCHANGED <<disk, registry>>
          /\ todo' = todo \ {p} /\ dest' = p
        BY <1>4 DEF Keep, Next
    <2> QED BY <2>1, SameDisk DEF Underway, AllRegistered
<1>5. ASSUME NEW p \in Places, TakeUp(p) PROVE AllRegistered'
    <2>1. /\ pc = "next" /\ pc' = "probe" /\ UNCHANGED <<disk, registry>>
          /\ todo' = todo \ {p} /\ cur' = p
        BY <1>5 DEF TakeUp, Next
    <2> QED BY <2>1, SameDisk DEF Underway, AllRegistered
<1>6. CASE ProbeFree \/ ProbeNext
    <2>1. /\ pc = "probe" /\ pc' \in {"probe", "move"}
          /\ UNCHANGED <<disk, registry, todo, cur>>
        BY <1>6 DEF ProbeFree, ProbeNext
    <2> QED BY <2>1, SameDisk DEF Underway, AllRegistered
<1>7. CASE TooMany
    <2>1. /\ pc = "probe" /\ pc' = "next" /\ UNCHANGED <<disk, registry, todo>>
          /\ slot \notin DOMAIN Tried
        BY <1>7 DEF TooMany, Skip
    <2>2. slot \in Nat /\ Tried \in Seq(Places)
        BY <2>1, TriedPlaces DEF Typed, InitTypeOK
    <2>3. \A i \in DOMAIN Tried : i < slot
        BY <2>1, <2>2 DEF CleanPart, Probing
    <2>4. AllTaken(cur) /\ cur \notin Dated
        BY <2>1, <2>3 DEF CleanPart, Probing, AllTaken, Tried, PlacesInv, Movable
    <2> QED BY <2>1, <2>4, SameDisk DEF Underway, AllRegistered
<1>8. CASE Move
    <2>1. /\ pc = "move" /\ pc' = "register" /\ UNCHANGED <<todo, dest, registry>>
          /\ cur \in Places /\ disk'[cur] = None
        <3>1. disk'[cur] = None
            BY <1>8, MoveKeeps DEF Move, Moved, Typed, InitTypeOK
        <3> QED BY <1>8, <3>1, MoveKeeps DEF Move
    <2>2. ASSUME NEW p \in Places \ Ignored, Held(p)', p # dest
          PROVE  \/ registry'[p] = <<disk'[p]>> \/ Underway(p)'
                 \/ p \notin Dated /\ AllTaken(p)'
        <3>1. p # cur
            BY <2>1, <2>2 DEF Held
        <3>2. disk'[p] = disk[p] /\ Held(p)
            BY <1>8, <2>2, <3>1, MoveKeeps DEF Held
        <3>3. registry[p] = <<disk[p]>> \/ (p \notin Dated /\ AllTaken(p)) \/ p \in todo
            BY <2>1, <2>2, <3>1, <3>2 DEF AllRegistered, Underway
        <3>4. p \notin Dated /\ AllTaken(p) => AllTaken(p)'
            BY <1>8, <2>2, <3>1, <3>2, MoveArranges DEF CleanPart
        <3> QED BY <2>1, <3>2, <3>3, <3>4 DEF Underway
    <2> QED BY <2>1, <2>2 DEF AllRegistered
<1>9. CASE Register
    <2>1. /\ pc = "register" /\ pc' = "next" /\ UNCHANGED <<disk, todo>>
          /\ dest \in Places /\ registry[dest] = <<>>
          /\ registry' = [registry EXCEPT ![dest] = Append(@, disk[dest])]
        BY <1>9 DEF Register, Skip, Typed, InitTypeOK, Arranged, DestFresh
    <2>2. registry'[dest] = <<disk[dest]>> /\ \A p \in Places \ {dest} : registry'[p] = registry[p]
        BY <2>1 DEF Typed, InitTypeOK
    <2> QED BY <2>1, <2>2, SameDisk DEF Underway, AllRegistered
<1>10. CASE Finish
    <2>1. /\ pc = "next" /\ pc' = "off" /\ UNCHANGED <<disk, registry, todo>>
        BY <1>10 DEF Finish, Over, Typed, InitTypeOK
    <2> QED BY <2>1, SameDisk DEF Underway, AllRegistered
<1>11. CASE UNCHANGED initVars
    BY <1>11, SameDisk DEF initVars, run, Underway, AllRegistered
<1> QED BY <1>2, <1>3, <1>4, <1>5, <1>6, <1>7, <1>8, <1>9, <1>10, <1>11 DEF InitNext, Step

(* A run for one job in which nothing fails registers every file that is   *)
(* not ignored and finds a place (main.go, runInitMode, processFileForInit *)
(* and logFileRegistry).                                                   *)
THEOREM CleanRunsRegister ==
    ASSUME PlainNames, Jobs = 1
    PROVE  InitSpec => []CleanRunRegistersAll
<1>1. ArchiveInit => RegisterInv
    BY SettledInit DEF RegisterInv, ArchiveInit
<1>2. RegisterInv /\ [InitNext]_initVars => RegisterInv'
    BY SettledInvStep, RegisteredStep DEF RegisterInv, SettledInv, PlacesInv
<1>3. RegisterInv => CleanRunRegistersAll
    BY DEF RegisterInv, SettledInv, PlacesInv, OffIdle, AllRegistered, Underway, AllTaken,
           CleanRunRegistersAll
<1> QED BY <1>1, <1>2, <1>3, PTL DEF InitSpec

=============================================================================
