------------------------------ MODULE InitMode ------------------------------
(***************************************************************************)
(* filearchiver -init: put the old database aside, walk an archive         *)
(* directory, once for each job whose destination it is, and register what *)
(* is there, in place if its path is valid and after a move otherwise.     *)
(* One run at a time, which is what RunLock is for; a run may be killed,   *)
(* and any of its calls may fail.                                          *)
(*                                                                         *)
(* A file stands for its content and its modification time.  Its name is   *)
(* part of its place, so where a file is to go depends on both.            *)
(***************************************************************************)
EXTENDS Naturals, Sequences

CONSTANTS Files,        (* the files in the directory                          *)
          Places,       (* the paths below it                                  *)
          Found,        (* those where files are before the first run          *)
          InDups,       (* those below _duplicates                             *)
          Dated,        (* those outside that isValidArchivedPath accepts      *)
          Ignored,      (* those that shouldIgnore rejects                     *)
          Original,     (* for valid paths below _duplicates, the path that    *)
                        (*   isExistingDuplicateFile looks for                 *)
          Candidates,   (* Candidates[f][p]: the places handleCollision tries  *)
                        (*   for f when it is at p                             *)
          None,         (* no file                                             *)
          Jobs,         (* how many jobs have this destination                 *)
          MaxErrors,    (* bound: calls that fail                              *)
          MaxBlind      (* bound: checks for an empty _duplicates that fail    *)

ASSUME InitAssumption ==
    /\ Found \subseteq Places /\ InDups \subseteq Places /\ Dated \subseteq Places \ InDups
    /\ DOMAIN Original \subseteq InDups
    /\ \A q \in DOMAIN Original : Original[q] \in Dated
    /\ \A f \in Files, p \in Places : Candidates[f][p] \in Seq(Places)
    /\ None \notin Files
    /\ Jobs \in Nat \ {0} /\ MaxErrors \in Nat /\ MaxBlind \in Nat

VARIABLES disk,         (* what is at each place                               *)
          registry,     (* file_registry: the rows that name each place        *)
          pc,           (* the call the run makes next                         *)
          job,          (* the job it works for                                *)
          todo,         (* the paths that Walk has listed and are still to do  *)
          both,         (* did it list files inside and outside _duplicates?   *)
          cur,          (* the path it works on                                *)
          slot,         (* how far handleCollision has come                    *)
          dest,         (* where the file goes, or stays                       *)
          clean,        (* history: nothing failed in the last run, so far     *)
          settled,      (* history: a run ended clean, and nothing failed since*)
          errors, blind

run == <<pc, job, todo, both, cur, slot, dest>>
history == <<clean, settled>>
bounds == <<errors, blind>>
initVars == <<disk, registry, run, history, bounds>>

InitTypeOK ==
    /\ disk \in [Places -> Files \union {None}]
    /\ registry \in [Places -> Seq(Files)]
    /\ pc \in {"off", "walk", "next", "probe", "move", "register"}
    /\ job \in 1..Jobs
    /\ todo \subseteq Places
    /\ both \in BOOLEAN
    /\ pc \in {"probe", "move", "register"} => cur \in Places
    /\ pc \in {"move", "register"} => dest \in Places
    /\ slot \in Nat
    /\ clean \in BOOLEAN /\ settled \in BOOLEAN
    /\ errors \in 0..MaxErrors /\ blind \in 0..MaxBlind

Empty == [p \in Places |-> <<>>]

(* The files are anywhere among Found, and no database exists.             *)
ArchiveInit ==
    /\ disk \in [Places -> Files \union {None}]
    /\ \A f \in Files : \E p \in Found : disk[p] = f
    /\ \A p, q \in Places : disk[p] # None /\ disk[p] = disk[q] => p = q
    /\ registry = Empty
    /\ pc = "off" /\ job = 1 /\ todo = {} /\ both = FALSE
    /\ cur = None /\ slot = 0 /\ dest = None
    /\ clean = FALSE /\ settled = FALSE
    /\ errors = 0 /\ blind = 0

Held(p) == disk[p] # None

NoError == UNCHANGED <<history, bounds>>

Error ==
    /\ errors < MaxErrors
    /\ errors' = errors + 1
    /\ clean' = FALSE /\ settled' = FALSE
    /\ UNCHANGED blind

Skip == pc' = "next" /\ UNCHANGED <<job, todo, both, cur, slot, dest>>

-----------------------------------------------------------------------------
(* backupExistingDatabase and initDatabase: the old rows are in another    *)
(* file, which nothing reads.  If the first fails nothing has changed; if  *)
(* the second fails this is a start and a kill.                            *)
Start ==
    /\ pc = "off"
    /\ pc' = "walk" /\ job' = 1
    /\ registry' = Empty
    /\ clean' = TRUE
    /\ UNCHANGED <<disk, todo, both, cur, slot, dest, settled, bounds>>

(* filepath.Walk: a directory that cannot be read is passed over.          *)
Listed(S) ==
    /\ todo' = S
    /\ both' = (S \cap InDups # {} /\ S \ InDups # {})
    /\ pc' = "next"
    /\ UNCHANGED <<disk, registry, job, cur, slot, dest>>

Walk ==
    /\ pc = "walk"
    /\ LET there == {p \in Places : Held(p)}
       IN  \/ Listed(there) /\ NoError
           \/ \E S \in SUBSET there : S # there /\ Listed(S) /\ Error

-----------------------------------------------------------------------------
(* isValidArchivedPath, and isExistingDuplicateFile: the original has to   *)
(* be there when the duplicate's turn comes.                               *)
StaysIfDated(p) == p \in Dated

Stays(p) ==
    \/ p \in Dated
    \/ p \in DOMAIN Original /\ Held(Original[p])

(* The next path; those below _duplicates come first.                      *)
Next(p) ==
    /\ pc = "next"
    /\ p \in todo
    /\ todo \cap InDups # {} => p \in InDups
    /\ todo' = todo \ {p}
    /\ cur' = p
    /\ UNCHANGED <<disk, registry, job, both>>

(* Ignored, or os.Stat fails.                                              *)
PassOver(p) ==
    /\ Next(p)
    /\ \/ (p \in Ignored \/ ~Held(p)) /\ NoError
       \/ Error
    /\ UNCHANGED <<pc, slot, dest>>

Keep(p) ==
    /\ Next(p)
    /\ p \notin Ignored /\ Held(p) /\ Stays(p)
    /\ dest' = p
    /\ pc' = "register"
    /\ NoError
    /\ UNCHANGED slot

(* A failing os.Stat of the original counts as its absence.                *)
TakeUp(p) ==
    /\ Next(p)
    /\ p \notin Ignored /\ Held(p)
    /\ \/ ~Stays(p) /\ NoError
       \/ p \in DOMAIN Original /\ Error
    /\ slot' = 1
    /\ pc' = "probe"
    /\ UNCHANGED dest

-----------------------------------------------------------------------------
(* moveToValidPath: one os.Stat of handleCollision after the other, where  *)
(* an error other than "does not exist" counts as taken.                   *)
Tried == Candidates[disk[cur]][cur]

(* Mutant: the second place is taken without a look at it.                 *)
SecondAnyway ==
    /\ pc = "probe" /\ slot \in DOMAIN Tried
    /\ ~Held(Tried[slot]) \/ slot = 2
    /\ dest' = Tried[slot]
    /\ pc' = "move"
    /\ NoError
    /\ UNCHANGED <<disk, registry, job, todo, both, cur, slot>>

ProbeFree ==
    /\ pc = "probe" /\ slot \in DOMAIN Tried
    /\ ~Held(Tried[slot])
    /\ dest' = Tried[slot]
    /\ pc' = "move"
    /\ NoError
    /\ UNCHANGED <<disk, registry, job, todo, both, cur, slot>>

(* Mutant: the counter is not increased.                                   *)
ProbeAgain ==
    /\ pc = "probe" /\ slot \in DOMAIN Tried
    /\ Held(Tried[slot]) /\ NoError
    /\ UNCHANGED <<disk, registry, run>>

ProbeNext ==
    /\ pc = "probe" /\ slot \in DOMAIN Tried
    /\ (Held(Tried[slot]) /\ NoError) \/ Error
    /\ slot' = slot + 1
    /\ UNCHANGED <<disk, registry, pc, job, todo, both, cur, dest>>

TooMany ==
    /\ pc = "probe" /\ slot \notin DOMAIN Tried
    /\ Skip
    /\ NoError
    /\ UNCHANGED <<disk, registry>>

Moved == [disk EXCEPT ![dest] = disk[cur], ![cur] = None]

(* Mutant: on to the next file after the move.                             *)
MoveOnly ==
    /\ pc = "move"
    /\ disk' = Moved
    /\ Skip
    /\ NoError
    /\ UNCHANGED registry

Move ==
    /\ pc = "move"
    /\ disk' = Moved
    /\ pc' = "register"
    /\ NoError
    /\ UNCHANGED <<registry, job, todo, both, cur, slot, dest>>

(* MkdirAll, computeChecksum or os.Rename fails.                           *)
MoveFails ==
    /\ pc = "move"
    /\ Error
    /\ Skip
    /\ UNCHANGED <<disk, registry>>

(* Mutant: the row names the path the file came from.                      *)
RegisterOldPath ==
    /\ pc = "register"
    /\ registry' = [registry EXCEPT ![cur] = Append(@, disk[dest])]
    /\ Skip
    /\ NoError
    /\ UNCHANGED disk

(* logFileRegistry.                                                        *)
Register ==
    /\ pc = "register"
    /\ registry' = [registry EXCEPT ![dest] = Append(@, disk[dest])]
    /\ Skip
    /\ NoError
    /\ UNCHANGED disk

(* computeChecksum of a file that stays, or the INSERT, fails.             *)
RegisterFails ==
    /\ pc = "register"
    /\ Error
    /\ Skip
    /\ UNCHANGED <<disk, registry>>

-----------------------------------------------------------------------------
(* The end of runInitMode, where _duplicates is removed if no file is seen *)
(* in it: on to the next job, whose destination is walked again.           *)
Over ==
    /\ pc = "next" /\ todo = {}
    /\ IF job < Jobs THEN pc' = "walk" /\ job' = job + 1
                     ELSE pc' = "off" /\ UNCHANGED job
    /\ UNCHANGED <<registry, todo, both, cur, slot, dest, errors>>

Finish ==
    /\ Over
    /\ settled' = (settled \/ clean)
    /\ UNCHANGED <<disk, clean, blind>>

(* The walk through _duplicates cannot read it, which is only printed, and *)
(* the os.RemoveAll after it can.                                          *)
RemoveUnseen ==
    /\ both /\ blind < MaxBlind
    /\ Over
    /\ blind' = blind + 1
    /\ clean' = FALSE /\ settled' = FALSE
    /\ disk' = [p \in Places |-> IF p \in InDups THEN None ELSE disk[p]]

Kill ==
    /\ pc # "off"
    /\ pc' = "off" /\ todo' = {} /\ clean' = FALSE
    /\ UNCHANGED <<disk, registry, job, both, cur, slot, dest, settled, bounds>>

Step ==
    \/ Walk
    \/ \E p \in Places : PassOver(p) \/ Keep(p) \/ TakeUp(p)
    \/ ProbeFree \/ ProbeNext \/ TooMany
    \/ Move \/ MoveFails
    \/ Register \/ RegisterFails
    \/ Finish \/ RemoveUnseen

InitNext == Start \/ Step \/ Kill

InitSpec == ArchiveInit /\ [][InitNext]_initVars /\ WF_initVars(Step)

-----------------------------------------------------------------------------
(* Files "are carefully moved" (README.md:131): whatever happens, each     *)
(* file is still somewhere below the directory.                            *)
FilesSurvive == \A f \in Files : \E p \in Places : disk[p] = f

(* That holds of all that can fail but one: wherever a run fails or is     *)
(* killed no file is lost, unless a look into _duplicates has failed.      *)
NothingLost == blind = 0 => FilesSurvive

(* The registry of a run describes the disk at every moment: a row names   *)
(* the place of its file, no file has two rows, and nothing that has a row *)
(* is moved by the same run.                                               *)
RegistryMatches ==
    blind = 0 => \A p \in Places : registry[p] # <<>> => registry[p] = <<disk[p]>>

(* A run without failures "populates it from scratch" (README.md:127):     *)
(* every file has its row, unless its path is ignored or its candidates    *)
(* are used up.                                                            *)
CleanRunRegistersAll ==
    pc = "off" /\ clean =>
        \A p \in Places \ Ignored :
            Held(p) => \/ registry[p] = <<disk[p]>>
                       \/ \A i \in DOMAIN Candidates[disk[p]][p] :
                             Held(Candidates[disk[p]][p][i])

(* What a run without failures has arranged is left in place by the later  *)
(* ones, until something fails: "files already in valid paths are          *)
(* registered and left in place" (README.md:159), duplicates as well.      *)
SettledStays == [][settled /\ blind' = blind => disk' = disk]_initVars

(* A run ends, whatever fails.                                             *)
InitEnds == pc # "off" ~> pc = "off"

=============================================================================
