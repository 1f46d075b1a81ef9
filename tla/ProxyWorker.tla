---------------------------- MODULE ProxyWorker ----------------------------
(***************************************************************************)
(* The proxy queue and the goroutines that work on it, on top of           *)
(* WorkerControl: the loop lists pending rows and starts one goroutine per *)
(* row, as many at a time as its semaphore has places; handlers enqueue    *)
(* rows and reset them; archiving runs insert rows, and the trash takes    *)
(* files away.  Every database call and every effect of a converter is a   *)
(* step of its own.                                                        *)
(***************************************************************************)
EXTENDS WorkerControl, FiniteSets

CONSTANTS Files,        (* rows of file_registry, by their ids                 *)
          ProxyPaths,   (* paths in the proxy directory                        *)
          ProxyOf,      (* ProxyOf[f]: ProxyImagePath or ProxyVideoPath of f   *)
          Large,        (* files of at least min_file_size_mb                  *)
          Unsupported,  (* files with an extension the worker does not know    *)
          Slots,        (* places of the semaphore (max_workers at the start)  *)
          Clients,      (* requests to regenerate a proxy                      *)
          NoFile, Partial,  (* no file at a path; the beginning of one         *)
          MaxFaults     (* bound: how often a call on the queue fails          *)

ASSUME QueueAssumption ==
    /\ Files \subseteq Nat
    /\ ProxyOf \in [Files -> ProxyPaths]
    /\ Large \subseteq Files /\ Unsupported \subseteq Files
    /\ NoFile \notin Files /\ Partial \notin Files /\ NoFile # Partial
    /\ MaxFaults \in Nat

VARIABLES proxy,        (* the column proxy_status of each row                 *)
          hasPath,      (* rows whose column proxy_path is set                 *)
          trashed,      (* files in the trash                                  *)
          disk,         (* what is at each path of the proxy directory         *)
          listed,       (* has the loop listed in this turn?                   *)
          batch,        (* rows listed and not yet dispatched                  *)
          at,           (* where the goroutine in each place is                *)
          item,         (* the row it works on                                 *)
          half,         (* requests between the two UPDATEs of an enqueue      *)
          regen,        (* where each request to regenerate is                 *)
          target,       (* the row it is about                                 *)
          faults        (* calls on the queue that failed so far               *)

rowVars == <<proxy, hasPath, trashed>>
workVars == <<listed, batch, at, item>>
requestVars == <<half, regen, target>>
queueVars == <<rowVars, disk, workVars, requestVars, faults>>
proxyVars == <<controlVars, queueVars>>

NoRow == {"absent", "gone"}
Busy == {"mark", "convert", "writing", "done", "failed"}

ProxyTypeOK ==
    /\ proxy \in [Files -> NoRow \union {"null", "pending", "processing", "done",
                                         "failed", "skipped"}]
    /\ hasPath \subseteq Files
    /\ trashed \subseteq Files
    /\ disk \in [ProxyPaths -> Files \union {NoFile, Partial}]
    /\ listed \in BOOLEAN
    /\ batch \subseteq Files
    /\ at \in [Slots -> Busy \union {"free"}]
    /\ item \in [Slots -> Files \union {NoFile}]
    /\ half \subseteq Requests
    /\ regen \in [Clients -> {"idle", "remove", "reset"}]
    /\ target \in [Clients -> Files \union {NoFile}]
    /\ faults \in 0..MaxFaults

-----------------------------------------------------------------------------
(* EnqueueEligibleFiles: its two UPDATEs, on rows p.                       *)
Null(p) == {f \in Files : p[f] = "null" /\ f \notin trashed}
QueueLarge(p) == [f \in Files |-> IF f \in Null(p) \cap Large THEN "pending" ELSE p[f]]
SkipRest(p) == [f \in Files |-> IF f \in Null(p) THEN "skipped" ELSE p[f]]

(* ResetProcessingProxies, ResetSkippedProxies, ResetFailedProxies.        *)
Reset(p, old, new) == [f \in Files |-> IF p[f] = old THEN new ELSE p[f]]

(* The first boot on an archive with some registered files: Start resets   *)
(* nothing and enqueues them.                                              *)
ProxyInit ==
    /\ ControlInit
    /\ trashed = {}
    /\ \E p \in [Files -> {"absent", "null"}] : proxy = SkipRest(QueueLarge(p))
    /\ hasPath = {}
    /\ disk = [p \in ProxyPaths |-> NoFile]
    /\ listed = FALSE
    /\ batch = {}
    /\ at = [w \in Slots |-> "free"]
    /\ item = [w \in Slots |-> NoFile]
    /\ half = {}
    /\ regen = [c \in Clients |-> "idle"]
    /\ target = [c \in Clients |-> NoFile]
    /\ faults = 0

Fault == faults < MaxFaults /\ faults' = faults + 1

(* UPDATE ... WHERE id = f: nothing happens when the row is gone.          *)
SetStatus(f, s) == proxy' = [proxy EXCEPT ![f] = IF @ \in NoRow THEN @ ELSE s]

-----------------------------------------------------------------------------
(* The loop.  ListFilesNeedingProxy returns the first n by id; max_workers *)
(* may have been changed to any n since the semaphore was made.            *)

Pending == {f \in Files : proxy[f] = "pending" /\ f \notin trashed}
First(n, S) == {f \in S : Cardinality({g \in S : g < f}) < n}

List ==
    /\ loop = "work" /\ ~listed
    /\ listed' = TRUE
    /\ \/ /\ \E n \in 1..Cardinality(Files) : batch' = First(n, Pending)
          /\ UNCHANGED faults
       \/ Fault /\ batch' = {}
    /\ UNCHANGED <<controlVars, rowVars, disk, at, item, requestVars>>

(* Sending to sem blocks the loop until a place is free.                   *)
Dispatch(w) ==
    /\ loop = "work" /\ listed /\ at[w] = "free"
    /\ \E f \in batch :
          /\ \A g \in batch : f <= g
          /\ batch' = batch \ {f}
          /\ item' = [item EXCEPT ![w] = f]
    /\ at' = [at EXCEPT ![w] = "mark"]
    /\ UNCHANGED <<controlVars, rowVars, disk, listed, requestVars, faults>>

(* The wait of 500 ms or of 30 s, and the next turn.                       *)
TurnOver ==
    /\ listed /\ batch = {}
    /\ NextTurn
    /\ listed' = FALSE
    /\ UNCHANGED <<rowVars, disk, batch, at, item, requestVars, faults>>

Loop(step_) == step_ /\ UNCHANGED queueVars
Message == Loop(TakePause) \/ Loop(TakeResume) \/ Loop(NoMessage)

-----------------------------------------------------------------------------
(* process, in place w of the semaphore.                                   *)

Path(w) == ProxyOf[item[w]]
GoTo(w, s) ==
    /\ at' = [at EXCEPT ![w] = s]
    /\ item' = [item EXCEPT ![w] = IF s = "free" THEN NoFile ELSE @]
    /\ UNCHANGED <<listed, batch>>
Rest == UNCHANGED <<controlVars, trashed, requestVars>>

Mark(w) ==
    /\ at[w] = "mark"
    /\ SetStatus(item[w], "processing")
    /\ GoTo(w, "convert")
    /\ Rest /\ UNCHANGED <<hasPath, disk, faults>>

(* Mutants of MarkFails: it goes on with the conversion; it returns        *)
(* without giving its place in the semaphore back.                         *)
MarkFailsUnseen(w) ==
    /\ at[w] = "mark"
    /\ Fault
    /\ GoTo(w, "convert")
    /\ Rest /\ UNCHANGED <<proxy, hasPath, disk>>

MarkFailsHolding(w) ==
    /\ at[w] = "mark"
    /\ Fault
    /\ GoTo(w, "stuck")
    /\ Rest /\ UNCHANGED <<proxy, hasPath, disk>>

(* MarkProxyProcessing fails: the row stays pending for a later turn.      *)
MarkFails(w) ==
    /\ at[w] = "mark"
    /\ Fault
    /\ GoTo(w, "free")
    /\ Rest /\ UNCHANGED <<proxy, hasPath, disk>>

(* A mutant of Skip and of MarkFailed: an early return that leaves the row *)
(* as it is.                                                               *)
ReturnEarly(w) ==
    /\ at[w] \in {"convert", "failed"}
    /\ at[w] = "convert" => item[w] \in Unsupported
    /\ GoTo(w, "free")
    /\ Rest /\ UNCHANGED <<proxy, hasPath, disk, faults>>

(* An unknown extension; the error of MarkProxySkipped is not looked at.   *)
Skip(w) ==
    /\ at[w] = "convert" /\ item[w] \in Unsupported
    /\ \/ SetStatus(item[w], "skipped") /\ UNCHANGED faults
       \/ Fault /\ UNCHANGED proxy
    /\ GoTo(w, "free")
    /\ Rest /\ UNCHANGED <<hasPath, disk>>

(* The converter opens the source and begins its output.                   *)
Convert(w) ==
    /\ at[w] = "convert" /\ item[w] \notin Unsupported \union trashed
    /\ disk' = [disk EXCEPT ![Path(w)] = Partial]
    /\ GoTo(w, "writing")
    /\ Rest /\ UNCHANGED <<proxy, hasPath, faults>>

(* It succeeds.  When its output was removed meanwhile, it is not there in *)
(* the end, unless the converter opened it again.                          *)
Written(w) ==
    /\ at[w] = "writing"
    /\ disk' \in {[disk EXCEPT ![Path(w)] = item[w]]} \union
                 (IF disk[Path(w)] = NoFile THEN {disk} ELSE {})
    /\ GoTo(w, "done")
    /\ Rest /\ UNCHANGED <<proxy, hasPath, faults>>

(* A mutant of ConvertFails: the exit status of the converter is ignored.  *)
ConvertFailsUnseen(w) ==
    /\ at[w] = "writing"
    /\ GoTo(w, "done")
    /\ Rest /\ UNCHANGED <<proxy, hasPath, disk, faults>>

(* It fails, or a tool or the source is missing.                           *)
ConvertFails(w) ==
    /\ at[w] = "writing" \/ (at[w] = "convert" /\ item[w] \notin Unsupported)
    /\ GoTo(w, "failed")
    /\ Rest /\ UNCHANGED <<proxy, hasPath, disk, faults>>

MarkDone(w) ==
    /\ at[w] = "done"
    /\ \/ /\ SetStatus(item[w], "done")
          /\ hasPath' = hasPath \union ({item[w]} \ {f \in Files : proxy[f] \in NoRow})
          /\ UNCHANGED faults
       \/ Fault /\ UNCHANGED <<proxy, hasPath>>
    /\ GoTo(w, "free")
    /\ Rest /\ UNCHANGED disk

MarkFailed(w) ==
    /\ at[w] = "failed"
    /\ \/ SetStatus(item[w], "failed") /\ UNCHANGED faults
       \/ Fault /\ UNCHANGED proxy
    /\ GoTo(w, "free")
    /\ Rest /\ UNCHANGED <<hasPath, disk>>

Process(w) ==
    \/ Mark(w) \/ MarkFails(w) \/ Skip(w) \/ Convert(w) \/ Written(w) \/ ConvertFails(w)
    \/ MarkDone(w) \/ MarkFailed(w)

-----------------------------------------------------------------------------
(* Requests that change the queue.                                         *)

(* The request to regenerate has been answered.                            *)
Answer(c) == /\ regen' = [regen EXCEPT ![c] = "idle"]
             /\ target' = [target EXCEPT ![c] = NoFile]

Settled == UNCHANGED <<hasPath, trashed, disk, workVars, regen, target>>

(* The UPDATE that queues the large files; when it fails, enqueue returns. *)
EnqueueLarge(r) ==
    /\ step[r] \in {"enqueue", "restart"} /\ r \notin half
    /\ proxy' = QueueLarge(proxy)
    /\ half' = half \union {r}
    /\ Settled /\ UNCHANGED <<controlVars, faults>>

(* (In a mutant it goes on with the second one.)                           *)
EnqueueFailsUnseen(r) ==
    /\ step[r] \in {"enqueue", "restart"} /\ r \notin half
    /\ half' = half \union {r}
    /\ Fault
    /\ Settled /\ UNCHANGED <<controlVars, proxy>>

EnqueueFails(r) ==
    /\ r \notin half
    /\ Enqueue(r)
    /\ Fault
    /\ Settled /\ UNCHANGED <<proxy, half>>

(* The UPDATE that skips what is left.                                     *)
EnqueueRest(r) ==
    /\ r \in half
    /\ Enqueue(r)
    /\ half' = half \ {r}
    /\ \/ proxy' = SkipRest(proxy) /\ UNCHANGED faults
       \/ Fault /\ UNCHANGED proxy
    /\ Settled

(* POST /api/proxy/restart: ResetFailedProxies.                            *)
RestartFailed(r) ==
    /\ RestartBegin(r)
    /\ \/ proxy' = Reset(proxy, "failed", "pending") /\ UNCHANGED faults
       \/ Fault /\ UNCHANGED proxy
    /\ Settled /\ UNCHANGED half

(* POST /api/files/{id}/regenerate-proxy: read the row, ...                *)
RegenRead(c) ==
    /\ regen[c] = "idle"
    /\ \E f \in Files :
          /\ proxy[f] \notin NoRow
          /\ target' = [target EXCEPT ![c] = f]
          /\ regen' = [regen EXCEPT ![c] = IF f \in hasPath THEN "remove" ELSE "reset"]
    /\ UNCHANGED <<controlVars, rowVars, disk, workVars, half, faults>>

(* ... remove the file it names (or answer with an error), ...             *)
RegenRemove(c) ==
    /\ regen[c] = "remove"
    /\ \/ /\ disk' = [disk EXCEPT ![ProxyOf[target[c]]] = NoFile]
          /\ regen' = [regen EXCEPT ![c] = "reset"]
          /\ UNCHANGED <<target, faults>>
       \/ Fault /\ Answer(c) /\ UNCHANGED disk
    /\ UNCHANGED <<controlVars, rowVars, workVars, half>>

(* ... and ResetFileProxy.                                                 *)
RegenReset(c) ==
    /\ regen[c] = "reset"
    /\ \/ /\ SetStatus(target[c], "pending")
          /\ hasPath' = hasPath \ {target[c]}
          /\ UNCHANGED faults
       \/ Fault /\ UNCHANGED <<proxy, hasPath>>
    /\ Answer(c)
    /\ UNCHANGED <<controlVars, trashed, disk, workVars, half>>

-----------------------------------------------------------------------------
(* The rest of the system, as far as the queue sees it: an archiving run   *)
(* registers a file, the trash takes one, a row is deleted.                *)

Elsewhere == UNCHANGED <<controlVars, disk, workVars, requestVars, faults>>

Archived(f) ==
    /\ proxy[f] = "absent"
    /\ proxy' = [proxy EXCEPT ![f] = "null"]
    /\ Elsewhere /\ UNCHANGED <<hasPath, trashed>>

Trash(f) ==
    /\ proxy[f] \notin NoRow /\ f \notin trashed
    /\ trashed' = trashed \union {f}
    /\ Elsewhere /\ UNCHANGED <<proxy, hasPath>>

(* The trash is emptied, or a duplicate deleted from where it is: the file *)
(* goes with its row.                                                      *)
Emptied(f) ==
    /\ proxy[f] \notin NoRow
    /\ proxy' = [proxy EXCEPT ![f] = "gone"]
    /\ hasPath' = hasPath \ {f}
    /\ trashed' = trashed \union {f}
    /\ Elsewhere

-----------------------------------------------------------------------------
(* What the three calls of Start leave of the rows: one of them may fail.  *)
Restored(p) == Reset(Reset(p, "processing", "pending"), "skipped", "null")

ProxyReboot ==
    /\ Reboot
    /\ IF loop' = "off"
       THEN UNCHANGED <<proxy, faults>>
       ELSE \/ proxy' = SkipRest(QueueLarge(Restored(proxy))) /\ UNCHANGED faults
            \/ /\ Fault
               /\ proxy' \in {SkipRest(QueueLarge(Reset(proxy, "skipped", "null"))),
                              SkipRest(QueueLarge(Reset(proxy, "processing", "pending"))),
                              QueueLarge(Restored(proxy)), Restored(proxy)}
    /\ listed' = FALSE
    /\ batch' = {}
    /\ at' = [w \in Slots |-> "free"]
    /\ item' = [w \in Slots |-> NoFile]
    /\ half' = {}
    /\ regen' = [c \in Clients |-> "idle"]
    /\ target' = [c \in Clients |-> NoFile]
    /\ UNCHANGED <<hasPath, trashed, disk>>

(* Handlers that do not touch the queue.                                   *)
Handler ==
    \/ PauseRequest \/ ResumeRequest
    \/ \E r \in Requests :
          \/ SaveSettings(r) \/ ReadSettings(r) \/ AssignSettings(r)
          \/ Decide(r) \/ Apply(r) \/ RescanBegin(r) \/ LastResume(r)

QueueRequest ==
    \/ \E r \in Requests : EnqueueLarge(r) \/ EnqueueFails(r) \/ EnqueueRest(r) \/ RestartFailed(r)
    \/ \E c \in Clients : RegenRead(c) \/ RegenRemove(c) \/ RegenReset(c)

ProxyNext ==
    \/ Handler /\ UNCHANGED queueVars
    \/ Message \/ List \/ TurnOver \/ \E w \in Slots : Dispatch(w)
    \/ \E w \in Slots : Process(w)
    \/ QueueRequest
    \/ \E f \in Files : Archived(f) \/ Trash(f) \/ Emptied(f)
    \/ ProxyReboot

LoopWork == Message \/ List \/ TurnOver \/ \E w \in Slots : Dispatch(w)

ProxyFairness == WF_proxyVars(LoopWork) /\ \A w \in Slots : WF_proxyVars(Process(w))

ProxySpec == ProxyInit /\ [][ProxyNext]_proxyVars /\ ProxyFairness

(* Pauses and resumes at least a turn of the loop apart, as in PromptSpec. *)
PromptProxySpec == ProxyInit /\ [][ProxyNext /\ Prompt]_proxyVars /\ ProxyFairness

(* Requests that do not meet: nobody regenerates the proxy of a row while  *)
(* the worker has it (or one with the same path) in hand, the server is    *)
(* not replaced half-way through it, its UPDATE succeeds once the proxy is *)
(* removed, and no row is inserted between the two UPDATEs of an enqueue.  *)
InHand(f) == \/ f \in batch
             \/ \E w \in Slots : at[w] # "free" /\ ProxyOf[item[w]] = ProxyOf[f]

Apart ==
    /\ \A c \in Clients : regen'[c] # "idle" => ~InHand(target'[c]) /\ reboots' = reboots
    /\ \A c \in Clients : regen[c] # "idle" => reboots' = reboots
    /\ \A c \in Clients : regen[c] = "reset" /\ regen'[c] = "idle" => faults' = faults
    /\ \A f \in Files : proxy'[f] = "null" /\ half # {} => proxy[f] = "null"

ApartSpec == ProxyInit /\ [][ProxyNext /\ Apart]_proxyVars /\ ProxyFairness

-----------------------------------------------------------------------------
(* "processing" is never left over: while the worker runs and no call on   *)
(* the queue has failed, such a row is in the hands of a goroutine, also   *)
(* after the server was killed in the middle of a conversion.              *)
ProcessingIsHeld ==
    faults = 0 /\ loop # "off" =>
        \A f \in Files : proxy[f] = "processing" =>
            \E w \in Slots : item[w] = f /\ at[w] \in Busy \ {"mark"}

(* MarkProxyDone "records a successful proxy generation" (proxy.go:208):   *)
(* when nobody is busy with it, a row that is done has its own proxy on    *)
(* the disk.                                                               *)
AtRest(f) == ~InHand(f) /\ \A c \in Clients : regen[c] # "idle" => target[c] # f

DoneHasProxy ==
    \A f \in Files : proxy[f] = "done" /\ AtRest(f) => f \in hasPath /\ disk[ProxyOf[f]] = f

(* A row leaves the queue by being taken up (or deleted), not by the end   *)
(* of an earlier conversion: it is not overtaken when its UPDATE failed,   *)
(* when it was dispatched twice, or when it was reset "so the worker will  *)
(* regenerate it" (proxy.go:262) while nobody had it in hand.  Where the   *)
(* request meets the conversion it is false (queue_lost_request.cfg).      *)
QueuedIsTakenUp ==
    [][\A f \in Files : proxy[f] = "pending" =>
           proxy'[f] \in {"pending", "processing", "gone"}]_proxyVars

(* Only files that are too small or of an unknown kind are skipped         *)
(* (proxy.go:187).                                                         *)
SkippedIsSmall == \A f \in Files : proxy[f] = "skipped" => f \notin Large \/ f \in Unsupported

(* While the worker runs, a queued row is taken up or leaves the archive.  *)
QueuedIsServed ==
    \A f \in Files :
        f \in Pending /\ status = "running" ~> f \notin Pending \/ status # "running"

(* A worker that stays paused falls silent: the conversions under way and  *)
(* the listed rows are finished and nothing new is started.                *)
PauseFallsSilent ==
    status = "paused" ~>
        status # "paused" \/ (loop = "held" /\ \A w \in Slots : at[w] = "free")

=============================================================================
