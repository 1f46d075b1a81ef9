------------------------- MODULE ProxyWorkerProofs -------------------------
(* Proofs about ProxyWorker and WorkerControl, which it extends, for any   *)
(* files, paths, semaphore, requests and bounds.                           *)
EXTENDS ProxyWorker, TLAPS

-----------------------------------------------------------------------------
(* The loop and its control.                                               *)

(* What the proofs need of the types.                                      *)
LoopTypes ==
    /\ status \in {"running", "paused", "stopped"}
    /\ loop \in {"off", "top", "held", "work"}

(* A worker without a goroutine counts as stopped, whatever the handlers   *)
(* do: the claim and the types it needs are inductive together.            *)
LoopInv == LoopTypes /\ StoppedHasNoLoop

(* Only Start decides whether there is a loop, and sets the status by it.  *)
LEMMA LoopInvStep == LoopInv /\ [ControlNext]_controlVars => LoopInv'
<1> SUFFICES ASSUME LoopInv, [ControlNext]_controlVars PROVE LoopInv'
    OBVIOUS
<1> USE DEF LoopInv, LoopTypes, StoppedHasNoLoop
<1>1. CASE PauseRequest
    BY <1>1 DEF PauseRequest, DoPause
<1>2. CASE ResumeRequest
    BY <1>2 DEF ResumeRequest, DoResume
<1>3. CASE \E r \in Requests : SaveSettings(r) \/ ReadSettings(r) \/ AssignSettings(r)
                               \/ Enqueue(r) \/ Decide(r) \/ RestartBegin(r)
    BY <1>3 DEF SaveSettings, ReadSettings, AssignSettings, Enqueue, Decide, RestartBegin
<1>4. CASE \E r \in Requests : Apply(r)
    BY <1>4 DEF Apply, DoPause, DoResume
<1>5. CASE \E r \in Requests : RescanBegin(r) \/ LastResume(r)
    BY <1>5 DEF RescanBegin, LastResume, DoPause, DoResume
<1>6. CASE TakePause \/ TakeResume \/ NoMessage \/ NextTurn
    BY <1>6 DEF TakePause, TakeResume, NoMessage, NextTurn
<1>7. CASE Reboot
    BY <1>7 DEF Reboot, StartWorker
<1>8. CASE UNCHANGED controlVars
    BY <1>8 DEF controlVars
<1> QED BY <1>1, <1>2, <1>3, <1>4, <1>5, <1>6, <1>7, <1>8 DEF ControlNext

(* A worker that Start left without a goroutine reports "stopped", and     *)
(* only such a worker does (worker.go:68-114, 128-157).                    *)
THEOREM StoppedWorkersStayStopped == ControlSpec => []StoppedHasNoLoop
<1>1. ControlInit => LoopInv
    BY DEF ControlInit, LoopInv, LoopTypes, StoppedHasNoLoop
<1>2. LoopInv => StoppedHasNoLoop
    BY DEF LoopInv
<1> QED BY <1>1, <1>2, LoopInvStep, PTL DEF ControlSpec

-----------------------------------------------------------------------------
(* ChannelsTellStatus is not inductive alone: a resume waits only for a    *)
(* loop that is held, or Resume's message would meet a loop that never     *)
(* took the pause.                                                         *)
PromptInv ==
    /\ LoopInv
    /\ ChannelsTellStatus
    /\ resumeCh => loop = "held" /\ ~pauseCh

(* A turn of the loop between two changes of the status keeps it.          *)
LEMMA PromptInvStep == PromptInv /\ [ControlNext /\ Prompt]_controlVars => PromptInv'
<1> SUFFICES ASSUME PromptInv, [ControlNext /\ Prompt]_controlVars PROVE PromptInv'
    OBVIOUS
<1>0. LoopInv'
    BY LoopInvStep DEF PromptInv
<1> USE <1>0 DEF PromptInv, LoopInv, LoopTypes, StoppedHasNoLoop, ChannelsTellStatus
<1>1. CASE PauseRequest /\ Prompt
    BY <1>1 DEF PauseRequest, DoPause, Prompt
<1>2. CASE ResumeRequest /\ Prompt
    BY <1>2 DEF ResumeRequest, DoResume, Prompt
<1>3. CASE \E r \in Requests : SaveSettings(r) \/ ReadSettings(r) \/ AssignSettings(r)
                               \/ Enqueue(r) \/ Decide(r) \/ RestartBegin(r)
    BY <1>3 DEF SaveSettings, ReadSettings, AssignSettings, Enqueue, Decide, RestartBegin
<1>4. CASE Prompt /\ \E r \in Requests : Apply(r)
    BY <1>4 DEF Apply, DoPause, DoResume, Prompt
<1>5. CASE Prompt /\ \E r \in Requests : RescanBegin(r) \/ LastResume(r)
    <2>1. ASSUME NEW r \in Requests, RescanBegin(r) PROVE PromptInv'
        <3>1. Prompt /\ DoPause /\ UNCHANGED <<resumeCh, loop, reboots>>
            BY <1>5, <2>1 DEF RescanBegin
        <3> QED BY <3>1 DEF DoPause, Prompt
    <2>2. ASSUME NEW r \in Requests, LastResume(r) PROVE PromptInv'
        <3>1. Prompt /\ DoResume /\ UNCHANGED <<pauseCh, loop, reboots>>
            BY <1>5, <2>2 DEF LastResume
        <3> QED BY <3>1 DEF DoResume, Prompt
    <2> QED BY <1>5, <2>1, <2>2
<1>6. CASE TakePause \/ TakeResume \/ NoMessage \/ NextTurn
    BY <1>6 DEF TakePause, TakeResume, NoMessage, NextTurn
<1>7. CASE Reboot
    BY <1>7 DEF Reboot, StartWorker
<1>8. CASE UNCHANGED controlVars
    BY <1>8 DEF controlVars
<1> QED BY <1>1, <1>2, <1>3, <1>4, <1>5, <1>6, <1>7, <1>8 DEF ControlNext

(* When the loop has taken every message before the status changes again,  *)
(* the status field and what the loop will do always agree, across reboots *)
(* and failing database calls.                                             *)
THEOREM PromptStatusIsTrue == PromptSpec => []ChannelsTellStatus
<1>1. ControlInit => PromptInv
    BY DEF ControlInit, PromptInv, LoopInv, LoopTypes, StoppedHasNoLoop, ChannelsTellStatus
<1>2. PromptInv => ChannelsTellStatus
    BY DEF PromptInv
<1> QED BY <1>1, <1>2, PromptInvStep, PTL DEF PromptSpec

-----------------------------------------------------------------------------
(* What SettingsTakeEffect needs while its one request is under way.  What *)
(* the request has read is what is saved, except that a pause or a resume  *)
(* sent meanwhile has changed the saved pause; it then agrees with the     *)
(* status.                                                                 *)
InForce ==
    /\ saved.paused => status # "running"
    /\ saved.enabled /\ ~saved.paused => status = "running"

(* The pause in s is the saved one, or a later pause or resume has saved   *)
(* what the status says.                                                   *)
PauseMatches(s) == s.paused = saved.paused \/ (saved.paused <=> status = "paused")

(* A request that acts on s acts on what is saved.                         *)
Follows(s) == s.enabled = saved.enabled /\ PauseMatches(s)

(* What request r relies on at each of its steps.                          *)
RequestInv(r) ==
    /\ step[r] \in {"idle", "rescan", "restart", "resume"} => InForce
    /\ step[r] \in {"assign", "apply"} => Follows(seen[r])
    /\ step[r] \in {"enqueue", "decide"} => Follows(cfg)

(* The types that the proof needs.                                         *)
SettingsTypes ==
    /\ saved \in Settings
    /\ cfg \in Settings
    /\ seen \in [Requests -> Settings]
    /\ step \in [Requests -> {"idle", "reload", "assign", "enqueue", "decide", "apply",
                              "restart", "resume", "rescan"}]
    /\ reboots \in Nat
    /\ failures \in Nat

(* The invariant, which claims nothing after a reboot or a failing call.   *)
SettingsInv ==
    /\ SettingsTypes
    /\ reboots = 0 /\ failures = 0 =>
          /\ status \in {"running", "paused"}
          /\ Requests = {} => InForce
          /\ \A r \in Requests : RequestInv(r)

(* The settings keep their types, and the counters stay natural numbers.   *)
LEMMA SettingsTypesStep == SettingsTypes /\ [ControlNext]_controlVars => SettingsTypes'
<1> SUFFICES ASSUME SettingsTypes, [ControlNext]_controlVars PROVE SettingsTypes'
    OBVIOUS
<1> USE DEF SettingsTypes, counters
<1>1. ASSUME NEW b \in BOOLEAN, SavePaused(b) PROVE saved' \in Settings /\ failures' \in Nat
    BY <1>1 DEF SavePaused, Fail, Settings
<1>2. DoPause => saved' \in Settings /\ failures' \in Nat
    BY <1>1 DEF DoPause
<1>3. DoResume => saved' \in Settings /\ failures' \in Nat
    BY <1>1 DEF DoResume
<1>4. CASE PauseRequest \/ ResumeRequest
    BY <1>2, <1>3, <1>4 DEF PauseRequest, ResumeRequest
<1>5. ASSUME NEW r \in Requests,
             SaveSettings(r) \/ AssignSettings(r) \/ Enqueue(r) \/ Decide(r) \/ RestartBegin(r)
      PROVE  SettingsTypes'
    BY <1>5 DEF SaveSettings, AssignSettings, Enqueue, Decide, RestartBegin, GoOn
<1>6. ASSUME NEW r \in Requests, ReadSettings(r) PROVE SettingsTypes'
    BY <1>6 DEF ReadSettings, GoOn, Fail
<1>7. ASSUME NEW r \in Requests, Apply(r) \/ RescanBegin(r) \/ LastResume(r)
      PROVE  SettingsTypes'
    BY <1>2, <1>3, <1>7 DEF Apply, RescanBegin, LastResume, GoOn
<1>8. CASE TakePause \/ TakeResume \/ NoMessage \/ NextTurn
    BY <1>8 DEF TakePause, TakeResume, NoMessage, NextTurn
<1>9. CASE Reboot
    <2>1. [enabled |-> FALSE, paused |-> FALSE] \in Settings
        BY DEF Settings
    <2>2. cfg' \in Settings /\ failures' \in Nat
        <3>1. CASE cfg' = saved /\ UNCHANGED failures
            BY <3>1
        <3>2. CASE cfg' = [enabled |-> FALSE, paused |-> FALSE] /\ Fail
            BY <2>1, <3>2 DEF Fail
        <3> QED BY <1>9, <3>1, <3>2, Zenon DEF Reboot, StartWorker
    <2>3. UNCHANGED <<saved, seen>> /\ step' = [r \in Requests |-> "idle"]
        BY <1>9 DEF Reboot
    <2>4. reboots' \in Nat
        BY <1>9 DEF Reboot
    <2> QED BY <2>2, <2>3, <2>4
<1>10. CASE UNCHANGED controlVars
    BY <1>10 DEF controlVars
<1> QED BY <1>4, <1>5, <1>6, <1>7, <1>8, <1>9, <1>10 DEF ControlNext

(* A pause or a resume that is saved leaves status and saved pause equal,  *)
(* or finds the status as it should be and changes nothing.                *)
LEMMA PauseEffect ==
    ASSUME SettingsTypes, status \in {"running", "paused"}, DoPause, failures' = 0, failures = 0
    PROVE  /\ status' = "paused"
           /\ saved'.enabled = saved.enabled
           /\ \/ saved'.paused = TRUE
              \/ status = "paused" /\ saved' = saved
<1>1. CASE status = "running"
    <2>1. saved' = [saved EXCEPT !.paused = TRUE]
        BY <1>1 DEF DoPause, SavePaused, Fail
    <2> QED BY <1>1, <2>1 DEF DoPause, SettingsTypes, Settings
<1>2. CASE status = "paused"
    BY <1>2 DEF DoPause
<1> QED BY <1>1, <1>2

(* The same of a resume.                                                   *)
LEMMA ResumeEffect ==
    ASSUME SettingsTypes, status \in {"running", "paused"}, DoResume, failures' = 0, failures = 0
    PROVE  /\ status' = "running"
           /\ saved'.enabled = saved.enabled
           /\ \/ saved'.paused = FALSE
              \/ status = "running" /\ saved' = saved
<1>1. CASE status = "paused"
    <2>1. saved' = [saved EXCEPT !.paused = FALSE]
        BY <1>1 DEF DoResume, SavePaused, Fail
    <2> QED BY <1>1, <2>1 DEF DoResume, SettingsTypes, Settings
<1>2. CASE status = "running"
    BY <1>2 DEF DoResume
<1> QED BY <1>1, <1>2

(* With one request at a time nothing comes between what it has read and   *)
(* what it does but pauses and resumes.                                    *)
LEMMA SettingsInvStep ==
    ASSUME \A q, r \in Requests : q = r
    PROVE  SettingsInv /\ [ControlNext]_controlVars => SettingsInv'
<1> SUFFICES ASSUME SettingsInv, [ControlNext]_controlVars PROVE SettingsInv'
    OBVIOUS
<1>1. SettingsTypes /\ SettingsTypes'
    BY SettingsTypesStep DEF SettingsInv
<1> SUFFICES ASSUME reboots' = 0, failures' = 0
             PROVE  /\ status' \in {"running", "paused"}
                    /\ Requests = {} => InForce'
                    /\ \A r \in Requests : RequestInv(r)'
    BY <1>1 DEF SettingsInv
<1>2. reboots = 0 /\ failures = 0
    <2>1. failures' = failures \/ failures' = failures + 1
        BY DEF ControlNext, PauseRequest, ResumeRequest, DoPause, DoResume, SavePaused, Fail,
               SaveSettings, ReadSettings, AssignSettings, Enqueue, Decide, Apply, RescanBegin,
               RestartBegin, LastResume, TakePause, TakeResume, NoMessage, NextTurn, Reboot,
               StartWorker, controlVars, counters
    <2>2. reboots' = reboots \/ reboots' = reboots + 1
        BY DEF ControlNext, PauseRequest, ResumeRequest, SaveSettings, ReadSettings,
               AssignSettings, Enqueue, Decide, Apply, RescanBegin,
               RestartBegin, LastResume, TakePause, TakeResume, NoMessage, NextTurn, Reboot,
               controlVars, counters
    <2> QED BY <1>1, <2>1, <2>2 DEF SettingsTypes
<1>3. /\ status \in {"running", "paused"}
      /\ Requests = {} => InForce
      /\ \A r \in Requests : RequestInv(r)
    BY <1>2 DEF SettingsInv
<1>4. /\ saved.paused \in BOOLEAN /\ saved.enabled \in BOOLEAN
      /\ saved'.paused \in BOOLEAN /\ saved'.enabled \in BOOLEAN
    BY <1>1 DEF SettingsTypes, Settings
<1>5. \A r \in Requests : step[r] = "idle" => InForce
    BY <1>3 DEF RequestInv
<1>6. DoPause => /\ status' = "paused"
                 /\ InForce => InForce'
                 /\ \A s \in Settings : Follows(s) => Follows(s)'
    BY <1>1, <1>2, <1>3, <1>4, PauseEffect DEF InForce, Follows, PauseMatches, Settings
<1>7. DoResume => /\ status' = "running"
                  /\ InForce => InForce'
                  /\ \A s \in Settings : Follows(s) => Follows(s)'
    BY <1>1, <1>2, <1>3, <1>4, ResumeEffect DEF InForce, Follows, PauseMatches, Settings
<1>8. ASSUME UNCHANGED <<step, seen, cfg>>, status' \in {"running", "paused"},
             InForce => InForce', \A s \in Settings : Follows(s) => Follows(s)'
      PROVE  /\ Requests = {} => InForce'
             /\ \A r \in Requests : RequestInv(r)'
    BY <1>1, <1>3, <1>8 DEF RequestInv, SettingsTypes, Follows, PauseMatches
<1>9. CASE PauseRequest \/ ResumeRequest
    BY <1>6, <1>7, <1>8, <1>9 DEF PauseRequest, ResumeRequest
<1>10. CASE TakePause \/ TakeResume \/ NoMessage \/ NextTurn \/ UNCHANGED controlVars
    <2>1. UNCHANGED <<step, seen, cfg, saved, status>>
        BY <1>10 DEF TakePause, TakeResume, NoMessage, NextTurn, controlVars
    <2> QED BY <1>3, <1>8, <2>1 DEF InForce, Follows, PauseMatches
<1>11. ASSUME NEW r \in Requests,
              \/ SaveSettings(r) \/ ReadSettings(r) \/ AssignSettings(r) \/ Enqueue(r)
              \/ Decide(r) \/ RestartBegin(r)
       PROVE  status' \in {"running", "paused"} /\ RequestInv(r)'
    <2>1. status' = status /\ step \in [Requests -> {"idle", "reload", "assign", "enqueue",
               "decide", "apply", "restart", "resume", "rescan"}] /\ seen \in [Requests -> Settings]
        BY <1>1, <1>11 DEF SaveSettings, ReadSettings, AssignSettings, Enqueue, Decide,
                           RestartBegin, SettingsTypes
    <2> SUFFICES RequestInv(r)'
        BY <1>3, <2>1
    <2>2. RequestInv(r)
        BY <1>3
    <2>3. CASE SaveSettings(r)
        BY <2>1, <2>3 DEF SaveSettings, GoOn, RequestInv
    <2>4. CASE ReadSettings(r)
        <3>1. seen'[r] = saved /\ step'[r] = "assign" /\ UNCHANGED <<saved, status>>
            BY <1>2, <2>1, <2>4 DEF ReadSettings, GoOn, Fail
        <3> QED BY <3>1 DEF RequestInv, Follows, PauseMatches
    <2>5. CASE AssignSettings(r)
        <3>1. step[r] = "assign" /\ cfg' = seen[r] /\ step'[r] = "enqueue"
            BY <2>1, <2>5 DEF AssignSettings, GoOn
        <3> QED BY <2>1, <2>2, <2>5, <3>1 DEF AssignSettings, RequestInv, Follows, PauseMatches
    <2>6. CASE Enqueue(r)
        <3>1. /\ UNCHANGED <<saved, status, cfg>>
              /\ \/ step[r] = "enqueue" /\ step'[r] = "decide"
                 \/ step[r] = "restart" /\ step'[r] = "resume"
            BY <2>1, <2>6 DEF Enqueue, GoOn
        <3> QED BY <2>2, <3>1 DEF RequestInv, Follows, PauseMatches, InForce
    <2>7. CASE Decide(r)
        <3>1. /\ UNCHANGED <<saved, status>> /\ seen'[r] = cfg
              /\ step[r] = "decide" /\ step'[r] = "apply"
            BY <2>1, <2>7 DEF Decide, GoOn
        <3> QED BY <2>2, <3>1 DEF RequestInv, Follows, PauseMatches
    <2>8. CASE RestartBegin(r)
        <3>1. UNCHANGED <<saved, status>> /\ step[r] = "idle" /\ step'[r] = "restart"
            BY <2>1, <2>8 DEF RestartBegin, GoOn
        <3> QED BY <2>2, <3>1 DEF RequestInv, InForce
    <2> QED BY <1>3, <1>11, <2>1, <2>3, <2>4, <2>5, <2>6, <2>7, <2>8
<1>12. ASSUME NEW r \in Requests, Apply(r)
       PROVE  status' \in {"running", "paused"} /\ RequestInv(r)'
    <2>1. step'[r] = "idle" /\ Follows(seen[r]) /\ seen[r] \in Settings
        BY <1>1, <1>3, <1>12 DEF Apply, GoOn, RequestInv, SettingsTypes
    <2>2. CASE (~seen[r].enabled \/ seen[r].paused) /\ DoPause
        <3>1. InForce'
            BY <1>1, <1>2, <1>3, <1>4, <2>1, <2>2, PauseEffect
               DEF InForce, Follows, PauseMatches, Settings
        <3> QED BY <1>6, <2>1, <2>2, <3>1 DEF RequestInv
    <2>3. CASE seen[r].enabled /\ ~seen[r].paused /\ DoResume
        <3>1. InForce'
            BY <1>1, <1>2, <1>3, <1>4, <2>1, <2>3, ResumeEffect
               DEF InForce, Follows, PauseMatches, Settings
        <3> QED BY <1>7, <2>1, <2>3, <3>1 DEF RequestInv
    <2> QED BY <1>12, <2>2, <2>3 DEF Apply
<1>13. ASSUME NEW r \in Requests, RescanBegin(r) \/ LastResume(r)
       PROVE  status' \in {"running", "paused"} /\ RequestInv(r)'
    <2>1. InForce
        BY <1>3, <1>13 DEF RescanBegin, LastResume, RequestInv
    <2>2. step'[r] \in {"idle", "rescan"}
        BY <1>1, <1>13 DEF RescanBegin, LastResume, GoOn, SettingsTypes
    <2>3. InForce' /\ status' \in {"running", "paused"}
        BY <1>6, <1>7, <1>13, <2>1 DEF RescanBegin, LastResume
    <2> QED BY <2>2, <2>3 DEF RequestInv
<1>14. CASE \E r \in Requests :
               \/ SaveSettings(r) \/ ReadSettings(r) \/ AssignSettings(r) \/ Enqueue(r)
               \/ Decide(r) \/ Apply(r) \/ RescanBegin(r) \/ RestartBegin(r) \/ LastResume(r)
    <2> PICK r \in Requests : status' \in {"running", "paused"} /\ RequestInv(r)'
        BY <1>11, <1>12, <1>13, <1>14
    <2>1. \A q \in Requests : q = r
        OBVIOUS
    <2> QED BY <2>1
<1>15. CASE Reboot
    BY <1>2, <1>15 DEF Reboot
<1> QED BY <1>9, <1>10, <1>14, <1>15 DEF ControlNext

(* With one settings, rescan or restart request at a time, beside any      *)
(* number of pauses and resumes, what is saved is what the worker does     *)
(* once the request has ended (proxy.go:60-90, worker.go:128-206).         *)
THEOREM SettingsReachTheWorker ==
    ASSUME \A q, r \in Requests : q = r
    PROVE  ControlSpec => []SettingsTakeEffect
<1>1. ControlInit => SettingsInv
    BY DEF ControlInit, SettingsInv, SettingsTypes, Settings, Defaults, InForce, RequestInv
<1>2. SettingsInv => SettingsTakeEffect
    BY DEF SettingsInv, SettingsTakeEffect, SettingsInForce, RequestInv, InForce
<1> QED BY <1>1, <1>2, SettingsInvStep, PTL DEF ControlSpec

-----------------------------------------------------------------------------
(* The queue's steps are steps of WorkerControl or leave its state alone.  *)

(* Each action of ProxyWorker is an action of WorkerControl or stutters    *)
(* there.                                                                  *)
LEMMA ControlStep == [ProxyNext]_proxyVars => [ControlNext]_controlVars
<1> SUFFICES ASSUME [ProxyNext]_proxyVars PROVE [ControlNext]_controlVars
    OBVIOUS
<1>1. CASE Handler
    BY <1>1 DEF Handler, ControlNext
<1>2. CASE Message \/ TurnOver
    BY <1>2 DEF Message, Loop, TurnOver, ControlNext
<1>3. CASE List \/ \E w \in Slots : Dispatch(w)
    BY <1>3 DEF List, Dispatch
<1>4. CASE \E w \in Slots : Process(w)
    BY <1>4 DEF Process, Mark, MarkFails, Skip, Convert, Written, ConvertFails, MarkDone,
                MarkFailed, Rest
<1>5. CASE QueueRequest
    BY <1>5 DEF QueueRequest, EnqueueLarge, EnqueueFails, EnqueueRest, RestartFailed,
                RegenRead, RegenRemove, RegenReset, ControlNext
<1>6. CASE \E f \in Files : Archived(f) \/ Trash(f) \/ Emptied(f)
    BY <1>6 DEF Archived, Trash, Emptied, Elsewhere
<1>7. CASE ProxyReboot
    BY <1>7 DEF ProxyReboot, ControlNext
<1>8. CASE UNCHANGED proxyVars
    BY <1>8 DEF proxyVars
<1> QED BY <1>1, <1>2, <1>3, <1>4, <1>5, <1>6, <1>7, <1>8 DEF ProxyNext

(* The detailed worker behaves, as far as WorkerControl's state goes, as   *)
(* WorkerControl says (its fairness is left to the model checker).         *)
THEOREM ProxyRefinesControl == ProxySpec => ControlInit /\ [][ControlNext]_controlVars
<1>1. ProxyInit => ControlInit
    BY DEF ProxyInit
<1> QED BY <1>1, ControlStep, PTL DEF ProxySpec

-----------------------------------------------------------------------------
(* What ProcessingIsHeld rests on: the types of what it mentions, and that *)
(* a goroutine has a row.                                                  *)
QueueTypes ==
    /\ DOMAIN proxy = Files
    /\ at \in [Slots -> Busy \union {"free"}]
    /\ item \in [Slots -> Files \union {NoFile}]
    /\ \A w \in Slots : at[w] # "free" => item[w] \in Files
    /\ batch \subseteq Files
    /\ faults \in Nat

QueueInv == QueueTypes /\ ProcessingIsHeld

(* At the first boot no row is "processing" and every place is free.       *)
LEMMA QueueInit == ProxyInit => QueueInv
BY QueueAssumption
   DEF ProxyInit, QueueInv, QueueTypes, ProcessingIsHeld, SkipRest, QueueLarge, Null, Busy

(* The places of the semaphore: a goroutine changes the status of its own  *)
(* row, and only Mark makes it "processing".                               *)
LEMMA ProcessStep ==
    ASSUME QueueInv, NEW w \in Slots, Process(w)
    PROVE  QueueInv'
<1> USE DEF QueueInv, QueueTypes, Busy
<1>1. loop' = loop /\ batch' = batch /\ faults' \in Nat /\ (faults' = 0 => faults = 0)
    BY DEF Process, Mark, MarkFails, Skip, Convert, Written, ConvertFails, MarkDone,
           MarkFailed, Rest, GoTo, Fault, controlVars
<1>2. QueueTypes'
    <2>1. CASE Mark(w) \/ Convert(w) \/ Written(w) \/ ConvertFails(w)
        BY <1>1, <2>1 DEF Mark, Convert, Written, ConvertFails, Rest, GoTo, SetStatus
    <2>2. CASE MarkFails(w) \/ Skip(w) \/ MarkDone(w) \/ MarkFailed(w)
        BY <1>1, <2>2 DEF MarkFails, Skip, MarkDone, MarkFailed, Rest, GoTo, SetStatus
    <2> QED BY <2>1, <2>2 DEF Process
<1>3. ASSUME faults' = 0, loop' # "off", NEW f \in Files, proxy'[f] = "processing"
      PROVE  \E v \in Slots : item'[v] = f /\ at'[v] \in Busy \ {"mark"}
    <2>1. CASE Mark(w)
        BY <1>1, <1>3, <2>1 DEF Mark, GoTo, SetStatus, ProcessingIsHeld
    <2>2. CASE Convert(w) \/ Written(w) \/ ConvertFails(w)
        BY <1>1, <1>3, <2>2 DEF Convert, Written, ConvertFails, GoTo, ProcessingIsHeld
    <2>3. CASE MarkFails(w)
        BY <1>1, <1>3, <2>3 DEF MarkFails, Fault
    <2>4. CASE Skip(w) \/ MarkDone(w) \/ MarkFailed(w)
        <3>1. SetStatus(item[w], "skipped") \/ SetStatus(item[w], "done")
                \/ SetStatus(item[w], "failed")
            BY <1>3, <2>4, <1>1 DEF Skip, MarkDone, MarkFailed, Fault
        <3>2. f # item[w] /\ proxy[f] = "processing"
            BY <1>3, <3>1 DEF SetStatus, NoRow
        <3>3. PICK v \in Slots : item[v] = f /\ at[v] \in Busy \ {"mark"}
            BY <1>1, <1>3, <3>2 DEF ProcessingIsHeld
        <3>4. v # w /\ item'[v] = item[v] /\ at'[v] = at[v]
            BY <3>2, <3>3, <2>4 DEF Skip, MarkDone, MarkFailed, GoTo
        <3> QED BY <3>3, <3>4
    <2> QED BY <2>1, <2>2, <2>3, <2>4 DEF Process
<1> QED BY <1>2, <1>3 DEF ProcessingIsHeld

(* Steps that leave the semaphore alone and make no row "processing".      *)
LEMMA SlotsUntouched ==
    ASSUME QueueInv, QueueTypes', UNCHANGED <<at, item>>, loop' = "off" <=> loop = "off",
           faults' = 0 => faults = 0,
           \A f \in Files : proxy'[f] = "processing" => proxy[f] = "processing"
    PROVE  QueueInv'
BY DEF QueueInv, QueueTypes, ProcessingIsHeld

(* Handlers, the loop, goroutines, archiving, the trash and reboots.       *)
LEMMA QueueStep == QueueInv /\ [ProxyNext]_proxyVars => QueueInv'
<1> SUFFICES ASSUME QueueInv, [ProxyNext]_proxyVars PROVE QueueInv'
    OBVIOUS
<1> USE DEF QueueInv, QueueTypes
<1>1. CASE \E w \in Slots : Process(w)
    BY <1>1, ProcessStep
<1>2. CASE Handler /\ UNCHANGED queueVars
    <2>1. loop' = loop
        BY <1>2 DEF Handler, PauseRequest, ResumeRequest, SaveSettings, ReadSettings,
                    AssignSettings, Decide, Apply, RescanBegin, LastResume
    <2> QED BY <1>2, <2>1, SlotsUntouched DEF queueVars, rowVars, workVars
<1>3. CASE Message \/ TurnOver \/ List
    <2>1. QueueTypes' /\ UNCHANGED <<proxy, at, item>> /\ (faults' = 0 => faults = 0)
        <3>1. CASE Message \/ TurnOver
            BY <1>3, <3>1 DEF Message, Loop, TurnOver, queueVars, rowVars, workVars
        <3>2. CASE List
            <4>1. batch' \subseteq Files
                BY <3>2 DEF List, First, Pending
            <4> QED BY <3>2, <4>1 DEF List, Fault, rowVars
        <3> QED BY <1>3, <3>1, <3>2
    <2>2. loop' = "off" <=> loop = "off"
        BY <1>3 DEF Message, Loop, TakePause, TakeResume, NoMessage, TurnOver, NextTurn,
                    List, controlVars
    <2> QED BY <2>1, <2>2, SlotsUntouched
<1>4. CASE \E w \in Slots : Dispatch(w)
    <2> PICK w \in Slots : Dispatch(w)
        BY <1>4
    <2>1. QueueTypes' /\ loop' = loop /\ proxy' = proxy /\ faults' = faults
        BY DEF Dispatch, controlVars, rowVars, Busy
    <2>2. \A v \in Slots : at[v] # "free" => at'[v] = at[v] /\ item'[v] = item[v]
        BY DEF Dispatch
    <2> QED BY <2>1, <2>2 DEF ProcessingIsHeld, Busy
<1>5. CASE QueueRequest
    <2>1. QueueTypes' /\ UNCHANGED <<at, item>> /\ (faults' = 0 => faults = 0)
        BY <1>5 DEF QueueRequest, EnqueueLarge, EnqueueFails, EnqueueRest, RestartFailed,
                    RegenRead, RegenRemove, RegenReset, Answer, Settled, Fault, rowVars,
                    workVars, QueueLarge, SkipRest, Reset, SetStatus
    <2>2. loop' = loop
        BY <1>5 DEF QueueRequest, EnqueueLarge, EnqueueFails, EnqueueRest, RestartFailed,
                    RegenRead, RegenRemove, RegenReset, Enqueue, RestartBegin, controlVars
    <2>3. \A f \in Files : proxy'[f] = "processing" => proxy[f] = "processing"
        BY <1>5 DEF QueueRequest, EnqueueLarge, EnqueueFails, EnqueueRest, RestartFailed,
                    RegenRead, RegenRemove, RegenReset, rowVars, Settled,
                    QueueLarge, SkipRest, Reset, SetStatus
    <2> QED BY <2>1, <2>2, <2>3, SlotsUntouched
<1>6. CASE \E f \in Files : Archived(f) \/ Trash(f) \/ Emptied(f)
    <2>1. QueueTypes' /\ UNCHANGED <<at, item, loop, faults>>
        BY <1>6 DEF Archived, Trash, Emptied, Elsewhere, controlVars, workVars
    <2>2. \A f \in Files : proxy'[f] = "processing" => proxy[f] = "processing"
        BY <1>6 DEF Archived, Trash, Emptied
    <2> QED BY <2>1, <2>2, SlotsUntouched
<1>7. CASE ProxyReboot
    <2>1. QueueTypes'
        BY <1>7 DEF ProxyReboot, Restored, SkipRest, QueueLarge, Reset, Fault, Busy
    <2>2. ASSUME faults' = 0, loop' # "off", NEW f \in Files PROVE proxy'[f] # "processing"
        <3>1. proxy' = SkipRest(QueueLarge(Restored(proxy)))
            BY <1>7, <2>2 DEF ProxyReboot, Fault
        <3>2. Restored(proxy)[f] # "processing"
            BY DEF Restored, Reset
        <3>3. QueueLarge(Restored(proxy))[f] # "processing"
            BY <3>2 DEF QueueLarge
        <3> QED BY <3>1, <3>3 DEF SkipRest
    <2> QED BY <2>1, <2>2 DEF ProcessingIsHeld
<1>8. CASE UNCHANGED proxyVars
    BY <1>8, SlotsUntouched DEF proxyVars, controlVars, queueVars, rowVars, workVars
<1> QED BY <1>1, <1>2, <1>3, <1>4, <1>5, <1>6, <1>7, <1>8 DEF ProxyNext

(* As long as no call on the queue has failed, a row that says             *)
(* "processing" is in the hands of a goroutine, whatever requests, kills   *)
(* and reboots come (worker.go:89-92, 304-359).                            *)
THEOREM ProcessingRowsAreHeld == ProxySpec => []ProcessingIsHeld
<1>1. QueueInv => ProcessingIsHeld
    BY DEF QueueInv
<1> QED BY <1>1, QueueInit, QueueStep, PTL DEF ProxySpec

-----------------------------------------------------------------------------
(* Between the two UPDATEs of an enqueue no large file is without a        *)
(* status, when no row is inserted there.                                  *)
LargeQueued == half # {} => Null(proxy) \cap Large = {}

SmallInv == QueueInv /\ SkippedIsSmall /\ LargeQueued

(* Steps after which a row is skipped or without a status only if it was   *)
(* so before, or as SkippedIsSmall allows.                                 *)
LEMMA NoneSkipped ==
    ASSUME SmallInv, half' \subseteq half, trashed \subseteq trashed',
           \A f \in Files : /\ proxy'[f] = "skipped" => proxy[f] = "skipped" \/ f \in Unsupported
                            /\ proxy'[f] = "null" => proxy[f] = "null" \/ half = {}
    PROVE  SkippedIsSmall' /\ LargeQueued'
<1>1. SkippedIsSmall'
    BY DEF SmallInv, SkippedIsSmall
<1>2. ASSUME half' # {} PROVE Null(proxy)' \cap Large = {}
    <2>1. half # {}
        BY <1>2
    <2>2. Null(proxy) \cap Large = {}
        BY <2>1 DEF SmallInv, LargeQueued
    <2>3. \A f \in Null(proxy)' : f \in Null(proxy)
        BY <2>1 DEF Null
    <2> QED BY <2>2, <2>3
<1> QED BY <1>1, <1>2 DEF LargeQueued

(* The second UPDATE of an enqueue skips small files only, if the first    *)
(* has just been made.                                                     *)
LEMMA SkipRestSmall ==
    ASSUME NEW p, DOMAIN p = Files,
           \A f \in Files : p[f] = "skipped" => f \notin Large \/ f \in Unsupported
    PROVE  /\ DOMAIN QueueLarge(p) = Files
           /\ \A f \in Files : QueueLarge(p)[f] = "skipped" => f \notin Large \/ f \in Unsupported
           /\ \A f \in Files : SkipRest(QueueLarge(p))[f] = "skipped" =>
                  f \notin Large \/ f \in Unsupported
BY DEF QueueLarge, SkipRest, Null

(* Start leaves no large file skipped, whichever of its calls fails.       *)
LEMMA SmallReboot ==
    ASSUME SmallInv, ProxyReboot
    PROVE  SkippedIsSmall' /\ LargeQueued'
<1>1. half' = {}
    BY DEF ProxyReboot
<1>2. DOMAIN proxy = Files
    BY DEF SmallInv, QueueInv, QueueTypes
<1> DEFINE Small(p) == \A f \in Files : p[f] = "skipped" => f \notin Large \/ f \in Unsupported
<1>3. Small(proxy)
    BY DEF SmallInv, SkippedIsSmall
<1> DEFINE p1 == Restored(proxy)
           p2 == Reset(proxy, "skipped", "null")
           p3 == Reset(proxy, "processing", "pending")
<1>4. /\ DOMAIN p1 = Files /\ Small(p1)
      /\ DOMAIN p2 = Files /\ Small(p2)
      /\ DOMAIN p3 = Files /\ Small(p3)
    BY <1>2, <1>3 DEF Restored, Reset
<1> HIDE DEF p1, p2, p3
<1>5. Small(proxy')
    <2>1. \/ proxy' = proxy
          \/ proxy' \in {SkipRest(QueueLarge(p1)), SkipRest(QueueLarge(p2)),
                         SkipRest(QueueLarge(p3)), QueueLarge(p1), p1}
        BY DEF ProxyReboot, p1, p2, p3
    <2> QED BY <2>1, <1>3, <1>4, SkipRestSmall
<1> QED BY <1>1, <1>5 DEF SkippedIsSmall, LargeQueued

(* No step skips a large file of a known kind.                             *)
LEMMA SmallStep == SmallInv /\ [ProxyNext /\ Apart]_proxyVars => SmallInv'
<1> SUFFICES ASSUME SmallInv, [ProxyNext /\ Apart]_proxyVars
             PROVE  SkippedIsSmall' /\ LargeQueued'
    BY QueueStep DEF SmallInv
<1> USE DEF SmallInv, QueueInv, QueueTypes
<1>1. CASE \E w \in Slots : Process(w)
    <2> PICK w \in Slots : Process(w)
        BY <1>1
    <2>1. half' = half /\ trashed' = trashed
        BY DEF Process, Mark, MarkFails, Skip, Convert, Written, ConvertFails, MarkDone,
               MarkFailed, Rest, requestVars
    <2>2. ASSUME NEW f \in Files
          PROVE  /\ proxy'[f] = "skipped" => proxy[f] = "skipped" \/ f \in Unsupported
                 /\ proxy'[f] = "null" => proxy[f] = "null"
        BY DEF Process, Mark, MarkFails, Skip, Convert, Written, ConvertFails, MarkDone,
               MarkFailed, SetStatus, NoRow
    <2> QED BY <2>1, <2>2, NoneSkipped
<1>2. CASE \/ Handler /\ UNCHANGED queueVars
           \/ Message \/ TurnOver \/ List
           \/ \E w \in Slots : Dispatch(w)
           \/ UNCHANGED proxyVars
    <2>1. UNCHANGED <<proxy, half, trashed>>
        BY <1>2 DEF queueVars, rowVars, requestVars, Message, Loop, TurnOver, List, Dispatch,
                    proxyVars
    <2> QED BY <2>1, NoneSkipped
<1>3. ASSUME NEW r \in Requests, EnqueueLarge(r)
      PROVE  SkippedIsSmall' /\ LargeQueued'
    BY <1>3 DEF EnqueueLarge, QueueLarge, Null, SkippedIsSmall, LargeQueued, Settled
<1>4. ASSUME NEW r \in Requests, EnqueueRest(r)
      PROVE  SkippedIsSmall' /\ LargeQueued'
    BY <1>4 DEF EnqueueRest, SkipRest, Null, SkippedIsSmall, LargeQueued, Settled
<1>5. CASE \/ \E r \in Requests : EnqueueFails(r) \/ RestartFailed(r)
           \/ \E c \in Clients : RegenRead(c) \/ RegenRemove(c) \/ RegenReset(c)
    <2>1. half' = half /\ trashed' = trashed
        BY <1>5 DEF EnqueueFails, RestartFailed, RegenRead, RegenRemove, RegenReset, Settled,
                    rowVars
    <2>2. ASSUME NEW f \in Files
          PROVE  /\ proxy'[f] = "skipped" => proxy[f] = "skipped"
                 /\ proxy'[f] = "null" => proxy[f] = "null"
        BY <1>5 DEF EnqueueFails, RestartFailed, RegenRead, RegenRemove, RegenReset, rowVars,
                    Reset, SetStatus
    <2> QED BY <2>1, <2>2, NoneSkipped
<1>6. CASE \E f \in Files : Archived(f) \/ Trash(f) \/ Emptied(f)
    <2>1. half' = half /\ trashed \subseteq trashed'
        BY <1>6 DEF Archived, Trash, Emptied, Elsewhere, requestVars
    <2>2. Apart \/ UNCHANGED proxyVars
        OBVIOUS
    <2>3. ASSUME NEW f \in Files
          PROVE  /\ proxy'[f] = "skipped" => proxy[f] = "skipped"
                 /\ proxy'[f] = "null" => proxy[f] = "null" \/ half = {}
        BY <1>6, <2>2 DEF Archived, Trash, Emptied, Apart, proxyVars, queueVars, rowVars
    <2> QED BY <2>1, <2>3, NoneSkipped
<1>7. CASE ProxyReboot
    BY <1>7, SmallReboot
<1> QED BY <1>1, <1>2, <1>3, <1>4, <1>5, <1>6, <1>7 DEF ProxyNext, QueueRequest

(* If no row is inserted between the two UPDATEs of an enqueue, only small *)
(* or unsupported files are skipped, whatever fails and is killed          *)
(* (db/proxy.go:187).                                                      *)
THEOREM OnlySmallAreSkipped == ApartSpec => []SkippedIsSmall
<1>1. ProxyInit => SmallInv
    BY QueueInit DEF ProxyInit, SmallInv, SkippedIsSmall, LargeQueued, SkipRest, QueueLarge, Null
<1>2. SmallInv => SkippedIsSmall
    BY DEF SmallInv
<1> QED BY <1>1, <1>2, SmallStep, PTL DEF ApartSpec

-----------------------------------------------------------------------------
(* A row in the hands of a goroutine belongs to it, when the semaphore has *)
(* one place and no request to regenerate is about the same row.           *)

(* Past Mark a row is "processing", unless it was deleted.                 *)
RowsTaken ==
    /\ \A f \in batch : proxy[f] # "absent"
    /\ \A w \in Slots : /\ at[w] # "free" => proxy[item[w]] # "absent"
                        /\ at[w] \in Busy \ {"mark"} => proxy[item[w]] \in {"processing", "gone"}

(* A request to regenerate is about a row that no goroutine has.           *)
RegenAway ==
    \A c \in Clients : regen[c] # "idle" =>
        target[c] \in Files /\ \A w \in Slots : at[w] # "free" => item[w] # target[c]

(* The types of the requests to regenerate.                                *)
RegenTypes ==
    /\ regen \in [Clients -> {"idle", "remove", "reset"}]
    /\ DOMAIN target = Clients

(* RowsTaken and RegenAway are inductive together.                         *)
HandInv == QueueTypes /\ RegenTypes /\ RowsTaken /\ RegenAway

(* The part of Apart that RegenAway needs; without clients it is no        *)
(* condition at all.                                                       *)
RegenAside == \A c \in Clients : regen'[c] # "idle" => ~InHand(target'[c])

(* The types alone are inductive.                                          *)
LEMMA TypesStep == QueueTypes /\ [ProxyNext]_proxyVars => QueueTypes'
<1> SUFFICES ASSUME QueueTypes, [ProxyNext]_proxyVars PROVE QueueTypes'
    OBVIOUS
<1> USE DEF QueueTypes, Busy
<1>1. ASSUME NEW w \in Slots, Process(w) PROVE QueueTypes'
    <2>1. CASE Mark(w) \/ Convert(w) \/ Written(w) \/ ConvertFails(w)
        BY <2>1 DEF Mark, Convert, Written, ConvertFails, Rest, GoTo, SetStatus
    <2>2. CASE MarkFails(w) \/ Skip(w) \/ MarkDone(w) \/ MarkFailed(w)
        BY <2>2 DEF MarkFails, Skip, MarkDone, MarkFailed, Rest, GoTo, SetStatus, Fault
    <2> QED BY <1>1, <2>1, <2>2 DEF Process
<1>2. CASE (Handler /\ UNCHANGED queueVars) \/ Message \/ TurnOver \/ UNCHANGED proxyVars
    BY <1>2 DEF Message, Loop, TurnOver, queueVars, rowVars, workVars, proxyVars
<1>3. CASE List
    <2>1. batch' \subseteq Files
        BY <1>3 DEF List, First, Pending
    <2> QED BY <1>3, <2>1 DEF List, Fault, rowVars
<1>4. CASE \E w \in Slots : Dispatch(w)
    BY <1>4 DEF Dispatch, rowVars
<1>5. CASE QueueRequest
    BY <1>5 DEF QueueRequest, EnqueueLarge, EnqueueFails, EnqueueRest, RestartFailed,
                RegenRead, RegenRemove, RegenReset, Answer, Settled, Fault, rowVars,
                workVars, QueueLarge, SkipRest, Reset, SetStatus
<1>6. CASE \E f \in Files : Archived(f) \/ Trash(f) \/ Emptied(f)
    BY <1>6 DEF Archived, Trash, Emptied, Elsewhere, controlVars, workVars
<1>7. CASE ProxyReboot
    BY <1>7 DEF ProxyReboot, Restored, SkipRest, QueueLarge, Reset, Fault
<1> QED BY <1>1, <1>2, <1>3, <1>4, <1>5, <1>6, <1>7 DEF ProxyNext

(* Steps of the queue that leave the semaphore, the batch and the requests *)
(* to regenerate alone, and the rows in the hands of a goroutine.          *)
LEMMA HandUntouched ==
    ASSUME HandInv, QueueTypes', UNCHANGED <<at, item, regen, target>>, batch' \subseteq batch,
           \A f \in Files : proxy'[f] = "absent" => proxy[f] = "absent",
           \A f \in Files : proxy[f] \in {"processing", "gone"} =>
               proxy'[f] \in {"processing", "gone"}
    PROVE  HandInv'
<1> USE DEF HandInv, QueueTypes
<1>1. RegenTypes' /\ RegenAway'
    BY DEF RegenTypes, RegenAway
<1>2. RowsTaken'
    BY DEF RowsTaken, Busy
<1> QED BY <1>1, <1>2

(* A goroutine's own step, when there is no other goroutine.               *)
LEMMA HandProcess ==
    ASSUME HandInv, QueueTypes', \A v, w \in Slots : v = w, NEW w \in Slots, Process(w)
    PROVE  HandInv'
<1> USE DEF HandInv, QueueTypes
<1>1. UNCHANGED <<regen, target, batch>>
    BY DEF Process, Mark, MarkFails, Skip, Convert, Written, ConvertFails, MarkDone,
           MarkFailed, Rest, requestVars, GoTo
<1>2. at'[w] # "free" => at[w] # "free" /\ item'[w] = item[w]
    BY DEF Process, Mark, MarkFails, Skip, Convert, Written, ConvertFails, MarkDone,
           MarkFailed, GoTo
<1>3. \A f \in Files : proxy'[f] = "absent" => proxy[f] = "absent"
    BY DEF Process, Mark, MarkFails, Skip, Convert, Written, ConvertFails, MarkDone,
           MarkFailed, SetStatus, NoRow
<1>4. at'[w] # "free" => proxy'[item[w]] \in {"processing", "gone"}
    <2>1. CASE Mark(w)
        BY <2>1 DEF Mark, SetStatus, NoRow, RowsTaken, GoTo
    <2>2. CASE Convert(w) \/ Written(w) \/ ConvertFails(w)
        BY <2>2 DEF Convert, Written, ConvertFails, RowsTaken, Busy
    <2>3. CASE MarkFails(w) \/ Skip(w) \/ MarkDone(w) \/ MarkFailed(w)
        BY <2>3 DEF MarkFails, Skip, MarkDone, MarkFailed, GoTo
    <2> QED BY <2>1, <2>2, <2>3 DEF Process
<1>5. RowsTaken'
    BY <1>1, <1>2, <1>3, <1>4 DEF RowsTaken, Busy
<1>6. RegenAway' /\ RegenTypes'
    BY <1>1, <1>2 DEF RegenAway, RegenTypes
<1> QED BY <1>5, <1>6

(* No step takes a row out of the hands of the goroutine that works on it. *)
LEMMA HandStep ==
    ASSUME \A v, w \in Slots : v = w
    PROVE  HandInv /\ [ProxyNext /\ RegenAside]_proxyVars => HandInv'
<1> SUFFICES ASSUME HandInv, [ProxyNext /\ RegenAside]_proxyVars PROVE HandInv'
    OBVIOUS
<1>0. QueueTypes'
    BY TypesStep DEF HandInv
<1> USE <1>0 DEF HandInv, QueueTypes
<1>1. CASE \E w \in Slots : Process(w)
    BY <1>1, HandProcess
<1>2. CASE \/ Handler /\ UNCHANGED queueVars
           \/ Message \/ TurnOver
           \/ UNCHANGED proxyVars
    <2>1. UNCHANGED <<proxy, at, item, regen, target, batch>>
        BY <1>2 DEF queueVars, rowVars, requestVars, workVars, Message, Loop, TurnOver, proxyVars
    <2> QED BY <2>1, HandUntouched
<1>3. CASE List
    <2>1. UNCHANGED <<proxy, at, item, regen, target>>
        BY <1>3 DEF List, rowVars, requestVars
    <2>2. \A f \in batch' : proxy[f] = "pending"
        BY <1>3 DEF List, First, Pending
    <2> QED BY <2>1, <2>2 DEF RowsTaken, RegenAway, RegenTypes
<1>4. ASSUME NEW w \in Slots, Dispatch(w), RegenAside PROVE HandInv'
    <2>1. PICK f \in batch : item' = [item EXCEPT ![w] = f] /\ batch' = batch \ {f}
        BY <1>4 DEF Dispatch
    <2>2. UNCHANGED <<proxy, regen, target>> /\ at' = [at EXCEPT ![w] = "mark"]
        BY <1>4 DEF Dispatch, rowVars, requestVars
    <2>3. RowsTaken'
        BY <2>1, <2>2 DEF RowsTaken, Busy
    <2>4. \A c \in Clients : regen[c] # "idle" => target[c] # f
        BY <1>4, <2>2 DEF RegenAside, InHand
    <2>5. RegenAway' /\ RegenTypes'
        BY <2>1, <2>2, <2>4 DEF RegenAway, RegenTypes
    <2> QED BY <2>3, <2>5
<1>5. CASE \E r \in Requests : \/ EnqueueLarge(r) \/ EnqueueFails(r) \/ EnqueueRest(r)
                               \/ RestartFailed(r)
    <2>1. UNCHANGED <<at, item, regen, target, batch>>
        BY <1>5 DEF EnqueueLarge, EnqueueFails, EnqueueRest, RestartFailed, Settled, workVars
    <2>2. ASSUME NEW f \in Files
          PROVE  /\ proxy'[f] = "absent" => proxy[f] = "absent"
                 /\ proxy[f] \in {"processing", "gone"} => proxy'[f] \in {"processing", "gone"}
        BY <1>5 DEF EnqueueLarge, EnqueueFails, EnqueueRest, RestartFailed, QueueLarge,
                    SkipRest, Null, Reset
    <2> QED BY <2>1, <2>2, HandUntouched
<1>6. ASSUME NEW c \in Clients, RegenRead(c), RegenAside PROVE HandInv'
    <2>1. PICK f \in Files : target' = [target EXCEPT ![c] = f] /\ regen'[c] # "idle"
        BY <1>6 DEF RegenRead, RegenTypes
    <2>2. /\ UNCHANGED <<proxy, at, item, batch>> /\ RegenTypes'
          /\ \A d \in Clients \ {c} : regen'[d] = regen[d] /\ target'[d] = target[d]
        BY <1>6 DEF RegenRead, RegenTypes, rowVars, workVars
    <2>3. target'[c] = f /\ ~InHand(f)
        BY <1>6, <2>1 DEF RegenTypes, RegenAside
    <2>4. \A w \in Slots : at[w] # "free" => item[w] # f
        BY <2>3 DEF InHand
    <2>5. RegenAway'
        BY <2>2, <2>3, <2>4 DEF RegenAway
    <2> QED BY <2>2, <2>5 DEF RowsTaken
<1>7. ASSUME NEW c \in Clients, RegenRemove(c) \/ RegenReset(c) PROVE HandInv'
    <2>1. /\ UNCHANGED <<at, item, batch>> /\ RegenTypes'
          /\ \A d \in Clients : regen'[d] # "idle" => regen[d] # "idle" /\ target'[d] = target[d]
        BY <1>7 DEF RegenRemove, RegenReset, Answer, RegenTypes, workVars, rowVars
    <2>2. RegenAway'
        BY <2>1 DEF RegenAway
    <2>3. CASE RegenRemove(c)
        BY <2>1, <2>2, <2>3 DEF RegenRemove, rowVars, RowsTaken
    <2>4. CASE RegenReset(c)
        <3>1. /\ proxy' = proxy \/ SetStatus(target[c], "pending")
              /\ regen[c] # "idle"
            BY <2>4 DEF RegenReset
        <3>2. \A f \in Files : proxy'[f] = "absent" => proxy[f] = "absent"
            BY <3>1 DEF SetStatus
        <3>3. \A w \in Slots : at[w] # "free" => proxy'[item[w]] = proxy[item[w]]
            BY <3>1 DEF SetStatus, RegenAway
        <3>4. RowsTaken'
            BY <2>1, <3>2, <3>3 DEF RowsTaken, Busy
        <3> QED BY <2>1, <2>2, <3>4
    <2> QED BY <1>7, <2>3, <2>4
<1>8. CASE \E f \in Files : Archived(f) \/ Trash(f) \/ Emptied(f)
    <2>1. UNCHANGED <<at, item, regen, target, batch>>
        BY <1>8 DEF Archived, Trash, Emptied, Elsewhere, requestVars, workVars
    <2>2. ASSUME NEW f \in Files
          PROVE  /\ proxy'[f] = "absent" => proxy[f] = "absent"
                 /\ proxy[f] \in {"processing", "gone"} => proxy'[f] \in {"processing", "gone"}
        BY <1>8 DEF Archived, Trash, Emptied
    <2> QED BY <2>1, <2>2, HandUntouched
<1>9. CASE ProxyReboot
    <2>1. /\ batch' = {}
          /\ at' = [w \in Slots |-> "free"]
          /\ regen' = [c \in Clients |-> "idle"]
          /\ target' = [c \in Clients |-> NoFile]
        BY <1>9 DEF ProxyReboot
    <2> QED BY <2>1 DEF RowsTaken, RegenAway, RegenTypes, Busy
<1> QED BY <1>1, <1>2, <1>3, <1>4, <1>5, <1>6, <1>7, <1>8, <1>9 DEF ProxyNext, QueueRequest

(* At the first boot nothing is in anybody's hands.                        *)
LEMMA HandInit == ProxyInit => HandInv
BY QueueInit
   DEF ProxyInit, QueueInv, HandInv, RegenTypes, RowsTaken, RegenAway, Busy

(* What QueuedIsTakenUp says of one step.                                  *)
TakenUp == \A f \in Files : proxy[f] = "pending" =>
               proxy'[f] \in {"pending", "processing", "gone"}

(* No conversion ends on a row that waits: the row it set out from is      *)
(* still "processing", or gone.                                            *)
LEMMA TakenUpStep == HandInv /\ [ProxyNext]_proxyVars => [TakenUp]_proxyVars
<1> SUFFICES ASSUME HandInv, [ProxyNext]_proxyVars, NEW f \in Files, proxy[f] = "pending"
             PROVE  proxy'[f] \in {"pending", "processing", "gone"}
    BY DEF TakenUp
<1> USE DEF HandInv, QueueTypes
<1>1. ASSUME NEW w \in Slots, Process(w) PROVE proxy'[f] \in {"pending", "processing"}
    <2>1. CASE Mark(w) \/ MarkFails(w) \/ Convert(w) \/ Written(w) \/ ConvertFails(w)
        BY <2>1 DEF Mark, MarkFails, Convert, Written, ConvertFails, SetStatus, NoRow
    <2>2. CASE Skip(w) \/ MarkDone(w) \/ MarkFailed(w)
        <3>1. item[w] # f
            BY <2>2 DEF Skip, MarkDone, MarkFailed, RowsTaken, Busy
        <3> QED BY <2>2, <3>1 DEF Skip, MarkDone, MarkFailed, SetStatus
    <2> QED BY <1>1, <2>1, <2>2 DEF Process
<1>2. CASE \/ Handler /\ UNCHANGED queueVars
           \/ Message \/ TurnOver \/ List
           \/ \E w \in Slots : Dispatch(w)
           \/ UNCHANGED proxyVars
    BY <1>2 DEF queueVars, rowVars, Message, Loop, TurnOver, List, Dispatch, proxyVars
<1>3. CASE QueueRequest
    BY <1>3 DEF QueueRequest, EnqueueLarge, EnqueueFails, EnqueueRest, RestartFailed,
                RegenRead, RegenRemove, RegenReset, rowVars, QueueLarge, SkipRest, Null,
                Reset, SetStatus
<1>4. CASE \E g \in Files : Archived(g) \/ Trash(g) \/ Emptied(g)
    BY <1>4 DEF Archived, Trash, Emptied
<1>5. CASE ProxyReboot
    <2> DEFINE p1 == Restored(proxy)
               p2 == Reset(proxy, "skipped", "null")
               p3 == Reset(proxy, "processing", "pending")
    <2>1. /\ DOMAIN p1 = Files /\ p1[f] = "pending"
          /\ DOMAIN p2 = Files /\ p2[f] = "pending"
          /\ DOMAIN p3 = Files /\ p3[f] = "pending"
        BY DEF Restored, Reset
    <2> HIDE DEF p1, p2, p3
    <2>2. \A p : p[f] = "pending" =>
              QueueLarge(p)[f] = "pending" /\ SkipRest(QueueLarge(p))[f] = "pending"
        BY DEF QueueLarge, SkipRest, Null
    <2>3. \/ proxy' = proxy
          \/ proxy' \in {SkipRest(QueueLarge(p1)), SkipRest(QueueLarge(p2)),
                         SkipRest(QueueLarge(p3)), QueueLarge(p1), p1}
        BY <1>5 DEF ProxyReboot, p1, p2, p3
    <2> QED BY <2>1, <2>2, <2>3
<1> QED BY <1>1, <1>2, <1>3, <1>4, <1>5 DEF ProxyNext

(* With one place in the semaphore and no request to regenerate, a queued  *)
(* row leaves the queue by being taken up or deleted, whatever fails and   *)
(* is killed (db/proxy.go:262, worker.go:304-359).                         *)
THEOREM QueuedRowsAreTakenUp ==
    ASSUME \A v, w \in Slots : v = w, Clients = {}
    PROVE  ProxySpec => QueuedIsTakenUp
<1>1. [ProxyNext]_proxyVars => [ProxyNext /\ RegenAside]_proxyVars
    BY DEF RegenAside
<1>2. [TakenUp]_proxyVars => [\A f \in Files : proxy[f] = "pending" =>
           proxy'[f] \in {"pending", "processing", "gone"}]_proxyVars
    BY DEF TakenUp
<1> QED BY <1>1, <1>2, HandInit, HandStep, TakenUpStep, PTL DEF ProxySpec, QueuedIsTakenUp

(* And with requests to regenerate that do not meet the worker.            *)
THEOREM QueuedRowsAreTakenUpBesideRegeneration ==
    ASSUME \A v, w \in Slots : v = w
    PROVE  ApartSpec => QueuedIsTakenUp
<1>1. [ProxyNext /\ Apart]_proxyVars => [ProxyNext /\ RegenAside]_proxyVars
    BY DEF RegenAside, Apart
<1>2. [TakenUp]_proxyVars => [\A f \in Files : proxy[f] = "pending" =>
           proxy'[f] \in {"pending", "processing", "gone"}]_proxyVars
    BY DEF TakenUp
<1>3. [ProxyNext /\ Apart]_proxyVars => [ProxyNext]_proxyVars
    OBVIOUS
<1> QED BY <1>1, <1>2, <1>3, HandInit, HandStep, TakenUpStep, PTL DEF ApartSpec, QueuedIsTakenUp

-----------------------------------------------------------------------------
(* Where the proxies are.                                                  *)

(* The goroutine's output is its own: partial while it writes, then whole. *)
OutputKept ==
    \A w \in Slots : /\ at[w] = "writing" => disk[Path(w)] = Partial
                     /\ at[w] = "done" => disk[Path(w)] = item[w]

(* A row that is done has its proxy, but for one whose proxy a request to  *)
(* regenerate has just removed.                                            *)
DoneRows ==
    \A f \in Files : proxy[f] = "done" =>
        /\ f \in hasPath
        /\ disk[ProxyOf[f]] = f \/ \E c \in Clients : regen[c] = "reset" /\ target[c] = f

(* DoneHasProxy with what it rests on.                                     *)
DoneInv == HandInv /\ DOMAIN disk = ProxyPaths /\ OutputKept /\ DoneRows

(* Steps that change no proxy and no request to regenerate, and make no    *)
(* row "done".                                                             *)
LEMMA DoneUntouched ==
    ASSUME DoneInv, HandInv', UNCHANGED <<disk, regen, target>>,
           \A w \in Slots : at'[w] \in {"writing", "done"} => at'[w] = at[w] /\ item'[w] = item[w],
           \A f \in Files : proxy'[f] = "done" =>
               proxy[f] = "done" /\ (f \in hasPath => f \in hasPath')
    PROVE  DoneInv'
<1>1. OutputKept'
    BY DEF DoneInv, OutputKept, Path
<1>2. DoneRows'
    BY DEF DoneInv, DoneRows
<1> QED BY <1>1, <1>2 DEF DoneInv

(* The steps of the goroutine: its output ends at the path of its own row, *)
(* which no other row has, and is whole when it marks the row done.        *)
LEMMA DoneProcess ==
    ASSUME DoneInv, HandInv', \A v, w \in Slots : v = w, NEW w \in Slots, Process(w),
           \A f, g \in Files : ProxyOf[f] = ProxyOf[g] => f = g
    PROVE  DoneInv'
<1> USE DEF DoneInv, HandInv, QueueTypes
<1>1. CASE Mark(w) \/ MarkFails(w) \/ Skip(w) \/ ConvertFails(w) \/ MarkFailed(w)
    <2>1. UNCHANGED <<disk, regen, target, hasPath>>
        BY <1>1 DEF Mark, MarkFails, Skip, ConvertFails, MarkFailed, Rest, requestVars
    <2>2. at'[w] \notin {"writing", "done"}
        BY <1>1 DEF Mark, MarkFails, Skip, ConvertFails, MarkFailed, GoTo
    <2>3. \A f \in Files : proxy'[f] = "done" => proxy[f] = "done"
        BY <1>1 DEF Mark, MarkFails, Skip, ConvertFails, MarkFailed, SetStatus, NoRow
    <2> QED BY <2>1, <2>2, <2>3, DoneUntouched
<1>2. CASE Convert(w) \/ Written(w)
    <2>1. /\ UNCHANGED <<proxy, hasPath, regen, target>>
          /\ item'[w] = item[w] /\ item[w] \in Files
          /\ proxy[item[w]] \in {"processing", "gone"}
        BY <1>2 DEF Convert, Written, GoTo, Rest, requestVars, RowsTaken, Busy
    <2>2. PICK x : /\ disk' = [disk EXCEPT ![ProxyOf[item[w]]] = x]
                   /\ \/ at'[w] = "writing" /\ x = Partial
                      \/ at'[w] = "done" /\ x = item[w]
        <3>1. CASE Convert(w)
            BY <3>1 DEF Convert, GoTo, Path
        <3>2. CASE Written(w)
            <4>1. disk[Path(w)] = Partial
                BY <3>2 DEF Written, OutputKept
            <4>2. disk' = [disk EXCEPT ![Path(w)] = item[w]]
                BY <3>2, <4>1, QueueAssumption DEF Written
            <4> QED BY <3>2, <4>2 DEF Written, GoTo, Path
        <3> QED BY <1>2, <3>1, <3>2
    <2>3. ProxyOf[item[w]] \in ProxyPaths
        BY <2>1, QueueAssumption
    <2>4. OutputKept'
        BY <2>1, <2>2, <2>3 DEF OutputKept, Path
    <2>5. \A f \in Files : proxy[f] = "done" => disk'[ProxyOf[f]] = disk[ProxyOf[f]]
        BY <2>1, <2>2, <2>3
    <2>6. DoneRows'
        BY <2>1, <2>5 DEF DoneRows
    <2> QED BY <2>2, <2>4, <2>6
<1>3. CASE MarkDone(w)
    <2>1. UNCHANGED <<disk, regen, target>> /\ at'[w] = "free"
        BY <1>3 DEF MarkDone, Rest, requestVars, GoTo
    <2>2. OutputKept'
        BY <2>1 DEF OutputKept
    <2>3. item[w] \in Files /\ disk[ProxyOf[item[w]]] = item[w]
        BY <1>3 DEF MarkDone, OutputKept, Path
    <2>4. ASSUME NEW f \in Files, proxy'[f] = "done", f # item[w]
          PROVE  proxy[f] = "done" /\ (f \in hasPath => f \in hasPath')
        BY <1>3, <2>4 DEF MarkDone, SetStatus
    <2>5. ASSUME proxy'[item[w]] = "done" PROVE item[w] \in hasPath'
        <3>1. proxy[item[w]] \in {"processing", "gone"}
            BY <1>3 DEF MarkDone, RowsTaken, Busy
        <3>2. /\ proxy[item[w]] \notin NoRow
              /\ hasPath' = hasPath \union ({item[w]} \ {f \in Files : proxy[f] \in NoRow})
            BY <1>3, <2>3, <2>5, <3>1 DEF MarkDone, SetStatus, NoRow
        <3> QED BY <3>2
    <2>6. DoneRows'
        BY <2>1, <2>3, <2>4, <2>5 DEF DoneRows
    <2> QED BY <2>1, <2>2, <2>6
<1> QED BY <1>1, <1>2, <1>3 DEF Process

(* No step leaves a row that is done without its proxy.                    *)
LEMMA DoneStep ==
    ASSUME \A v, w \in Slots : v = w,
           \A f, g \in Files : ProxyOf[f] = ProxyOf[g] => f = g
    PROVE  DoneInv /\ [ProxyNext /\ Apart]_proxyVars => DoneInv'
<1> SUFFICES ASSUME DoneInv, [ProxyNext /\ Apart]_proxyVars PROVE DoneInv'
    OBVIOUS
<1>0. HandInv'
    <2>1. [ProxyNext /\ RegenAside]_proxyVars
        BY DEF RegenAside, Apart
    <2> QED BY <2>1, HandStep DEF DoneInv
<1> USE <1>0 DEF DoneInv, HandInv, QueueTypes
<1>1. CASE \E w \in Slots : Process(w)
    BY <1>1, DoneProcess
<1>2. CASE \/ Handler /\ UNCHANGED queueVars
           \/ Message \/ TurnOver \/ List
           \/ UNCHANGED proxyVars
    <2>1. UNCHANGED <<proxy, hasPath, disk, at, item, regen, target>>
        BY <1>2 DEF queueVars, rowVars, requestVars, workVars, Message, Loop, TurnOver, List,
                    proxyVars
    <2> QED BY <2>1, DoneUntouched
<1>3. CASE \E w \in Slots : Dispatch(w)
    <2>1. UNCHANGED <<proxy, hasPath, disk, regen, target>>
        BY <1>3 DEF Dispatch, rowVars, requestVars
    <2>2. \A w \in Slots : at'[w] \in {"writing", "done"} => at'[w] = at[w] /\ item'[w] = item[w]
        BY <1>3 DEF Dispatch
    <2> QED BY <2>1, <2>2, DoneUntouched
<1>4. CASE \E r \in Requests : \/ EnqueueLarge(r) \/ EnqueueFails(r) \/ EnqueueRest(r)
                               \/ RestartFailed(r)
    <2>1. UNCHANGED <<hasPath, disk, at, item, regen, target>>
        BY <1>4 DEF EnqueueLarge, EnqueueFails, EnqueueRest, RestartFailed, Settled, workVars
    <2>2. \A f \in Files : proxy'[f] = "done" => proxy[f] = "done"
        BY <1>4 DEF EnqueueLarge, EnqueueFails, EnqueueRest, RestartFailed, QueueLarge,
                    SkipRest, Reset
    <2> QED BY <2>1, <2>2, DoneUntouched
<1>5. ASSUME NEW c \in Clients, RegenRead(c) PROVE DoneInv'
    <2>1. /\ UNCHANGED <<proxy, hasPath, disk, at, item>>
          /\ regen[c] = "idle"
          /\ \A d \in Clients \ {c} : regen'[d] = regen[d] /\ target'[d] = target[d]
        BY <1>5 DEF RegenRead, RegenTypes, rowVars, workVars
    <2>2. OutputKept'
        BY <2>1 DEF OutputKept, Path
    <2>3. DoneRows'
        BY <2>1 DEF DoneRows
    <2> QED BY <2>1, <2>2, <2>3
<1>6. ASSUME NEW c \in Clients, RegenRemove(c) PROVE DoneInv'
    <2>1. UNCHANGED <<proxy, hasPath, at, item>> /\ target[c] \in Files /\ regen[c] = "remove"
        BY <1>6 DEF RegenRemove, rowVars, workVars, RegenAway
    <2>2. CASE disk' = [disk EXCEPT ![ProxyOf[target[c]]] = NoFile] /\ UNCHANGED target
               /\ regen' = [regen EXCEPT ![c] = "reset"]
        <3>1. ProxyOf[target[c]] \in ProxyPaths
            BY <2>1, QueueAssumption
        <3>2. \A f \in Files \ {target[c]} : disk'[ProxyOf[f]] = disk[ProxyOf[f]]
            BY <2>1, <2>2, <3>1
        <3>3. OutputKept'
            BY <2>1, <3>2 DEF OutputKept, Path, RegenAway
        <3>4. regen'[c] = "reset" /\ \A d \in Clients : regen[d] = "reset" => regen'[d] = "reset"
            BY <2>2 DEF RegenTypes
        <3>5. DoneRows'
            BY <2>1, <2>2, <3>2, <3>4 DEF DoneRows
        <3> QED BY <2>2, <3>3, <3>5
    <2>3. CASE Answer(c) /\ UNCHANGED disk
        <3>1. \A d \in Clients : regen[d] = "reset" => regen'[d] = "reset" /\ target'[d] = target[d]
            BY <2>1, <2>3 DEF Answer, RegenTypes
        <3>2. DoneRows'
            BY <2>1, <2>3, <3>1 DEF DoneRows
        <3>3. OutputKept'
            BY <2>1, <2>3 DEF OutputKept, Path
        <3> QED BY <2>3, <3>2, <3>3
    <2> QED BY <1>6, <2>2, <2>3 DEF RegenRemove
<1>7. ASSUME NEW c \in Clients, RegenReset(c), Apart PROVE DoneInv'
    <2>1. /\ UNCHANGED <<disk, at, item>> /\ target[c] \in Files
          /\ regen[c] = "reset" /\ regen'[c] = "idle"
          /\ \A d \in Clients \ {c} : regen'[d] = regen[d] /\ target'[d] = target[d]
        BY <1>7 DEF RegenReset, workVars, Answer, RegenTypes, RegenAway
    <2>2. SetStatus(target[c], "pending") /\ hasPath' = hasPath \ {target[c]}
        <3>1. faults' = faults
            BY <1>7, <2>1 DEF Apart
        <3> QED BY <1>7, <3>1 DEF RegenReset, Fault
    <2>3. \A f \in Files : proxy'[f] = "done" => f # target[c] /\ proxy[f] = "done"
        BY <2>2 DEF SetStatus, NoRow
    <2>4. DoneRows'
        BY <2>1, <2>2, <2>3 DEF DoneRows
    <2>5. OutputKept'
        BY <2>1 DEF OutputKept, Path
    <2> QED BY <2>1, <2>4, <2>5
<1>8. CASE \E f \in Files : Archived(f) \/ Trash(f) \/ Emptied(f)
    <2>1. UNCHANGED <<disk, at, item, regen, target>>
        BY <1>8 DEF Archived, Trash, Emptied, Elsewhere, requestVars, workVars
    <2>2. \A f \in Files : proxy'[f] = "done" =>
              proxy[f] = "done" /\ (f \in hasPath => f \in hasPath')
        BY <1>8 DEF Archived, Trash, Emptied
    <2> QED BY <2>1, <2>2, DoneUntouched
<1>9. ASSUME ProxyReboot, Apart PROVE DoneInv'
    <2>1. UNCHANGED <<disk, hasPath>> /\ at' = [w \in Slots |-> "free"]
        BY <1>9 DEF ProxyReboot
    <2>2. \A c \in Clients : regen[c] = "idle"
        BY <1>9 DEF Apart, ProxyReboot, Reboot
    <2>3. \A f \in Files : proxy'[f] = "done" => proxy[f] = "done"
        <3> DEFINE p1 == Restored(proxy)
                   p2 == Reset(proxy, "skipped", "null")
                   p3 == Reset(proxy, "processing", "pending")
        <3>1. \A p : DOMAIN p = Files => \A f \in Files :
                  /\ QueueLarge(p)[f] = "done" => p[f] = "done"
                  /\ SkipRest(QueueLarge(p))[f] = "done" => p[f] = "done"
            BY DEF QueueLarge, SkipRest
        <3>2. /\ DOMAIN p1 = Files /\ \A f \in Files : p1[f] = "done" => proxy[f] = "done"
              /\ DOMAIN p2 = Files /\ \A f \in Files : p2[f] = "done" => proxy[f] = "done"
              /\ DOMAIN p3 = Files /\ \A f \in Files : p3[f] = "done" => proxy[f] = "done"
            BY DEF Restored, Reset
        <3> HIDE DEF p1, p2, p3
        <3>3. \/ proxy' = proxy
              \/ proxy' \in {SkipRest(QueueLarge(p1)), SkipRest(QueueLarge(p2)),
                             SkipRest(QueueLarge(p3)), QueueLarge(p1), p1}
            BY <1>9 DEF ProxyReboot, p1, p2, p3
        <3> QED BY <3>1, <3>2, <3>3
    <2>4. DoneRows'
        BY <2>1, <2>2, <2>3 DEF DoneRows
    <2> QED BY <2>1, <2>4 DEF OutputKept
<1> QED BY <1>1, <1>2, <1>3, <1>4, <1>5, <1>6, <1>7, <1>8, <1>9 DEF ProxyNext, QueueRequest

(* When no two rows share a proxy and the semaphore has one place, a row   *)
(* that is done and at rest has its own, whole proxy on the disk, whatever *)
(* conversions fail, and whenever the server is killed                     *)
(* (db/proxy.go:208, worker.go:304-359).                                   *)
THEOREM DoneRowsHaveProxies ==
    ASSUME \A v, w \in Slots : v = w,
           \A f, g \in Files : ProxyOf[f] = ProxyOf[g] => f = g
    PROVE  ApartSpec => []DoneHasProxy
<1>1. ProxyInit => DoneInv
    <2> SUFFICES ASSUME ProxyInit PROVE DoneInv
        OBVIOUS
    <2>1. \A f \in Files : proxy[f] # "done"
        BY DEF ProxyInit, SkipRest, QueueLarge
    <2> QED BY <2>1, HandInit DEF ProxyInit, DoneInv, OutputKept, DoneRows
<1>2. DoneInv => DoneHasProxy
    BY DEF DoneInv, DoneRows, DoneHasProxy, AtRest
<1> QED BY <1>1, <1>2, DoneStep, PTL DEF ApartSpec
=============================================================================
