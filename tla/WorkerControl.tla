--------------------------- MODULE WorkerControl ---------------------------
(***************************************************************************)
(* How the HTTP handlers start, pause, resume and reconfigure the proxy    *)
(* worker.  The handlers change the field status at once, under a mutex;   *)
(* the worker's loop learns of it through two channels with room for one   *)
(* message, and a message that finds its channel full is dropped.  The     *)
(* setting "paused" is saved in the database as well.                      *)
(***************************************************************************)
EXTENDS Naturals

CONSTANTS Requests,     (* HTTP requests that need more than one step          *)
          MaxReboots,   (* bound: how often the server process is replaced     *)
          MaxFailures   (* bound: how often the settings cannot be accessed    *)

ASSUME ControlBoundsAssumption == MaxReboots \in Nat /\ MaxFailures \in Nat

VARIABLES status,       (* Worker.status                                       *)
          pauseCh,      (* does pauseCh hold a message?                        *)
          resumeCh,     (* does resumeCh hold a message?                       *)
          loop,         (* where the worker's goroutine is                     *)
          saved,        (* the rows "enabled" and "paused" of proxy_settings   *)
          cfg,          (* the same in Worker.cfg                              *)
          step,         (* the step each request is at                         *)
          seen,         (* the settings each request has read last             *)
          reboots,      (* reboots so far                                      *)
          failures      (* reads and writes of the settings that failed so far *)

counters == <<reboots, failures>>
controlVars == <<status, pauseCh, resumeCh, loop, saved, cfg, step, seen, counters>>

Settings == [enabled : BOOLEAN, paused : BOOLEAN]

ControlTypeOK ==
    /\ status \in {"running", "paused", "stopped"}
    /\ pauseCh \in BOOLEAN
    /\ resumeCh \in BOOLEAN
    /\ loop \in {"off", "top", "held", "work"}
    /\ saved \in Settings
    /\ cfg \in Settings
    /\ step \in [Requests -> {"idle", "reload", "assign", "enqueue", "decide", "apply",
                              "restart", "resume", "rescan"}]
    /\ seen \in [Requests -> Settings]
    /\ reboots \in 0..MaxReboots
    /\ failures \in 0..MaxFailures

Defaults == [enabled |-> TRUE, paused |-> FALSE]

(* A read or write of the settings that fails.                             *)
Fail == failures < MaxFailures /\ failures' = failures + 1

(* Worker.Start, called once by main before the server listens: no other   *)
(* goroutine runs yet.  The saved pause is read and not used.  When the    *)
(* settings cannot be read, Start gives up with the zero configuration.    *)
StartWorker ==
    /\ \/ cfg' = saved /\ UNCHANGED failures
       \/ cfg' = [enabled |-> FALSE, paused |-> FALSE] /\ Fail
    /\ status' = IF cfg'.enabled THEN "running" ELSE "stopped"
    /\ loop' = IF cfg'.enabled THEN "top" ELSE "off"
    /\ pauseCh' = FALSE
    /\ resumeCh' = FALSE

(* The first boot: InitProxySettings writes the defaults, then Start.      *)
ControlInit ==
    /\ saved = Defaults
    /\ cfg = Defaults
    /\ status = "running"
    /\ loop = "top"
    /\ pauseCh = FALSE
    /\ resumeCh = FALSE
    /\ step = [r \in Requests |-> "idle"]
    /\ seen = [r \in Requests |-> Defaults]
    /\ reboots = 0
    /\ failures = 0

-----------------------------------------------------------------------------
(* SetProxySetting("paused", b).  Its failure is only printed.             *)
SavePaused(b) ==
    \/ saved' = [saved EXCEPT !.paused = b] /\ UNCHANGED failures
    \/ Fail /\ UNCHANGED saved

(* What mutants put in the place of Worker.Pause: the pause is not saved.  *)
PauseWithoutSaving ==
    IF status = "running"
    THEN status' = "paused" /\ pauseCh' = TRUE /\ UNCHANGED <<saved, failures>>
    ELSE UNCHANGED <<status, pauseCh, saved, failures>>

(* Worker.Pause: one critical section, the write to the database included. *)
DoPause ==
    IF status = "running"
    THEN status' = "paused" /\ pauseCh' = TRUE /\ SavePaused(TRUE)
    ELSE UNCHANGED <<status, pauseCh, saved, failures>>

(* Mutants of Worker.Resume: no message for the loop; no look at status.   *)
ResumeUnsaid ==
    IF status = "paused"
    THEN status' = "running" /\ SavePaused(FALSE) /\ UNCHANGED resumeCh
    ELSE UNCHANGED <<status, resumeCh, saved, failures>>

ResumeAlways == status' = "running" /\ resumeCh' = TRUE /\ SavePaused(FALSE)

(* Worker.Resume.                                                          *)
DoResume ==
    IF status = "paused"
    THEN status' = "running" /\ resumeCh' = TRUE /\ SavePaused(FALSE)
    ELSE UNCHANGED <<status, resumeCh, saved, failures>>

-----------------------------------------------------------------------------
(* The handlers.  POST /api/proxy/pause and /api/proxy/resume.             *)

PauseRequest ==
    /\ DoPause
    /\ UNCHANGED <<resumeCh, loop, cfg, step, seen, reboots>>

ResumeRequest ==
    /\ DoResume
    /\ UNCHANGED <<pauseCh, loop, cfg, step, seen, reboots>>

GoOn(r, s) == step' = [step EXCEPT ![r] = s]

(* PUT /api/proxy/settings: SetProxySettings writes the given keys in one  *)
(* transaction (if it fails nothing has changed), then Reconfigure begins. *)
SaveSettings(r) ==
    /\ step[r] = "idle"
    /\ saved' \in Settings
    /\ GoOn(r, "reload")
    /\ UNCHANGED <<status, pauseCh, resumeCh, loop, cfg, seen, counters>>

(* reloadConfig reads the settings outside the mutex, or gives up ...      *)
ReadSettings(r) ==
    /\ step[r] = "reload"
    /\ \/ seen' = [seen EXCEPT ![r] = saved] /\ GoOn(r, "assign") /\ UNCHANGED failures
       \/ Fail /\ GoOn(r, "idle") /\ UNCHANGED seen
    /\ UNCHANGED <<status, pauseCh, resumeCh, loop, saved, cfg, reboots>>

(* ... and stores what it has read under it.                               *)
AssignSettings(r) ==
    /\ step[r] = "assign"
    /\ cfg' = seen[r]
    /\ GoOn(r, "enqueue")
    /\ UNCHANGED <<status, pauseCh, resumeCh, loop, saved, seen, counters>>

(* enqueue changes rows of the queue only; Restart calls it as well.       *)
Enqueue(r) ==
    /\ \/ step[r] = "enqueue" /\ GoOn(r, "decide")
       \/ step[r] = "restart" /\ GoOn(r, "resume")
    /\ UNCHANGED <<status, pauseCh, resumeCh, loop, saved, cfg, seen, counters>>

(* Reconfigure reads enabled and paused under the mutex ...                *)
Decide(r) ==
    /\ step[r] = "decide"
    /\ seen' = [seen EXCEPT ![r] = cfg]
    /\ GoOn(r, "apply")
    /\ UNCHANGED <<status, pauseCh, resumeCh, loop, saved, cfg, counters>>

(* ... and then calls Pause or Resume.                                     *)
Apply(r) ==
    /\ step[r] = "apply"
    /\ IF ~seen[r].enabled \/ seen[r].paused
       THEN DoPause /\ UNCHANGED resumeCh
       ELSE DoResume /\ UNCHANGED pauseCh
    /\ GoOn(r, "idle")
    /\ UNCHANGED <<loop, cfg, seen, reboots>>

(* POST /api/duplicates/rescan pauses the worker, works, and resumes it by *)
(* a deferred call.                                                        *)
RescanBegin(r) ==
    /\ step[r] = "idle"
    /\ DoPause
    /\ GoOn(r, "rescan")
    /\ UNCHANGED <<resumeCh, loop, cfg, seen, reboots>>

(* POST /api/proxy/restart: ResetFailedProxies, enqueue, then Resume.      *)
RestartBegin(r) ==
    /\ step[r] = "idle"
    /\ GoOn(r, "restart")
    /\ UNCHANGED <<status, pauseCh, resumeCh, loop, saved, cfg, seen, counters>>

(* The Resume that ends a rescan or a restart.                             *)
LastResume(r) ==
    /\ step[r] \in {"rescan", "resume"}
    /\ DoResume
    /\ GoOn(r, "idle")
    /\ UNCHANGED <<pauseCh, loop, cfg, seen, reboots>>

-----------------------------------------------------------------------------
(* A mutant of the loop: it works on whether or not pauseCh has a message. *)
WorkOn ==
    /\ loop = "top"
    /\ loop' = "work"
    /\ UNCHANGED <<status, pauseCh, resumeCh, saved, cfg, step, seen, counters>>

(* The goroutine: the select at the top of the loop, and the rest of a     *)
(* turn (list, dispatch, wait up to 30 seconds) as one stretch of work.    *)

TakePause ==
    /\ loop = "top"
    /\ pauseCh
    /\ pauseCh' = FALSE
    /\ loop' = "held"
    /\ UNCHANGED <<status, resumeCh, saved, cfg, step, seen, counters>>

TakeResume ==
    /\ loop = "held"
    /\ resumeCh
    /\ resumeCh' = FALSE
    /\ loop' = "work"
    /\ UNCHANGED <<status, pauseCh, saved, cfg, step, seen, counters>>

NoMessage ==
    /\ loop = "top"
    /\ ~pauseCh
    /\ loop' = "work"
    /\ UNCHANGED <<status, pauseCh, resumeCh, saved, cfg, step, seen, counters>>

NextTurn ==
    /\ loop = "work"
    /\ loop' = "top"
    /\ UNCHANGED <<status, pauseCh, resumeCh, saved, cfg, step, seen, counters>>

LoopStep == TakePause \/ TakeResume \/ NoMessage \/ NextTurn

(* The process ends (log.Fatalf, a kill, an update: the deferred Stop is   *)
(* never reached) and main starts another one on the same database.        *)
Reboot ==
    /\ reboots < MaxReboots
    /\ reboots' = reboots + 1
    /\ StartWorker
    /\ step' = [r \in Requests |-> "idle"]
    /\ UNCHANGED <<saved, seen>>

-----------------------------------------------------------------------------
ControlNext ==
    \/ PauseRequest \/ ResumeRequest
    \/ \E r \in Requests :
          \/ SaveSettings(r) \/ ReadSettings(r) \/ AssignSettings(r) \/ Enqueue(r)
          \/ Decide(r) \/ Apply(r) \/ RescanBegin(r) \/ RestartBegin(r) \/ LastResume(r)
    \/ TakePause \/ TakeResume \/ NoMessage \/ NextTurn
    \/ Reboot

ControlSpec ==
    ControlInit /\ [][ControlNext]_controlVars /\ WF_controlVars(LoopStep)

(* Handlers that change the status only after the loop has taken every     *)
(* earlier message: pauses and resumes at least one turn of the loop apart. *)
Prompt == status' # status => (~pauseCh /\ ~resumeCh) \/ reboots' # reboots

PromptSpec ==
    /\ ControlInit /\ [][ControlNext /\ Prompt]_controlVars
    /\ WF_controlVars(LoopStep)

-----------------------------------------------------------------------------
(* What the loop will do, from its place and its two channels, is what the *)
(* status field says: it is paused exactly when a pause is waiting for it  *)
(* or it waits for a resume that nobody has sent.                          *)
ChannelsTellStatus == status = "paused" <=> pauseCh \/ (loop = "held" /\ ~resumeCh)

(* Pause "suspends conversion" (worker.go:127): a status that stays paused *)
(* is followed by a loop that is held.                                     *)
PauseSuspends == status = "paused" ~> (loop = "held" \/ status # "paused")

(* Resume "unpauses the worker" (worker.go:143): a status that stays       *)
(* running does not leave the loop held.                                   *)
ResumeUnpauses == status = "running" ~> (loop # "held" \/ status # "running")

(* handleSetProxySettings saves and then "reconfigures the worker"         *)
(* (proxy.go:75): once no request is under way, the worker is not running  *)
(* if a pause is saved, and runs if it is saved as enabled and not paused. *)
SettingsInForce ==
    (\A r \in Requests : step[r] = "idle") =>
        /\ saved.paused => status # "running"
        /\ saved.enabled /\ ~saved.paused => status = "running"

(* The same for as long as the settings can be read and written and the    *)
(* server is not replaced, which forgets a saved pause.                    *)
SettingsTakeEffect == reboots = 0 /\ failures = 0 => SettingsInForce

(* A worker that Start left without a goroutine is never made to look like *)
(* one that runs or could be resumed: no handler can start the loop.       *)
StoppedHasNoLoop == status = "stopped" <=> loop = "off"

(* duplicates.go:246: "The proxy worker is paused for the duration of the  *)
(* rescan".                                                                *)
RescanIsPaused == (\E r \in Requests : step[r] = "rescan") => status # "running"

=============================================================================
