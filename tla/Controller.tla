----------------------------- MODULE Controller -----------------------------
(***************************************************************************)
(* RuntimeController (controller.rs): the worker tasks spawned by start(), *)
(* the generation counter and one-shot stop channel by which stop()        *)
(* supersedes them, the worker lock that runs them one at a time, the      *)
(* helper lock they share with sync_rules() and shutdown(), the SSH        *)
(* process, and the runtime events by which the window learns whether it   *)
(* is connected (event_loop.rs).                                           *)
(*                                                                         *)
(* The three fields that stop() writes are written in one step here: a     *)
(* worker reads one of them at a time, and the generation comes first.     *)
(* Log, Speed and AppTraffic events change no state modelled here and are  *)
(* left out, and so is the retry count, which only words the messages.     *)
(***************************************************************************)
EXTENDS Naturals, Sequences, HelperService

CONSTANTS
    Task,               \* the workers that may be spawned, one per start()
    MaxGeneration,      \* bound: how often the user may start and stop
    MaxEvents,          \* bound: runtime events the window has not taken yet
    MaxHealthFailures   \* MAX_HEALTH_FAILURES (controller.rs:440)

ASSUME TaskAssumption == Task \cap {"none", "sync", "quit"} = {}
ASSUME BoundsAssumption ==
    /\ MaxGeneration \in Nat
    /\ MaxEvents \in Nat \ {0}
    /\ MaxHealthFailures \in Nat \ {0}

VARIABLES
    generation,   \* RuntimeController.generation
    isRunning,    \* RuntimeController.is_running
    stopSlot,     \* the task whose stop sender is in RuntimeController.stop
    stopSent,     \* the tasks whose stop sender was used
    workerLock,   \* the task that holds RuntimeController.worker
    helperLock,   \* who holds RuntimeController.helper
    taskGen,      \* task_generation of each task
    pc,           \* where each task is
    cancelled,    \* user_cancelled of each task
    failures,     \* health_failures of each task
    ssh,          \* the SshSession of each task
    events,       \* what the undelivered events say: is there a connection?
    isConnected,  \* is_connected of the window
    syncer,       \* the task spawned by sync_rules() or a forward's preparation
    quitter       \* the thread spawned by shutdown(), and the exit after it

controlVars == <<generation, isRunning, stopSlot, stopSent>>
lockVars == <<workerLock, helperLock>>
taskVars == <<taskGen, pc, cancelled, failures, ssh>>
uiVars == <<events, isConnected>>
otherVars == <<syncer, quitter>>
vars == <<controlVars, lockVars, taskVars, uiVars, otherVars, helperVars>>

\* The places where a worker waits for the helper lock, those where it holds
\* the lock, and those with neither.
Waiting == {"wantHelper", "wantCheck", "wantStop"}
Holding == {"vet", "auth", "ssh", "start", "check", "stop"}
Elsewhere == {"none", "queued", "top", "retry", "monitor", "killSsh",
              "backoff", "finish", "clear", "done"}

Unfinished(t) == pc[t] \notin {"none", "done"}
HasWorker(t) == Unfinished(t) /\ pc[t] # "queued"

TypeOK ==
    /\ HelperTypeOK
    /\ generation \in Nat
    /\ stopSlot \in Task \cup {"none"} /\ stopSent \subseteq Task
    /\ workerLock \in Task \cup {"none"}
    /\ helperLock \in Task \cup {"none", "sync", "quit"}
    /\ taskGen \in [Task -> Nat]
    /\ pc \in [Task -> Waiting \cup Holding \cup Elsewhere]
    /\ failures \in [Task -> Nat]
    /\ ssh \in [Task -> {"none", "up", "exited"}]
    /\ syncer \in {"idle", "waiting", "holding"}
    /\ quitter \in {"idle", "waiting", "holding", "completed", "exited"}
    /\ isRunning \in BOOLEAN /\ isConnected \in BOOLEAN
    /\ cancelled \in [Task -> BOOLEAN]
    /\ events \in Seq(BOOLEAN)

Init ==
    /\ HelperInit
    /\ generation = 0 /\ isRunning = FALSE
    /\ stopSlot = "none" /\ stopSent = {}
    /\ workerLock = "none" /\ helperLock = "none"
    /\ taskGen = [t \in Task |-> 0]
    /\ pc = [t \in Task |-> "none"]
    /\ cancelled = [t \in Task |-> FALSE]
    /\ failures = [t \in Task |-> 0]
    /\ ssh = [t \in Task |-> "none"]
    /\ events = <<>> /\ isConnected = FALSE
    /\ syncer = "idle" /\ quitter = "idle"

-----------------------------------------------------------------------------
(* Steps of a worker are written with these. *)

Goto(t, place) == pc' = [pc EXCEPT ![t] = place]
SetCancelled(t) == cancelled' = [cancelled EXCEPT ![t] = TRUE]
SetSsh(t, state) == ssh' = [ssh EXCEPT ![t] = state]
Release == helperLock' = "none"

\* events.send(Connected) shows a connection; Status, Error and Disconnected
\* show none.  An event that changes nothing the window shows is not queued.
Show(connected) ==
    events' = IF (IF events = <<>> THEN isConnected
                                   ELSE events[Len(events)]) = connected
              THEN events ELSE Append(events, connected)

-----------------------------------------------------------------------------
(* The window: clicks, and the events it takes every 200 ms. *)

Alive == quitter # "exited"

\* RuntimeController::stop sends the stop message of the task in the slot, if
\* there is one; start() calls stop() first and then counts once more.
SendStopEmpty == stopSent' = stopSent \cup {stopSlot}   \* mutant: an empty slot too
SendStop == stopSent' = stopSent \cup (Task \cap {stopSlot})
NextGeneration(steps) ==
    /\ generation + steps <= MaxGeneration
    /\ generation' = generation + steps

Stop ==
    /\ NextGeneration(1)
    /\ SendStop
    /\ stopSlot' = "none"
    /\ isRunning' = FALSE

ClickDisconnect ==
    /\ Alive
    /\ isConnected \/ isRunning
    /\ Stop
    /\ UNCHANGED <<lockVars, taskVars, uiVars, otherVars, helperVars>>

\* RuntimeController::start: by a click that takes nothing to be running, or by
\* one on another server while a session runs (connect_view.rs:361).
ClickConnect(t) ==
    /\ Alive
    /\ pc[t] = "none"
    /\ NextGeneration(2)
    /\ SendStop
    /\ stopSlot' = t
    /\ isRunning' = TRUE
    /\ taskGen' = [taskGen EXCEPT ![t] = generation + 2]
    /\ Goto(t, "queued")
    /\ UNCHANGED <<lockVars, cancelled, failures, ssh, uiVars, otherVars, helperVars>>

\* The quit action calls RuntimeController::shutdown once.
ClickQuit ==
    /\ quitter = "idle"
    /\ Stop
    /\ quitter' = "waiting"
    /\ UNCHANGED <<lockVars, taskVars, uiVars, syncer, helperVars>>

\* Mutant: a Status does not take the connection back.
DeliverSticky ==
    /\ Alive
    /\ events # <<>>
    /\ isConnected' = (isConnected \/ Head(events))
    /\ events' = Tail(events)
    /\ UNCHANGED <<controlVars, lockVars, taskVars, otherVars, helperVars>>

DeliverEvent ==
    /\ Alive
    /\ events # <<>>
    /\ isConnected' = Head(events)
    /\ events' = Tail(events)
    /\ UNCHANGED <<controlVars, lockVars, taskVars, otherVars, helperVars>>

-----------------------------------------------------------------------------
(* A worker, from its spawn to the loop. *)

\* Mutant: the worker lock is not taken.
BeginUnlocked(t) ==
    /\ pc[t] = "queued"
    /\ generation = taskGen[t]
    /\ Goto(t, "top")
    /\ Show(FALSE)
    /\ UNCHANGED <<controlVars, lockVars, taskGen, cancelled, failures, ssh,
                   isConnected, otherVars, helperVars>>

\* The worker lock is taken and the generation read again.
Begin(t) ==
    /\ pc[t] = "queued" /\ workerLock = "none"
    /\ generation = taskGen[t]
    /\ workerLock' = t
    /\ Goto(t, "top")
    /\ Show(FALSE)
    /\ UNCHANGED <<controlVars, helperLock, taskGen, cancelled, failures, ssh,
                   isConnected, otherVars, helperVars>>

BeginTooLate(t) ==
    /\ pc[t] = "queued" /\ workerLock = "none"
    /\ generation # taskGen[t]
    /\ Goto(t, "done")
    /\ UNCHANGED <<controlVars, lockVars, taskGen, cancelled, failures, ssh,
                   uiVars, otherVars, helperVars>>

\* Mutant: only user_cancelled is checked.
LoopTopCancelled(t) ==
    /\ pc[t] = "top"
    /\ Goto(t, IF cancelled[t] THEN "finish" ELSE "wantHelper")
    /\ UNCHANGED <<controlVars, lockVars, taskGen, cancelled, failures, ssh,
                   uiVars, otherVars, helperVars>>

\* The check at the top of the reconnect loop.
LoopTop(t) ==
    /\ pc[t] = "top"
    /\ Goto(t, IF cancelled[t] \/ generation # taskGen[t] THEN "finish" ELSE "wantHelper")
    /\ UNCHANGED <<controlVars, lockVars, taskGen, cancelled, failures, ssh,
                   uiVars, otherVars, helperVars>>

LockHelper(t) ==
    /\ helperLock = "none"
    /\ helperLock' = t
    /\ \/ pc[t] = "wantHelper" /\ Goto(t, "vet")
       \/ pc[t] = "wantCheck" /\ Goto(t, "check")
       \/ pc[t] = "wantStop" /\ Goto(t, "stop")
    /\ UNCHANGED <<controlVars, workerLock, taskGen, cancelled, failures, ssh,
                   uiVars, otherVars, helperVars>>

\* Mutant: the helper is only stopped, which is Ok of a dead one too.
VetHelperStops(t) ==
    /\ pc[t] = "vet"
    /\ \/ StopSession /\ Goto(t, "ssh")
       \/ StopFails /\ Goto(t, "auth")
       \/ daemon = "none" /\ UNCHANGED helperVars /\ Goto(t, "auth")
    /\ UNCHANGED <<controlVars, lockVars, taskGen, cancelled, failures, ssh,
                   uiVars, otherVars>>

VetHelper(t) ==
    /\ pc[t] = "vet"
    /\ \/ ResetPasses /\ Goto(t, "ssh")
       \/ ResetFails /\ Goto(t, "auth")
       \/ daemon = "none" /\ UNCHANGED helperVars /\ Goto(t, "auth")
    /\ UNCHANGED <<controlVars, lockVars, taskGen, cancelled, failures, ssh,
                   uiVars, otherVars>>

AuthorizeHelper(t) ==
    /\ pc[t] = "auth"
    /\ EnsureStarted
    /\ Goto(t, "ssh")
    /\ Show(FALSE)
    /\ UNCHANGED <<controlVars, lockVars, taskGen, cancelled, failures, ssh,
                   isConnected, otherVars>>

\* Mutant: the worker returns instead of leaving the loop.
AuthorizationReturns(t) ==
    /\ pc[t] = "auth"
    /\ EnsureFails
    /\ Release
    /\ workerLock' = "none"
    /\ Goto(t, "done")
    /\ Show(FALSE)
    /\ UNCHANGED <<controlVars, taskGen, cancelled, failures, ssh,
                   isConnected, otherVars>>

AuthorizationFails(t) ==
    /\ pc[t] = "auth"
    /\ EnsureFails
    /\ Release
    /\ Goto(t, "finish")
    /\ Show(FALSE)
    /\ UNCHANGED <<controlVars, workerLock, taskGen, cancelled, failures, ssh,
                   isConnected, otherVars>>

StartSsh(t) ==
    /\ pc[t] = "ssh"
    /\ SetSsh(t, "up")
    /\ Goto(t, "start")
    /\ UNCHANGED <<controlVars, lockVars, taskGen, cancelled, failures,
                   uiVars, otherVars, helperVars>>

SshFails(t) ==
    /\ pc[t] = "ssh"
    /\ Release
    /\ Goto(t, "retry")
    /\ Show(FALSE)
    /\ UNCHANGED <<controlVars, workerLock, taskGen, cancelled, failures, ssh,
                   isConnected, otherVars, helperVars>>

\* The helper answers Active: Connected is sent and the session watched.
StartRouting(t) ==
    /\ pc[t] = "start"
    /\ Len(events) < MaxEvents
    /\ StartSession
    /\ Release
    /\ Goto(t, "monitor")
    /\ Show(TRUE)
    /\ failures' = [failures EXCEPT ![t] = 0]
    /\ UNCHANGED <<controlVars, workerLock, taskGen, cancelled, ssh,
                   isConnected, otherVars>>

RoutingFails(t) ==
    /\ pc[t] = "start"
    /\ StartFails
    /\ SetSsh(t, "none")
    /\ Release
    /\ Goto(t, "retry")
    /\ Show(FALSE)
    /\ UNCHANGED <<controlVars, workerLock, taskGen, cancelled, failures,
                   isConnected, otherVars>>

\* The select! of a second's pause against the stop channel: after a failed
\* attempt the worker leaves without an event, after a lost session with
\* Disconnected.
PauseStopped(t) ==
    /\ pc[t] \in {"retry", "backoff"} /\ t \in stopSent
    /\ SetCancelled(t)
    /\ Goto(t, "finish")
    /\ IF pc[t] = "backoff" THEN Show(FALSE) ELSE UNCHANGED events
    /\ UNCHANGED <<controlVars, lockVars, taskGen, failures, ssh,
                   isConnected, otherVars, helperVars>>

\* Mutant: the next attempt begins without the check.
PauseOverRetries(t) ==
    /\ pc[t] \in {"retry", "backoff"}
    /\ Goto(t, "wantHelper")
    /\ UNCHANGED <<controlVars, lockVars, taskGen, cancelled, failures, ssh,
                   uiVars, otherVars, helperVars>>

PauseOver(t) ==
    /\ pc[t] \in {"retry", "backoff"}
    /\ Goto(t, "top")
    /\ UNCHANGED <<controlVars, lockVars, taskGen, cancelled, failures, ssh,
                   uiVars, otherVars, helperVars>>

-----------------------------------------------------------------------------
(* A worker that watches its session (the select! of controller.rs:443). *)

SeeStop(t) ==
    /\ pc[t] = "monitor" /\ t \in stopSent
    /\ SetCancelled(t)
    /\ Goto(t, "wantStop")
    /\ UNCHANGED <<controlVars, lockVars, taskGen, failures, ssh,
                   uiVars, otherVars, helperVars>>

\* Mutant: with SSH gone the helper is not stopped.
SeeSshExitAlone(t) ==
    /\ pc[t] = "monitor" /\ ssh[t] = "exited"
    /\ Goto(t, "killSsh")
    /\ Show(FALSE)
    /\ UNCHANGED <<controlVars, lockVars, taskGen, cancelled, failures, ssh,
                   isConnected, otherVars, helperVars>>

SeeSshExit(t) ==
    /\ pc[t] = "monitor" /\ ssh[t] = "exited"
    /\ Goto(t, "wantStop")
    /\ Show(FALSE)
    /\ UNCHANGED <<controlVars, lockVars, taskGen, cancelled, failures, ssh,
                   isConnected, otherVars, helperVars>>

HealthPasses(t) ==
    /\ pc[t] = "monitor" /\ ssh[t] = "up"
    /\ failures' = [failures EXCEPT ![t] = 0]
    /\ UNCHANGED <<controlVars, lockVars, taskGen, pc, cancelled, ssh,
                   uiVars, otherVars, helperVars>>

HealthFails(t) ==
    /\ pc[t] = "monitor"
    /\ failures' = [failures EXCEPT ![t] = @ + 1]
    /\ IF failures[t] + 1 >= MaxHealthFailures
       THEN Goto(t, "wantStop") /\ Show(FALSE)
       ELSE UNCHANGED <<pc, events>>
    /\ UNCHANGED <<controlVars, lockVars, taskGen, cancelled, ssh,
                   isConnected, otherVars, helperVars>>

\* Half a second is over: the helper is asked next.
CheckDue(t) ==
    /\ pc[t] = "monitor"
    /\ Goto(t, "wantCheck")
    /\ UNCHANGED <<controlVars, lockVars, taskGen, cancelled, failures, ssh,
                   uiVars, otherVars, helperVars>>

CheckHelper(t) ==
    /\ pc[t] = "check"
    /\ \/ CheckPasses /\ Goto(t, "monitor") /\ UNCHANGED events
       \/ CheckFails /\ Goto(t, "wantStop") /\ Show(FALSE)
    /\ Release
    /\ UNCHANGED <<controlVars, workerLock, taskGen, cancelled, failures, ssh,
                   isConnected, otherVars>>

-----------------------------------------------------------------------------
(* A worker that takes its session down. *)

StopRouting(t) ==
    /\ pc[t] = "stop"
    /\ \/ StopSession
       \/ StopFails
       \/ daemon = "none" /\ UNCHANGED helperVars
    /\ Release
    /\ Goto(t, "killSsh")
    /\ UNCHANGED <<controlVars, workerLock, taskGen, cancelled, failures, ssh,
                   uiVars, otherVars>>

\* Mutant: no event for the user.
StopSshSilent(t) ==
    /\ pc[t] = "killSsh"
    /\ SetSsh(t, "none")
    /\ IF cancelled[t] THEN UNCHANGED events ELSE Show(FALSE)
    /\ Goto(t, IF cancelled[t] THEN "finish" ELSE "backoff")
    /\ UNCHANGED <<controlVars, lockVars, taskGen, cancelled, failures,
                   isConnected, otherVars, helperVars>>

\* Disconnected for the user, Status for a session that is to come back.
StopSsh(t) ==
    /\ pc[t] = "killSsh"
    /\ SetSsh(t, "none")
    /\ Show(FALSE)
    /\ Goto(t, IF cancelled[t] THEN "finish" ELSE "backoff")
    /\ UNCHANGED <<controlVars, lockVars, taskGen, cancelled, failures,
                   isConnected, otherVars, helperVars>>

\* After the loop: the generation is read, then is_running written.
Finish(t) ==
    /\ pc[t] = "finish" /\ generation = taskGen[t]
    /\ Goto(t, "clear")
    /\ UNCHANGED <<controlVars, lockVars, taskGen, cancelled, failures, ssh,
                   uiVars, otherVars, helperVars>>

FinishSuperseded(t) ==
    /\ pc[t] = "finish" /\ generation # taskGen[t]
    /\ Goto(t, "done")
    /\ workerLock' = "none"
    /\ UNCHANGED <<controlVars, helperLock, taskGen, cancelled, failures, ssh,
                   uiVars, otherVars, helperVars>>

ClearRunning(t) ==
    /\ pc[t] = "clear"
    /\ isRunning' = FALSE
    /\ Goto(t, "done")
    /\ workerLock' = "none"
    /\ UNCHANGED <<generation, stopSlot, stopSent, helperLock, taskGen, cancelled,
                   failures, ssh, uiVars, otherVars, helperVars>>

-----------------------------------------------------------------------------
(* The other users of the helper lock, and the end of the program. *)

RequestSync ==
    /\ Alive /\ syncer = "idle"
    /\ syncer' = "waiting"
    /\ UNCHANGED <<controlVars, lockVars, taskVars, uiVars, quitter, helperVars>>

LockForSync ==
    /\ syncer = "waiting" /\ helperLock = "none"
    /\ syncer' = "holding"
    /\ helperLock' = "sync"
    /\ UNCHANGED <<controlVars, workerLock, taskVars, uiVars, quitter, helperVars>>

Sync ==
    /\ syncer = "holding"
    /\ SyncRules
    /\ syncer' = "idle"
    /\ Release
    /\ UNCHANGED <<controlVars, workerLock, taskVars, uiVars, quitter>>

\* Mutant: without a helper nothing is reported.
LockForQuitHelper ==
    /\ quitter = "waiting" /\ helperLock = "none" /\ daemon # "none"
    /\ quitter' = "holding"
    /\ helperLock' = "quit"
    /\ UNCHANGED <<controlVars, workerLock, taskVars, uiVars, syncer, helperVars>>

LockForQuit ==
    /\ quitter = "waiting" /\ helperLock = "none"
    /\ quitter' = "holding"
    /\ helperLock' = "quit"
    /\ UNCHANGED <<controlVars, workerLock, taskVars, uiVars, syncer, helperVars>>

QuitHelper ==
    /\ quitter = "holding"
    /\ Quit
    /\ quitter' = "completed"
    /\ Release
    /\ UNCHANGED <<controlVars, workerLock, taskVars, uiVars, syncer>>

\* app.quit(): the process ends and takes every task, the SSH process (it dies
\* with its parent) and the ends of the helper's pipes with it.
Exit ==
    /\ quitter = "completed"
    /\ quitter' = "exited"
    /\ pc' = [t \in Task |-> IF Unfinished(t) THEN "done" ELSE pc[t]]
    /\ ssh' = [t \in Task |-> "none"]
    /\ syncer' = "idle"
    /\ workerLock' = "none" /\ helperLock' = "none"
    /\ Discard
    /\ UNCHANGED <<controlVars, taskGen, cancelled, failures, uiVars>>

SshExits(t) ==
    /\ ssh[t] = "up"
    /\ SetSsh(t, "exited")
    /\ UNCHANGED <<controlVars, lockVars, taskGen, pc, cancelled, failures,
                   uiVars, otherVars, helperVars>>

HelperActs ==
    /\ HelperEnvironment
    /\ UNCHANGED <<controlVars, lockVars, taskVars, uiVars, otherVars>>

\* Nobody waits for anything: the program rests until the user acts again, and
\* for good once it has exited.
AtRest ==
    /\ \A t \in Task : ~Unfinished(t)
    /\ syncer = "idle" /\ quitter \in {"idle", "exited"}
    /\ UNCHANGED vars

-----------------------------------------------------------------------------

\* The steps a worker takes by itself once it is at the place they start from.
Work(t) ==
    \/ LoopTop(t) \/ VetHelper(t)
    \/ AuthorizeHelper(t) \/ AuthorizationFails(t)
    \/ StartSsh(t) \/ SshFails(t) \/ StartRouting(t) \/ RoutingFails(t)
    \/ PauseStopped(t) \/ PauseOver(t)
    \/ SeeSshExit(t) \/ CheckDue(t) \/ CheckHelper(t)
    \/ StopRouting(t) \/ StopSsh(t)
    \/ Finish(t) \/ FinishSuperseded(t) \/ ClearRunning(t)

Worker(t) ==
    \/ Begin(t) \/ BeginTooLate(t) \/ LockHelper(t) \/ Work(t)
    \/ SeeStop(t) \/ HealthPasses(t) \/ HealthFails(t)

Window ==
    \/ ClickDisconnect \/ ClickQuit \/ DeliverEvent
    \/ \E t \in Task : ClickConnect(t)

Background ==
    \/ RequestSync \/ LockForSync \/ Sync
    \/ LockForQuit \/ QuitHelper \/ Exit

Next ==
    \/ Window
    \/ \E t \in Task : Worker(t) \/ SshExits(t)
    \/ Background
    \/ HelperActs
    \/ AtRest

Spec == Init /\ [][Next]_vars

\* tokio's mutexes are handed over in the order of the requests, so a task that
\* asks for one gets it (SF); every call of a worker ends by its own timeout
\* (WF); a select! that finds the stop message waiting takes it before it
\* sleeps (SF).  Nothing is assumed of the user or of the helper.
Fairness ==
    /\ \A t \in Task :
         /\ WF_vars(Work(t))
         /\ SF_vars(Begin(t) \/ BeginTooLate(t))
         /\ SF_vars(LockHelper(t))
         /\ SF_vars(SeeStop(t))
    /\ WF_vars(DeliverEvent)
    /\ SF_vars(LockForSync) /\ WF_vars(Sync)
    /\ SF_vars(LockForQuit) /\ WF_vars(QuitHelper) /\ WF_vars(Exit)

FairSpec == Spec /\ Fairness

-----------------------------------------------------------------------------
(* Safety. *)

\* A worker that was superseded has its stop message waiting: one that has none
\* is the newest, and its sender is where the next stop() finds it.  A worker
\* outside both could never be stopped (controller.rs:105-111, 251-255).
SupersededIsStopped ==
    \A t \in Task : Unfinished(t) /\ t \notin stopSent =>
        generation = taskGen[t] /\ stopSlot = t

\* What a lost helper left installed is cleared before the next session opens
\* SSH, by the helper that is reused or by the new one (controller.rs:288-326).
CleanBeforeSsh ==
    \A t \in Task : pc[t] \in {"ssh", "start"} => routing = "off"

\* Traffic that is intercepted without an SSH session goes to a port where nobody
\* listens.  This happens only when the controller has lost the helper that
\* installed the interception: there is a worker with a session, or the helper is
\* dead or its session was dropped; no way out of a session closes SSH while a
\* living helper of the controller intercepts.  And the next session does not
\* begin over what was left (controller.rs:288-326, 523-537).
RoutingOwned ==
    /\ routing # "off" =>
        \/ \E t \in Task : workerLock = t /\ ssh[t] # "none"
        \/ daemon \in {"none", "dead"}
    /\ CleanBeforeSsh

\* Two SSH sessions would compete for the one SOCKS port: an old worker has
\* closed its own before a new one opens the next, however fast the user clicks
\* (controller.rs:264).
SingleSession ==
    \A t, u \in Task : ssh[t] # "none" /\ ssh[u] # "none" => t = u

\* Once the window has taken every event, it shows a connection exactly while a
\* worker watches a session, or takes down one the user has ended
\* (event_loop.rs:198, 215, 236, 253).
InSession(t) ==
    \/ pc[t] \in {"monitor", "wantCheck", "check"}
    \/ cancelled[t] /\ pc[t] \in {"wantStop", "stop", "killSsh"}
WindowShowsSession ==
    Alive /\ events = <<>> => (isConnected <=> \E t \in Task : InSession(t))

\* is_running is never left behind by a worker that is gone: the newest worker
\* lives, although two threads write the flag (controller.rs:107, 253, 564).
RunningHasWorker ==
    Alive /\ isRunning => \E t \in Task : Unfinished(t) /\ taskGen[t] = generation

\* How far a worker has come in an attempt, and after it.
Course(place) ==
    CASE place = "none" -> 0
      [] place = "queued" -> 1
      [] place = "wantHelper" -> 2
      [] place = "vet" -> 3
      [] place = "auth" -> 4
      [] place = "ssh" -> 5
      [] place = "start" -> 6
      [] place \in {"monitor", "wantCheck", "check"} -> 7
      [] place = "wantStop" -> 8
      [] place = "stop" -> 9
      [] place = "killSsh" -> 10
      [] place \in {"retry", "backoff"} -> 11
      [] place = "top" -> 12
      [] place = "finish" -> 13
      [] place = "clear" -> 14
      [] OTHER -> 15

\* A worker that was stopped makes at most the attempt it is in: it may still
\* ask for the authorization and open SSH when it is stopped before, but from
\* wherever it is it only goes on towards its end.  It never gets back to an
\* earlier place, by whatever way, nor begins when it had not
\* (controller.rs:265, 275, 416, 443, 541).
StoppedOnlyFinishes ==
    [][\A t \in Task : t \in stopSent =>
         /\ Course(pc'[t]) >= Course(pc[t])
         /\ pc[t] = "queued" => pc'[t] \in {"queued", "done"}]_vars

(* Liveness. *)

\* A stop takes effect whatever the worker is doing.  (One that still waits for
\* the worker lock may wait for as long as a later start runs: spawned tasks ask
\* for the lock in any order.)
StopTakesEffect ==
    \A t \in Task : t \in stopSent /\ HasWorker(t) ~> pc[t] = "done"

\* A start takes effect or is taken back: no earlier worker, whatever it waits
\* for, keeps the newest from its turn (controller.rs:251, 264).
StartTakesEffect ==
    \A t \in Task : pc[t] = "queued" ~> pc[t] # "queued" \/ generation # taskGen[t]

\* The quit action ends the program, even while a worker reconnects for ever
\* (app/mod.rs:694-710).
QuitExits == quitter = "waiting" ~> quitter = "exited"

\* The window learns of the end of every session: it does not go on showing a
\* connection of which no worker is left.
WindowLearns ==
    (\A t \in Task : ~Unfinished(t)) ~>
        (~Alive \/ ~isConnected \/ \E t \in Task : Unfinished(t))

\* What the comment of shutdown() says (controller.rs:113): it clears the
\* transparent proxy in the background and reports when that is done.  Only
\* workers that shutdown() or an earlier click has stopped are counted.
ShutdownClears ==
    quitter = "completed" /\ (\A t \in Task : Unfinished(t) => t \in stopSent)
        => daemon = "none" /\ routing # "held"

=============================================================================
