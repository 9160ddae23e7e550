------------------------------- MODULE Forward -------------------------------
(***************************************************************************)
(* Port forwarding: the requests of the window for a rule (controller.rs:  *)
(* 139-232, forward_view.rs, dialogs.rs), each carried out by a task of    *)
(* its own under the lock of the forward manager; ForwardManager and the   *)
(* supervisor that keeps one SSH process per rule (forward.rs); and        *)
(* shutdown().                                                             *)
(*                                                                         *)
(* Requests are numbered in the order of the clicks; the supervisor that a *)
(* request starts bears its number.  A rule is what it was at the click    *)
(* (its clone), and so is the profile: of the latter only matters whether  *)
(* it was there.  Whether an attempt can succeed, the route sync before it *)
(* included, is one flag.  The states reported to the window are left out. *)
(***************************************************************************)
EXTENDS Naturals

CONSTANTS
    Rule,           \* the rules (port_forwards)
    MaxRequests,    \* bound: how often the window asks for something
    InitialDelay,   \* INITIAL_RETRY_DELAY_SECS (forward.rs:23)
    MaxDelay        \* MAX_RETRY_DELAY_SECS (forward.rs:24)

ASSUME RuleAssumption == "none" \notin Rule
ASSUME NumbersAssumption ==
    /\ MaxRequests \in Nat
    /\ InitialDelay \in Nat \ {0} /\ MaxDelay \in Nat
    /\ InitialDelay <= MaxDelay

Request == 1 .. MaxRequests

VARIABLES
    config,       \* each rule in the configuration: absent, off or on
    hasProfile,   \* whether the profile of the rules exists
    toStart,      \* the rules a loop of the window has yet to ask for
    asked,        \* how many requests were made
    rule,         \* the rule of each request
    want,         \* whether the rule is to be started or stopped
    inOrder,      \* history: whether the lock was taken in the order of the clicks
    place,        \* how far the task of each request is
    managerLock,  \* who holds RuntimeController.forward_manager
    tasks,        \* ForwardManager.tasks: the supervisor of each rule, or 0
    joining,      \* the supervisor whose end the holder of the lock waits for
    quitter,      \* the part of shutdown() that stops the forwards
    sup,          \* where each supervisor is
    cancelled,    \* the supervisors whose token is cancelled
    delay,        \* retry_delay_secs of each supervisor
    faulty        \* whether attempts fail and sessions break

windowVars == <<config, hasProfile, toStart>>
requestVars == <<asked, rule, want, inOrder>>
managerVars == <<place, managerLock, tasks, joining, quitter>>
supVars == <<sup, cancelled, delay>>
vars == <<windowVars, requestVars, managerVars, supVars, faulty>>

\* "prepare" and "connect" are the two halves of an attempt, "up" the SSH
\* session, the pauses what follows a failure and a session that broke.
Alive(q) == sup[q] \notin {"none", "done"}

TypeOK ==
    /\ config \in [Rule -> {"absent", "off", "on"}]
    /\ hasProfile \in BOOLEAN /\ faulty \in BOOLEAN /\ inOrder \in BOOLEAN
    /\ toStart \subseteq Rule
    /\ asked \in 0 .. MaxRequests
    /\ rule \in [Request -> Rule \cup {"none"}]
    /\ want \in [Request -> {"none", "start", "stop"}]
    /\ place \in [Request -> {"none", "spawned", "locked", "joining", "stopped", "done"}]
    /\ managerLock \in Request \cup {0, MaxRequests + 1}
    /\ tasks \in [Rule -> Request \cup {0}]
    /\ joining \in Request \cup {0}
    /\ quitter \in {"idle", "waiting", "draining", "done", "exited"}
    /\ sup \in [Request -> {"none", "prepare", "connect", "up",
                            "failPause", "dropPause", "done"}]
    /\ cancelled \subseteq Request
    /\ delay \in [Request -> Nat]

\* start_enabled_forwards is under way when the window comes up.
Init ==
    /\ config \in [Rule -> {"absent", "off", "on"}]
    /\ hasProfile \in BOOLEAN
    /\ toStart = {r \in Rule : config[r] = "on"}
    /\ asked = 0
    /\ rule = [q \in Request |-> "none"]
    /\ want = [q \in Request |-> "none"]
    /\ inOrder = TRUE
    /\ place = [q \in Request |-> "none"]
    /\ managerLock = 0 /\ joining = 0 /\ quitter = "idle"
    /\ tasks = [r \in Rule |-> 0]
    /\ sup = [q \in Request |-> "none"]
    /\ cancelled = {}
    /\ delay = [q \in Request |-> InitialDelay]
    /\ faulty \in BOOLEAN

-----------------------------------------------------------------------------
(* The window.  A click and the loops behind it run to their end before the  *)
(* next click.                                                               *)

\* set_forward_enabled and stop_forward: a task is spawned.  A rule that is to
\* be started without its profile is stopped.
Ask(r, enabled) ==
    /\ asked < MaxRequests
    /\ asked' = asked + 1
    /\ rule' = [rule EXCEPT ![asked + 1] = r]
    /\ want' = [want EXCEPT ![asked + 1] =
                    IF enabled /\ hasProfile THEN "start" ELSE "stop"]
    /\ place' = [place EXCEPT ![asked + 1] = "spawned"]
    /\ UNCHANGED <<inOrder, managerLock, tasks, joining, quitter, supVars, faulty>>

Clickable == toStart = {} /\ quitter # "exited"

\* The next rule of start_enabled_forwards or restart_profile_forwards.
AskNext(r) ==
    /\ r \in toStart /\ quitter # "exited"
    /\ toStart' = toStart \ {r}
    /\ Ask(r, TRUE)
    /\ UNCHANGED <<config, hasProfile>>

\* The switch on the card.
Toggle(r) ==
    /\ Clickable /\ config[r] # "absent"
    /\ config' = [config EXCEPT ![r] = IF @ = "on" THEN "off" ELSE "on"]
    /\ Ask(r, config[r] = "off")
    /\ UNCHANGED <<hasProfile, toStart>>

\* The dialog needs a profile.  A new rule has an id of its own and is enabled;
\* one that is edited is as the card showed it, which may be older than the
\* last toggle.
SaveRule(r) ==
    /\ Clickable /\ hasProfile
    /\ config[r] = "absent" => \A q \in Request : rule[q] # r
    /\ \E enabled \in IF config[r] = "absent" THEN {TRUE} ELSE BOOLEAN :
         /\ config' = [config EXCEPT ![r] = IF enabled THEN "on" ELSE "off"]
         /\ Ask(r, enabled)
    /\ UNCHANGED <<hasProfile, toStart>>

Delete(r) ==
    /\ Clickable /\ config[r] # "absent"
    /\ config' = [config EXCEPT ![r] = "absent"]
    /\ Ask(r, FALSE)
    /\ UNCHANGED <<hasProfile, toStart>>

\* The profile dialog: every enabled rule of the profile is rebuilt.
SaveProfile ==
    /\ Clickable /\ asked < MaxRequests
    /\ hasProfile' = TRUE
    /\ toStart' = {r \in Rule : config[r] = "on"}
    /\ UNCHANGED <<config, requestVars, managerVars, supVars, faulty>>

\* Nobody is asked to stop the forwards of a profile that is deleted.
DeleteProfile ==
    /\ Clickable
    /\ hasProfile' = FALSE
    /\ UNCHANGED <<config, toStart, requestVars, managerVars, supVars, faulty>>

Quit ==
    /\ Clickable /\ quitter = "idle"
    /\ quitter' = "waiting"
    /\ UNCHANGED <<windowVars, requestVars, place, managerLock, tasks, joining,
                   supVars, faulty>>

-----------------------------------------------------------------------------
(* The manager, under its lock. *)

LockManager(q) ==
    /\ place[q] = "spawned" /\ managerLock = 0
    /\ managerLock' = q
    /\ place' = [place EXCEPT ![q] = "locked"]
    /\ inOrder' = (inOrder /\ \A p \in Request : place[p] = "spawned" => q <= p)
    /\ UNCHANGED <<windowVars, asked, rule, want, tasks, joining, quitter, supVars, faulty>>

\* Mutant: a rule without a supervisor is cancelled too.
CancelAny(r) ==
    /\ tasks' = [tasks EXCEPT ![r] = 0]
    /\ cancelled' = cancelled \cup {tasks[r]}
    /\ joining' = tasks[r]
JoinedAtOnce == joining' = 0                     \* mutant: the end is not awaited

\* ForwardTask::stop: the token is cancelled and the end of the task awaited.
\* The entry is out of the map by then.
CancelTask(r) ==
    /\ tasks[r] # 0
    /\ tasks' = [tasks EXCEPT ![r] = 0]
    /\ cancelled' = cancelled \cup {tasks[r]}
    /\ joining' = tasks[r]
Joined == sup[joining] = "done" /\ joining' = 0

\* Mutant: a rule that is to be started and has a supervisor keeps it.
KeepOld(q) ==
    /\ place[q] = "locked" /\ tasks[rule[q]] # 0
    /\ IF want[q] = "stop"
       THEN CancelTask(rule[q]) /\ UNCHANGED managerLock
            /\ place' = [place EXCEPT ![q] = "joining"]
       ELSE managerLock' = 0 /\ UNCHANGED <<tasks, cancelled, joining>>
            /\ place' = [place EXCEPT ![q] = "done"]
    /\ UNCHANGED <<windowVars, requestVars, quitter, sup, delay, faulty>>

\* ForwardManager::stop, of the rule of the request.
StopOld(q) ==
    /\ place[q] = "locked" /\ CancelTask(rule[q])
    /\ place' = [place EXCEPT ![q] = "joining"]
    /\ UNCHANGED <<windowVars, requestVars, managerLock, quitter, sup, delay, faulty>>

NothingToStop(q) ==
    /\ place[q] = "locked" /\ tasks[rule[q]] = 0
    /\ place' = [place EXCEPT ![q] = "stopped"]
    /\ UNCHANGED <<windowVars, requestVars, managerLock, tasks, joining, quitter,
                   supVars, faulty>>

OldStopped(q) ==
    /\ place[q] = "joining" /\ Joined
    /\ place' = [place EXCEPT ![q] = "stopped"]
    /\ UNCHANGED <<windowVars, requestVars, managerLock, tasks, quitter, supVars, faulty>>

\* start_with_prepare spawns the new supervisor and registers it.
SpawnNew(q) ==
    /\ sup' = [sup EXCEPT ![q] = "prepare"]
    /\ tasks' = [tasks EXCEPT ![rule[q]] = q]

Complete(q) ==
    /\ place[q] = "stopped"
    /\ IF want[q] = "start" THEN SpawnNew(q) ELSE UNCHANGED <<sup, tasks>>
    /\ managerLock' = 0
    /\ place' = [place EXCEPT ![q] = "done"]
    /\ UNCHANGED <<windowVars, requestVars, joining, quitter, cancelled, delay, faulty>>

\* shutdown() and stop_all, one supervisor after the other.
LockToQuit ==
    /\ quitter = "waiting" /\ managerLock = 0
    /\ managerLock' = MaxRequests + 1
    /\ quitter' = "draining"
    /\ UNCHANGED <<windowVars, requestVars, place, tasks, joining, supVars, faulty>>

DrainOne(r) ==
    /\ quitter = "draining" /\ joining = 0
    /\ CancelTask(r)
    /\ UNCHANGED <<windowVars, requestVars, place, managerLock, quitter, sup, delay, faulty>>

DrainedOne ==
    /\ quitter = "draining" /\ joining # 0 /\ Joined
    /\ UNCHANGED <<windowVars, requestVars, place, managerLock, tasks, quitter,
                   supVars, faulty>>

AllStopped ==
    /\ quitter = "draining" /\ joining = 0
    /\ \A r \in Rule : tasks[r] = 0
    /\ managerLock' = 0
    /\ quitter' = "done"
    /\ UNCHANGED <<windowVars, requestVars, place, tasks, joining, supVars, faulty>>

\* app.quit(): every task ends with the program, and every SSH process with it.
Exit ==
    /\ quitter = "done"
    /\ quitter' = "exited"
    /\ sup' = [q \in Request |-> IF sup[q] = "none" THEN "none" ELSE "done"]
    /\ place' = [q \in Request |-> IF place[q] = "none" THEN "none" ELSE "done"]
    /\ managerLock' = 0 /\ joining' = 0
    /\ tasks' = [r \in Rule |-> 0]
    /\ UNCHANGED <<windowVars, requestVars, cancelled, delay, faulty>>

-----------------------------------------------------------------------------
(* A supervisor: every select! is biased and looks at the token first, and   *)
(* the drop or the stop of a session kills its process.                      *)

Proceed(q, from, to) ==
    /\ sup[q] \in from /\ q \notin cancelled
    /\ sup' = [sup EXCEPT ![q] = to]
    /\ UNCHANGED <<windowVars, requestVars, managerVars, cancelled, faulty>>

Prepared(q) == Proceed(q, {"prepare"}, "connect") /\ UNCHANGED delay

Ready(q) ==
    /\ ~faulty
    /\ Proceed(q, {"connect"}, "up")
    /\ delay' = [delay EXCEPT ![q] = InitialDelay]

AttemptFails(q) ==
    /\ faulty
    /\ Proceed(q, {"prepare", "connect"}, "failPause") /\ UNCHANGED delay

Breaks(q) == Proceed(q, {"up"}, "dropPause") /\ UNCHANGED delay

NextRetryDelay(current) == IF 2 * current < MaxDelay THEN 2 * current ELSE MaxDelay

\* Mutant: no retry once the delay is at its most.
RetryGivesUp(q) ==
    /\ delay[q] < MaxDelay
    /\ Proceed(q, {"failPause", "dropPause"}, "prepare")
    /\ delay' = [delay EXCEPT ![q] = NextRetryDelay(@)]

Retry(q) ==
    /\ Proceed(q, {"failPause", "dropPause"}, "prepare")
    /\ delay' = [delay EXCEPT ![q] = NextRetryDelay(@)]

\* Mutant: the select! of an attempt has no token.
SeeCancelLater(q) ==
    /\ Alive(q) /\ q \in cancelled /\ sup[q] \notin {"prepare", "connect"}
    /\ sup' = [sup EXCEPT ![q] = "done"]
    /\ UNCHANGED <<windowVars, requestVars, managerVars, cancelled, delay, faulty>>

SeeCancel(q) ==
    /\ Alive(q) /\ q \in cancelled
    /\ sup' = [sup EXCEPT ![q] = "done"]
    /\ UNCHANGED <<windowVars, requestVars, managerVars, cancelled, delay, faulty>>

NetworkChanges ==
    /\ faulty' = ~faulty
    /\ UNCHANGED <<windowVars, requestVars, managerVars, supVars>>

-----------------------------------------------------------------------------

Window ==
    \/ \E r \in Rule : AskNext(r) \/ Toggle(r) \/ SaveRule(r) \/ Delete(r)
    \/ SaveProfile \/ DeleteProfile \/ Quit

Manage(q) == StopOld(q) \/ NothingToStop(q) \/ OldStopped(q) \/ Complete(q)
Drain == DrainedOne \/ AllStopped \/ \E r \in Rule : DrainOne(r)
Supervise(q) == Prepared(q) \/ Ready(q) \/ AttemptFails(q) \/ Retry(q)

Next ==
    \/ Window
    \/ \E q \in Request : \/ LockManager(q) \/ Manage(q)
                          \/ Supervise(q) \/ Breaks(q) \/ SeeCancel(q)
    \/ LockToQuit \/ Drain \/ Exit
    \/ NetworkChanges

Spec == Init /\ [][Next]_vars

\* The lock is handed over in the order in which it was asked for, so whoever
\* asks gets it (SF); its holder and a supervisor that is cancelled are woken
\* (WF).  Nothing is assumed of attempts: they may hang.
Fairness ==
    /\ \A q \in Request :
         /\ SF_vars(LockManager(q)) /\ WF_vars(Manage(q))
         /\ WF_vars(SeeCancel(q))
    /\ SF_vars(LockToQuit) /\ WF_vars(Drain)
FairSpec == Spec /\ Fairness

\* Attempts and pauses end, by their timeouts if by nothing else.
AttemptsEnd == \A q \in Request : WF_vars(Supervise(q))

-----------------------------------------------------------------------------
(* Safety. *)

\* Two supervisors of a rule would fight for its port: whatever is saved,
\* toggled or deleted while whatever else waits for the lock, the old one has
\* ended before the new one begins (forward.rs:419, 313-314).
OneSupervisor ==
    \A p, q \in Request : Alive(p) /\ Alive(q) /\ rule[p] = rule[q] => p = q

\* No supervisor escapes: one that runs is in the map, where the next stop or
\* shutdown() finds it, or its end is being awaited (forward.rs:425, 429, 436).
Registered ==
    \A q \in Request : Alive(q) => tasks[rule[q]] = q \/ joining = q

\* A session that breaks is retried after the shortest delay, as the log says of it,
\* however long the delays before it was established had become (forward.rs:357, 369).
BrokenRetriesSoon ==
    \A q \in Request : sup[q] = "dropPause" => delay[q] = InitialDelay

\* Nothing of the rule is under way.
Quiet(r) == \A q \in Request : rule[q] = r => place[q] = "done"
Running(r) == {q \in Request : rule[q] = r /\ Alive(q)}
IsLast(q) == rule[q] # "none" /\ \A p \in Request : rule[p] = rule[q] => p <= q

\* As long as the lock is taken in the order of the clicks (usual, but not what
\* spawning promises), the last request for a rule decides whether it runs, and
\* with which settings and credentials (controller.rs:178-216).
LastRequestDecides ==
    \A q \in Request : inOrder /\ IsLast(q) /\ Quiet(rule[q]) /\ quitter = "idle" =>
        Running(rule[q]) = IF want[q] = "start" THEN {q} ELSE {}

\* What the comment of stop_forward says (controller.rs:219): it stops and
\* removes the session of the rule.
DeletedIsStopped ==
    \A r \in Rule : config[r] = "absent" /\ Quiet(r) => Running(r) = {}

(* Liveness. *)

\* Every request ends, although attempts may hang and the holder of the lock
\* waits for a supervisor in the middle of one: cancellation reaches all of its
\* waits (forward.rs:334, 408).  So does shutdown(), whatever was asked for
\* before it.
RequestsEnd ==
    /\ \A q \in Request : place[q] = "spawned" ~> place[q] = "done"
    /\ quitter = "waiting" ~> quitter = "done"

\* A rule that is not stopped comes up once the network is back for good, if
\* attempts and pauses end (tests.rs:112, 139).
Recovers ==
    AttemptsEnd => \A q \in Request :
        Alive(q) /\ <>[]~faulty ~> sup[q] = "up" \/ q \in cancelled \/ quitter = "exited"

=============================================================================
