--------------------------- MODULE ControllerProofs ---------------------------
(***************************************************************************)
(* What holds of the controller for every set of workers and every bound:  *)
(* its type invariant and the safety properties of Controller.tla that the *)
(* runs check on small instances.                                          *)
(***************************************************************************)
EXTENDS Controller, TLAPS, SequenceTheorems

\* TypeOK in three parts, so that each is left to the prover that is good at it.
ControlTypeOK ==
    /\ generation \in Nat
    /\ stopSlot \in Task \cup {"none"} /\ stopSent \subseteq Task
    /\ workerLock \in Task \cup {"none"}
    /\ helperLock \in Task \cup {"none", "sync", "quit"}
    /\ taskGen \in [Task -> Nat]
    /\ pc \in [Task -> Waiting \cup Holding \cup Elsewhere]
    /\ failures \in [Task -> Nat]
    /\ ssh \in [Task -> {"none", "up", "exited"}]
    /\ syncer \in {"idle", "waiting", "holding"}
    /\ quitter \in {"idle", "waiting", "holding", "completed", "exited"}
FlagTypeOK ==
    /\ isRunning \in BOOLEAN /\ isConnected \in BOOLEAN
    /\ cancelled \in [Task -> BOOLEAN]
    /\ events \in Seq(BOOLEAN)

\* Every step keeps the types of the fields that hold no Boolean.
LEMMA ControlTypeStep == ASSUME ControlTypeOK, [Next]_vars PROVE ControlTypeOK'
<1> USE TaskAssumption, BoundsAssumption
    DEF ControlTypeOK, Waiting, Holding, Elsewhere,
        controlVars, lockVars, taskVars, uiVars, otherVars, helperVars,
        Goto, SetSsh, Release, Stop, SendStop, NextGeneration
<1>1. ASSUME NEW t \in Task, Begin(t) PROVE ControlTypeOK'
  BY <1>1 DEF Begin
<1>2. ASSUME NEW t \in Task, BeginTooLate(t) PROVE ControlTypeOK'
  BY <1>2 DEF BeginTooLate
<1>3. ASSUME NEW t \in Task, LockHelper(t) PROVE ControlTypeOK'
  BY <1>3 DEF LockHelper
<1>4. ASSUME NEW t \in Task, LoopTop(t) PROVE ControlTypeOK'
  BY <1>4 DEF LoopTop
<1>5. ASSUME NEW t \in Task, VetHelper(t) PROVE ControlTypeOK'
  BY <1>5 DEF VetHelper
<1>6. ASSUME NEW t \in Task, AuthorizeHelper(t) PROVE ControlTypeOK'
  BY <1>6 DEF AuthorizeHelper
<1>7. ASSUME NEW t \in Task, AuthorizationFails(t) PROVE ControlTypeOK'
  BY <1>7 DEF AuthorizationFails
<1>8. ASSUME NEW t \in Task, StartSsh(t) PROVE ControlTypeOK'
  BY <1>8 DEF StartSsh
<1>9. ASSUME NEW t \in Task, SshFails(t) PROVE ControlTypeOK'
  BY <1>9 DEF SshFails
<1>10. ASSUME NEW t \in Task, StartRouting(t) PROVE ControlTypeOK'
  BY <1>10 DEF StartRouting
<1>11. ASSUME NEW t \in Task, RoutingFails(t) PROVE ControlTypeOK'
  BY <1>11 DEF RoutingFails
<1>12. ASSUME NEW t \in Task, PauseStopped(t) PROVE ControlTypeOK'
  BY <1>12 DEF PauseStopped
<1>13. ASSUME NEW t \in Task, PauseOver(t) PROVE ControlTypeOK'
  BY <1>13 DEF PauseOver
<1>14. ASSUME NEW t \in Task, SeeStop(t) PROVE ControlTypeOK'
  BY <1>14 DEF SeeStop
<1>15. ASSUME NEW t \in Task, SeeSshExit(t) PROVE ControlTypeOK'
  BY <1>15 DEF SeeSshExit
<1>16. ASSUME NEW t \in Task, HealthPasses(t) PROVE ControlTypeOK'
  BY <1>16 DEF HealthPasses
<1>17. ASSUME NEW t \in Task, HealthFails(t) PROVE ControlTypeOK'
  <2>1. failures' \in [Task -> Nat]
    BY <1>17 DEF HealthFails
  <2>2. pc' = pc \/ Goto(t, "wantStop")
    BY <1>17 DEF HealthFails
  <2> QED BY <2>1, <2>2, <1>17 DEF HealthFails
<1>18. ASSUME NEW t \in Task, CheckDue(t) PROVE ControlTypeOK'
  BY <1>18 DEF CheckDue
<1>19. ASSUME NEW t \in Task, CheckHelper(t) PROVE ControlTypeOK'
  BY <1>19 DEF CheckHelper
<1>20. ASSUME NEW t \in Task, StopRouting(t) PROVE ControlTypeOK'
  BY <1>20 DEF StopRouting
<1>21. ASSUME NEW t \in Task, StopSsh(t) PROVE ControlTypeOK'
  BY <1>21 DEF StopSsh
<1>22. ASSUME NEW t \in Task, Finish(t) PROVE ControlTypeOK'
  BY <1>22 DEF Finish
<1>23. ASSUME NEW t \in Task, FinishSuperseded(t) PROVE ControlTypeOK'
  BY <1>23 DEF FinishSuperseded
<1>24. ASSUME NEW t \in Task, ClearRunning(t) PROVE ControlTypeOK'
  BY <1>24 DEF ClearRunning
<1>25. ASSUME NEW t \in Task, SshExits(t) PROVE ControlTypeOK'
  BY <1>25 DEF SshExits
<1>26. ASSUME NEW t \in Task, ClickConnect(t) PROVE ControlTypeOK'
  BY <1>26 DEF ClickConnect
<1>27. CASE ClickDisconnect
  BY <1>27 DEF ClickDisconnect
<1>28. CASE ClickQuit
  BY <1>28 DEF ClickQuit
<1>29. CASE DeliverEvent
  BY <1>29 DEF DeliverEvent
<1>30. CASE RequestSync
  BY <1>30 DEF RequestSync
<1>31. CASE LockForSync
  BY <1>31 DEF LockForSync
<1>32. CASE Sync
  BY <1>32 DEF Sync
<1>33. CASE LockForQuit
  BY <1>33 DEF LockForQuit
<1>34. CASE QuitHelper
  BY <1>34 DEF QuitHelper
<1>35. CASE Exit
  BY <1>35 DEF Exit
<1>36. CASE HelperActs
  BY <1>36 DEF HelperActs
<1>37. CASE UNCHANGED vars
  BY <1>37 DEF vars
<1> QED
  BY <1>1, <1>2, <1>3, <1>4, <1>5, <1>6, <1>7, <1>8, <1>9, <1>10, <1>11, <1>12,
     <1>13, <1>14, <1>15, <1>16, <1>17, <1>18, <1>19, <1>20, <1>21, <1>22, <1>23, <1>24,
     <1>25, <1>26, <1>27, <1>28, <1>29, <1>30, <1>31, <1>32, <1>33, <1>34, <1>35, <1>36,
     <1>37
  DEF Next, Window, Worker, Work, Background, AtRest

\* The controller touches the helper only through the calls of HelperService:
\* every step of it is a step of that service or leaves it alone.
THEOREM UsesHelperService == ASSUME [Next]_vars PROVE [HelperNext]_helperVars
<1> USE DEF helperVars, HelperNext, HelperCall
<1>1. ASSUME NEW t \in Task, Begin(t) PROVE [HelperNext]_helperVars
  BY <1>1 DEF Begin
<1>2. ASSUME NEW t \in Task, BeginTooLate(t) PROVE [HelperNext]_helperVars
  BY <1>2 DEF BeginTooLate
<1>3. ASSUME NEW t \in Task, LockHelper(t) PROVE [HelperNext]_helperVars
  BY <1>3 DEF LockHelper
<1>4. ASSUME NEW t \in Task, LoopTop(t) PROVE [HelperNext]_helperVars
  BY <1>4 DEF LoopTop
<1>5. ASSUME NEW t \in Task, VetHelper(t) PROVE [HelperNext]_helperVars
  BY <1>5 DEF VetHelper
<1>6. ASSUME NEW t \in Task, AuthorizeHelper(t) PROVE [HelperNext]_helperVars
  BY <1>6 DEF AuthorizeHelper
<1>7. ASSUME NEW t \in Task, AuthorizationFails(t) PROVE [HelperNext]_helperVars
  BY <1>7 DEF AuthorizationFails
<1>8. ASSUME NEW t \in Task, StartSsh(t) PROVE [HelperNext]_helperVars
  BY <1>8 DEF StartSsh
<1>9. ASSUME NEW t \in Task, SshFails(t) PROVE [HelperNext]_helperVars
  BY <1>9 DEF SshFails
<1>10. ASSUME NEW t \in Task, StartRouting(t) PROVE [HelperNext]_helperVars
  BY <1>10 DEF StartRouting
<1>11. ASSUME NEW t \in Task, RoutingFails(t) PROVE [HelperNext]_helperVars
  BY <1>11 DEF RoutingFails
<1>12. ASSUME NEW t \in Task, PauseStopped(t) PROVE [HelperNext]_helperVars
  BY <1>12 DEF PauseStopped
<1>13. ASSUME NEW t \in Task, PauseOver(t) PROVE [HelperNext]_helperVars
  BY <1>13 DEF PauseOver
<1>14. ASSUME NEW t \in Task, SeeStop(t) PROVE [HelperNext]_helperVars
  BY <1>14 DEF SeeStop
<1>15. ASSUME NEW t \in Task, SeeSshExit(t) PROVE [HelperNext]_helperVars
  BY <1>15 DEF SeeSshExit
<1>16. ASSUME NEW t \in Task, HealthPasses(t) PROVE [HelperNext]_helperVars
  BY <1>16 DEF HealthPasses
<1>17. ASSUME NEW t \in Task, HealthFails(t) PROVE [HelperNext]_helperVars
  BY <1>17 DEF HealthFails
<1>18. ASSUME NEW t \in Task, CheckDue(t) PROVE [HelperNext]_helperVars
  BY <1>18 DEF CheckDue
<1>19. ASSUME NEW t \in Task, CheckHelper(t) PROVE [HelperNext]_helperVars
  BY <1>19 DEF CheckHelper
<1>20. ASSUME NEW t \in Task, StopRouting(t) PROVE [HelperNext]_helperVars
  BY <1>20 DEF StopRouting
<1>21. ASSUME NEW t \in Task, StopSsh(t) PROVE [HelperNext]_helperVars
  BY <1>21 DEF StopSsh
<1>22. ASSUME NEW t \in Task, Finish(t) PROVE [HelperNext]_helperVars
  BY <1>22 DEF Finish
<1>23. ASSUME NEW t \in Task, FinishSuperseded(t) PROVE [HelperNext]_helperVars
  BY <1>23 DEF FinishSuperseded
<1>24. ASSUME NEW t \in Task, ClearRunning(t) PROVE [HelperNext]_helperVars
  BY <1>24 DEF ClearRunning
<1>25. ASSUME NEW t \in Task, SshExits(t) PROVE [HelperNext]_helperVars
  BY <1>25 DEF SshExits
<1>26. ASSUME NEW t \in Task, ClickConnect(t) PROVE [HelperNext]_helperVars
  BY <1>26 DEF ClickConnect
<1>27. CASE ClickDisconnect
  BY <1>27 DEF ClickDisconnect
<1>28. CASE ClickQuit
  BY <1>28 DEF ClickQuit
<1>29. CASE DeliverEvent
  BY <1>29 DEF DeliverEvent
<1>30. CASE RequestSync
  BY <1>30 DEF RequestSync
<1>31. CASE LockForSync
  BY <1>31 DEF LockForSync
<1>32. CASE Sync
  BY <1>32 DEF Sync
<1>33. CASE LockForQuit
  BY <1>33 DEF LockForQuit
<1>34. CASE QuitHelper
  BY <1>34 DEF QuitHelper
<1>35. CASE Exit
  BY <1>35 DEF Exit
<1>36. CASE HelperActs
  BY <1>36 DEF HelperActs
<1>37. CASE UNCHANGED vars
  BY <1>37 DEF vars
<1> QED
  BY <1>1, <1>2, <1>3, <1>4, <1>5, <1>6, <1>7, <1>8, <1>9, <1>10, <1>11, <1>12,
     <1>13, <1>14, <1>15, <1>16, <1>17, <1>18, <1>19, <1>20, <1>21, <1>22, <1>23, <1>24,
     <1>25, <1>26, <1>27, <1>28, <1>29, <1>30, <1>31, <1>32, <1>33, <1>34, <1>35, <1>36,
     <1>37
  DEF Next, Window, Worker, Work, Background, AtRest

\* An interception that is not held was installed by a helper that is lost.
LostInstalled ==
    /\ routing = "orphan" => daemon = "none"
    /\ routing = "leaked" => daemon \in {"none", "dead"}

\* A step of the helper service, or none, keeps the types of its variables, what
\* they say of each other, and the helpers that are lost.
LEMMA HelperServiceStep ==
    ASSUME HelperTypeOK, HeldByTheLiving, LostInstalled, [HelperNext]_helperVars
    PROVE  HelperTypeOK' /\ HeldByTheLiving' /\ LostInstalled'
  BY DEF HelperTypeOK, Daemon, Routing, HeldByTheLiving, LostInstalled, HelperNext,
         HelperCall, HelperEnvironment, helperVars, EnsureStarted, EnsureFails, Discard,
         StartSession, StartFails, StopSession, StopFails, CheckPasses, CheckFails,
         ResetPasses, ResetFails, SyncRules, Quit, DaemonDies, GoesMute,
         SessionEnds, OrphanEnds

\* An event that is sent leaves the queue a queue of Booleans.
LEMMA ShowType ==
    ASSUME FlagTypeOK, NEW b \in BOOLEAN, Show(b)
    PROVE  events' \in Seq(BOOLEAN)
<1>1. Append(events, b) \in Seq(BOOLEAN)
  BY DEF FlagTypeOK
<1> QED BY <1>1 DEF FlagTypeOK, Show

\* Every step keeps the types of the fields that hold Booleans.
LEMMA FlagTypeStep == ASSUME FlagTypeOK, [Next]_vars PROVE FlagTypeOK'
<1> USE DEF FlagTypeOK, controlVars, lockVars, taskVars, uiVars, otherVars,
            SetCancelled, Stop
<1>1. ASSUME NEW t \in Task, Begin(t) PROVE FlagTypeOK'
  BY <1>1, ShowType DEF Begin
<1>2. ASSUME NEW t \in Task, BeginTooLate(t) PROVE FlagTypeOK'
  BY <1>2 DEF BeginTooLate
<1>3. ASSUME NEW t \in Task, LockHelper(t) PROVE FlagTypeOK'
  BY <1>3 DEF LockHelper
<1>4. ASSUME NEW t \in Task, LoopTop(t) PROVE FlagTypeOK'
  BY <1>4 DEF LoopTop
<1>5. ASSUME NEW t \in Task, VetHelper(t) PROVE FlagTypeOK'
  BY <1>5 DEF VetHelper
<1>6. ASSUME NEW t \in Task, AuthorizeHelper(t) PROVE FlagTypeOK'
  BY <1>6, ShowType DEF AuthorizeHelper
<1>7. ASSUME NEW t \in Task, AuthorizationFails(t) PROVE FlagTypeOK'
  BY <1>7, ShowType DEF AuthorizationFails
<1>8. ASSUME NEW t \in Task, StartSsh(t) PROVE FlagTypeOK'
  BY <1>8 DEF StartSsh
<1>9. ASSUME NEW t \in Task, SshFails(t) PROVE FlagTypeOK'
  BY <1>9, ShowType DEF SshFails
<1>10. ASSUME NEW t \in Task, StartRouting(t) PROVE FlagTypeOK'
  BY <1>10, ShowType DEF StartRouting
<1>11. ASSUME NEW t \in Task, RoutingFails(t) PROVE FlagTypeOK'
  BY <1>11, ShowType DEF RoutingFails
<1>12. ASSUME NEW t \in Task, PauseStopped(t) PROVE FlagTypeOK'
  BY <1>12, ShowType DEF PauseStopped
<1>13. ASSUME NEW t \in Task, PauseOver(t) PROVE FlagTypeOK'
  BY <1>13 DEF PauseOver
<1>14. ASSUME NEW t \in Task, SeeStop(t) PROVE FlagTypeOK'
  BY <1>14 DEF SeeStop
<1>15. ASSUME NEW t \in Task, SeeSshExit(t) PROVE FlagTypeOK'
  BY <1>15, ShowType DEF SeeSshExit
<1>16. ASSUME NEW t \in Task, HealthPasses(t) PROVE FlagTypeOK'
  BY <1>16 DEF HealthPasses
<1>17. ASSUME NEW t \in Task, HealthFails(t) PROVE FlagTypeOK'
  BY <1>17, ShowType DEF HealthFails
<1>18. ASSUME NEW t \in Task, CheckDue(t) PROVE FlagTypeOK'
  BY <1>18 DEF CheckDue
<1>19. ASSUME NEW t \in Task, CheckHelper(t) PROVE FlagTypeOK'
  BY <1>19, ShowType DEF CheckHelper
<1>20. ASSUME NEW t \in Task, StopRouting(t) PROVE FlagTypeOK'
  BY <1>20 DEF StopRouting
<1>21. ASSUME NEW t \in Task, StopSsh(t) PROVE FlagTypeOK'
  BY <1>21, ShowType DEF StopSsh
<1>22. ASSUME NEW t \in Task, Finish(t) PROVE FlagTypeOK'
  BY <1>22 DEF Finish
<1>23. ASSUME NEW t \in Task, FinishSuperseded(t) PROVE FlagTypeOK'
  BY <1>23 DEF FinishSuperseded
<1>24. ASSUME NEW t \in Task, ClearRunning(t) PROVE FlagTypeOK'
  BY <1>24 DEF ClearRunning
<1>25. ASSUME NEW t \in Task, SshExits(t) PROVE FlagTypeOK'
  BY <1>25 DEF SshExits
<1>26. ASSUME NEW t \in Task, ClickConnect(t) PROVE FlagTypeOK'
  BY <1>26 DEF ClickConnect
<1>27. CASE ClickDisconnect
  BY <1>27 DEF ClickDisconnect
<1>28. CASE ClickQuit
  BY <1>28 DEF ClickQuit
<1>29. CASE DeliverEvent
  BY <1>29 DEF DeliverEvent
<1>30. CASE RequestSync
  BY <1>30 DEF RequestSync
<1>31. CASE LockForSync
  BY <1>31 DEF LockForSync
<1>32. CASE Sync
  BY <1>32 DEF Sync
<1>33. CASE LockForQuit
  BY <1>33 DEF LockForQuit
<1>34. CASE QuitHelper
  BY <1>34 DEF QuitHelper
<1>35. CASE Exit
  BY <1>35 DEF Exit
<1>36. CASE HelperActs
  BY <1>36 DEF HelperActs
<1>37. CASE UNCHANGED vars
  BY <1>37 DEF vars
<1> QED
  BY <1>1, <1>2, <1>3, <1>4, <1>5, <1>6, <1>7, <1>8, <1>9, <1>10, <1>11, <1>12,
     <1>13, <1>14, <1>15, <1>16, <1>17, <1>18, <1>19, <1>20, <1>21, <1>22, <1>23, <1>24,
     <1>25, <1>26, <1>27, <1>28, <1>29, <1>30, <1>31, <1>32, <1>33, <1>34, <1>35, <1>36,
     <1>37
  DEF Next, Window, Worker, Work, Background, AtRest

\* Who owns what.  The worker lock is held by the one worker between its first
\* step and its last; an SSH session exists from StartSsh to StopSsh; traffic is
\* held for a worker between StartRouting and StopRouting.
WithSsh == {"start", "monitor", "wantCheck", "check", "wantStop", "stop", "killSsh"}
Watched == {"monitor", "wantCheck", "check", "wantStop", "stop"}
Ownership ==
    /\ \A t \in Task : HasWorker(t) <=> workerLock = t
    /\ \A t \in Task : ssh[t] # "none" <=> pc[t] \in WithSsh
    /\ routing = "held" => workerLock \in Task /\ pc[workerLock] \in Watched

\* Every step keeps the locks with their holders, and routing and SSH with the
\* holder of the worker lock (controller.rs:264, 289, 523-537).
LEMMA OwnershipStep ==
    ASSUME ControlTypeOK, HelperTypeOK, HeldByTheLiving, Ownership, [Next]_vars
    PROVE  Ownership'
<1> USE TaskAssumption
    DEF ControlTypeOK, Ownership, HasWorker, Unfinished, WithSsh, Watched,
        Waiting, Holding, Elsewhere,
        controlVars, lockVars, taskVars, uiVars, otherVars, helperVars,
        Goto, SetSsh, Release, Stop, SendStop, NextGeneration, HeldByTheLiving,
        EnsureStarted, EnsureFails, Discard, StartSession, StartFails,
        StopSession, StopFails, CheckPasses, CheckFails, ResetPasses, ResetFails,
        SyncRules, Quit
<1>1. ASSUME NEW t \in Task, Begin(t) PROVE Ownership'
  BY <1>1 DEF Begin
<1>2. ASSUME NEW t \in Task, BeginTooLate(t) PROVE Ownership'
  BY <1>2 DEF BeginTooLate
<1>3. ASSUME NEW t \in Task, LockHelper(t) PROVE Ownership'
  BY <1>3 DEF LockHelper
<1>4. ASSUME NEW t \in Task, LoopTop(t) PROVE Ownership'
  BY <1>4 DEF LoopTop
<1>5. ASSUME NEW t \in Task, VetHelper(t) PROVE Ownership'
  BY <1>5 DEF VetHelper
<1>6. ASSUME NEW t \in Task, AuthorizeHelper(t) PROVE Ownership'
  BY <1>6 DEF AuthorizeHelper
<1>7. ASSUME NEW t \in Task, AuthorizationFails(t) PROVE Ownership'
  BY <1>7 DEF AuthorizationFails
<1>8. ASSUME NEW t \in Task, StartSsh(t) PROVE Ownership'
  BY <1>8 DEF StartSsh
<1>9. ASSUME NEW t \in Task, SshFails(t) PROVE Ownership'
  BY <1>9 DEF SshFails
<1>10. ASSUME NEW t \in Task, StartRouting(t) PROVE Ownership'
  BY <1>10 DEF StartRouting
<1>11. ASSUME NEW t \in Task, RoutingFails(t) PROVE Ownership'
  BY <1>11 DEF RoutingFails
<1>12. ASSUME NEW t \in Task, PauseStopped(t) PROVE Ownership'
  BY <1>12 DEF PauseStopped
<1>13. ASSUME NEW t \in Task, PauseOver(t) PROVE Ownership'
  BY <1>13 DEF PauseOver
<1>14. ASSUME NEW t \in Task, SeeStop(t) PROVE Ownership'
  BY <1>14 DEF SeeStop
<1>15. ASSUME NEW t \in Task, SeeSshExit(t) PROVE Ownership'
  BY <1>15 DEF SeeSshExit
<1>16. ASSUME NEW t \in Task, HealthPasses(t) PROVE Ownership'
  BY <1>16 DEF HealthPasses
<1>17. ASSUME NEW t \in Task, HealthFails(t) PROVE Ownership'
  <2>1. \/ UNCHANGED pc
        \/ Goto(t, "wantStop")
    BY <1>17 DEF HealthFails
  <2> QED BY <2>1, <1>17 DEF HealthFails
<1>18. ASSUME NEW t \in Task, CheckDue(t) PROVE Ownership'
  BY <1>18 DEF CheckDue
<1>19. ASSUME NEW t \in Task, CheckHelper(t) PROVE Ownership'
  BY <1>19 DEF CheckHelper
<1>20. ASSUME NEW t \in Task, StopRouting(t) PROVE Ownership'
  BY <1>20 DEF StopRouting
<1>21. ASSUME NEW t \in Task, StopSsh(t) PROVE Ownership'
  BY <1>21 DEF StopSsh
<1>22. ASSUME NEW t \in Task, Finish(t) PROVE Ownership'
  BY <1>22 DEF Finish
<1>23. ASSUME NEW t \in Task, FinishSuperseded(t) PROVE Ownership'
  BY <1>23 DEF FinishSuperseded
<1>24. ASSUME NEW t \in Task, ClearRunning(t) PROVE Ownership'
  BY <1>24 DEF ClearRunning
<1>25. ASSUME NEW t \in Task, SshExits(t) PROVE Ownership'
  BY <1>25 DEF SshExits
<1>26. ASSUME NEW t \in Task, ClickConnect(t) PROVE Ownership'
  BY <1>26 DEF ClickConnect
<1>27. CASE ClickDisconnect
  BY <1>27 DEF ClickDisconnect
<1>28. CASE ClickQuit
  BY <1>28 DEF ClickQuit
<1>29. CASE DeliverEvent
  BY <1>29 DEF DeliverEvent
<1>30. CASE RequestSync
  BY <1>30 DEF RequestSync
<1>31. CASE LockForSync
  BY <1>31 DEF LockForSync
<1>32. CASE Sync
  BY <1>32 DEF Sync
<1>33. CASE LockForQuit
  BY <1>33 DEF LockForQuit
<1>34. CASE QuitHelper
  BY <1>34 DEF QuitHelper
<1>35. CASE Exit
  BY <1>35 DEF Exit
<1>36. CASE HelperActs
  BY <1>36 DEF HelperActs, HelperEnvironment, DaemonDies, GoesMute, SessionEnds, OrphanEnds
<1>37. CASE UNCHANGED vars
  BY <1>37 DEF vars
<1> QED
  BY <1>1, <1>2, <1>3, <1>4, <1>5, <1>6, <1>7, <1>8, <1>9, <1>10, <1>11, <1>12,
     <1>13, <1>14, <1>15, <1>16, <1>17, <1>18, <1>19, <1>20, <1>21, <1>22, <1>23, <1>24,
     <1>25, <1>26, <1>27, <1>28, <1>29, <1>30, <1>31, <1>32, <1>33, <1>34, <1>35, <1>36,
     <1>37
  DEF Next, Window, Worker, Work, Background, AtRest


\* Every step keeps the kernel clear between a helper that was vetted or newly
\* authorized and the start of the session: nobody but the worker that holds the
\* worker lock starts one (controller.rs:288-404).
LEMMA CleanStep ==
    ASSUME ControlTypeOK, HelperTypeOK, HeldByTheLiving, Ownership, CleanBeforeSsh,
           [Next]_vars
    PROVE  CleanBeforeSsh'
<1> USE TaskAssumption
    DEF ControlTypeOK, Ownership, CleanBeforeSsh, HasWorker, Unfinished,
        controlVars, lockVars, taskVars, uiVars, otherVars, helperVars, Goto, Release, Stop
<1>1. ASSUME NEW t \in Task, Begin(t) PROVE CleanBeforeSsh'
  BY <1>1 DEF Begin
<1>2. ASSUME NEW t \in Task, BeginTooLate(t) PROVE CleanBeforeSsh'
  BY <1>2 DEF BeginTooLate
<1>3. ASSUME NEW t \in Task, LockHelper(t) PROVE CleanBeforeSsh'
  BY <1>3 DEF LockHelper
<1>4. ASSUME NEW t \in Task, LoopTop(t) PROVE CleanBeforeSsh'
  BY <1>4 DEF LoopTop
<1>5. ASSUME NEW t \in Task, VetHelper(t) PROVE CleanBeforeSsh'
  BY <1>5 DEF VetHelper, ResetPasses, ResetFails, Discard
<1>6. ASSUME NEW t \in Task, AuthorizeHelper(t) PROVE CleanBeforeSsh'
  BY <1>6 DEF AuthorizeHelper, EnsureStarted
<1>7. ASSUME NEW t \in Task, AuthorizationFails(t) PROVE CleanBeforeSsh'
  BY <1>7 DEF AuthorizationFails, EnsureFails
<1>8. ASSUME NEW t \in Task, StartSsh(t) PROVE CleanBeforeSsh'
  BY <1>8 DEF StartSsh
<1>9. ASSUME NEW t \in Task, SshFails(t) PROVE CleanBeforeSsh'
  BY <1>9 DEF SshFails
<1>10. ASSUME NEW t \in Task, StartRouting(t) PROVE CleanBeforeSsh'
  BY <1>10 DEF StartRouting, StartSession
<1>11. ASSUME NEW t \in Task, RoutingFails(t) PROVE CleanBeforeSsh'
  BY <1>11 DEF RoutingFails, StartFails
<1>12. ASSUME NEW t \in Task, PauseStopped(t) PROVE CleanBeforeSsh'
  BY <1>12 DEF PauseStopped
<1>13. ASSUME NEW t \in Task, PauseOver(t) PROVE CleanBeforeSsh'
  BY <1>13 DEF PauseOver
<1>14. ASSUME NEW t \in Task, SeeStop(t) PROVE CleanBeforeSsh'
  BY <1>14 DEF SeeStop
<1>15. ASSUME NEW t \in Task, SeeSshExit(t) PROVE CleanBeforeSsh'
  BY <1>15 DEF SeeSshExit
<1>16. ASSUME NEW t \in Task, HealthPasses(t) PROVE CleanBeforeSsh'
  BY <1>16 DEF HealthPasses
<1>17. ASSUME NEW t \in Task, HealthFails(t) PROVE CleanBeforeSsh'
  <2>1. \/ UNCHANGED pc
        \/ Goto(t, "wantStop")
    BY <1>17 DEF HealthFails
  <2> QED BY <2>1, <1>17 DEF HealthFails
<1>18. ASSUME NEW t \in Task, CheckDue(t) PROVE CleanBeforeSsh'
  BY <1>18 DEF CheckDue
<1>19. ASSUME NEW t \in Task, CheckHelper(t) PROVE CleanBeforeSsh'
  BY <1>19 DEF CheckHelper, CheckPasses, CheckFails
<1>20. ASSUME NEW t \in Task, StopRouting(t) PROVE CleanBeforeSsh'
  BY <1>20 DEF StopRouting, StopSession, StopFails, Discard
<1>21. ASSUME NEW t \in Task, StopSsh(t) PROVE CleanBeforeSsh'
  BY <1>21 DEF StopSsh
<1>22. ASSUME NEW t \in Task, Finish(t) PROVE CleanBeforeSsh'
  BY <1>22 DEF Finish
<1>23. ASSUME NEW t \in Task, FinishSuperseded(t) PROVE CleanBeforeSsh'
  BY <1>23 DEF FinishSuperseded
<1>24. ASSUME NEW t \in Task, ClearRunning(t) PROVE CleanBeforeSsh'
  BY <1>24 DEF ClearRunning
<1>25. ASSUME NEW t \in Task, SshExits(t) PROVE CleanBeforeSsh'
  BY <1>25 DEF SshExits
<1>26. ASSUME NEW t \in Task, ClickConnect(t) PROVE CleanBeforeSsh'
  BY <1>26 DEF ClickConnect
<1>27. CASE ClickDisconnect
  BY <1>27 DEF ClickDisconnect
<1>28. CASE ClickQuit
  BY <1>28 DEF ClickQuit
<1>29. CASE DeliverEvent
  BY <1>29 DEF DeliverEvent
<1>30. CASE RequestSync
  BY <1>30 DEF RequestSync
<1>31. CASE LockForSync
  BY <1>31 DEF LockForSync
<1>32. CASE Sync
  BY <1>32 DEF Sync, SyncRules
<1>33. CASE LockForQuit
  BY <1>33 DEF LockForQuit
<1>34. CASE QuitHelper
  BY <1>34 DEF QuitHelper, Quit
<1>35. CASE Exit
  BY <1>35 DEF Exit, Discard
<1>36. CASE HelperActs
  BY <1>36 DEF HelperActs, HelperEnvironment, DaemonDies, GoesMute, SessionEnds, OrphanEnds
<1>37. CASE UNCHANGED vars
  BY <1>37 DEF vars
<1> QED
  BY <1>1, <1>2, <1>3, <1>4, <1>5, <1>6, <1>7, <1>8, <1>9, <1>10, <1>11, <1>12,
     <1>13, <1>14, <1>15, <1>16, <1>17, <1>18, <1>19, <1>20, <1>21, <1>22, <1>23, <1>24,
     <1>25, <1>26, <1>27, <1>28, <1>29, <1>30, <1>31, <1>32, <1>33, <1>34, <1>35, <1>36,
     <1>37
  DEF Next, Window, Worker, Work, Background, AtRest


\* The order of starts and stops.  Beside SupersededIsStopped: a stopped worker
\* is of an older generation, and is_running speaks of the worker in the slot.
StopOrder ==
    /\ SupersededIsStopped
    /\ \A t \in Task : taskGen[t] <= generation
    /\ \A t \in stopSent : taskGen[t] < generation /\ pc[t] # "none"
    /\ stopSlot \in Task => pc[stopSlot] # "none"
    /\ Alive /\ isRunning =>
         /\ stopSlot \in Task
         /\ Unfinished(stopSlot)
         /\ taskGen[stopSlot] = generation

\* Every step keeps the superseded workers' stop messages sent, and the newest
\* worker's sender in the slot (controller.rs:105-111, 251-255).
LEMMA StopOrderStep ==
    ASSUME ControlTypeOK, FlagTypeOK, StopOrder, [Next]_vars
    PROVE  StopOrder'
<1> USE TaskAssumption
    DEF ControlTypeOK, StopOrder, SupersededIsStopped, Unfinished, Alive,
        Waiting, Holding, Elsewhere,
        controlVars, lockVars, taskVars, uiVars, otherVars,
        Goto, Release, Stop, SendStop, NextGeneration
<1>1. ASSUME NEW t \in Task, Begin(t) PROVE StopOrder'
  BY <1>1 DEF Begin
<1>2. ASSUME NEW t \in Task, BeginTooLate(t) PROVE StopOrder'
  BY <1>2 DEF BeginTooLate
<1>3. ASSUME NEW t \in Task, LockHelper(t) PROVE StopOrder'
  BY <1>3 DEF LockHelper
<1>4. ASSUME NEW t \in Task, LoopTop(t) PROVE StopOrder'
  BY <1>4 DEF LoopTop
<1>5. ASSUME NEW t \in Task, VetHelper(t) PROVE StopOrder'
  BY <1>5 DEF VetHelper
<1>6. ASSUME NEW t \in Task, AuthorizeHelper(t) PROVE StopOrder'
  BY <1>6 DEF AuthorizeHelper
<1>7. ASSUME NEW t \in Task, AuthorizationFails(t) PROVE StopOrder'
  BY <1>7 DEF AuthorizationFails
<1>8. ASSUME NEW t \in Task, StartSsh(t) PROVE StopOrder'
  BY <1>8 DEF StartSsh
<1>9. ASSUME NEW t \in Task, SshFails(t) PROVE StopOrder'
  BY <1>9 DEF SshFails
<1>10. ASSUME NEW t \in Task, StartRouting(t) PROVE StopOrder'
  BY <1>10 DEF StartRouting
<1>11. ASSUME NEW t \in Task, RoutingFails(t) PROVE StopOrder'
  BY <1>11 DEF RoutingFails
<1>12. ASSUME NEW t \in Task, PauseStopped(t) PROVE StopOrder'
  BY <1>12 DEF PauseStopped
<1>13. ASSUME NEW t \in Task, PauseOver(t) PROVE StopOrder'
  BY <1>13 DEF PauseOver
<1>14. ASSUME NEW t \in Task, SeeStop(t) PROVE StopOrder'
  BY <1>14 DEF SeeStop
<1>15. ASSUME NEW t \in Task, SeeSshExit(t) PROVE StopOrder'
  BY <1>15 DEF SeeSshExit
<1>16. ASSUME NEW t \in Task, HealthPasses(t) PROVE StopOrder'
  BY <1>16 DEF HealthPasses
<1>17. ASSUME NEW t \in Task, HealthFails(t) PROVE StopOrder'
  <2>1. \/ UNCHANGED pc
        \/ Goto(t, "wantStop")
    BY <1>17 DEF HealthFails
  <2> QED BY <2>1, <1>17 DEF HealthFails
<1>18. ASSUME NEW t \in Task, CheckDue(t) PROVE StopOrder'
  BY <1>18 DEF CheckDue
<1>19. ASSUME NEW t \in Task, CheckHelper(t) PROVE StopOrder'
  BY <1>19 DEF CheckHelper
<1>20. ASSUME NEW t \in Task, StopRouting(t) PROVE StopOrder'
  BY <1>20 DEF StopRouting
<1>21. ASSUME NEW t \in Task, StopSsh(t) PROVE StopOrder'
  BY <1>21 DEF StopSsh
<1>22. ASSUME NEW t \in Task, Finish(t) PROVE StopOrder'
  BY <1>22 DEF Finish
<1>23. ASSUME NEW t \in Task, FinishSuperseded(t) PROVE StopOrder'
  BY <1>23 DEF FinishSuperseded
<1>24. ASSUME NEW t \in Task, ClearRunning(t) PROVE StopOrder'
  BY <1>24 DEF ClearRunning
<1>25. ASSUME NEW t \in Task, SshExits(t) PROVE StopOrder'
  BY <1>25 DEF SshExits
<1>26. ASSUME NEW t \in Task, ClickConnect(t) PROVE StopOrder'
  BY <1>26 DEF ClickConnect
<1>27. CASE ClickDisconnect
  BY <1>27 DEF ClickDisconnect
<1>28. CASE ClickQuit
  BY <1>28 DEF ClickQuit
<1>29. CASE DeliverEvent
  BY <1>29 DEF DeliverEvent
<1>30. CASE RequestSync
  BY <1>30 DEF RequestSync
<1>31. CASE LockForSync
  BY <1>31 DEF LockForSync
<1>32. CASE Sync
  BY <1>32 DEF Sync
<1>33. CASE LockForQuit
  BY <1>33 DEF LockForQuit
<1>34. CASE QuitHelper
  BY <1>34 DEF QuitHelper
<1>35. CASE Exit
  BY <1>35 DEF Exit
<1>36. CASE HelperActs
  BY <1>36 DEF HelperActs
<1>37. CASE UNCHANGED vars
  BY <1>37 DEF vars
<1> QED
  BY <1>1, <1>2, <1>3, <1>4, <1>5, <1>6, <1>7, <1>8, <1>9, <1>10, <1>11, <1>12,
     <1>13, <1>14, <1>15, <1>16, <1>17, <1>18, <1>19, <1>20, <1>21, <1>22, <1>23, <1>24,
     <1>25, <1>26, <1>27, <1>28, <1>29, <1>30, <1>31, <1>32, <1>33, <1>34, <1>35, <1>36,
     <1>37
  DEF Next, Window, Worker, Work, Background, AtRest


\* What the window will show once it has taken every event.
Shown == IF events = <<>> THEN isConnected ELSE events[Len(events)]

\* Only a worker on its way out is cancelled, and the last event sent tells
\* whether there is a session to show.
Telling ==
    /\ \A t \in Task : cancelled[t] =>
         pc[t] \in {"wantStop", "stop", "killSsh", "finish", "clear", "done"}
    /\ Alive => (Shown <=> workerLock \in Task /\ InSession(workerLock))

\* What an event says is what the queue says last.
LEMMA ShowShows ==
    ASSUME FlagTypeOK, NEW b \in BOOLEAN, Show(b), UNCHANGED isConnected
    PROVE  Shown' = b
<1>1. CASE events = <<>> /\ isConnected = b
  BY <1>1 DEF Show, Shown
<1>2. CASE events # <<>> /\ events[Len(events)] = b
  BY <1>2 DEF Show, Shown
<1>3. CASE events' = Append(events, b)
  <2>1. Len(Append(events, b)) = Len(events) + 1 /\ Append(events, b)[Len(events) + 1] = b
    BY DEF FlagTypeOK
  <2>2. events' # <<>>
    BY <1>3 DEF FlagTypeOK
  <2> QED BY <1>3, <2>1, <2>2 DEF Shown
<1> QED BY <1>1, <1>2, <1>3 DEF Show

\* Taking the head of a sequence leaves its last element the last one, unless
\* it was the head.
LEMMA LastOfTail ==
    ASSUME NEW S, NEW s \in Seq(S), s # <<>>
    PROVE  /\ Len(s) = 1 => Tail(s) = <<>> /\ Head(s) = s[Len(s)]
           /\ Len(s) # 1 => Tail(s) # <<>> /\ Tail(s)[Len(Tail(s))] = s[Len(s)]
<1>1. /\ Len(Tail(s)) = Len(s) - 1
      /\ \A i \in 1 .. Len(Tail(s)) : Tail(s)[i] = s[i + 1]
      /\ Tail(s) \in Seq(S)
  BY HeadTailProperties
<1>2. Len(s) \in Nat \ {0}
  BY EmptySeq
<1>3. \A u \in Seq(S) : u = <<>> <=> Len(u) = 0
  BY EmptySeq
<1> QED BY <1>1, <1>2, <1>3

\* Taking an event from the queue does not change what is said last.
LEMMA DeliveryShows ==
    ASSUME FlagTypeOK, DeliverEvent
    PROVE  Shown' = Shown
<1>1. events \in Seq(BOOLEAN) /\ events # <<>>
  BY DEF FlagTypeOK, DeliverEvent
<1>2. CASE Len(events) = 1
  <2>1. Tail(events) = <<>> /\ Head(events) = events[Len(events)]
    BY <1>1, <1>2, LastOfTail
  <2> QED BY <1>1, <2>1 DEF DeliverEvent, Shown
<1>3. CASE Len(events) # 1
  <2>1. Tail(events) # <<>> /\ Tail(events)[Len(Tail(events))] = events[Len(events)]
    BY <1>1, <1>3, LastOfTail
  <2> QED BY <1>1, <2>1 DEF DeliverEvent, Shown
<1> QED BY <1>2, <1>3

\* Nor does a step that leaves the queue and the window alone.
LEMMA Kept == ASSUME UNCHANGED uiVars PROVE Shown' = Shown
  BY DEF uiVars, Shown

\* Every step keeps what is said last true of the workers (controller.rs:443-537).
LEMMA TellingStep ==
    ASSUME ControlTypeOK, FlagTypeOK, Ownership, Telling, [Next]_vars
    PROVE  Telling'
<1> USE TaskAssumption
    DEF ControlTypeOK, FlagTypeOK, Ownership, Telling, HasWorker, Unfinished, Alive,
        InSession, Waiting, Holding, Elsewhere,
        controlVars, lockVars, taskVars, uiVars, otherVars,
        Goto, SetCancelled, Release, Stop
<1>1. ASSUME NEW t \in Task, Begin(t) PROVE Telling'
  <2>1. Shown' = FALSE
    BY <1>1, ShowShows DEF Begin
  <2> QED BY <1>1, <2>1 DEF Begin
<1>2. ASSUME NEW t \in Task, BeginTooLate(t) PROVE Telling'
  <2>1. Shown' = Shown
    BY <1>2, Kept DEF BeginTooLate
  <2> QED BY <1>2, <2>1 DEF BeginTooLate
<1>3. ASSUME NEW t \in Task, LockHelper(t) PROVE Telling'
  <2>1. Shown' = Shown
    BY <1>3, Kept DEF LockHelper
  <2> QED BY <1>3, <2>1 DEF LockHelper
<1>4. ASSUME NEW t \in Task, LoopTop(t) PROVE Telling'
  <2>1. Shown' = Shown
    BY <1>4, Kept DEF LoopTop
  <2> QED BY <1>4, <2>1 DEF LoopTop
<1>5. ASSUME NEW t \in Task, VetHelper(t) PROVE Telling'
  <2>1. Shown' = Shown
    BY <1>5, Kept DEF VetHelper
  <2> QED BY <1>5, <2>1 DEF VetHelper
<1>6. ASSUME NEW t \in Task, AuthorizeHelper(t) PROVE Telling'
  <2>1. Shown' = FALSE
    BY <1>6, ShowShows DEF AuthorizeHelper
  <2> QED BY <1>6, <2>1 DEF AuthorizeHelper
<1>7. ASSUME NEW t \in Task, AuthorizationFails(t) PROVE Telling'
  <2>1. Shown' = FALSE
    BY <1>7, ShowShows DEF AuthorizationFails
  <2> QED BY <1>7, <2>1 DEF AuthorizationFails
<1>8. ASSUME NEW t \in Task, StartSsh(t) PROVE Telling'
  <2>1. Shown' = Shown
    BY <1>8, Kept DEF StartSsh
  <2> QED BY <1>8, <2>1 DEF StartSsh
<1>9. ASSUME NEW t \in Task, SshFails(t) PROVE Telling'
  <2>1. Shown' = FALSE
    BY <1>9, ShowShows DEF SshFails
  <2> QED BY <1>9, <2>1 DEF SshFails
<1>10. ASSUME NEW t \in Task, StartRouting(t) PROVE Telling'
  <2>1. Shown' = TRUE
    BY <1>10, ShowShows DEF StartRouting
  <2> QED BY <1>10, <2>1 DEF StartRouting
<1>11. ASSUME NEW t \in Task, RoutingFails(t) PROVE Telling'
  <2>1. Shown' = FALSE
    BY <1>11, ShowShows DEF RoutingFails
  <2> QED BY <1>11, <2>1 DEF RoutingFails
<1>12. ASSUME NEW t \in Task, PauseStopped(t) PROVE Telling'
  <2>1. CASE pc[t] = "backoff"
    <3>1. Shown' = FALSE
      BY <1>12, <2>1, ShowShows DEF PauseStopped
    <3> QED BY <1>12, <2>1, <3>1 DEF PauseStopped
  <2>2. CASE pc[t] = "retry"
    <3>1. Shown' = Shown
      BY <1>12, <2>2, Kept DEF PauseStopped
    <3> QED BY <1>12, <2>2, <3>1 DEF PauseStopped
  <2> QED BY <1>12, <2>1, <2>2 DEF PauseStopped
<1>13. ASSUME NEW t \in Task, PauseOver(t) PROVE Telling'
  <2>1. Shown' = Shown
    BY <1>13, Kept DEF PauseOver
  <2> QED BY <1>13, <2>1 DEF PauseOver
<1>14. ASSUME NEW t \in Task, SeeStop(t) PROVE Telling'
  <2>1. Shown' = Shown
    BY <1>14, Kept DEF SeeStop
  <2> QED BY <1>14, <2>1 DEF SeeStop
<1>15. ASSUME NEW t \in Task, SeeSshExit(t) PROVE Telling'
  <2>1. Shown' = FALSE
    BY <1>15, ShowShows DEF SeeSshExit
  <2> QED BY <1>15, <2>1 DEF SeeSshExit
<1>16. ASSUME NEW t \in Task, HealthPasses(t) PROVE Telling'
  <2>1. Shown' = Shown
    BY <1>16, Kept DEF HealthPasses
  <2> QED BY <1>16, <2>1 DEF HealthPasses
<1>17. ASSUME NEW t \in Task, HealthFails(t) PROVE Telling'
  <2>1. CASE failures[t] + 1 >= MaxHealthFailures
    <3>1. Shown' = FALSE /\ Goto(t, "wantStop") /\ pc[t] = "monitor"
      BY <1>17, <2>1, ShowShows DEF HealthFails
    <3> QED BY <1>17, <3>1 DEF HealthFails
  <2>2. CASE ~(failures[t] + 1 >= MaxHealthFailures)
    <3>1. Shown' = Shown /\ UNCHANGED pc
      BY <1>17, <2>2, Kept DEF HealthFails
    <3> QED BY <1>17, <3>1 DEF HealthFails
  <2> QED BY <2>1, <2>2
<1>18. ASSUME NEW t \in Task, CheckDue(t) PROVE Telling'
  <2>1. Shown' = Shown
    BY <1>18, Kept DEF CheckDue
  <2> QED BY <1>18, <2>1 DEF CheckDue
<1>19. ASSUME NEW t \in Task, CheckHelper(t) PROVE Telling'
  <2>1. CASE Goto(t, "monitor") /\ UNCHANGED events
    <3>1. Shown' = Shown
      BY <1>19, <2>1, Kept DEF CheckHelper
    <3> QED BY <1>19, <2>1, <3>1 DEF CheckHelper
  <2>2. CASE Goto(t, "wantStop") /\ Show(FALSE)
    <3>1. Shown' = FALSE
      BY <1>19, <2>2, ShowShows DEF CheckHelper
    <3> QED BY <1>19, <2>2, <3>1 DEF CheckHelper
  <2> QED BY <1>19, <2>1, <2>2 DEF CheckHelper
<1>20. ASSUME NEW t \in Task, StopRouting(t) PROVE Telling'
  <2>1. Shown' = Shown
    BY <1>20, Kept DEF StopRouting
  <2> QED BY <1>20, <2>1 DEF StopRouting
<1>21. ASSUME NEW t \in Task, StopSsh(t) PROVE Telling'
  <2>1. Shown' = FALSE
    BY <1>21, ShowShows DEF StopSsh
  <2> QED BY <1>21, <2>1 DEF StopSsh
<1>22. ASSUME NEW t \in Task, Finish(t) PROVE Telling'
  <2>1. Shown' = Shown
    BY <1>22, Kept DEF Finish
  <2> QED BY <1>22, <2>1 DEF Finish
<1>23. ASSUME NEW t \in Task, FinishSuperseded(t) PROVE Telling'
  <2>1. Shown' = Shown
    BY <1>23, Kept DEF FinishSuperseded
  <2> QED BY <1>23, <2>1 DEF FinishSuperseded
<1>24. ASSUME NEW t \in Task, ClearRunning(t) PROVE Telling'
  <2>1. Shown' = Shown
    BY <1>24, Kept DEF ClearRunning
  <2> QED BY <1>24, <2>1 DEF ClearRunning
<1>25. ASSUME NEW t \in Task, SshExits(t) PROVE Telling'
  <2>1. Shown' = Shown
    BY <1>25, Kept DEF SshExits
  <2> QED BY <1>25, <2>1 DEF SshExits
<1>26. ASSUME NEW t \in Task, ClickConnect(t) PROVE Telling'
  <2>1. Shown' = Shown
    BY <1>26, Kept DEF ClickConnect
  <2> QED BY <1>26, <2>1 DEF ClickConnect
<1>27. CASE ClickDisconnect
  <2>1. Shown' = Shown
    BY <1>27, Kept DEF ClickDisconnect
  <2> QED BY <1>27, <2>1 DEF ClickDisconnect
<1>28. CASE ClickQuit
  <2>1. Shown' = Shown
    BY <1>28, Kept DEF ClickQuit
  <2> QED BY <1>28, <2>1 DEF ClickQuit
<1>29. CASE DeliverEvent
  <2>1. Shown' = Shown
    BY <1>29, DeliveryShows
  <2> QED BY <1>29, <2>1 DEF DeliverEvent
<1>30. CASE RequestSync
  <2>1. Shown' = Shown
    BY <1>30, Kept DEF RequestSync
  <2> QED BY <1>30, <2>1 DEF RequestSync
<1>31. CASE LockForSync
  <2>1. Shown' = Shown
    BY <1>31, Kept DEF LockForSync
  <2> QED BY <1>31, <2>1 DEF LockForSync
<1>32. CASE Sync
  <2>1. Shown' = Shown
    BY <1>32, Kept DEF Sync
  <2> QED BY <1>32, <2>1 DEF Sync
<1>33. CASE LockForQuit
  <2>1. Shown' = Shown
    BY <1>33, Kept DEF LockForQuit
  <2> QED BY <1>33, <2>1 DEF LockForQuit
<1>34. CASE QuitHelper
  <2>1. Shown' = Shown
    BY <1>34, Kept DEF QuitHelper
  <2> QED BY <1>34, <2>1 DEF QuitHelper
<1>35. CASE Exit
  BY <1>35 DEF Exit
<1>36. CASE HelperActs
  <2>1. Shown' = Shown
    BY <1>36, Kept DEF HelperActs
  <2> QED BY <1>36, <2>1 DEF HelperActs
<1>37. CASE UNCHANGED vars
  BY <1>37 DEF vars, Shown
<1> QED
  BY <1>1, <1>2, <1>3, <1>4, <1>5, <1>6, <1>7, <1>8, <1>9, <1>10, <1>11, <1>12,
     <1>13, <1>14, <1>15, <1>16, <1>17, <1>18, <1>19, <1>20, <1>21, <1>22, <1>23, <1>24,
     <1>25, <1>26, <1>27, <1>28, <1>29, <1>30, <1>31, <1>32, <1>33, <1>34, <1>35, <1>36,
     <1>37
  DEF Next, Window, Worker, Work, Background, AtRest

-----------------------------------------------------------------------------

\* The inductive invariant.
IInv ==
    /\ ControlTypeOK /\ FlagTypeOK /\ HelperTypeOK
    /\ HeldByTheLiving /\ LostInstalled
    /\ Ownership /\ CleanBeforeSsh /\ StopOrder /\ Telling

\* The inductive invariant holds initially.
LEMMA InitIInv == Init => IInv
<1> SUFFICES ASSUME Init PROVE IInv
  OBVIOUS
<1> USE TaskAssumption DEF Init, HelperInit, Waiting, Holding, Elsewhere
<1>1. ControlTypeOK
  BY DEF ControlTypeOK
<1>2. FlagTypeOK
  <2>1. <<>> \in Seq(BOOLEAN)
    BY EmptySeq
  <2> QED BY <2>1 DEF FlagTypeOK
<1>3. HelperTypeOK /\ HeldByTheLiving /\ LostInstalled /\ CleanBeforeSsh
  BY DEF HelperTypeOK, Daemon, Routing, HeldByTheLiving, LostInstalled, CleanBeforeSsh
<1>4. Ownership
  BY DEF Ownership, HasWorker, Unfinished, WithSsh
<1>5. StopOrder
  BY DEF StopOrder, SupersededIsStopped, Unfinished
<1>6. Telling
  BY DEF Telling, Shown
<1> QED BY <1>1, <1>2, <1>3, <1>4, <1>5, <1>6 DEF IInv

\* Every step keeps the inductive invariant.
LEMMA StepIInv == IInv /\ [Next]_vars => IInv'
  BY ControlTypeStep, FlagTypeStep, UsesHelperService, HelperServiceStep,
     OwnershipStep, CleanStep, StopOrderStep, TellingStep DEF IInv

\* The inductive invariant is an invariant of the controller.
THEOREM Invariance == Spec => []IInv
  BY InitIInv, StepIInv, PTL DEF Spec

\* The controller's variables keep their types (controller.rs:50-57).
THEOREM TypeCorrect == Spec => []TypeOK
<1>1. IInv => TypeOK
  BY DEF IInv, ControlTypeOK, FlagTypeOK, TypeOK
<1> QED BY <1>1, Invariance, PTL

\* However often sessions are started and stopped, no worker is out of reach of
\* the next stop().
THEOREM SupersededAreStopped == Spec => []SupersededIsStopped
<1>1. IInv => SupersededIsStopped
  BY DEF IInv, StopOrder
<1> QED BY <1>1, Invariance, PTL

\* Interception is there only for a worker that has its SSH session, held or
\* not, or is the work of a helper that the controller has lost; and whatever
\* became of earlier helpers, SSH is opened and a session started only when
\* nothing is intercepted.
THEOREM RoutingIsOwned == Spec => []RoutingOwned
<1>1. IInv => RoutingOwned
  <2> SUFFICES ASSUME IInv PROVE RoutingOwned
    OBVIOUS
  <2>1. ASSUME routing # "off", daemon \notin {"none", "dead"}
        PROVE  \E t \in Task : workerLock = t /\ ssh[t] # "none"
    <3>1. routing = "held"
      BY <2>1 DEF IInv, HelperTypeOK, Routing, LostInstalled
    <3> QED BY <3>1 DEF IInv, Ownership, Watched, WithSsh
  <2>2. CleanBeforeSsh
    BY DEF IInv
  <2> QED BY <2>1, <2>2 DEF RoutingOwned
<1> QED BY <1>1, Invariance, PTL

\* At most one worker has an SSH session on the SOCKS port.
THEOREM SessionIsSingle == Spec => []SingleSession
<1>1. IInv => SingleSession
  BY DEF IInv, Ownership, SingleSession, WithSsh, HasWorker, Unfinished
<1> QED BY <1>1, Invariance, PTL

\* What the controller takes a helper for is what the kernel shows: an idle one
\* holds no traffic, and none is held by one that is gone.
THEOREM HelperIsHonest == Spec => []HeldByTheLiving
<1>1. IInv => HeldByTheLiving
  BY DEF IInv
<1> QED BY <1>1, Invariance, PTL

\* While is_running is set, the newest worker lives.
THEOREM RunningWorkerLives == Spec => []RunningHasWorker
<1>1. IInv => RunningHasWorker
  BY DEF IInv, StopOrder, RunningHasWorker
<1> QED BY <1>1, Invariance, PTL

\* A window that has taken every event shows a connection exactly while there
\* is a session.
THEOREM WindowTellsTruth == Spec => []WindowShowsSession
<1>1. IInv => WindowShowsSession
  <2> SUFFICES ASSUME IInv, Alive, events = <<>>
               PROVE  isConnected <=> \E t \in Task : InSession(t)
    BY DEF WindowShowsSession
  <2>1. isConnected <=> workerLock \in Task /\ InSession(workerLock)
    BY DEF IInv, Telling, Shown
  <2>2. \A t \in Task : InSession(t) => workerLock = t
    BY DEF IInv, Telling, Ownership, InSession, HasWorker, Unfinished
  <2> QED BY <2>1, <2>2
<1> QED BY <1>1, Invariance, PTL

\* A worker moves forward in its course unless its generation is the newest, and
\* then it was not stopped.
Forward(u) ==
    /\ Course(pc'[u]) >= Course(pc[u])
    /\ pc[u] = "queued" => pc'[u] \in {"queued", "done"}

\* No step takes a stopped worker back, nor lets it begin.
LEMMA StoppedGoesForward ==
    ASSUME ControlTypeOK, StopOrder, [Next]_vars, NEW u \in Task, u \in stopSent
    PROVE  Forward(u)
<1>a. u \in Task /\ generation # taskGen[u]
  BY DEF ControlTypeOK, StopOrder
<1> USE <1>a DEF Forward, Course, ControlTypeOK, Waiting, Holding, Elsewhere, Goto, taskVars
<1>1. ASSUME NEW t \in Task, Begin(t) PROVE Forward(u)
  BY <1>1 DEF Begin
<1>2. ASSUME NEW t \in Task, BeginTooLate(t) PROVE Forward(u)
  BY <1>2 DEF BeginTooLate
<1>3. ASSUME NEW t \in Task, LockHelper(t) PROVE Forward(u)
  BY <1>3 DEF LockHelper
<1>4. ASSUME NEW t \in Task, LoopTop(t) PROVE Forward(u)
  BY <1>4 DEF LoopTop
<1>5. ASSUME NEW t \in Task, VetHelper(t) PROVE Forward(u)
  BY <1>5 DEF VetHelper
<1>6. ASSUME NEW t \in Task, AuthorizeHelper(t) PROVE Forward(u)
  BY <1>6 DEF AuthorizeHelper
<1>7. ASSUME NEW t \in Task, AuthorizationFails(t) PROVE Forward(u)
  BY <1>7 DEF AuthorizationFails
<1>8. ASSUME NEW t \in Task, StartSsh(t) PROVE Forward(u)
  BY <1>8 DEF StartSsh
<1>9. ASSUME NEW t \in Task, SshFails(t) PROVE Forward(u)
  BY <1>9 DEF SshFails
<1>10. ASSUME NEW t \in Task, StartRouting(t) PROVE Forward(u)
  BY <1>10 DEF StartRouting
<1>11. ASSUME NEW t \in Task, RoutingFails(t) PROVE Forward(u)
  BY <1>11 DEF RoutingFails
<1>12. ASSUME NEW t \in Task, PauseStopped(t) PROVE Forward(u)
  BY <1>12 DEF PauseStopped
<1>13. ASSUME NEW t \in Task, PauseOver(t) PROVE Forward(u)
  BY <1>13 DEF PauseOver
<1>14. ASSUME NEW t \in Task, SeeStop(t) PROVE Forward(u)
  BY <1>14 DEF SeeStop
<1>15. ASSUME NEW t \in Task, SeeSshExit(t) PROVE Forward(u)
  BY <1>15 DEF SeeSshExit
<1>16. ASSUME NEW t \in Task, HealthPasses(t) PROVE Forward(u)
  BY <1>16 DEF HealthPasses
<1>17. ASSUME NEW t \in Task, HealthFails(t) PROVE Forward(u)
  <2>1. pc' = pc \/ (pc[t] = "monitor" /\ Goto(t, "wantStop"))
    BY <1>17 DEF HealthFails
  <2> QED BY <2>1, <1>17 DEF HealthFails
<1>18. ASSUME NEW t \in Task, CheckDue(t) PROVE Forward(u)
  BY <1>18 DEF CheckDue
<1>19. ASSUME NEW t \in Task, CheckHelper(t) PROVE Forward(u)
  <2>1. pc[t] = "check" /\ (Goto(t, "monitor") \/ Goto(t, "wantStop"))
    BY <1>19 DEF CheckHelper
  <2> QED BY <2>1
<1>20. ASSUME NEW t \in Task, StopRouting(t) PROVE Forward(u)
  BY <1>20 DEF StopRouting
<1>21. ASSUME NEW t \in Task, StopSsh(t) PROVE Forward(u)
  BY <1>21 DEF StopSsh
<1>22. ASSUME NEW t \in Task, Finish(t) PROVE Forward(u)
  BY <1>22 DEF Finish
<1>23. ASSUME NEW t \in Task, FinishSuperseded(t) PROVE Forward(u)
  BY <1>23 DEF FinishSuperseded
<1>24. ASSUME NEW t \in Task, ClearRunning(t) PROVE Forward(u)
  BY <1>24 DEF ClearRunning
<1>25. ASSUME NEW t \in Task, SshExits(t) PROVE Forward(u)
  BY <1>25 DEF SshExits
<1>26. ASSUME NEW t \in Task, ClickConnect(t) PROVE Forward(u)
  BY <1>26 DEF ClickConnect, StopOrder
<1>27. CASE ClickDisconnect
  BY <1>27 DEF ClickDisconnect
<1>28. CASE ClickQuit
  BY <1>28 DEF ClickQuit
<1>29. CASE DeliverEvent
  BY <1>29 DEF DeliverEvent
<1>30. CASE RequestSync
  BY <1>30 DEF RequestSync
<1>31. CASE LockForSync
  BY <1>31 DEF LockForSync
<1>32. CASE Sync
  BY <1>32 DEF Sync
<1>33. CASE LockForQuit
  BY <1>33 DEF LockForQuit
<1>34. CASE QuitHelper
  BY <1>34 DEF QuitHelper
<1>35. CASE Exit
  BY <1>35 DEF Exit, Unfinished
<1>36. CASE HelperActs
  BY <1>36 DEF HelperActs
<1>37. CASE UNCHANGED vars
  BY <1>37 DEF vars
<1> QED
  BY <1>1, <1>2, <1>3, <1>4, <1>5, <1>6, <1>7, <1>8, <1>9, <1>10, <1>11, <1>12,
     <1>13, <1>14, <1>15, <1>16, <1>17, <1>18, <1>19, <1>20, <1>21, <1>22, <1>23, <1>24,
     <1>25, <1>26, <1>27, <1>28, <1>29, <1>30, <1>31, <1>32, <1>33, <1>34, <1>35, <1>36,
     <1>37
  DEF Next, Window, Worker, Work, Background, AtRest

\* From wherever it was stopped, a worker only goes on towards its end.
THEOREM StoppedWorkersFinish == Spec => StoppedOnlyFinishes
<1>1. IInv /\ [Next]_vars =>
        [\A t \in Task : t \in stopSent =>
           /\ Course(pc'[t]) >= Course(pc[t])
           /\ pc[t] = "queued" => pc'[t] \in {"queued", "done"}]_vars
  BY StoppedGoesForward DEF IInv, Forward
<1> QED BY <1>1, Invariance, PTL DEF Spec, StoppedOnlyFinishes

=============================================================================
