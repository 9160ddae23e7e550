---------------------------- MODULE ForwardProofs ----------------------------
(***************************************************************************)
(* Proofs about Forward.tla, for every set of rules, number of requests    *)
(* and pair of delays.  OneSupervisor is not inductive by itself: it rests *)
(* on who may hold the manager lock while a supervisor is awaited, and on  *)
(* the map naming every supervisor that is not.                            *)
(***************************************************************************)
EXTENDS Forward, TLAPS

\* Requests are numbered without gaps, and only one that is done has a supervisor.
Numbered ==
    \A q \in Request :
        /\ place[q] = "none" <=> asked < q
        /\ place[q] # "none" => rule[q] \in Rule
        /\ sup[q] # "none" => place[q] = "done"

\* Who is inside holds the lock, and a supervisor is awaited by who is inside.
Locked ==
    /\ \A q \in Request :
         /\ place[q] \in {"locked", "joining", "stopped"} => managerLock = q
         /\ place[q] = "joining" => joining # 0
    /\ quitter = "draining" => managerLock = MaxRequests + 1
    /\ joining # 0 => quitter = "draining" \/ \E q \in Request : place[q] = "joining"

\* The map names supervisors of the rule they stand for; where one is awaited or
\* has been stopped for a request, the map has none.
Mapped ==
    /\ \A r \in Rule : tasks[r] # 0 => rule[tasks[r]] = r /\ sup[tasks[r]] # "none"
    /\ joining # 0 => sup[joining] # "none" /\ tasks[rule[joining]] = 0
    /\ \A q \in Request : place[q] \in {"joining", "stopped"} => tasks[rule[q]] = 0
    /\ Registered

\* A session is up with the shortest delay, and breaks with it.
Delayed ==
    \A q \in Request : sup[q] \in {"up", "dropPause"} => delay[q] = InitialDelay

IInv == TypeOK /\ Numbered /\ Locked /\ Mapped /\ Delayed

\* The requests that had the lock, and the last of them for a rule, with none
\* for it under way.
Taken(q) == place[q] \notin {"none", "spawned"}
Latest(q) ==
    /\ place[q] = "done"
    /\ \A p \in Request : Taken(p) /\ rule[p] = rule[q] => p <= q

\* While the lock is taken in the order of the clicks, whoever waits for it is
\* after all that had it, its holder is the last of these, and the map is as
\* the latest request of each rule left it.
Ordered ==
    inOrder /\ quitter = "idle" =>
        /\ \A p, q \in Request : Taken(p) /\ place[q] = "spawned" => p < q
        /\ \A p \in Request : Taken(p) /\ managerLock # 0 => p <= managerLock
Decided ==
    inOrder /\ quitter = "idle" =>
        \A q \in Request :
            Latest(q) => tasks[rule[q]] = IF want[q] = "start" THEN q ELSE 0

\* While nobody quits, what the map names runs and is not cancelled, and what is
\* awaited is of the rule of the holder of the lock.
Living ==
    /\ \A q \in cancelled : sup[q] # "none"
    /\ quitter = "idle" =>
        /\ \A r \in Rule : tasks[r] # 0 => Alive(tasks[r]) /\ tasks[r] \notin cancelled
        /\ joining # 0 => rule[joining] = rule[managerLock]

OInv == IInv /\ Ordered /\ Decided /\ Living

-----------------------------------------------------------------------------

\* Every step keeps the types: a request has its rule before it works on the map.
LEMMA TypeStep ==
    ASSUME TypeOK, Numbered, Locked, [Next]_vars
    PROVE  TypeOK'
<1> USE NumbersAssumption, RuleAssumption
        DEF TypeOK, Numbered, Locked, Request, Alive,
            windowVars, requestVars, managerVars, supVars
<1>1. ASSUME NEW r \in Rule, AskNext(r) PROVE TypeOK'
  BY <1>1 DEF AskNext, Ask
<1>2. ASSUME NEW r \in Rule, Toggle(r) PROVE TypeOK'
  BY <1>2 DEF Toggle, Ask, Clickable
<1>3. ASSUME NEW r \in Rule, SaveRule(r) PROVE TypeOK'
  BY <1>3 DEF SaveRule, Ask, Clickable
<1>4. ASSUME NEW r \in Rule, Delete(r) PROVE TypeOK'
  BY <1>4 DEF Delete, Ask, Clickable
<1>5. CASE SaveProfile
  BY <1>5 DEF SaveProfile, Clickable
<1>6. CASE DeleteProfile
  BY <1>6 DEF DeleteProfile, Clickable
<1>7. CASE Quit
  BY <1>7 DEF Quit, Clickable
<1>8. ASSUME NEW q \in Request, LockManager(q) PROVE TypeOK'
  BY <1>8 DEF LockManager
<1>9. ASSUME NEW q \in Request, StopOld(q) PROVE TypeOK'
  <2>1. rule[q] \in Rule
    BY <1>9 DEF StopOld
  <2>2. tasks[rule[q]] \in Request
    BY <1>9, <2>1 DEF StopOld, CancelTask
  <2> QED
    BY <1>9, <2>1, <2>2 DEF StopOld, CancelTask
<1>10. ASSUME NEW q \in Request, NothingToStop(q) PROVE TypeOK'
  BY <1>10 DEF NothingToStop
<1>11. ASSUME NEW q \in Request, OldStopped(q) PROVE TypeOK'
  BY <1>11 DEF OldStopped, Joined
<1>12. ASSUME NEW q \in Request, Complete(q) PROVE TypeOK'
  <2>1. rule[q] \in Rule
    BY <1>12 DEF Complete
  <2>2. sup' \in [Request -> {"none", "prepare", "connect", "up",
                              "failPause", "dropPause", "done"}]
    BY <1>12 DEF Complete, SpawnNew
  <2>3. tasks' \in [Rule -> Request \cup {0}]
    BY <1>12, <2>1 DEF Complete, SpawnNew
  <2> QED
    BY <1>12, <2>2, <2>3 DEF Complete
<1>13. ASSUME NEW q \in Request, Prepared(q) PROVE TypeOK'
  BY <1>13 DEF Prepared, Proceed
<1>14. ASSUME NEW q \in Request, Ready(q) PROVE TypeOK'
  BY <1>14 DEF Ready, Proceed
<1>15. ASSUME NEW q \in Request, AttemptFails(q) PROVE TypeOK'
  BY <1>15 DEF AttemptFails, Proceed
<1>16. ASSUME NEW q \in Request, Retry(q) PROVE TypeOK'
  BY <1>16 DEF Retry, Proceed, NextRetryDelay
<1>17. ASSUME NEW q \in Request, Breaks(q) PROVE TypeOK'
  BY <1>17 DEF Breaks, Proceed
<1>18. ASSUME NEW q \in Request, SeeCancel(q) PROVE TypeOK'
  BY <1>18 DEF SeeCancel
<1>19. CASE LockToQuit
  BY <1>19 DEF LockToQuit
<1>20. ASSUME NEW r \in Rule, DrainOne(r) PROVE TypeOK'
  BY <1>20 DEF DrainOne, CancelTask
<1>21. CASE DrainedOne
  BY <1>21 DEF DrainedOne, Joined
<1>22. CASE AllStopped
  BY <1>22 DEF AllStopped
<1>23. CASE Exit
  BY <1>23 DEF Exit
<1>24. CASE NetworkChanges
  BY <1>24 DEF NetworkChanges
<1>25. CASE UNCHANGED vars
  BY <1>25 DEF vars
<1> QED
  BY <1>1, <1>2, <1>3, <1>4, <1>5, <1>6, <1>7, <1>8, <1>9, <1>10, <1>11,
     <1>12, <1>13, <1>14, <1>15, <1>16, <1>17, <1>18, <1>19, <1>20, <1>21,
     <1>22, <1>23, <1>24, <1>25 DEF Next, Window, Manage, Supervise, Drain

\* Every step keeps the numbering of the requests.
LEMMA NumberedStep ==
    ASSUME TypeOK, Numbered, [Next]_vars
    PROVE  Numbered'
<1> USE NumbersAssumption, RuleAssumption
        DEF TypeOK, Numbered, Request, Alive,
            windowVars, requestVars, managerVars, supVars
<1>1. ASSUME NEW r \in Rule, AskNext(r) PROVE Numbered'
  BY <1>1 DEF AskNext, Ask
<1>2. ASSUME NEW r \in Rule, Toggle(r) PROVE Numbered'
  BY <1>2 DEF Toggle, Ask, Clickable
<1>3. ASSUME NEW r \in Rule, SaveRule(r) PROVE Numbered'
  BY <1>3 DEF SaveRule, Ask, Clickable
<1>4. ASSUME NEW r \in Rule, Delete(r) PROVE Numbered'
  BY <1>4 DEF Delete, Ask, Clickable
<1>5. CASE SaveProfile
  BY <1>5 DEF SaveProfile, Clickable
<1>6. CASE DeleteProfile
  BY <1>6 DEF DeleteProfile, Clickable
<1>7. CASE Quit
  BY <1>7 DEF Quit, Clickable
<1>8. ASSUME NEW q \in Request, LockManager(q) PROVE Numbered'
  BY <1>8 DEF LockManager
<1>9. ASSUME NEW q \in Request, StopOld(q) PROVE Numbered'
  BY <1>9 DEF StopOld, CancelTask
<1>10. ASSUME NEW q \in Request, NothingToStop(q) PROVE Numbered'
  BY <1>10 DEF NothingToStop
<1>11. ASSUME NEW q \in Request, OldStopped(q) PROVE Numbered'
  BY <1>11 DEF OldStopped, Joined
<1>12. ASSUME NEW q \in Request, Complete(q) PROVE Numbered'
  BY <1>12 DEF Complete, SpawnNew
<1>13. ASSUME NEW q \in Request, Prepared(q) PROVE Numbered'
  BY <1>13 DEF Prepared, Proceed
<1>14. ASSUME NEW q \in Request, Ready(q) PROVE Numbered'
  BY <1>14 DEF Ready, Proceed
<1>15. ASSUME NEW q \in Request, AttemptFails(q) PROVE Numbered'
  BY <1>15 DEF AttemptFails, Proceed
<1>16. ASSUME NEW q \in Request, Retry(q) PROVE Numbered'
  BY <1>16 DEF Retry, Proceed, NextRetryDelay
<1>17. ASSUME NEW q \in Request, Breaks(q) PROVE Numbered'
  BY <1>17 DEF Breaks, Proceed
<1>18. ASSUME NEW q \in Request, SeeCancel(q) PROVE Numbered'
  BY <1>18 DEF SeeCancel
<1>19. CASE LockToQuit
  BY <1>19 DEF LockToQuit
<1>20. ASSUME NEW r \in Rule, DrainOne(r) PROVE Numbered'
  BY <1>20 DEF DrainOne, CancelTask
<1>21. CASE DrainedOne
  BY <1>21 DEF DrainedOne, Joined
<1>22. CASE AllStopped
  BY <1>22 DEF AllStopped
<1>23. CASE Exit
  BY <1>23 DEF Exit
<1>24. CASE NetworkChanges
  BY <1>24 DEF NetworkChanges
<1>25. CASE UNCHANGED vars
  BY <1>25 DEF vars
<1> QED
  BY <1>1, <1>2, <1>3, <1>4, <1>5, <1>6, <1>7, <1>8, <1>9, <1>10, <1>11,
     <1>12, <1>13, <1>14, <1>15, <1>16, <1>17, <1>18, <1>19, <1>20, <1>21,
     <1>22, <1>23, <1>24, <1>25 DEF Next, Window, Manage, Supervise, Drain

\* Every step keeps the discipline of the lock.
LEMMA LockedStep ==
    ASSUME TypeOK, Numbered, Locked, [Next]_vars
    PROVE  Locked'
<1> USE NumbersAssumption, RuleAssumption
        DEF TypeOK, Numbered, Locked, Request, Alive,
            windowVars, requestVars, managerVars, supVars
<1>1. ASSUME NEW r \in Rule, AskNext(r) PROVE Locked'
  BY <1>1 DEF AskNext, Ask
<1>2. ASSUME NEW r \in Rule, Toggle(r) PROVE Locked'
  BY <1>2 DEF Toggle, Ask, Clickable
<1>3. ASSUME NEW r \in Rule, SaveRule(r) PROVE Locked'
  BY <1>3 DEF SaveRule, Ask, Clickable
<1>4. ASSUME NEW r \in Rule, Delete(r) PROVE Locked'
  BY <1>4 DEF Delete, Ask, Clickable
<1>5. CASE SaveProfile
  BY <1>5 DEF SaveProfile, Clickable
<1>6. CASE DeleteProfile
  BY <1>6 DEF DeleteProfile, Clickable
<1>7. CASE Quit
  BY <1>7 DEF Quit, Clickable
<1>8. ASSUME NEW q \in Request, LockManager(q) PROVE Locked'
  BY <1>8 DEF LockManager
<1>9. ASSUME NEW q \in Request, StopOld(q) PROVE Locked'
  BY <1>9 DEF StopOld, CancelTask
<1>10. ASSUME NEW q \in Request, NothingToStop(q) PROVE Locked'
  BY <1>10 DEF NothingToStop
<1>11. ASSUME NEW q \in Request, OldStopped(q) PROVE Locked'
  BY <1>11 DEF OldStopped, Joined
<1>12. ASSUME NEW q \in Request, Complete(q) PROVE Locked'
  BY <1>12 DEF Complete, SpawnNew
<1>13. ASSUME NEW q \in Request, Prepared(q) PROVE Locked'
  BY <1>13 DEF Prepared, Proceed
<1>14. ASSUME NEW q \in Request, Ready(q) PROVE Locked'
  BY <1>14 DEF Ready, Proceed
<1>15. ASSUME NEW q \in Request, AttemptFails(q) PROVE Locked'
  BY <1>15 DEF AttemptFails, Proceed
<1>16. ASSUME NEW q \in Request, Retry(q) PROVE Locked'
  BY <1>16 DEF Retry, Proceed, NextRetryDelay
<1>17. ASSUME NEW q \in Request, Breaks(q) PROVE Locked'
  BY <1>17 DEF Breaks, Proceed
<1>18. ASSUME NEW q \in Request, SeeCancel(q) PROVE Locked'
  BY <1>18 DEF SeeCancel
<1>19. CASE LockToQuit
  BY <1>19 DEF LockToQuit
<1>20. ASSUME NEW r \in Rule, DrainOne(r) PROVE Locked'
  BY <1>20 DEF DrainOne, CancelTask
<1>21. CASE DrainedOne
  BY <1>21 DEF DrainedOne, Joined
<1>22. CASE AllStopped
  BY <1>22 DEF AllStopped
<1>23. CASE Exit
  BY <1>23 DEF Exit
<1>24. CASE NetworkChanges
  BY <1>24 DEF NetworkChanges
<1>25. CASE UNCHANGED vars
  BY <1>25 DEF vars
<1> QED
  BY <1>1, <1>2, <1>3, <1>4, <1>5, <1>6, <1>7, <1>8, <1>9, <1>10, <1>11,
     <1>12, <1>13, <1>14, <1>15, <1>16, <1>17, <1>18, <1>19, <1>20, <1>21,
     <1>22, <1>23, <1>24, <1>25 DEF Next, Window, Manage, Supervise, Drain

\* Every step keeps the map in agreement with the supervisors.
LEMMA MappedStep ==
    ASSUME TypeOK, Numbered, Locked, Mapped, [Next]_vars
    PROVE  Mapped'
<1> USE NumbersAssumption, RuleAssumption
        DEF TypeOK, Numbered, Locked, Mapped, Registered, Request, Alive,
            windowVars, requestVars, managerVars, supVars
<1>1. ASSUME NEW r \in Rule, AskNext(r) PROVE Mapped'
  BY <1>1 DEF AskNext, Ask
<1>2. ASSUME NEW r \in Rule, Toggle(r) PROVE Mapped'
  BY <1>2 DEF Toggle, Ask, Clickable
<1>3. ASSUME NEW r \in Rule, SaveRule(r) PROVE Mapped'
  BY <1>3 DEF SaveRule, Ask, Clickable
<1>4. ASSUME NEW r \in Rule, Delete(r) PROVE Mapped'
  BY <1>4 DEF Delete, Ask, Clickable
<1>5. CASE SaveProfile
  BY <1>5 DEF SaveProfile, Clickable
<1>6. CASE DeleteProfile
  BY <1>6 DEF DeleteProfile, Clickable
<1>7. CASE Quit
  BY <1>7 DEF Quit, Clickable
<1>8. ASSUME NEW q \in Request, LockManager(q) PROVE Mapped'
  BY <1>8 DEF LockManager
<1>9. ASSUME NEW q \in Request, StopOld(q) PROVE Mapped'
  BY <1>9 DEF StopOld, CancelTask
<1>10. ASSUME NEW q \in Request, NothingToStop(q) PROVE Mapped'
  BY <1>10 DEF NothingToStop
<1>11. ASSUME NEW q \in Request, OldStopped(q) PROVE Mapped'
  BY <1>11 DEF OldStopped, Joined
<1>12. ASSUME NEW q \in Request, Complete(q) PROVE Mapped'
  <2>1. /\ rule[q] \in Rule /\ tasks[rule[q]] = 0 /\ sup[q] = "none"
        /\ managerLock = q /\ joining = 0
    BY <1>12 DEF Complete
  <2>2. \A p \in Request : Alive(p) => tasks[rule[p]] = p /\ rule[p] # rule[q]
    BY <2>1
  <2>3. CASE want[q] = "start"
    <3>1. /\ tasks' = [tasks EXCEPT ![rule[q]] = q]
          /\ sup' = [sup EXCEPT ![q] = "prepare"]
          /\ place' = [place EXCEPT ![q] = "done"]
          /\ rule' = rule /\ joining' = 0
      BY <1>12, <2>1, <2>3 DEF Complete, SpawnNew
    <3>2. \A r \in Rule : tasks'[r] # 0 => rule'[tasks'[r]] = r /\ sup'[tasks'[r]] # "none"
      BY <2>1, <3>1
    <3>3. \A p \in Request : place'[p] \in {"joining", "stopped"} => tasks'[rule'[p]] = 0
      BY <2>1, <3>1
    <3>4. Registered'
      BY <2>1, <2>2, <3>1
    <3> QED
      BY <3>1, <3>2, <3>3, <3>4
  <2>4. CASE want[q] # "start"
    BY <1>12, <2>1, <2>4 DEF Complete
  <2> QED
    BY <2>3, <2>4
<1>13. ASSUME NEW q \in Request, Prepared(q) PROVE Mapped'
  BY <1>13 DEF Prepared, Proceed
<1>14. ASSUME NEW q \in Request, Ready(q) PROVE Mapped'
  BY <1>14 DEF Ready, Proceed
<1>15. ASSUME NEW q \in Request, AttemptFails(q) PROVE Mapped'
  BY <1>15 DEF AttemptFails, Proceed
<1>16. ASSUME NEW q \in Request, Retry(q) PROVE Mapped'
  BY <1>16 DEF Retry, Proceed, NextRetryDelay
<1>17. ASSUME NEW q \in Request, Breaks(q) PROVE Mapped'
  BY <1>17 DEF Breaks, Proceed
<1>18. ASSUME NEW q \in Request, SeeCancel(q) PROVE Mapped'
  BY <1>18 DEF SeeCancel
<1>19. CASE LockToQuit
  BY <1>19 DEF LockToQuit
<1>20. ASSUME NEW r \in Rule, DrainOne(r) PROVE Mapped'
  BY <1>20 DEF DrainOne, CancelTask
<1>21. CASE DrainedOne
  BY <1>21 DEF DrainedOne, Joined
<1>22. CASE AllStopped
  BY <1>22 DEF AllStopped
<1>23. CASE Exit
  BY <1>23 DEF Exit
<1>24. CASE NetworkChanges
  BY <1>24 DEF NetworkChanges
<1>25. CASE UNCHANGED vars
  BY <1>25 DEF vars
<1> QED
  BY <1>1, <1>2, <1>3, <1>4, <1>5, <1>6, <1>7, <1>8, <1>9, <1>10, <1>11,
     <1>12, <1>13, <1>14, <1>15, <1>16, <1>17, <1>18, <1>19, <1>20, <1>21,
     <1>22, <1>23, <1>24, <1>25 DEF Next, Window, Manage, Supervise, Drain

\* Every step keeps the shortest delay for a session.
LEMMA DelayedStep ==
    ASSUME TypeOK, Numbered, Delayed, [Next]_vars
    PROVE  Delayed'
<1> USE NumbersAssumption, RuleAssumption
        DEF TypeOK, Numbered, Delayed, Request, Alive,
            windowVars, requestVars, managerVars, supVars
<1>1. ASSUME NEW r \in Rule, AskNext(r) PROVE Delayed'
  BY <1>1 DEF AskNext, Ask
<1>2. ASSUME NEW r \in Rule, Toggle(r) PROVE Delayed'
  BY <1>2 DEF Toggle, Ask, Clickable
<1>3. ASSUME NEW r \in Rule, SaveRule(r) PROVE Delayed'
  BY <1>3 DEF SaveRule, Ask, Clickable
<1>4. ASSUME NEW r \in Rule, Delete(r) PROVE Delayed'
  BY <1>4 DEF Delete, Ask, Clickable
<1>5. CASE SaveProfile
  BY <1>5 DEF SaveProfile, Clickable
<1>6. CASE DeleteProfile
  BY <1>6 DEF DeleteProfile, Clickable
<1>7. CASE Quit
  BY <1>7 DEF Quit, Clickable
<1>8. ASSUME NEW q \in Request, LockManager(q) PROVE Delayed'
  BY <1>8 DEF LockManager
<1>9. ASSUME NEW q \in Request, StopOld(q) PROVE Delayed'
  BY <1>9 DEF StopOld, CancelTask
<1>10. ASSUME NEW q \in Request, NothingToStop(q) PROVE Delayed'
  BY <1>10 DEF NothingToStop
<1>11. ASSUME NEW q \in Request, OldStopped(q) PROVE Delayed'
  BY <1>11 DEF OldStopped, Joined
<1>12. ASSUME NEW q \in Request, Complete(q) PROVE Delayed'
  BY <1>12 DEF Complete, SpawnNew
<1>13. ASSUME NEW q \in Request, Prepared(q) PROVE Delayed'
  BY <1>13 DEF Prepared, Proceed
<1>14. ASSUME NEW q \in Request, Ready(q) PROVE Delayed'
  BY <1>14 DEF Ready, Proceed
<1>15. ASSUME NEW q \in Request, AttemptFails(q) PROVE Delayed'
  BY <1>15 DEF AttemptFails, Proceed
<1>16. ASSUME NEW q \in Request, Retry(q) PROVE Delayed'
  BY <1>16 DEF Retry, Proceed, NextRetryDelay
<1>17. ASSUME NEW q \in Request, Breaks(q) PROVE Delayed'
  BY <1>17 DEF Breaks, Proceed
<1>18. ASSUME NEW q \in Request, SeeCancel(q) PROVE Delayed'
  BY <1>18 DEF SeeCancel
<1>19. CASE LockToQuit
  BY <1>19 DEF LockToQuit
<1>20. ASSUME NEW r \in Rule, DrainOne(r) PROVE Delayed'
  BY <1>20 DEF DrainOne, CancelTask
<1>21. CASE DrainedOne
  BY <1>21 DEF DrainedOne, Joined
<1>22. CASE AllStopped
  BY <1>22 DEF AllStopped
<1>23. CASE Exit
  BY <1>23 DEF Exit
<1>24. CASE NetworkChanges
  BY <1>24 DEF NetworkChanges
<1>25. CASE UNCHANGED vars
  BY <1>25 DEF vars
<1> QED
  BY <1>1, <1>2, <1>3, <1>4, <1>5, <1>6, <1>7, <1>8, <1>9, <1>10, <1>11,
     <1>12, <1>13, <1>14, <1>15, <1>16, <1>17, <1>18, <1>19, <1>20, <1>21,
     <1>22, <1>23, <1>24, <1>25 DEF Next, Window, Manage, Supervise, Drain

\* The invariant holds at the start and is kept: everything below rests on it.
THEOREM Invariance == Spec => []IInv
<1>1. Init => IInv
  BY NumbersAssumption DEF Init, IInv, TypeOK, Numbered, Locked, Mapped, Registered,
     Delayed, Alive, Request
<1>2. IInv /\ [Next]_vars => IInv'
  BY TypeStep, NumberedStep, LockedStep, MappedStep, DelayedStep DEF IInv
<1> QED
  BY <1>1, <1>2, PTL DEF Spec

\* The types of all variables, for every instance.
THEOREM TypeCorrect == Spec => []TypeOK
<1>1. IInv => TypeOK
  BY DEF IInv
<1> QED
  BY Invariance, <1>1, PTL

\* Every supervisor that runs is where the next stop or shutdown() finds it, or
\* is being awaited: none goes on behind the back of the manager.
THEOREM SupervisorsAreRegistered == Spec => []Registered
<1>1. IInv => Registered
  BY DEF IInv, Mapped
<1> QED
  BY Invariance, <1>1, PTL

\* A rule never has two supervisors, however requests for it overtake one another
\* on the way to the lock.
THEOREM SupervisorIsSingle == Spec => []OneSupervisor
<1>1. ASSUME IInv PROVE OneSupervisor
  <2> SUFFICES ASSUME NEW p \in Request, NEW q \in Request,
                      Alive(p), Alive(q), rule[p] = rule[q]
               PROVE  p = q
    BY DEF OneSupervisor
  <2>1. /\ tasks[rule[p]] = p \/ joining = p
        /\ tasks[rule[q]] = q \/ joining = q
    BY <1>1 DEF IInv, Mapped, Registered
  <2>2. joining # 0 => tasks[rule[joining]] = 0
    BY <1>1 DEF IInv, Mapped
  <2>3. p # 0 /\ q # 0
    BY NumbersAssumption DEF Request
  <2> QED
    BY <2>1, <2>2, <2>3
<1> QED
  BY Invariance, <1>1, PTL

\* A session that breaks is retried after the shortest delay.
THEOREM BrokenIsRetriedSoon == Spec => []BrokenRetriesSoon
<1>1. IInv => BrokenRetriesSoon
  BY DEF IInv, Delayed, BrokenRetriesSoon
<1> QED
  BY Invariance, <1>1, PTL

-----------------------------------------------------------------------------
(* The last request decides. *)

\* Every step keeps the order.
LEMMA OrderedStep ==
    ASSUME TypeOK, Numbered, Locked, Ordered, [Next]_vars
    PROVE  Ordered'
<1> USE NumbersAssumption, RuleAssumption
        DEF TypeOK, Numbered, Locked, Ordered, Taken, Request,
            windowVars, requestVars, managerVars, supVars
<1>1. ASSUME NEW r \in Rule, AskNext(r) PROVE Ordered'
  BY <1>1 DEF AskNext, Ask
<1>2. ASSUME NEW r \in Rule, Toggle(r) PROVE Ordered'
  BY <1>2 DEF Toggle, Ask, Clickable
<1>3. ASSUME NEW r \in Rule, SaveRule(r) PROVE Ordered'
  BY <1>3 DEF SaveRule, Ask, Clickable
<1>4. ASSUME NEW r \in Rule, Delete(r) PROVE Ordered'
  BY <1>4 DEF Delete, Ask, Clickable
<1>5. CASE SaveProfile
  BY <1>5 DEF SaveProfile, Clickable
<1>6. CASE DeleteProfile
  BY <1>6 DEF DeleteProfile, Clickable
<1>7. CASE Quit
  BY <1>7 DEF Quit, Clickable
<1>8. ASSUME NEW q \in Request, LockManager(q) PROVE Ordered'
  <2> SUFFICES ASSUME inOrder', quitter' = "idle"
               PROVE  /\ \A p, r \in Request : Taken(p)' /\ place'[r] = "spawned" => p < r
                      /\ \A p \in Request : Taken(p)' /\ managerLock' # 0 => p <= managerLock'
    BY DEF Ordered
  <2>1. /\ place[q] = "spawned" /\ managerLock' = q
        /\ place' = [place EXCEPT ![q] = "locked"]
        /\ inOrder /\ quitter = "idle"
        /\ \A p \in Request : place[p] = "spawned" => q <= p
    BY <1>8 DEF LockManager
  <2>2. \A p, r \in Request : place[p] \notin {"none", "spawned"} /\ place[r] = "spawned" => p < r
    BY <2>1
  <2>3. \A p \in Request : p # q => place'[p] = place[p]
    BY <2>1
  <2> QED
    BY <2>1, <2>2, <2>3
<1>9. ASSUME NEW q \in Request, StopOld(q) PROVE Ordered'
  BY <1>9 DEF StopOld, CancelTask
<1>10. ASSUME NEW q \in Request, NothingToStop(q) PROVE Ordered'
  BY <1>10 DEF NothingToStop
<1>11. ASSUME NEW q \in Request, OldStopped(q) PROVE Ordered'
  BY <1>11 DEF OldStopped, Joined
<1>12. ASSUME NEW q \in Request, Complete(q) PROVE Ordered'
  BY <1>12 DEF Complete, SpawnNew
<1>13. ASSUME NEW q \in Request, Prepared(q) PROVE Ordered'
  BY <1>13 DEF Prepared, Proceed
<1>14. ASSUME NEW q \in Request, Ready(q) PROVE Ordered'
  BY <1>14 DEF Ready, Proceed
<1>15. ASSUME NEW q \in Request, AttemptFails(q) PROVE Ordered'
  BY <1>15 DEF AttemptFails, Proceed
<1>16. ASSUME NEW q \in Request, Retry(q) PROVE Ordered'
  BY <1>16 DEF Retry, Proceed, NextRetryDelay
<1>17. ASSUME NEW q \in Request, Breaks(q) PROVE Ordered'
  BY <1>17 DEF Breaks, Proceed
<1>18. ASSUME NEW q \in Request, SeeCancel(q) PROVE Ordered'
  BY <1>18 DEF SeeCancel
<1>19. CASE LockToQuit
  BY <1>19 DEF LockToQuit
<1>20. ASSUME NEW r \in Rule, DrainOne(r) PROVE Ordered'
  BY <1>20 DEF DrainOne, CancelTask
<1>21. CASE DrainedOne
  BY <1>21 DEF DrainedOne, Joined
<1>22. CASE AllStopped
  BY <1>22 DEF AllStopped
<1>23. CASE Exit
  BY <1>23 DEF Exit
<1>24. CASE NetworkChanges
  BY <1>24 DEF NetworkChanges
<1>25. CASE UNCHANGED vars
  BY <1>25 DEF vars
<1> QED
  BY <1>1, <1>2, <1>3, <1>4, <1>5, <1>6, <1>7, <1>8, <1>9, <1>10, <1>11,
     <1>12, <1>13, <1>14, <1>15, <1>16, <1>17, <1>18, <1>19, <1>20, <1>21,
     <1>22, <1>23, <1>24, <1>25 DEF Next, Window, Manage, Supervise, Drain

\* Every step keeps the supervisors of the map running.
LEMMA LivingStep ==
    ASSUME TypeOK, Numbered, Locked, Mapped, Living, [Next]_vars
    PROVE  Living'
<1> USE NumbersAssumption, RuleAssumption
        DEF TypeOK, Numbered, Locked, Mapped, Living, Request, Alive,
            windowVars, requestVars, managerVars, supVars
<1>1. ASSUME NEW r \in Rule, AskNext(r) PROVE Living'
  BY <1>1 DEF AskNext, Ask
<1>2. ASSUME NEW r \in Rule, Toggle(r) PROVE Living'
  BY <1>2 DEF Toggle, Ask, Clickable
<1>3. ASSUME NEW r \in Rule, SaveRule(r) PROVE Living'
  BY <1>3 DEF SaveRule, Ask, Clickable
<1>4. ASSUME NEW r \in Rule, Delete(r) PROVE Living'
  BY <1>4 DEF Delete, Ask, Clickable
<1>5. CASE SaveProfile
  BY <1>5 DEF SaveProfile, Clickable
<1>6. CASE DeleteProfile
  BY <1>6 DEF DeleteProfile, Clickable
<1>7. CASE Quit
  BY <1>7 DEF Quit, Clickable
<1>8. ASSUME NEW q \in Request, LockManager(q) PROVE Living'
  BY <1>8 DEF LockManager
<1>9. ASSUME NEW q \in Request, StopOld(q) PROVE Living'
  BY <1>9 DEF StopOld, CancelTask
<1>10. ASSUME NEW q \in Request, NothingToStop(q) PROVE Living'
  BY <1>10 DEF NothingToStop
<1>11. ASSUME NEW q \in Request, OldStopped(q) PROVE Living'
  BY <1>11 DEF OldStopped, Joined
<1>12. ASSUME NEW q \in Request, Complete(q) PROVE Living'
  <2>1. /\ rule[q] \in Rule /\ sup[q] = "none" /\ q \notin cancelled
        /\ managerLock = q /\ joining = 0 /\ joining' = 0 /\ cancelled' = cancelled
    BY <1>12 DEF Complete
  <2>2. CASE want[q] = "start"
    <3>1. /\ tasks' = [tasks EXCEPT ![rule[q]] = q]
          /\ sup' = [sup EXCEPT ![q] = "prepare"]
          /\ quitter' = quitter
      BY <1>12, <2>2 DEF Complete, SpawnNew
    <3>2. \A p \in Request : sup[p] # "none" => sup'[p] = sup[p]
      BY <2>1, <3>1
    <3>3. \A p \in cancelled' : sup'[p] # "none"
      BY <2>1, <3>2
    <3>4. ASSUME quitter' = "idle", NEW r \in Rule, tasks'[r] # 0
          PROVE  sup'[tasks'[r]] \notin {"none", "done"} /\ tasks'[r] \notin cancelled'
      <4>1. CASE r = rule[q]
        BY <2>1, <3>1, <4>1
      <4>2. CASE r # rule[q]
        <5>1. tasks'[r] = tasks[r]
          BY <3>1, <4>2
        <5>2. sup[tasks[r]] \notin {"none", "done"} /\ tasks[r] \notin cancelled
          BY <3>1, <3>4, <5>1
        <5>3. tasks[r] \in Request
          BY <3>4, <5>1
        <5> QED
          BY <2>1, <3>2, <5>1, <5>2, <5>3
      <4> QED
        BY <4>1, <4>2
    <3> QED
      BY <2>1, <3>3, <3>4
  <2>3. CASE want[q] # "start"
    BY <1>12, <2>1, <2>3 DEF Complete
  <2> QED
    BY <2>2, <2>3
<1>13. ASSUME NEW q \in Request, Prepared(q) PROVE Living'
  BY <1>13 DEF Prepared, Proceed
<1>14. ASSUME NEW q \in Request, Ready(q) PROVE Living'
  BY <1>14 DEF Ready, Proceed
<1>15. ASSUME NEW q \in Request, AttemptFails(q) PROVE Living'
  BY <1>15 DEF AttemptFails, Proceed
<1>16. ASSUME NEW q \in Request, Retry(q) PROVE Living'
  BY <1>16 DEF Retry, Proceed, NextRetryDelay
<1>17. ASSUME NEW q \in Request, Breaks(q) PROVE Living'
  BY <1>17 DEF Breaks, Proceed
<1>18. ASSUME NEW q \in Request, SeeCancel(q) PROVE Living'
  BY <1>18 DEF SeeCancel
<1>19. CASE LockToQuit
  BY <1>19 DEF LockToQuit
<1>20. ASSUME NEW r \in Rule, DrainOne(r) PROVE Living'
  BY <1>20 DEF DrainOne, CancelTask
<1>21. CASE DrainedOne
  BY <1>21 DEF DrainedOne, Joined
<1>22. CASE AllStopped
  BY <1>22 DEF AllStopped
<1>23. CASE Exit
  BY <1>23 DEF Exit
<1>24. CASE NetworkChanges
  BY <1>24 DEF NetworkChanges
<1>25. CASE UNCHANGED vars
  BY <1>25 DEF vars
<1> QED
  BY <1>1, <1>2, <1>3, <1>4, <1>5, <1>6, <1>7, <1>8, <1>9, <1>10, <1>11,
     <1>12, <1>13, <1>14, <1>15, <1>16, <1>17, <1>18, <1>19, <1>20, <1>21,
     <1>22, <1>23, <1>24, <1>25 DEF Next, Window, Manage, Supervise, Drain

\* Every step leaves the map as the latest requests want it.
LEMMA DecidedStep ==
    ASSUME TypeOK, Numbered, Locked, Mapped, Ordered, Decided, [Next]_vars
    PROVE  Decided'
<1> USE NumbersAssumption, RuleAssumption
        DEF TypeOK, Numbered, Locked, Mapped, Ordered, Decided, Taken, Latest, Request,
            windowVars, requestVars, managerVars, supVars
<1>1. ASSUME NEW r \in Rule, AskNext(r) PROVE Decided'
  BY <1>1 DEF AskNext, Ask
<1>2. ASSUME NEW r \in Rule, Toggle(r) PROVE Decided'
  BY <1>2 DEF Toggle, Ask, Clickable
<1>3. ASSUME NEW r \in Rule, SaveRule(r) PROVE Decided'
  BY <1>3 DEF SaveRule, Ask, Clickable
<1>4. ASSUME NEW r \in Rule, Delete(r) PROVE Decided'
  BY <1>4 DEF Delete, Ask, Clickable
<1>5. CASE SaveProfile
  BY <1>5 DEF SaveProfile, Clickable
<1>6. CASE DeleteProfile
  BY <1>6 DEF DeleteProfile, Clickable
<1>7. CASE Quit
  BY <1>7 DEF Quit, Clickable
<1>8. ASSUME NEW q \in Request, LockManager(q) PROVE Decided'
  BY <1>8 DEF LockManager
<1>9. ASSUME NEW q \in Request, StopOld(q) PROVE Decided'
  <2> SUFFICES ASSUME inOrder', quitter' = "idle", NEW x \in Request, Latest(x)'
               PROVE  tasks'[rule'[x]] = IF want'[x] = "start" THEN x ELSE 0
    BY DEF Decided
  <2>1. /\ place[q] = "locked" /\ managerLock = q /\ rule[q] \in Rule
        /\ tasks' = [tasks EXCEPT ![rule[q]] = 0]
        /\ place' = [place EXCEPT ![q] = "joining"]
        /\ inOrder /\ quitter = "idle"
        /\ rule' = rule /\ want' = want
    BY <1>9 DEF StopOld, CancelTask
  <2>2. x # q /\ place[x] = "done"
    BY <2>1
  <2>3. \A p \in Request : Taken(p)' <=> Taken(p)
    BY <2>1
  <2>4. Latest(x)
    BY <2>1, <2>2, <2>3
  <2>5. rule[x] # rule[q]
    <3>1. rule[x] = rule[q] => q <= x
      BY <2>1, <2>4
    <3>2. x <= q
      BY <2>1, <2>2
    <3> QED
      BY <2>2, <3>1, <3>2
  <2>6. rule[x] \in Rule
    BY <2>2
  <2> QED
    BY <2>1, <2>4, <2>5, <2>6
<1>10. ASSUME NEW q \in Request, NothingToStop(q) PROVE Decided'
  BY <1>10 DEF NothingToStop
<1>11. ASSUME NEW q \in Request, OldStopped(q) PROVE Decided'
  BY <1>11 DEF OldStopped, Joined
<1>12. ASSUME NEW q \in Request, Complete(q) PROVE Decided'
  <2> SUFFICES ASSUME inOrder', quitter' = "idle", NEW x \in Request, Latest(x)'
               PROVE  tasks'[rule'[x]] = IF want'[x] = "start" THEN x ELSE 0
    BY DEF Decided
  <2>1. /\ place[q] = "stopped" /\ managerLock = q /\ rule[q] \in Rule /\ tasks[rule[q]] = 0
        /\ tasks' = IF want[q] = "start" THEN [tasks EXCEPT ![rule[q]] = q] ELSE tasks
        /\ place' = [place EXCEPT ![q] = "done"]
        /\ inOrder /\ quitter = "idle"
        /\ rule' = rule /\ want' = want
    BY <1>12 DEF Complete, SpawnNew
  <2>2. CASE x = q
    BY <2>1, <2>2
  <2>3. CASE x # q
    <3>1. place[x] = "done" /\ rule[x] \in Rule
      BY <2>1, <2>3
    <3>2. \A p \in Request : Taken(p)' <=> Taken(p)
      BY <2>1
    <3>3. Latest(x)
      BY <2>1, <3>1, <3>2
    <3>4. rule[x] = rule[q] => q <= x
      BY <2>1, <3>3
    <3>5. x <= q
      <4>1. Taken(x) /\ managerLock # 0
        BY <2>1, <3>1
      <4> QED
        BY <2>1, <4>1
    <3>6. rule[x] # rule[q]
      BY <2>3, <3>4, <3>5
    <3>7. tasks[rule[x]] = IF want[x] = "start" THEN x ELSE 0
      BY <2>1, <3>3
    <3>8. tasks'[rule[x]] = tasks[rule[x]]
      BY <2>1, <3>1, <3>6
    <3> QED
      BY <2>1, <3>7, <3>8
  <2> QED
    BY <2>2, <2>3
<1>13. ASSUME NEW q \in Request, Prepared(q) PROVE Decided'
  BY <1>13 DEF Prepared, Proceed
<1>14. ASSUME NEW q \in Request, Ready(q) PROVE Decided'
  BY <1>14 DEF Ready, Proceed
<1>15. ASSUME NEW q \in Request, AttemptFails(q) PROVE Decided'
  BY <1>15 DEF AttemptFails, Proceed
<1>16. ASSUME NEW q \in Request, Retry(q) PROVE Decided'
  BY <1>16 DEF Retry, Proceed, NextRetryDelay
<1>17. ASSUME NEW q \in Request, Breaks(q) PROVE Decided'
  BY <1>17 DEF Breaks, Proceed
<1>18. ASSUME NEW q \in Request, SeeCancel(q) PROVE Decided'
  BY <1>18 DEF SeeCancel
<1>19. CASE LockToQuit
  BY <1>19 DEF LockToQuit
<1>20. ASSUME NEW r \in Rule, DrainOne(r) PROVE Decided'
  BY <1>20 DEF DrainOne, CancelTask
<1>21. CASE DrainedOne
  BY <1>21 DEF DrainedOne, Joined
<1>22. CASE AllStopped
  BY <1>22 DEF AllStopped
<1>23. CASE Exit
  BY <1>23 DEF Exit
<1>24. CASE NetworkChanges
  BY <1>24 DEF NetworkChanges
<1>25. CASE UNCHANGED vars
  BY <1>25 DEF vars
<1> QED
  BY <1>1, <1>2, <1>3, <1>4, <1>5, <1>6, <1>7, <1>8, <1>9, <1>10, <1>11,
     <1>12, <1>13, <1>14, <1>15, <1>16, <1>17, <1>18, <1>19, <1>20, <1>21,
     <1>22, <1>23, <1>24, <1>25 DEF Next, Window, Manage, Supervise, Drain

\* The order and the map agree from the start on.
LEMMA OrderedInvariance == Spec => []OInv
<1>1. Init => OInv
  <2>1. Init => IInv
    BY NumbersAssumption DEF Init, IInv, TypeOK, Numbered, Locked, Mapped, Registered,
       Delayed, Alive, Request
  <2>2. Init => Ordered /\ Decided /\ Living
    BY DEF Init, Ordered, Decided, Living, Taken, Latest
  <2> QED
    BY <2>1, <2>2 DEF OInv
<1>2. OInv /\ [Next]_vars => OInv'
  BY TypeStep, NumberedStep, LockedStep, MappedStep, DelayedStep,
     OrderedStep, DecidedStep, LivingStep DEF IInv, OInv
<1> QED
  BY <1>1, <1>2, PTL DEF Spec

\* The last request for a rule decides whether a supervisor runs for it, and it
\* is the one with the settings of that request, if the lock was taken in the
\* order of the clicks (controller.rs:178-216).
THEOREM LastDecides == Spec => []LastRequestDecides
<1>1. ASSUME OInv PROVE LastRequestDecides
  <2> SUFFICES ASSUME NEW q \in Request, inOrder, IsLast(q), Quiet(rule[q]), quitter = "idle"
               PROVE  Running(rule[q]) = IF want[q] = "start" THEN {q} ELSE {}
    BY DEF LastRequestDecides
  <2>1. /\ rule[q] # "none" /\ \A p \in Request : rule[p] = rule[q] => p <= q /\ place[p] = "done"
    BY DEF IsLast, Quiet
  <2>2. Latest(q)
    BY <2>1 DEF Latest
  <2>3. tasks[rule[q]] = IF want[q] = "start" THEN q ELSE 0
    BY <1>1, <2>2 DEF OInv, Decided
  <2>4. q # 0
    BY NumbersAssumption DEF Request
  <2>5. rule[q] \in Rule
    BY <1>1, <2>1 DEF OInv, IInv, Numbered
  <2>6. ASSUME NEW p \in Request, rule[p] = rule[q], Alive(p) PROVE tasks[rule[q]] = p
    <3>1. tasks[rule[p]] = p \/ joining = p
      BY <1>1, <2>6 DEF OInv, IInv, Mapped, Registered
    <3>2. CASE joining = p
      <4>1. p # 0
        BY NumbersAssumption DEF Request
      <4>2. PICK x \in Request : place[x] = "joining"
        BY <1>1, <3>2, <4>1 DEF OInv, IInv, Locked
      <4>3. rule[p] = rule[x]
        BY <1>1, <3>2, <4>1, <4>2 DEF OInv, IInv, Locked, Living
      <4> QED
        BY <2>1, <2>6, <4>2, <4>3
    <3> QED
      BY <3>1, <3>2, <2>6
  <2>7. want[q] = "start" => Alive(q)
    BY <1>1, <2>3, <2>4, <2>5 DEF OInv, Living
  <2>8. CASE want[q] = "start"
    BY <2>3, <2>6, <2>7, <2>8 DEF Running
  <2>9. CASE want[q] # "start"
    <3>1. ASSUME NEW p \in Request, rule[p] = rule[q], Alive(p) PROVE FALSE
      <4>1. p = 0
        BY <2>3, <2>6, <2>9, <3>1
      <4> QED
        BY <4>1, NumbersAssumption DEF Request
    <3> QED
      BY <2>9, <3>1 DEF Running
  <2> QED
    BY <2>8, <2>9
<1> QED
  BY OrderedInvariance, <1>1, PTL

=============================================================================
