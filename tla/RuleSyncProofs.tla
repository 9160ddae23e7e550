---------------------------- MODULE RuleSyncProofs ----------------------------
(***************************************************************************)
(* What holds of rule synchronisation for all rules and any number of      *)
(* saves: a failed start leaves nothing in the kernel, and without a save  *)
(* in the wrong moment an unchanged file means unchanged rules.            *)
(***************************************************************************)
EXTENDS RuleSync, TLAPS

\* A session exists between commands and while it is synchronised; a start has
\* the kernel empty until it installs.
Steady == {"idle", "compare", "assign"}
Kernel ==
    /\ session = "active" => place \in Steady /\ kernel = config.rules
    /\ place \in {"compare", "assign"} => session = "active"
    /\ place \in {"idle", "read", "tun", "setup"} /\ session = "none" =>
         kernel = "off" /\ assigned = "off"
    /\ place \in {"apps", "resolver"} => kernel = config.rules

\* Whoever has taken the modification time that the file still has, has read
\* what the file still holds; times are never in the future.
Fresh ==
    /\ mtime <= stamp /\ seen <= stamp
    /\ place = "tun" => disk = "whole" /\ config = file
    /\ session = "active" \/ place \in {"setup", "apps", "resolver"} =>
         (mtime = stamp /\ disk = "whole" => config = file)

\* Every step keeps the types.
LEMMA TypeStep == TypeOK /\ [Next]_vars => TypeOK'
<1> SUFFICES ASSUME TypeOK, [Next]_vars PROVE TypeOK'
    OBVIOUS
<1> USE DEF TypeOK, Config, Starting, fileVars, sessionVars, kernelVars, Clear
<1>1. ASSUME NEW c \in Config, BeginSave(c) PROVE TypeOK'
    BY <1>1 DEF BeginSave
<1>2. CASE EndSave BY <1>2 DEF EndSave
<1>3. CASE Start \/ StartFails \/ Stop BY <1>3 DEF Start, StartFails, Stop
<1>4. CASE Begins
    BY <1>4 DEF Begins, ReadConfig, NewSystem, Install, AssignFirst, Activate
<1>5. CASE Sync BY <1>5 DEF Sync
<1>6. CASE Syncing BY <1>6 DEF Syncing, SyncUnreadable, SyncApps, Rebuild
<1>7. CASE AssignApps \/ AssignFails BY <1>7 DEF AssignApps, AssignFails
<1>8. CASE UNCHANGED vars BY <1>8 DEF vars
<1> QED BY <1>1, <1>2, <1>3, <1>4, <1>5, <1>6, <1>7, <1>8 DEF Next

\* Every step keeps the kernel with the session.
LEMMA KernelStep == TypeOK /\ Kernel /\ [Next]_vars => Kernel'
<1> SUFFICES ASSUME TypeOK, Kernel, [Next]_vars PROVE Kernel'
    OBVIOUS
<1> USE DEF TypeOK, Config, Starting, Kernel, Steady, fileVars, sessionVars, kernelVars, Clear
<1>1. ASSUME NEW c \in Config, BeginSave(c) PROVE Kernel'
    BY <1>1 DEF BeginSave
<1>2. CASE EndSave BY <1>2 DEF EndSave
<1>3. CASE Start \/ StartFails \/ Stop BY <1>3 DEF Start, StartFails, Stop
<1>4. CASE Begins
    BY <1>4 DEF Begins, ReadConfig, NewSystem, Install, AssignFirst, Activate
<1>5. CASE Sync BY <1>5 DEF Sync
<1>6. CASE Syncing BY <1>6 DEF Syncing, SyncUnreadable, SyncApps, Rebuild
<1>7. CASE AssignApps \/ AssignFails BY <1>7 DEF AssignApps, AssignFails
<1>8. CASE UNCHANGED vars BY <1>8 DEF vars
<1> QED BY <1>1, <1>2, <1>3, <1>4, <1>5, <1>6, <1>7, <1>8 DEF Next

\* Every step that respects Calm keeps the session fresh.
LEMMA FreshStep == TypeOK /\ Kernel /\ Fresh /\ [Next /\ Calm]_vars => Fresh'
<1> SUFFICES ASSUME TypeOK, Kernel, Fresh, [Next /\ Calm]_vars PROVE Fresh'
    OBVIOUS
<1> USE DEF TypeOK, Config, Starting, Kernel, Fresh, Steady, Calm,
            fileVars, sessionVars, kernelVars, Clear
<1>1. ASSUME NEW c \in Config, BeginSave(c), Calm PROVE Fresh'
    BY <1>1 DEF BeginSave
<1>2. CASE EndSave BY <1>2 DEF EndSave, vars
<1>3. CASE Start \/ StartFails \/ Stop BY <1>3 DEF Start, StartFails, Stop
<1>4. CASE Begins
    BY <1>4 DEF Begins, ReadConfig, NewSystem, Install, AssignFirst, Activate
<1>5. CASE Sync BY <1>5 DEF Sync
<1>6. CASE SyncUnreadable \/ Rebuild BY <1>6 DEF SyncUnreadable, Rebuild
<1>7. CASE SyncApps
  <2>1. config' = file'
    BY <1>7 DEF SyncApps
  <2> QED BY <1>7, <2>1 DEF SyncApps
<1>8. CASE AssignApps \/ AssignFails BY <1>8 DEF AssignApps, AssignFails
<1>9. CASE UNCHANGED vars BY <1>9 DEF vars
<1> QED BY <1>1, <1>2, <1>3, <1>4, <1>5, <1>6, <1>7, <1>8, <1>9 DEF Next, Syncing

\* All of it holds initially.
LEMMA InitInv == Init => TypeOK /\ Kernel /\ Fresh
BY DEF Init, TypeOK, Config, Kernel, Steady, Starting, Fresh

\* The synchronisation's variables keep their types (system.rs:30-40).
THEOREM TypeCorrect == Spec => []TypeOK
BY InitInv, TypeStep, PTL DEF Spec

\* Between commands the kernel has the rules of the session or nothing, for
\* every point at which a start, a rebuild or a sync can fail.
THEOREM FailuresLeaveNothing == Spec => []RulesFollowSession
<1>1. TypeOK /\ Kernel /\ [Next]_vars => (TypeOK /\ Kernel)'
    BY TypeStep, KernelStep
<1>2. TypeOK /\ Kernel => RulesFollowSession
    BY DEF TypeOK, Kernel, RulesFollowSession
<1> QED BY InitInv, <1>1, <1>2, PTL DEF Spec

\* Unless a save falls between the two reads of a start, an unchanged
\* modification time does mean that the session has the rules of the file.
THEOREM CalmMeansSame == CalmSpec => []UnchangedMeansSame
<1>1. [Next /\ Calm]_vars => [Next]_vars
    OBVIOUS
<1>2. TypeOK /\ Kernel /\ Fresh /\ [Next /\ Calm]_vars => (TypeOK /\ Kernel /\ Fresh)'
    BY <1>1, TypeStep, KernelStep, FreshStep
<1>3. Fresh => UnchangedMeansSame
    BY DEF Fresh, UnchangedMeansSame
<1> QED BY InitInv, <1>2, <1>3, PTL DEF CalmSpec

=============================================================================
