-------------------------- MODULE HelperSessionProofs --------------------------
(***************************************************************************)
(* What holds of the helpers for any number of launches and any amount of  *)
(* lines in their pipes: the state keeps its shape, two helpers never work *)
(* on the kernel at once, the kernel has the interception of a helper      *)
(* exactly while that has a session, no late answer is taken for the       *)
(* success of another call, and the two ends of the pipe make no step that *)
(* HelperService does not allow.                                           *)
(***************************************************************************)
EXTENDS HelperSession, FiniteSetTheorems, TLAPS

-----------------------------------------------------------------------------
(* The shape of the state. *)

\* The lines that are to come from a helper can be counted, and one that has
\* come already is among them.
LEMMA OwedIsNat ==
    ASSUME TypeOK, NEW p \in Process
    PROVE  Owed(p) \in Nat /\ (stdout[p] # <<>> => Owed(p) - 1 \in Nat)
<1> DEFINE written == {i \in DOMAIN stdin[p] : stdin[p][i] # "quit"}
<1>1. stdin[p] \in Seq(Command) /\ stdout[p] \in Seq(Line) BY DEF TypeOK
<1>2. DOMAIN stdin[p] = 1 .. Len(stdin[p]) /\ Len(stdin[p]) \in Nat BY <1>1
<1>3. IsFiniteSet(1 .. Len(stdin[p])) BY <1>2, FS_Interval
<1>4. written \in SUBSET (1 .. Len(stdin[p])) BY <1>2
<1> HIDE DEF written
<1>5. Cardinality(written) \in Nat BY <1>3, <1>4, FS_Subset, FS_CardinalityType
<1>6. Len(stdout[p]) \in Nat /\ (stdout[p] # <<>> => Len(stdout[p]) > 0) BY <1>1
<1>7. Owed(p) = Len(stdout[p]) + Cardinality(written)
                + IF job[p] \in {"none", "quit"} THEN 0 ELSE 1
    BY DEF Owed, written
<1> QED BY <1>5, <1>6, <1>7

\* The client's side of the shape.
ClientTypes ==
    /\ phase \in Phase
    /\ current \in Process \cup {"none"} /\ launching \in Process \cup {"none"}
    /\ call \in Call \cup {"none"} /\ behind \in Nat
    /\ isActive \in BOOLEAN /\ gui \in BOOLEAN

DaemonTypes ==
    /\ proc \in [Process -> Living \cup {"none", "dead"}]
    /\ job \in [Process -> Command \cup {"none", "started"}]
    /\ session \in [Process -> BOOLEAN]
    /\ installed \in Process \cup {"none"}

PipeTypes == stdin \in [Process -> Seq(Command)] /\ stdout \in [Process -> Seq(Line)]

LEMMA Shape == TypeOK <=> ClientTypes /\ DaemonTypes /\ PipeTypes
BY DEF TypeOK, ClientTypes, DaemonTypes, PipeTypes

LEMMA ClientTypeStep ==
    ASSUME TypeOK, Client
    PROVE  TypeOK'
<1> USE DEF clientVars, daemonVars, pipeVars
<1>0. ClientTypes /\ DaemonTypes /\ PipeTypes BY Shape
<1>1. ASSUME NEW p \in Process, Launch(p) PROVE TypeOK'
    BY <1>1 DEF Launch, TypeOK, Living
<1>2. ASSUME NEW p \in Process, TakeReady(p) PROVE TypeOK'
    <2>1. stdout[p] \in Seq(Line) /\ stdout[p] # <<>>
        BY <1>0, <1>2 DEF TakeReady, PipeTypes
    <2>2. Tail(stdout[p]) \in Seq(Line) BY <2>1
    <2>3. stdout' \in [Process -> Seq(Line)] BY <1>0, <1>2, <2>2 DEF TakeReady, PipeTypes
    <2> QED BY <1>2, <2>3 DEF TakeReady, TypeOK, Phase
<1>3. ASSUME NEW p \in Process, LaunchFails(p) PROVE TypeOK'
    BY <1>3 DEF LaunchFails, TypeOK
<1>4. ASSUME NEW p \in Process, Succeeds(p) PROVE TypeOK'
    <2>1. call \in Call /\ call # "quit" /\ phase' = NextPhase[call]
        BY <1>0, <1>4 DEF Succeeds, TakeLine, WantedLine, ClientTypes
    <2>2. phase' \in Phase BY <1>0, <2>1 DEF NextPhase, Phase, Call, ClientTypes
    <2>3. isActive' \in BOOLEAN
        <3>1. (call \in {"start", "check"}) \in BOOLEAN OBVIOUS
        <3>2. isActive \in BOOLEAN BY <1>0 DEF ClientTypes
        <3> QED BY <1>4, <3>1, <3>2, Zenon DEF Succeeds
    <2>4. stdout' \in [Process -> Seq(Line)]
        BY <1>0, <1>4 DEF Succeeds, TakeLine, PipeTypes
    <2> QED BY <1>4, <2>2, <2>3, <2>4 DEF Succeeds, TakeLine, TypeOK
<1>5. ASSUME NEW active \in BOOLEAN, call \in Call, Failed(active)
      PROVE  /\ call' = "none" /\ behind' = 0 /\ phase' \in Phase
             /\ current' \in Process \cup {"none"} /\ isActive' \in BOOLEAN
    <2>1. CASE call \in {"vet", "reset", "start", "stop", "quit"}
        BY <1>0, <1>5, <2>1 DEF Failed, Discard, ClientTypes, Phase
    <2>2. CASE call = "check" BY <1>0, <1>5, <2>2 DEF Failed, ClientTypes, Phase
    <2>3. CASE call = "sync" BY <1>0, <1>5, <2>3 DEF Failed, ClientTypes, Phase
    <2> QED BY <1>5, <2>1, <2>2, <2>3 DEF Call
<1>6. ASSUME NEW p \in Process, Fails(p) PROVE TypeOK'
    <2>1. TakeLine(p) /\ call \in Call BY <1>0, <1>6 DEF Fails, TakeLine, ClientTypes
    <2>2. stdout' \in [Process -> Seq(Line)] BY <1>0, <2>1 DEF TakeLine, PipeTypes
    <2>3. CASE StopNext(p)
        <3>1. Owed(p) - 1 \in Nat BY <2>1, OwedIsNat DEF TakeLine
        <3>2. stdin' \in [Process -> Seq(Command)]
            BY <1>0, <2>3 DEF StopNext, PipeTypes, Command
        <3> QED BY <2>1, <2>2, <2>3, <3>1, <3>2 DEF StopNext, TakeLine, TypeOK, Call
    <2>4. ASSUME NEW active \in BOOLEAN, Failed(active), UNCHANGED stdin PROVE TypeOK'
        <3>1. /\ call' = "none" /\ behind' = 0 /\ phase' \in Phase
              /\ current' \in Process \cup {"none"} /\ isActive' \in BOOLEAN
            BY <1>5, <2>1, <2>4
        <3> QED BY <2>1, <2>2, <2>4, <3>1 DEF TakeLine, TypeOK
    <2>5. (isActive /\ Head(stdout[p]) \notin {"error", "off"}) \in BOOLEAN BY Zenon
    <2>6. \/ StopNext(p)
          \/ /\ Failed(isActive /\ Head(stdout[p]) \notin {"error", "off"})
             /\ UNCHANGED stdin
        BY <1>6 DEF Fails
    <2> QED BY <2>3, <2>4, <2>5, <2>6
<1>7. ASSUME NEW c \in Call, MakeCall(c) PROVE TypeOK'
    <2>1. PICK p \in Process :
            Write(p, c) /\ UNCHANGED <<phase, current, launching, isActive, gui, daemonVars, stdout>>
        BY <1>7 DEF MakeCall
    <2>2. CommandOf[c] \in Command BY DEF CommandOf, Call, Command
    <2>3. stdin' \in [Process -> Seq(Command)] BY <1>0, <2>1, <2>2 DEF Write, PipeTypes
    <2>4. behind' \in Nat BY <2>1, OwedIsNat DEF Write
    <2> QED BY <2>1, <2>3, <2>4 DEF Write, TypeOK
<1>8. ASSUME NEW c \in Call, CallDead(c) PROVE TypeOK'
    <2>1. /\ current' \in Process \cup {"none"} /\ isActive' \in BOOLEAN
        BY <1>0, <1>8 DEF CallDead, Discard, ClientTypes
    <2>2. phase' \in Phase BY <1>0, <1>8 DEF CallDead, ClientTypes, Phase
    <2> QED BY <1>8, <2>1, <2>2 DEF CallDead, TypeOK
<1>9. CASE CallNone BY <1>9 DEF CallNone, TypeOK, Phase
<1>10. CASE GivesUp
    <2>1. call \in Call BY <1>0, <1>10 DEF GivesUp, ClientTypes
    <2>2. /\ call' = "none" /\ behind' = 0 /\ phase' \in Phase
          /\ current' \in Process \cup {"none"} /\ isActive' \in BOOLEAN
        BY <1>0, <1>5, <1>10, <2>1 DEF GivesUp, ClientTypes
    <2> QED BY <1>10, <2>2 DEF GivesUp, TypeOK
<1>11. CASE Leave BY <1>11 DEF Leave, TypeOK, Phase
<1>12. CASE GuiExits BY <1>12 DEF GuiExits, TypeOK, Phase
<1> QED BY <1>1, <1>2, <1>3, <1>4, <1>6, <1>7, <1>8, <1>9, <1>10, <1>11, <1>12 DEF Client

\* A helper that has done a command.
LEMMA DoneTypes ==
    ASSUME TypeOK, NEW p \in Process, NEW line \in Line, NEW left \in BOOLEAN,
           Cleared(p) \/ Kept(p), Done(p, line, left)
    PROVE  TypeOK'
<1>1. /\ proc' \in [Process -> Living \cup {"none", "dead"}]
      /\ installed' \in Process \cup {"none"}
    <2>1. CASE Cleared(p) BY <2>1 DEF TypeOK, Cleared, Clearing, AfterWrite, Living
    <2>2. CASE Kept(p) BY <2>2 DEF TypeOK, Kept, AfterWrite, Living
    <2> QED BY <2>1, <2>2
<1>2. stdout' \in [Process -> Seq(Line)] BY DEF Done, Writes, TypeOK
<1> QED BY <1>1, <1>2 DEF Done, TypeOK, clientVars

\* So do the helper's steps.
LEMMA HelperTypeStep ==
    ASSUME TypeOK, NEW p \in Process, Helper(p) \/ ByItself(p)
    PROVE  TypeOK'
<1> USE DEF clientVars, pipeVars
<1>0. session[p] \in BOOLEAN BY DEF TypeOK
<1>1. CASE Read(p) BY <1>1 DEF Read, Serving, TypeOK
<1>2. CASE SetUp(p) BY <1>2 DEF SetUp, TypeOK
<1>3. CASE Started(p) \/ RollsBack(p) \/ Stops(p) \/ FindsSick(p) \/ SyncFails(p) \/ TunEnds(p)
    BY <1>3, DoneTypes DEF Started, RollsBack, Stops, FindsSick, SyncFails, TunEnds, Line
<1>4. CASE TellsStatus(p) \/ Syncs(p)
    BY <1>0, <1>4, DoneTypes DEF TellsStatus, Syncs, Line
<1>5. CASE Closes(p) \/ Terminated(p) \/ Killed(p)
    BY <1>5 DEF Closes, Terminated, Killed, TypeOK, Living
<1>6. CASE ClosesDown(p) \/ TickFails(p)
    BY <1>6 DEF ClosesDown, TickFails, Clearing, TypeOK, Living
<1>7. CASE Boot(p)
    <2>1. stdout' \in [Process -> Seq(Line)] BY <1>7 DEF Boot, Writes, TypeOK, Line
    <2> QED BY <1>7, <2>1 DEF Boot, Clearing, AfterWrite, TypeOK, Living
<1> QED BY <1>1, <1>2, <1>3, <1>4, <1>5, <1>6, <1>7 DEF Helper, ByItself

LEMMA TypeStep == TypeOK /\ [Next]_vars => TypeOK'
<1> SUFFICES ASSUME TypeOK, [Next]_vars PROVE TypeOK' OBVIOUS
<1>1. CASE Client BY <1>1, ClientTypeStep
<1>2. ASSUME NEW p \in Process, Helper(p) \/ ByItself(p) PROVE TypeOK'
    BY <1>2, HelperTypeStep
<1>3. CASE Over \/ UNCHANGED vars
    BY <1>3 DEF Over, vars, clientVars, daemonVars, pipeVars, TypeOK
<1> QED BY <1>1, <1>2, <1>3 DEF Next

LEMMA TypeInit == Init => TypeOK
<1> SUFFICES ASSUME Init PROVE TypeOK OBVIOUS
<1>1. ClientTypes BY DEF Init, ClientTypes, Phase
<1>2. DaemonTypes BY DEF Init, DaemonTypes
<1>3. PipeTypes BY DEF Init, PipeTypes
<1> QED BY <1>1, <1>2, <1>3, Shape

\* The state keeps its shape: every phase, command and answer of the two ends
\* of the pipe is one of those the code has (helper_client.rs:22-71,
\* helper.rs:31-115).
THEOREM TypeCorrect == Spec => []TypeOK
<1>1. Init => TypeOK BY TypeInit
<1>2. TypeOK /\ [Next]_vars => TypeOK' BY TypeStep
<1> QED BY <1>1, <1>2, PTL DEF Spec

-----------------------------------------------------------------------------
(* The helpers and the kernel. *)

Working == {"serving", "closing"}

\* A helper that is not up yet has done nothing.
Fresh ==
    \A p \in Process : proc[p] \in {"none", "prompt"} => ~session[p] /\ job[p] = "none"

\* Between the end of its setup and its answer a helper has installed what its
\* session is to be; otherwise it has one exactly if it has installed it.
Kernel ==
    \A p \in Process : proc[p] = "serving" =>
        IF job[p] = "started" THEN installed = p /\ ~session[p]
        ELSE session[p] <=> installed = p

Inv == TypeOK /\ OneServing /\ Fresh /\ Kernel

\* The client can launch a helper and end it before it is up.
LEMMA ClientLeaves ==
    ASSUME TypeOK, Client
    PROVE  /\ UNCHANGED <<job, session, installed>>
           /\ \A p \in Process :
                proc'[p] = proc[p] \/ (proc[p] = "none" /\ proc'[p] = "prompt")
                                   \/ (proc[p] = "prompt" /\ proc'[p] = "dead")
<1> USE DEF daemonVars
<1>0. proc \in [Process -> Living \cup {"none", "dead"}] BY DEF TypeOK
<1>1. ASSUME NEW p \in Process, Launch(p)
      PROVE  /\ UNCHANGED <<job, session, installed>>
             /\ \A q \in Process :
                  proc'[q] = proc[q] \/ (proc[q] = "none" /\ proc'[q] = "prompt")
    BY <1>0, <1>1 DEF Launch
<1>2. ASSUME NEW p \in Process, LaunchFails(p)
      PROVE  /\ UNCHANGED <<job, session, installed>>
             /\ \A q \in Process :
                  proc'[q] = proc[q] \/ (proc[q] = "prompt" /\ proc'[q] = "dead")
    BY <1>0, <1>2 DEF LaunchFails
<1>3. ASSUME NEW p \in Process, TakeReady(p) \/ Succeeds(p) \/ Fails(p)
      PROVE  UNCHANGED daemonVars
    BY <1>3 DEF TakeReady, Succeeds, Fails, TakeLine
<1>4. ASSUME NEW c \in Call, MakeCall(c) \/ CallDead(c) PROVE UNCHANGED daemonVars
    BY <1>4 DEF MakeCall, CallDead
<1>5. CASE CallNone \/ GivesUp \/ Leave \/ GuiExits
    BY <1>5 DEF CallNone, GivesUp, Leave, GuiExits
<1> QED BY <1>1, <1>2, <1>3, <1>4, <1>5 DEF Client

\* What a step of a helper leaves of itself and of the others: it clears the
\* kernel, which ends every other helper, or leaves both alone.
Cleans(p) ==
    /\ installed' = "none"
    /\ \A q \in Process \ {p} : proc'[q] = proc[q] \/ proc'[q] = "dead"
    /\ \A q \in Process \ {p} : proc'[q] \notin Working
Spares(p) ==
    /\ installed' = installed
    /\ \A q \in Process \ {p} : proc'[q] = proc[q]

\* A helper never does anything to the session or the command of another.
Own(p) == \A q \in Process \ {p} : job'[q] = job[q] /\ session'[q] = session[q]

LEMMA ClearingCleans ==
    ASSUME TypeOK, NEW p \in Process, NEW state, Clearing(p, state)
    PROVE  Cleans(p) /\ proc'[p] = state
BY DEF Clearing, Cleans, TypeOK, Alive, Living, Working

LEMMA DoneOwn ==
    ASSUME TypeOK, NEW p \in Process, NEW line, NEW left \in BOOLEAN, Done(p, line, left)
    PROVE  Own(p) /\ job'[p] = "none" /\ session'[p] = left
BY DEF Done, Own, TypeOK

LEMMA KeptSpares ==
    ASSUME TypeOK, NEW p \in Process, Kept(p)
    PROVE  Spares(p) /\ proc'[p] \in {"serving", "dead"}
BY DEF Kept, Spares, AfterWrite, TypeOK

\* What a helper does keeps the helpers apart and its session with the kernel.
LEMMA Composes ==
    ASSUME Inv, NEW p \in Process, Own(p),
           proc[p] \in {"none", "prompt"} => proc'[p] = "dead" \/ Cleans(p),
           proc'[p] \notin {"none", "prompt"},
           \/ Cleans(p)
           \/ Spares(p) /\ proc[p] \in {"serving", "closing"}
           \/ Spares(p) /\ proc'[p] = "dead"
           \/ proc[p] = "serving" /\ installed' = p
              /\ \A q \in Process \ {p} : proc'[q] \in {proc[q], "dead"} \ Working,
           proc'[p] = "serving" =>
                IF job'[p] = "started" THEN installed' = p /\ ~session'[p]
                ELSE session'[p] <=> installed' = p
    PROVE  (OneServing /\ Fresh /\ Kernel)'
<1>1. OneServing'
    <2> SUFFICES ASSUME NEW q \in Process, NEW r \in Process,
                        proc'[q] \in Working, proc'[r] \in Working
                 PROVE  q = r
        BY DEF OneServing, Working
    <2>1. ASSUME NEW x \in Process, NEW y \in Process,
                 proc[x] \in Working, proc[y] \in Working PROVE x = y
        BY <2>1 DEF Inv, OneServing, Working
    <2> QED BY <2>1 DEF Cleans, Spares, Working
<1>2. Fresh'
    <2> SUFFICES ASSUME NEW q \in Process, proc'[q] \in {"none", "prompt"}
                 PROVE  ~session'[q] /\ job'[q] = "none"
        BY DEF Fresh
    <2>1. q # p OBVIOUS
    <2>2. proc[q] \in {"none", "prompt"} BY <2>1 DEF Cleans, Spares
    <2>3. ~session[q] /\ job[q] = "none" BY <2>2 DEF Inv, Fresh
    <2> QED BY <2>1, <2>3 DEF Own
<1>3. Kernel'
    <2> SUFFICES ASSUME NEW q \in Process \ {p}, proc'[q] = "serving"
                 PROVE  IF job'[q] = "started" THEN installed' = q /\ ~session'[q]
                        ELSE session'[q] <=> installed' = q
        BY DEF Kernel
    <2>1. Spares(p) /\ proc'[p] = "dead"
        <3>1. ASSUME proc[p] \in Working, proc[q] = "serving" PROVE FALSE
            BY <3>1 DEF Inv, OneServing, Working
        <3> QED BY <3>1 DEF Cleans, Spares, Working
    <2>2. proc[q] = "serving" /\ installed' = installed BY <2>1 DEF Spares
    <2>3. job'[q] = job[q] /\ session'[q] = session[q] BY DEF Own
    <2>4. IF job[q] = "started" THEN installed = q /\ ~session[q]
          ELSE session[q] <=> installed = q
        BY <2>2 DEF Inv, Kernel
    <2> QED BY <2>2, <2>3, <2>4
<1> QED BY <1>1, <1>2, <1>3

LEMMA HelperStep ==
    ASSUME Inv, NEW p \in Process, Helper(p) \/ ByItself(p)
    PROVE  (OneServing /\ Fresh /\ Kernel)'
<1>0. /\ TypeOK
      /\ proc[p] = "serving" =>
            IF job[p] = "started" THEN installed = p /\ ~session[p]
            ELSE session[p] <=> installed = p
      /\ proc[p] \in {"none", "prompt"} => ~session[p] /\ job[p] = "none"
    BY DEF Inv, Kernel, Fresh
<1>1. p # "none" BY ProcessAssumption
<1>2. session[p] \in BOOLEAN BY <1>0 DEF TypeOK
<1>3. CASE Boot(p)
    <2>1. /\ proc[p] = "prompt" /\ Clearing(p, AfterWrite(p))
          /\ job' = job /\ session' = session
        BY <1>3 DEF Boot
    <2>2. Cleans(p) /\ proc'[p] \in {"serving", "dead"} /\ installed' = "none"
        BY <1>0, <2>1, ClearingCleans DEF AfterWrite, Cleans
    <2>3. Own(p) BY <2>1 DEF Own
    <2> QED BY <1>0, <1>1, <2>1, <2>2, <2>3, Composes
<1>4. CASE Read(p)
    <2>1. /\ proc[p] = "serving" /\ job[p] = "none" /\ stdin[p] # <<>>
          /\ proc' = proc /\ session' = session /\ installed' = installed
          /\ job' = [job EXCEPT ![p] = Head(stdin[p])]
        BY <1>4 DEF Read, Serving
    <2>2. Head(stdin[p]) \in Command
        <3>1. stdin[p] \in Seq(Command) BY <1>0 DEF TypeOK
        <3> QED BY <2>1, <3>1
    <2>3. job'[p] # "started" BY <1>0, <2>1, <2>2 DEF TypeOK, Command
    <2>4. Own(p) /\ Spares(p) BY <1>0, <2>1 DEF Own, Spares, TypeOK
    <2>5. session[p] <=> installed = p BY <1>0, <2>1
    <2>6. session'[p] <=> installed' = p BY <2>1, <2>5
    <2> QED BY <2>1, <2>3, <2>4, <2>6, Composes
<1>5. CASE SetUp(p)
    <2>1. /\ proc[p] = "serving" /\ installed' = p
          /\ job' = [job EXCEPT ![p] = "started"]
          /\ session' = [session EXCEPT ![p] = FALSE]
          /\ proc' = [q \in Process |-> IF q # p /\ Alive(q) THEN "dead" ELSE proc[q]]
        BY <1>5 DEF SetUp, Serving
    <2>2. Own(p) /\ job'[p] = "started" /\ ~session'[p] BY <1>0, <2>1 DEF Own, TypeOK
    <2>3. proc'[p] = "serving"
          /\ \A q \in Process \ {p} : proc'[q] \in {proc[q], "dead"} \ Working
        BY <1>0, <2>1 DEF Alive, Living, Working, TypeOK
    <2> QED BY <2>1, <2>2, <2>3, Composes
<1>6. ASSUME Serving(p), NEW line, Cleared(p), Done(p, line, FALSE)
      PROVE  (OneServing /\ Fresh /\ Kernel)'
    <2>1. Cleans(p) /\ proc'[p] \in {"serving", "dead"} /\ installed' = "none"
        BY <1>0, <1>6, ClearingCleans DEF Cleared, AfterWrite, Cleans
    <2>2. Own(p) /\ job'[p] = "none" /\ session'[p] = FALSE BY <1>0, <1>6, DoneOwn
    <2>3. proc[p] = "serving" BY <1>6 DEF Serving
    <2> QED BY <1>1, <2>1, <2>2, <2>3, Composes
<1>7. ASSUME Serving(p), NEW line, NEW left \in BOOLEAN, left <=> installed = p,
             Kept(p), Done(p, line, left)
      PROVE  (OneServing /\ Fresh /\ Kernel)'
    <2>1. Spares(p) /\ proc'[p] \in {"serving", "dead"} /\ installed' = installed
        BY <1>0, <1>7, KeptSpares DEF Spares
    <2>2. Own(p) /\ job'[p] = "none" /\ session'[p] = left BY <1>0, <1>7, DoneOwn
    <2>3. proc[p] = "serving" BY <1>7 DEF Serving
    <2>4. session'[p] <=> installed' = p BY <1>7, <2>1, <2>2
    <2> QED BY <2>1, <2>2, <2>3, <2>4, Composes
<1>8. CASE Started(p)
    <2>1. installed = p BY <1>0, <1>8 DEF Started, Serving
    <2> QED BY <1>7, <1>8, <2>1 DEF Started
<1>9. CASE RollsBack(p) \/ Stops(p) \/ FindsSick(p) \/ TunEnds(p)
    BY <1>6, <1>9 DEF RollsBack, Stops, FindsSick, TunEnds
<1>10. CASE TellsStatus(p) \/ Syncs(p)
    <2>1. session[p] <=> installed = p
        BY <1>0, <1>10 DEF TellsStatus, Syncs, Serving
    <2> QED BY <1>2, <1>7, <1>10, <2>1 DEF TellsStatus, Syncs
<1>11. CASE SyncFails(p)
    <2>1. installed = p BY <1>0, <1>11 DEF SyncFails, Serving
    <2> QED BY <1>6, <1>7, <1>11, <2>1 DEF SyncFails
<1>12. CASE TickFails(p)
    <2>1. /\ proc[p] = "serving" /\ job[p] = "none" /\ Clearing(p, "serving")
          /\ session' = [session EXCEPT ![p] = FALSE] /\ job' = job
        BY <1>12 DEF TickFails, Serving
    <2>2. Cleans(p) /\ proc'[p] = "serving" /\ installed' = "none"
        BY <1>0, <2>1, ClearingCleans DEF Cleans
    <2>3. Own(p) /\ ~session'[p] BY <1>0, <2>1 DEF Own, TypeOK
    <2> QED BY <1>1, <2>1, <2>2, <2>3, Composes
<1>13. CASE Closes(p) \/ Terminated(p)
    <2>1. /\ proc[p] = "serving" /\ proc' = [proc EXCEPT ![p] = "closing"]
          /\ job' = job /\ session' = session /\ installed' = installed
        BY <1>13 DEF Closes, Terminated, Serving
    <2>2. Own(p) /\ Spares(p) /\ proc'[p] = "closing"
        BY <1>0, <2>1 DEF Own, Spares, TypeOK
    <2> QED BY <2>1, <2>2, Composes
<1>14. CASE ClosesDown(p)
    <2>1. /\ proc[p] = "closing" /\ Clearing(p, "dead")
          /\ session' = [session EXCEPT ![p] = FALSE] /\ job' = job
        BY <1>14 DEF ClosesDown
    <2>2. Cleans(p) /\ proc'[p] = "dead" BY <1>0, <2>1, ClearingCleans
    <2>3. Own(p) BY <1>0, <2>1 DEF Own, TypeOK
    <2> QED BY <2>1, <2>2, <2>3, Composes
<1>15. CASE Killed(p)
    <2>1. /\ proc' = [proc EXCEPT ![p] = "dead"]
          /\ job' = job /\ session' = session /\ installed' = installed
        BY <1>15 DEF Killed
    <2>2. Own(p) /\ Spares(p) /\ proc'[p] = "dead"
        BY <1>0, <2>1 DEF Own, Spares, TypeOK
    <2> QED BY <2>2, Composes
<1> QED BY <1>3, <1>4, <1>5, <1>8, <1>9, <1>10, <1>11, <1>12, <1>13, <1>14, <1>15
        DEF Helper, ByItself

LEMMA InvStep == Inv /\ [Next]_vars => Inv'
<1> SUFFICES ASSUME Inv, [Next]_vars PROVE (OneServing /\ Fresh /\ Kernel)'
    BY TypeStep DEF Inv
<1>1. CASE Client
    <2>1. /\ UNCHANGED <<job, session, installed>>
          /\ \A p \in Process :
                proc'[p] = proc[p] \/ (proc[p] = "none" /\ proc'[p] = "prompt")
                                   \/ (proc[p] = "prompt" /\ proc'[p] = "dead")
        BY <1>1, ClientLeaves DEF Inv
    <2>2. OneServing'
        <3> SUFFICES ASSUME NEW p \in Process, NEW q \in Process,
                            {proc'[p], proc'[q]} \subseteq {"serving", "closing"}
                     PROVE  p = q
            BY DEF OneServing
        <3>1. proc'[p] = proc[p] /\ proc'[q] = proc[q] BY <2>1
        <3> QED BY <3>1 DEF Inv, OneServing
    <2>3. Fresh' BY <2>1 DEF Inv, Fresh
    <2>4. Kernel'
        <3> SUFFICES ASSUME NEW p \in Process, proc'[p] = "serving"
                     PROVE  IF job'[p] = "started" THEN installed' = p /\ ~session'[p]
                            ELSE session'[p] <=> installed' = p
            BY DEF Kernel
        <3>1. proc[p] = "serving" BY <2>1
        <3>2. IF job[p] = "started" THEN installed = p /\ ~session[p]
              ELSE session[p] <=> installed = p
            BY <3>1 DEF Inv, Kernel
        <3> QED BY <2>1, <3>2
    <2> QED BY <2>2, <2>3, <2>4
<1>2. ASSUME NEW p \in Process, Helper(p) \/ ByItself(p)
      PROVE  (OneServing /\ Fresh /\ Kernel)'
    BY <1>2, HelperStep
<1>3. CASE Over \/ UNCHANGED vars
    BY <1>3 DEF Over, vars, daemonVars, Inv, OneServing, Fresh, Kernel
<1> QED BY <1>1, <1>2, <1>3 DEF Next

LEMMA Invariance == Spec => []Inv
<1>1. Init => Inv
    <2>1. Init => TypeOK BY TypeInit
    <2>2. Init => OneServing /\ Fresh /\ Kernel BY DEF Init, OneServing, Fresh, Kernel
    <2> QED BY <2>1, <2>2 DEF Inv
<1>2. Inv /\ [Next]_vars => Inv' BY InvStep
<1> QED BY <1>1, <1>2, PTL DEF Spec

\* Two helpers never work on the kernel at once, however many were launched and
\* whatever became of their sessions: one that comes up kills every other
\* before it says that it is ready (system.rs:534-546).
THEOREM HelperIsSingle == Spec => []OneServing
<1>1. Inv => OneServing BY DEF Inv
<1> QED BY <1>1, Invariance, PTL

\* Between two commands a helper has a session exactly when its interception is
\* in the kernel (helper.rs:160-198, 237-254).
THEOREM KernelAgrees == Spec => []KernelFollowsSession
<1>1. Inv => KernelFollowsSession
    <2> SUFFICES ASSUME Inv, NEW p \in Process, proc[p] = "serving", job[p] = "none"
                 PROVE  session[p] <=> installed = p
        BY DEF KernelFollowsSession
    <2> QED BY DEF Inv, Kernel
<1> QED BY <1>1, Invariance, PTL

-----------------------------------------------------------------------------
(* The lines. *)

\* What may still be in the pipe of a helper that is used, from earlier calls and
\* unasked: the answers to syncs that nobody waited for, an error of the TUN task,
\* and, once a check has failed, the answer to that.
LateLines(wide) == {"synced", "error"} \cup IF wide THEN {"on", "off"} ELSE {}
LateCommands(wide) == {"sync"} \cup IF wide THEN {"status"} ELSE {}

AllLate(wide, out, doing, in) ==
    /\ \A i \in DOMAIN out : out[i] \in LateLines(wide)
    /\ doing \in LateCommands(wide) \cup {"none"}
    /\ \A i \in DOMAIN in : in[i] \in LateCommands(wide)

\* What a command may be answered with.
Answers(command) ==
    CASE command = "status" -> {"on", "off", "error"}
      [] command \in {"start", "started"} -> {"active", "error"}
      [] command = "stop" -> {"stopped"}
      [] command = "sync" -> {"synced", "error"}
      [] OTHER -> {}

\* A call waits: what is its own is the last to be read, or being done, or was
\* answered; what comes before is late, and there is some if the call is behind.
Unread(wide, c, late, out, doing, in) ==
    /\ in # <<>> /\ in[Len(in)] = CommandOf[c]
    /\ \A i \in 1 .. Len(in) - 1 : in[i] \in LateCommands(wide)
    /\ doing \in LateCommands(wide) \cup {"none"}
    /\ \A i \in DOMAIN out : out[i] \in LateLines(wide)
    /\ late > 0 => out # <<>> \/ doing # "none" \/ Len(in) > 1
Doing(wide, c, late, out, doing, in) ==
    /\ in = <<>>
    /\ doing = CommandOf[c] \/ (doing = "started" /\ CommandOf[c] = "start")
    /\ \A i \in DOMAIN out : out[i] \in LateLines(wide)
    /\ late > 0 => out # <<>>
Answered(wide, c, late, out, doing, in) ==
    /\ in = <<>> /\ doing = "none"
    /\ \E k \in DOMAIN out :
         /\ out[k] \in Answers(CommandOf[c])
         /\ \A i \in DOMAIN out : /\ i < k => out[i] \in LateLines(wide)
                                  /\ i > k => out[i] = "error"
         /\ late > 0 => k > 1
Waiting(wide, c, late, out, doing, in) ==
    \/ Unread(wide, c, late, out, doing, in)
    \/ Doing(wide, c, late, out, doing, in)
    \/ Answered(wide, c, late, out, doing, in)

\* A helper that is not up yet has said and been told nothing.
Unheard ==
    \A p \in Process : proc[p] \in {"none", "prompt"} => stdin[p] = <<>> /\ stdout[p] = <<>>

\* One that is awaited says that it is ready, and nothing else.
Awaited ==
    launching # "none" =>
        /\ current = "none" /\ call = "none"
        /\ stdin[launching] = <<>> /\ job[launching] = "none" /\ ~session[launching]
        /\ stdout[launching] \in {<<>>, <<"ready">>}

\* The phases in which the worker waits for an answer.
Phased ==
    /\ call \in {"vet", "reset"} => phase = "away"
    /\ call = "start" => phase = "vetted"
    /\ call = "check" => phase = "session"
    /\ call = "stop" => phase = "leaving"

Heard ==
    /\ current = "none" => call = "none"
    /\ current # "none" =>
         /\ proc[current] \notin {"none", "prompt"}
         /\ call = "none" => AllLate(phase = "leaving" \/ ~Alive(current),
                                     stdout[current], job[current], stdin[current])
         /\ call # "none" => Waiting(phase = "leaving", call, behind,
                                     stdout[current], job[current], stdin[current])

Talk == Unheard /\ Awaited /\ Phased /\ Heard

\* What a helper does to its pipe: it takes a command up, begins to start, answers
\* what it does, or says unasked that something is wrong.
Speaks(out, doing, in, out2, doing2, in2) ==
    \/ out2 = out /\ doing2 = doing /\ in2 = in
    \/ /\ doing = "none" /\ in # <<>>
       /\ doing2 = Head(in) /\ in2 = Tail(in) /\ out2 = out
    \/ doing = "start" /\ doing2 = "started" /\ out2 = out /\ in2 = in
    \/ /\ doing2 = "none" /\ in2 = in
       /\ \E line \in Answers(doing) : out2 = Append(out, line)
    \/ doing = "none" /\ doing2 = "none" /\ in2 = in /\ out2 = Append(out, "error")

\* A sequence with one more at its end.
LEMMA Appended ==
    ASSUME NEW S, NEW s \in Seq(S), NEW x \in S
    PROVE  /\ Append(s, x) \in Seq(S) /\ Append(s, x) # <<>>
           /\ Len(Append(s, x)) = Len(s) + 1 /\ DOMAIN s = 1 .. Len(s) /\ Len(s) \in Nat
           /\ DOMAIN Append(s, x) = 1 .. Len(s) + 1
           /\ \A i \in DOMAIN s : Append(s, x)[i] = s[i]
           /\ Append(s, x)[Len(s) + 1] = x
OBVIOUS

\* A sequence without its first.
LEMMA Shortened ==
    ASSUME NEW S, NEW s \in Seq(S), s # <<>>
    PROVE  /\ Tail(s) \in Seq(S) /\ Len(Tail(s)) = Len(s) - 1 /\ Head(s) = s[1]
           /\ Head(s) \in S /\ DOMAIN s = 1 .. Len(s) /\ Len(s) \in Nat /\ Len(s) > 0
           /\ DOMAIN Tail(s) = 1 .. Len(s) - 1
           /\ \A i \in DOMAIN Tail(s) : i + 1 \in DOMAIN s /\ Tail(s)[i] = s[i + 1]
OBVIOUS

\* Late commands have late answers.
LEMMA LateAnswers ==
    ASSUME NEW wide \in BOOLEAN, NEW command \in LateCommands(wide) \cup {"none"},
           NEW line \in Answers(command)
    PROVE  line \in LateLines(wide)
BY DEF LateCommands, LateLines, Answers

\* Only these commands have answers.
LEMMA AnswersAreLines ==
    ASSUME NEW command, NEW line \in Answers(command)
    PROVE  line \in Line /\ command \in {"status", "start", "started", "stop", "sync"}
BY DEF Answers, Line

\* A helper adds late answers to late commands.
LEMMA LateStep ==
    ASSUME NEW wide \in BOOLEAN, NEW out \in Seq(Line), NEW doing, NEW in \in Seq(Command),
           NEW out2, NEW doing2, NEW in2,
           AllLate(wide, out, doing, in), Speaks(out, doing, in, out2, doing2, in2)
    PROVE  AllLate(wide, out2, doing2, in2)
<1>1. CASE out2 = out /\ doing2 = doing /\ in2 = in BY <1>1
<1>2. CASE doing = "none" /\ in # <<>> /\ doing2 = Head(in) /\ in2 = Tail(in) /\ out2 = out
    BY <1>2, Shortened DEF AllLate
<1>3. CASE doing = "start" /\ doing2 = "started" /\ out2 = out /\ in2 = in
    BY <1>3 DEF AllLate, LateCommands
<1>4. ASSUME doing2 = "none", in2 = in, NEW line \in LateLines(wide), out2 = Append(out, line)
      PROVE  AllLate(wide, out2, doing2, in2)
    <2>1. line \in Line BY DEF LateLines, Line
    <2>2. \A i \in DOMAIN out2 : out2[i] \in LateLines(wide)
        BY <1>4, <2>1, Appended DEF AllLate
    <2> QED BY <1>4, <2>2 DEF AllLate
<1>5. CASE doing2 = "none" /\ in2 = in /\ \E line \in Answers(doing) : out2 = Append(out, line)
    <2>1. PICK line \in Answers(doing) : out2 = Append(out, line) BY <1>5
    <2>2. line \in LateLines(wide) BY LateAnswers DEF AllLate
    <2> QED BY <1>4, <1>5, <2>1, <2>2
<1>6. CASE doing = "none" /\ doing2 = "none" /\ in2 = in /\ out2 = Append(out, "error")
    <2>1. "error" \in LateLines(wide) BY DEF LateLines
    <2> QED BY <1>4, <1>6, <2>1
<1> QED BY <1>1, <1>2, <1>3, <1>5, <1>6 DEF Speaks

\* What waits for its answer goes from unread to done to answered.
LEMMA WaitingStep ==
    ASSUME NEW wide \in BOOLEAN, NEW c \in Call, NEW late \in Nat,
           NEW out \in Seq(Line), NEW doing, NEW in \in Seq(Command),
           NEW out2, NEW doing2, NEW in2,
           Waiting(wide, c, late, out, doing, in), Speaks(out, doing, in, out2, doing2, in2)
    PROVE  Waiting(wide, c, late, out2, doing2, in2)
<1>0. CommandOf[c] \in Command /\ CommandOf[c] # "none" /\ CommandOf[c] # "started"
    BY DEF CommandOf, Call, Command
<1>1. CASE out2 = out /\ doing2 = doing /\ in2 = in BY <1>1
<1>2. CASE doing = "none" /\ in # <<>> /\ doing2 = Head(in) /\ in2 = Tail(in) /\ out2 = out
    <2>1. Unread(wide, c, late, out, doing, in)
        BY <1>0, <1>2 DEF Waiting, Doing, Answered
    <2>2. CASE Len(in) = 1
        <3>1. in2 = <<>> /\ doing2 = CommandOf[c] BY <1>2, <2>1, <2>2 DEF Unread
        <3>2. Doing(wide, c, late, out2, doing2, in2)
            BY <1>2, <2>1, <2>2, <3>1 DEF Unread, Doing
        <3> QED BY <3>2 DEF Waiting
    <2>3. CASE Len(in) # 1
        <3>0. /\ Tail(in) \in Seq(Command) /\ Len(Tail(in)) = Len(in) - 1 /\ Head(in) = in[1]
              /\ Len(in) \in Nat /\ Len(in) > 0 /\ DOMAIN Tail(in) = 1 .. Len(in) - 1
              /\ \A i \in DOMAIN Tail(in) : Tail(in)[i] = in[i + 1]
            BY <1>2, Shortened
        <3>1. /\ Len(in2) = Len(in) - 1 /\ Len(in) > 1 /\ Len(in) \in Nat
              /\ doing2 = in[1] /\ \A i \in 1 .. Len(in) - 1 : in2[i] = in[i + 1]
            BY <1>2, <2>3, <3>0
        <3>2. in2 # <<>> /\ in2[Len(in2)] = CommandOf[c]
            <4>1. Len(in2) \in 1 .. Len(in) - 1 /\ Len(in2) + 1 = Len(in) BY <3>1
            <4>2. in2[Len(in2)] = in[Len(in)] BY <3>1, <4>1
            <4> QED BY <2>1, <4>1, <4>2 DEF Unread
        <3>3. \A i \in 1 .. Len(in2) - 1 : in2[i] \in LateCommands(wide)
            BY <2>1, <3>1 DEF Unread
        <3>4. doing2 \in LateCommands(wide) /\ doing2 # "none"
            <4>1. 1 \in 1 .. Len(in) - 1 BY <3>1
            <4> QED BY <2>1, <3>1, <4>1 DEF Unread, LateCommands
        <3>5. Unread(wide, c, late, out2, doing2, in2)
            BY <1>2, <2>1, <3>2, <3>3, <3>4 DEF Unread
        <3> QED BY <3>5 DEF Waiting
    <2> QED BY <2>2, <2>3
<1>3. CASE doing = "start" /\ doing2 = "started" /\ out2 = out /\ in2 = in
    <2>1. Doing(wide, c, late, out, doing, in)
        BY <1>0, <1>3 DEF Waiting, Unread, Answered, LateCommands
    <2>2. Doing(wide, c, late, out2, doing2, in2)
        BY <1>0, <1>3, <2>1 DEF Doing
    <2> QED BY <2>2 DEF Waiting
<1>4. ASSUME doing2 = "none", in2 = in, NEW line \in LateLines(wide), out2 = Append(out, line),
             Unread(wide, c, late, out, doing, in)
      PROVE  Waiting(wide, c, late, out2, doing2, in2)
    <2>1. line \in Line BY DEF LateLines, Line
    <2>2. \A i \in DOMAIN out2 : out2[i] \in LateLines(wide)
        BY <1>4, <2>1, Appended DEF Unread
    <2>3. out2 # <<>> BY <1>4, <2>1, Appended
    <2>4. Unread(wide, c, late, out2, doing2, in2) BY <1>4, <2>2, <2>3 DEF Unread
    <2> QED BY <2>4 DEF Waiting
<1>5. CASE doing2 = "none" /\ in2 = in /\ \E line \in Answers(doing) : out2 = Append(out, line)
    <2>1. PICK line \in Answers(doing) : out2 = Append(out, line) BY <1>5
    <2>2. line \in Line /\ doing \in {"status", "start", "started", "stop", "sync"}
        BY AnswersAreLines
    <2>3. CASE Unread(wide, c, late, out, doing, in)
        <3>1. line \in LateLines(wide) BY <2>3, LateAnswers DEF Unread
        <3> QED BY <1>4, <1>5, <2>1, <2>3, <3>1
    <2>4. CASE Doing(wide, c, late, out, doing, in)
        <3>1. line \in Answers(CommandOf[c]) BY <2>1, <2>4 DEF Doing, Answers
        <3> DEFINE k == Len(out) + 1
        <3>2. /\ k \in DOMAIN out2 /\ out2[k] = line /\ k \in Nat
              /\ \A i \in DOMAIN out2 : /\ i < k => i \in DOMAIN out /\ out2[i] = out[i]
                                        /\ ~(i > k)
              /\ out # <<>> => k > 1
            BY <2>1, <2>2, Appended
        <3> HIDE DEF k
        <3>3. \A i \in DOMAIN out2 : /\ i < k => out2[i] \in LateLines(wide)
                                     /\ i > k => out2[i] = "error"
            BY <2>4, <3>2 DEF Doing
        <3>4. late > 0 => k > 1 BY <2>4, <3>2 DEF Doing
        <3>5. in2 = <<>> /\ doing2 = "none" BY <1>5, <2>4 DEF Doing
        <3>6. Answered(wide, c, late, out2, doing2, in2)
            BY <3>1, <3>2, <3>3, <3>4, <3>5 DEF Answered
        <3> QED BY <3>6 DEF Waiting
    <2>5. ~Answered(wide, c, late, out, doing, in) BY <2>2 DEF Answered
    <2> QED BY <2>3, <2>4, <2>5 DEF Waiting
<1>6. CASE doing = "none" /\ doing2 = "none" /\ in2 = in /\ out2 = Append(out, "error")
    <2>1. "error" \in LateLines(wide) /\ "error" \in Line BY DEF LateLines, Line
    <2>2. CASE Unread(wide, c, late, out, doing, in) BY <1>4, <1>6, <2>1, <2>2
    <2>3. ~Doing(wide, c, late, out, doing, in) BY <1>0, <1>6 DEF Doing
    <2>4. CASE Answered(wide, c, late, out, doing, in)
        <3>1. PICK k \in DOMAIN out :
                /\ out[k] \in Answers(CommandOf[c])
                /\ \A i \in DOMAIN out : /\ i < k => out[i] \in LateLines(wide)
                                         /\ i > k => out[i] = "error"
                /\ late > 0 => k > 1
            BY <2>4 DEF Answered
        <3>2. /\ k \in DOMAIN out2 /\ out2[k] = out[k]
              /\ \A i \in DOMAIN out2 : \/ i \in DOMAIN out /\ out2[i] = out[i]
                                        \/ out2[i] = "error" /\ ~(i < k)
            BY <1>6, <2>1, Appended
        <3>3. \A i \in DOMAIN out2 : /\ i < k => out2[i] \in LateLines(wide)
                                     /\ i > k => out2[i] = "error"
            BY <3>1, <3>2
        <3>4. in2 = <<>> /\ doing2 = "none" BY <1>6, <2>4 DEF Answered
        <3>5. Answered(wide, c, late, out2, doing2, in2)
            BY <3>1, <3>2, <3>3, <3>4 DEF Answered
        <3> QED BY <3>5 DEF Waiting
    <2> QED BY <2>2, <2>3, <2>4 DEF Waiting
<1> QED BY <1>1, <1>2, <1>3, <1>5, <1>6 DEF Speaks

\* Late stays late when more counts as late.
LEMMA LateWidens ==
    ASSUME NEW narrow \in BOOLEAN, NEW wide \in BOOLEAN, narrow => wide,
           NEW out, NEW doing, NEW in, AllLate(narrow, out, doing, in)
    PROVE  AllLate(wide, out, doing, in)
<1>1. LateLines(narrow) \subseteq LateLines(wide) BY DEF LateLines
<1>2. LateCommands(narrow) \subseteq LateCommands(wide) BY DEF LateCommands
<1> QED BY <1>1, <1>2 DEF AllLate

\* What a call leaves that is not waited for any more: the answer to a sync is late,
\* and that to a check once more counts as late.
LEMMA LeftBehind ==
    ASSUME NEW narrow \in BOOLEAN, NEW wide \in BOOLEAN, narrow => wide,
           NEW c \in {"sync", "check"}, c = "check" => wide, NEW late,
           NEW out \in Seq(Line), NEW doing, NEW in \in Seq(Command),
           Waiting(narrow, c, late, out, doing, in)
    PROVE  AllLate(wide, out, doing, in)
<1>1. LateLines(narrow) \subseteq LateLines(wide) /\ "error" \in LateLines(wide)
    BY DEF LateLines
<1>2. LateCommands(narrow) \subseteq LateCommands(wide) BY DEF LateCommands
<1>3. CommandOf[c] \in LateCommands(wide) /\ CommandOf[c] # "start"
    BY DEF CommandOf, LateCommands
<1>4. CASE Unread(narrow, c, late, out, doing, in)
    <2>1. DOMAIN in = 1 .. Len(in) /\ Len(in) \in Nat OBVIOUS
    <2>2. \A i \in DOMAIN in : i \in 1 .. Len(in) - 1 \/ i = Len(in) BY <2>1
    <2>3. \A i \in DOMAIN in : in[i] \in LateCommands(wide)
        BY <1>2, <1>3, <1>4, <2>2 DEF Unread
    <2> QED BY <1>1, <1>2, <1>4, <2>3 DEF Unread, AllLate
<1>5. CASE Doing(narrow, c, late, out, doing, in)
    BY <1>1, <1>3, <1>5 DEF Doing, AllLate
<1>6. CASE Answered(narrow, c, late, out, doing, in)
    <2>1. PICK k \in DOMAIN out :
            /\ out[k] \in Answers(CommandOf[c])
            /\ \A i \in DOMAIN out : /\ i < k => out[i] \in LateLines(narrow)
                                     /\ i > k => out[i] = "error"
        BY <1>6 DEF Answered
    <2>2. DOMAIN out = 1 .. Len(out) /\ Len(out) \in Nat OBVIOUS
    <2>3. out[k] \in LateLines(wide) BY <1>3, <2>1, LateAnswers
    <2>4. \A i \in DOMAIN out : i < k \/ i > k \/ i = k BY <2>2
    <2>5. \A i \in DOMAIN out : out[i] \in LateLines(wide)
        BY <1>1, <2>1, <2>3, <2>4
    <2> QED BY <1>6, <2>5 DEF Answered, AllLate
<1> QED BY <1>4, <1>5, <1>6 DEF Waiting

\* The first line is read.
LEMMA LateTail ==
    ASSUME NEW wide, NEW out \in Seq(Line), out # <<>>, NEW doing, NEW in,
           AllLate(wide, out, doing, in)
    PROVE  AllLate(wide, Tail(out), doing, in)
<1>1. \A i \in DOMAIN Tail(out) : i + 1 \in DOMAIN out /\ Tail(out)[i] = out[i + 1]
    BY Shortened
<1> QED BY <1>1 DEF AllLate

\* A line that is not late can only be the answer itself, nothing comes before it,
\* and after it only errors.
LEMMA OwnAnswer ==
    ASSUME NEW wide, NEW c, NEW late, NEW out \in Seq(Line), out # <<>>, NEW doing, NEW in,
           Waiting(wide, c, late, out, doing, in), Head(out) \notin LateLines(wide)
    PROVE  /\ in = <<>> /\ doing = "none" /\ ~(late > 0)
           /\ \A i \in DOMAIN Tail(out) : Tail(out)[i] = "error"
<1>1. /\ Head(out) = out[1] /\ 1 \in DOMAIN out
      /\ DOMAIN out = 1 .. Len(out) /\ Len(out) \in Nat
      /\ \A i \in DOMAIN Tail(out) : /\ i + 1 \in DOMAIN out /\ Tail(out)[i] = out[i + 1]
                                     /\ i \in Nat /\ i > 0
    <2>1. /\ Head(out) = out[1] /\ DOMAIN out = 1 .. Len(out)
          /\ Len(out) \in Nat /\ Len(out) > 0
          /\ DOMAIN Tail(out) = 1 .. Len(out) - 1
          /\ \A i \in DOMAIN Tail(out) : i + 1 \in DOMAIN out /\ Tail(out)[i] = out[i + 1]
        BY Shortened
    <2> QED BY <2>1
<1>2. ~Unread(wide, c, late, out, doing, in) BY <1>1 DEF Unread
<1>3. ~Doing(wide, c, late, out, doing, in) BY <1>1 DEF Doing
<1>4. PICK k \in DOMAIN out :
        /\ in = <<>> /\ doing = "none"
        /\ \A i \in DOMAIN out : /\ i < k => out[i] \in LateLines(wide)
                                 /\ i > k => out[i] = "error"
        /\ late > 0 => k > 1
    BY <1>2, <1>3 DEF Waiting, Answered
<1>5. k = 1 BY <1>1, <1>4
<1>6. \A i \in DOMAIN Tail(out) : i + 1 > k BY <1>1, <1>5
<1>7. \A i \in DOMAIN Tail(out) : Tail(out)[i] = "error" BY <1>1, <1>4, <1>6
<1>8. ~(late > 0) BY <1>4, <1>5
<1> QED BY <1>4, <1>7, <1>8

\* A call is made: what is there already is late, and if lines are to come there is
\* something they come from.
LEMMA Called ==
    ASSUME TypeOK, NEW p \in Process, NEW wide, NEW c \in Call,
           AllLate(wide, stdout[p], job[p], stdin[p])
    PROVE  Waiting(wide, c, Owed(p), stdout[p], job[p], Append(stdin[p], CommandOf[c]))
<1> DEFINE in == stdin[p]
           in2 == Append(in, CommandOf[c])
<1>1. in \in Seq(Command) /\ stdout[p] \in Seq(Line) BY DEF TypeOK
<1>2. CommandOf[c] \in Command BY DEF CommandOf, Call, Command
<1>3. AllLate(wide, stdout[p], job[p], in) OBVIOUS
<1>4. Owed(p) > 0 => stdout[p] # <<>> \/ job[p] # "none" \/ in # <<>>
    <2> SUFFICES ASSUME stdout[p] = <<>>, job[p] = "none", stdin[p] = <<>> PROVE Owed(p) = 0
        OBVIOUS
    <2>1. {i \in DOMAIN stdin[p] : stdin[p][i] # "quit"} = {} OBVIOUS
    <2>2. Cardinality({i \in DOMAIN stdin[p] : stdin[p][i] # "quit"}) = 0
        BY <2>1, FS_EmptySet
    <2> QED BY <2>2 DEF Owed
<1> HIDE DEF in
<1>5. /\ in2 # <<>> /\ Len(in2) = Len(in) + 1 /\ Len(in) \in Nat /\ DOMAIN in = 1 .. Len(in)
      /\ in2[Len(in) + 1] = CommandOf[c] /\ \A i \in DOMAIN in : in2[i] = in[i]
    BY <1>1, <1>2, Appended
<1>6. in # <<>> => Len(in) > 0 BY <1>1
<1> HIDE DEF in2
<1>7. in2[Len(in2)] = CommandOf[c] BY <1>5
<1>8. \A i \in 1 .. Len(in2) - 1 : in2[i] \in LateCommands(wide) BY <1>3, <1>5 DEF AllLate
<1>9. in # <<>> => Len(in2) > 1 BY <1>5, <1>6
<1>10. Unread(wide, c, Owed(p), stdout[p], job[p], in2)
    BY <1>3, <1>4, <1>5, <1>7, <1>8, <1>9 DEF Unread, AllLate
<1> QED BY <1>10 DEF Waiting, in, in2

\* Of the others a helper ends some at most.
LeavesOthers(p) ==
    \A q \in Process \ {p} :
        /\ stdin'[q] = stdin[q] /\ stdout'[q] = stdout[q] /\ job'[q] = job[q]
        /\ session'[q] = session[q] /\ proc'[q] \in {proc[q], "dead"}

\* One that comes up says that it is ready, if anything; one that is up speaks, to
\* whoever holds its pipe; without a command and a session it has nothing to say.
ComesUp(p) ==
    /\ job'[p] = job[p] /\ session'[p] = session[p] /\ stdin'[p] = stdin[p]
    /\ stdout'[p] \in {stdout[p], Append(stdout[p], "ready")}
SpeaksOf(p) == Speaks(stdout[p], job[p], stdin[p], stdout'[p], job'[p], stdin'[p])
Idle(p) == stdin[p] = <<>> /\ job[p] = "none" /\ ~session[p]
OnPipe(p) ==
    /\ UNCHANGED clientVars /\ LeavesOthers(p)
    /\ proc[p] # "none" /\ proc'[p] \notin {"none", "prompt"}
    /\ IF proc[p] = "prompt" THEN ComesUp(p)
       ELSE /\ Open(p) => SpeaksOf(p)
            /\ Idle(p) => stdout'[p] = stdout[p] /\ Idle(p)'

\* A command that is done is answered, to nobody or to the client.
LEMMA DoneOnPipe ==
    ASSUME TypeOK, NEW p \in Process, NEW line, NEW left \in BOOLEAN, Serving(p),
           Cleared(p) \/ Kept(p), Done(p, line, left),
           line \in Answers(job[p]) \/ (job[p] = "none" /\ session[p] /\ line = "error")
    PROVE  OnPipe(p)
<1>1. LeavesOthers(p) /\ proc'[p] \in {"serving", "dead"}
    <2>1. /\ stdin' = stdin
          /\ \A q \in Process \ {p} : /\ stdout'[q] = stdout[q] /\ job'[q] = job[q]
                                      /\ session'[q] = session[q]
        BY DEF Done, Writes, TypeOK
    <2>2. /\ \A q \in Process \ {p} : proc'[q] \in {proc[q], "dead"}
          /\ proc'[p] \in {"serving", "dead"}
        <3>1. CASE Cleared(p)
            BY <3>1, ClearingCleans DEF Cleared, Cleans, AfterWrite
        <3>2. CASE Kept(p) BY <3>2, KeptSpares DEF Spares
        <3> QED BY <3>1, <3>2
    <2> QED BY <2>1, <2>2 DEF LeavesOthers
<1>2. ASSUME Open(p) PROVE SpeaksOf(p)
    <2>1. stdin' = stdin /\ job'[p] = "none" /\ stdout'[p] = Append(stdout[p], line)
        BY <1>2 DEF Done, Writes, TypeOK
    <2> QED BY <2>1 DEF SpeaksOf, Speaks
<1>3. ~Idle(p) BY DEF Idle, Answers
<1>4. proc[p] = "serving" BY DEF Serving
<1> QED BY <1>1, <1>2, <1>3, <1>4 DEF OnPipe, Done

\* Every step of a helper is one of these.
LEMMA HelperOnPipe ==
    ASSUME TypeOK, NEW p \in Process, Helper(p) \/ ByItself(p)
    PROVE  OnPipe(p)
<1> USE DEF pipeVars
<1>0. /\ job[p] = "status" => {"on", "off", "error"} \subseteq Answers(job[p])
      /\ job[p] \in {"start", "started"} => {"active", "error"} \subseteq Answers(job[p])
      /\ job[p] = "stop" => "stopped" \in Answers(job[p])
      /\ job[p] = "sync" => {"synced", "error"} \subseteq Answers(job[p])
    BY DEF Answers
<1>1. session[p] \in BOOLEAN BY DEF TypeOK
<1>2. CASE Boot(p)
    <2>1. /\ UNCHANGED clientVars /\ proc[p] = "prompt" /\ Clearing(p, AfterWrite(p))
          /\ job' = job /\ session' = session /\ stdin' = stdin /\ Writes(p, "ready")
        BY <1>2 DEF Boot
    <2>2. proc'[p] \in {"serving", "dead"} /\ Cleans(p)
        BY <2>1, ClearingCleans DEF AfterWrite
    <2>3. /\ \A q \in Process \ {p} : stdout'[q] = stdout[q]
          /\ stdout'[p] \in {stdout[p], Append(stdout[p], "ready")}
        BY <2>1 DEF Writes, TypeOK
    <2>4. LeavesOthers(p) /\ ComesUp(p) BY <2>1, <2>2, <2>3 DEF LeavesOthers, ComesUp, Cleans
    <2> QED BY <2>1, <2>2, <2>4 DEF OnPipe
<1>3. CASE Read(p)
    <2>1. /\ UNCHANGED clientVars /\ proc[p] = "serving" /\ proc' = proc
          /\ session' = session /\ stdout' = stdout
          /\ job[p] = "none" /\ stdin[p] # <<>>
          /\ job' = [job EXCEPT ![p] = Head(stdin[p])]
          /\ stdin' = [stdin EXCEPT ![p] = Tail(@)]
        BY <1>3 DEF Read, Serving
    <2>2. LeavesOthers(p) BY <2>1 DEF LeavesOthers, TypeOK
    <2>3. job'[p] = Head(stdin[p]) /\ stdin'[p] = Tail(stdin[p]) BY <2>1 DEF TypeOK
    <2>4. SpeaksOf(p) /\ ~Idle(p) BY <2>1, <2>3 DEF SpeaksOf, Speaks, Idle
    <2> QED BY <2>1, <2>2, <2>4 DEF OnPipe
<1>4. CASE SetUp(p)
    <2>1. /\ UNCHANGED clientVars /\ proc[p] = "serving" /\ job[p] = "start"
          /\ job' = [job EXCEPT ![p] = "started"]
          /\ session' = [session EXCEPT ![p] = FALSE]
          /\ proc' = [q \in Process |-> IF q # p /\ Alive(q) THEN "dead" ELSE proc[q]]
          /\ stdin' = stdin /\ stdout' = stdout
        BY <1>4 DEF SetUp, Serving
    <2>2. LeavesOthers(p) /\ proc'[p] = "serving" BY <2>1 DEF LeavesOthers, TypeOK
    <2>3. job'[p] = "started" BY <2>1 DEF TypeOK
    <2>4. SpeaksOf(p) /\ ~Idle(p) BY <2>1, <2>3 DEF SpeaksOf, Speaks, Idle
    <2> QED BY <2>1, <2>2, <2>4 DEF OnPipe
<1>5. CASE Started(p) \/ RollsBack(p) \/ Stops(p) \/ FindsSick(p) \/ SyncFails(p) \/ TunEnds(p)
    BY <1>0, <1>5, DoneOnPipe
    DEF Started, RollsBack, Stops, FindsSick, SyncFails, TunEnds, Serving
<1>6. CASE TellsStatus(p) \/ Syncs(p)
    BY <1>0, <1>1, <1>6, DoneOnPipe DEF TellsStatus, Syncs
<1>7. ASSUME UNCHANGED clientVars, job' = job, stdin' = stdin, stdout' = stdout,
             proc[p] # "none", LeavesOthers(p), proc'[p] \notin {"none", "prompt"},
             proc[p] = "prompt" => session' = session,
             session'[p] \in {session[p], FALSE}
      PROVE  OnPipe(p)
    BY <1>7 DEF OnPipe, ComesUp, SpeaksOf, Speaks, Idle
<1>8. CASE TickFails(p) \/ ClosesDown(p)
    <2>1. /\ UNCHANGED clientVars /\ proc[p] \in {"serving", "closing"}
          /\ Clearing(p, "serving") \/ Clearing(p, "dead")
          /\ session' = [session EXCEPT ![p] = FALSE]
          /\ job' = job /\ stdin' = stdin /\ stdout' = stdout
        BY <1>8 DEF TickFails, ClosesDown, Serving
    <2>2. proc'[p] \in {"serving", "dead"} /\ Cleans(p) BY <2>1, ClearingCleans
    <2>3. LeavesOthers(p) /\ session'[p] = FALSE
        BY <2>1, <2>2 DEF LeavesOthers, Cleans, TypeOK
    <2> QED BY <1>7, <2>1, <2>2, <2>3
<1>9. CASE Closes(p) \/ Terminated(p) \/ Killed(p)
    <2>1. /\ UNCHANGED clientVars /\ Alive(p)
          /\ proc' = [proc EXCEPT ![p] = "closing"] \/ proc' = [proc EXCEPT ![p] = "dead"]
          /\ session' = session /\ job' = job /\ stdin' = stdin /\ stdout' = stdout
        BY <1>9 DEF Closes, Terminated, Killed, Serving, Alive, Living
    <2>2. LeavesOthers(p) /\ proc'[p] \in {"closing", "dead"} BY <2>1 DEF LeavesOthers, TypeOK
    <2>3. proc[p] # "none" BY <2>1 DEF Alive, Living
    <2> QED BY <1>7, <2>1, <2>2, <2>3
<1> QED BY <1>2, <1>3, <1>4, <1>5, <1>6, <1>8, <1>9 DEF Helper, ByItself

\* What has been said stays so while helpers work.
LEMMA TalkHelper ==
    ASSUME Inv, Talk, NEW p \in Process, Helper(p) \/ ByItself(p)
    PROVE  Talk'
<1>0. TypeOK /\ OnPipe(p) BY HelperOnPipe DEF Inv
<1>1. /\ phase' = phase /\ current' = current /\ launching' = launching /\ call' = call
      /\ behind' = behind
    BY <1>0 DEF OnPipe, clientVars
<1>2. /\ phase \in Phase /\ behind \in Nat /\ call \in Call \cup {"none"}
      /\ \A q \in Process : stdout[q] \in Seq(Line) /\ stdin[q] \in Seq(Command)
      /\ current \in Process \cup {"none"} /\ launching \in Process \cup {"none"}
    BY <1>0 DEF TypeOK
<1>3. Unheard' BY <1>0 DEF Talk, Unheard, OnPipe, LeavesOthers
<1>4. Awaited'
    <2> SUFFICES ASSUME launching # "none"
                 PROVE  /\ stdin'[launching] = <<>> /\ job'[launching] = "none"
                        /\ ~session'[launching] /\ stdout'[launching] \in {<<>>, <<"ready">>}
                        /\ current = "none" /\ call = "none"
        BY <1>1 DEF Awaited
    <2>1. /\ Idle(launching) /\ stdout[launching] \in {<<>>, <<"ready">>}
          /\ current = "none" /\ call = "none" /\ launching \in Process
        BY <1>2 DEF Talk, Awaited, Idle
    <2>2. CASE launching # p BY <1>0, <2>1, <2>2 DEF OnPipe, LeavesOthers, Idle
    <2>3. CASE launching = p /\ proc[p] = "prompt"
        <3>1. ComesUp(p) BY <1>0, <2>3 DEF OnPipe
        <3>2. stdout[p] = <<>> BY <2>3 DEF Talk, Unheard
        <3>3. stdout'[p] \in {<<>>, <<"ready">>} BY <3>1, <3>2 DEF ComesUp
        <3> QED BY <2>1, <2>3, <3>1, <3>3 DEF ComesUp, Idle
    <2>4. CASE launching = p /\ proc[p] # "prompt"
        BY <1>0, <2>1, <2>4 DEF OnPipe, Idle
    <2> QED BY <2>2, <2>3, <2>4
<1>5. Phased' BY <1>1 DEF Talk, Phased
<1>6. Heard'
    <2>0. current = "none" => call = "none" BY DEF Talk, Heard
    <2> SUFFICES ASSUME current # "none"
                 PROVE  /\ proc'[current] \notin {"none", "prompt"}
                        /\ call = "none" => AllLate(phase = "leaving" \/ ~Alive(current)',
                                              stdout'[current], job'[current],
                                              stdin'[current])
                        /\ call # "none" => Waiting(phase = "leaving", call, behind,
                                              stdout'[current], job'[current],
                                              stdin'[current])
        BY <1>1, <2>0 DEF Heard
    <2> DEFINE out == stdout[current]
               in == stdin[current]
               doing == job[current]
               out2 == stdout'[current]
               in2 == stdin'[current]
               doing2 == job'[current]
               dead == phase = "leaving" \/ ~Alive(current)
               dead2 == phase = "leaving" \/ ~Alive(current)'
               wide == phase = "leaving"
    <2>1. /\ current \in Process /\ proc[current] \notin {"none", "prompt"}
          /\ call = "none" => AllLate(dead, out, doing, in)
          /\ call # "none" => Waiting(wide, call, behind, out, doing, in)
        BY <1>2 DEF Talk, Heard
    <2>2. /\ Speaks(out, doing, in, out2, doing2, in2)
          /\ proc'[current] \notin {"none", "prompt"}
          /\ current = p \/ proc'[current] \in {proc[current], "dead"}
        <3>1. CASE current = p BY <1>0, <2>1, <3>1 DEF OnPipe, Open, SpeaksOf
        <3>2. CASE current # p
            BY <1>0, <2>1, <3>2 DEF OnPipe, LeavesOthers, Speaks
        <3> QED BY <3>1, <3>2
    <2>3. dead => dead2
        <3>1. ASSUME proc[current] = "dead" PROVE proc'[current] = "dead"
            <4>1. CASE current # p BY <1>0, <2>1, <3>1, <4>1 DEF OnPipe, LeavesOthers
            <4>2. CASE current = p
                <5>1. ~Helper(p) /\ ~ByItself(p)
                    BY <3>1, <4>2 DEF Helper, ByItself, Read, SetUp, Started, RollsBack, Stops,
                       TellsStatus, FindsSick, Syncs, SyncFails, Closes, ClosesDown, Boot,
                       TickFails, TunEnds, Terminated, Killed, Serving, Alive, Living
                <5> QED BY <5>1
            <4> QED BY <4>1, <4>2
        <3>2. proc[current] \in Living \cup {"none", "dead"} BY <1>0, <2>1 DEF TypeOK
        <3>3. ~Alive(current) => ~Alive(current)'
            BY <1>1, <2>1, <3>1, <3>2 DEF Alive, Living
        <3> QED BY <3>3
    <2>4. dead \in BOOLEAN /\ dead2 \in BOOLEAN /\ wide \in BOOLEAN OBVIOUS
    <2>5. out \in Seq(Line) /\ in \in Seq(Command) BY <1>2, <2>1
    <2> HIDE DEF out, in, doing, out2, in2, doing2, dead, dead2, wide
    <2>6. ASSUME call = "none" PROVE AllLate(dead2, out2, doing2, in2)
        <3>1. AllLate(dead, out2, doing2, in2) BY <2>1, <2>2, <2>4, <2>5, <2>6, LateStep
        <3> QED BY <2>3, <2>4, <3>1, LateWidens
    <2>7. ASSUME call # "none" PROVE Waiting(wide, call, behind, out2, doing2, in2)
        BY <1>2, <2>1, <2>2, <2>4, <2>5, <2>7, WaitingStep
    <2> QED BY <2>2, <2>6, <2>7 DEF out2, in2, doing2, dead2, wide
<1> QED BY <1>3, <1>4, <1>5, <1>6 DEF Talk

\* A client's step that is not a launch leaves the processes alone, and the pipes of
\* all but its own helper.
Untouched(p) ==
    /\ UNCHANGED daemonVars
    /\ \A q \in Process \ {p} : stdin'[q] = stdin[q] /\ stdout'[q] = stdout[q]

\* The parts of Talk about the pipe of the session after such a step, with a call that
\* waits or without one.
Hears(p, now) ==
    /\ now = "none" => AllLate((phase = "leaving" \/ ~Alive(p))',
                               stdout'[p], job'[p], stdin'[p])
    /\ now # "none" => Waiting((phase = "leaving")', now, behind',
                               stdout'[p], job'[p], stdin'[p])

\* A client's step for its helper needs to be looked at in that pipe alone.
LEMMA TalkComposes ==
    ASSUME Talk, NEW p \in Process, current = p, launching = "none", launching' = "none",
           Untouched(p), Phased',
           \/ current' = "none" /\ call' = "none"
           \/ current' = p /\ Hears(p, call')
    PROVE  Talk'
<1>1. proc[p] \notin {"none", "prompt"}
    <2>1. p # "none" BY ProcessAssumption
    <2> QED BY <2>1 DEF Talk, Heard
<1>2. proc' = proc /\ job' = job BY DEF Untouched, daemonVars
<1>3. Unheard' BY <1>1, <1>2 DEF Talk, Unheard, Untouched
<1>4. Awaited' BY DEF Awaited
<1>5. Heard'
    <2>1. CASE current' = "none" /\ call' = "none" BY <2>1 DEF Heard
    <2>2. CASE current' = p /\ Hears(p, call')
        <3>1. p # "none" BY ProcessAssumption
        <3> QED BY <1>1, <1>2, <2>2, <3>1 DEF Heard, Hears, Alive
    <2> QED BY <2>1, <2>2
<1> QED BY <1>3, <1>4, <1>5 DEF Talk

\* The pipe of the session before a step.
LEMMA TalkNow ==
    ASSUME TypeOK, Talk, NEW p \in Process, current = p
    PROVE  /\ launching = "none" /\ proc[p] \notin {"none", "prompt"}
           /\ stdin[p] \in Seq(Command) /\ stdout[p] \in Seq(Line)
           /\ phase \in Phase /\ behind \in Nat /\ call \in Call \cup {"none"}
           /\ call = "none" => AllLate(phase = "leaving" \/ ~Alive(p),
                                       stdout[p], job[p], stdin[p])
           /\ call # "none" => Waiting(phase = "leaving", call, behind,
                                       stdout[p], job[p], stdin[p])
<1>1. p # "none" BY ProcessAssumption
<1> QED BY <1>1 DEF TypeOK, Talk, Heard, Awaited

\* An answer that was waited for is not late, but for that to a sync.
LEMMA WantedIsNew ==
    ASSUME NEW c \in Call \ {"quit", "sync"}, c = "stop" <=> phase = "leaving",
           NEW line, line = Wanted[c]
    PROVE  line \notin LateLines(phase = "leaving")
BY DEF Wanted, LateLines, Call

\* Errors are late at any time.
LEMMA ErrorsAreLate ==
    ASSUME NEW wide, NEW out, \A i \in DOMAIN out : out[i] = "error"
    PROVE  AllLate(wide, out, "none", <<>>)
BY DEF AllLate, LateLines

\* When a call has its answer, or is given up, what is left in the pipe is late; the
\* success of a call that is not a sync was no late answer.
LEMMA SuccessIsNew ==
    ASSUME TypeOK, Talk, NEW p \in Process, Succeeds(p), call # "sync"
    PROVE  /\ ~(behind > 0) /\ stdin[p] = <<>> /\ job[p] = "none"
           /\ \A i \in DOMAIN Tail(stdout[p]) : Tail(stdout[p])[i] = "error"
<1>1. /\ current = p /\ call # "none" /\ stdout[p] # <<>> /\ call # "quit"
      /\ Head(stdout[p]) = Wanted[call]
    BY DEF Succeeds, TakeLine, WantedLine
<1>2. /\ stdout[p] \in Seq(Line) /\ call \in Call \ {"quit", "sync"}
      /\ Waiting(phase = "leaving", call, behind, stdout[p], job[p], stdin[p])
    BY <1>1, TalkNow
<1>3. call = "stop" <=> phase = "leaving"
    BY <1>2 DEF Talk, Phased, Call
<1>4. Head(stdout[p]) \notin LateLines(phase = "leaving")
    BY <1>1, <1>2, <1>3, WantedIsNew
<1> DEFINE wide == phase = "leaving"
           out == stdout[p]
           doing == job[p]
           in == stdin[p]
<1>5. /\ out \in Seq(Line) /\ out # <<>> /\ Head(out) \notin LateLines(wide)
      /\ Waiting(wide, call, behind, out, doing, in)
    BY <1>1, <1>2, <1>4
<1> HIDE DEF wide, out, doing, in
<1>6. /\ in = <<>> /\ doing = "none" /\ ~(behind > 0)
      /\ \A i \in DOMAIN Tail(out) : Tail(out)[i] = "error"
    BY <1>5, OwnAnswer
<1> QED BY <1>6 DEF out, doing, in

\* The call is over, and its helper goes on being used.
LEMMA CallEnds ==
    ASSUME TypeOK, Talk, NEW p \in Process, current = p, call \in {"sync", "check"},
           UNCHANGED daemonVars, stdin' = stdin,
           stdout'[p] = stdout[p] \/ (stdout[p] # <<>> /\ stdout'[p] = Tail(stdout[p])),
           \A q \in Process \ {p} : stdout'[q] = stdout[q],
           current' = p, launching' = launching, call' = "none",
           phase' = IF call = "check" THEN "leaving" ELSE phase
    PROVE  Talk'
<1>1. /\ launching = "none" /\ stdin[p] \in Seq(Command) /\ stdout[p] \in Seq(Line)
      /\ Waiting(phase = "leaving", call, behind, stdout[p], job[p], stdin[p])
    BY TalkNow
<1> DEFINE narrow == phase = "leaving"
           wide == (phase = "leaving" \/ ~Alive(p))'
           doing == job[p]
           in == stdin[p]
           out == stdout[p]
<1>2. /\ narrow \in BOOLEAN /\ wide \in BOOLEAN /\ (narrow => wide)
      /\ (call = "check" => wide)
    OBVIOUS
<1>3. /\ Waiting(narrow, call, behind, out, doing, in)
      /\ out \in Seq(Line) /\ in \in Seq(Command)
      /\ stdout'[p] = out \/ (out # <<>> /\ stdout'[p] = Tail(out))
    BY <1>1
<1>4. Untouched(p) /\ job'[p] = doing /\ stdin'[p] = in BY DEF Untouched, daemonVars
<1>5. Phased' BY DEF Phased
<1>6. AllLate(wide, stdout'[p], job'[p], stdin'[p]) => Hears(p, call') BY DEF Hears
<1> HIDE DEF narrow, wide, doing, in, out
<1>7. AllLate(wide, out, doing, in) BY <1>2, <1>3, LeftBehind
<1>8. out # <<>> => AllLate(wide, Tail(out), doing, in) BY <1>3, <1>7, LateTail
<1>9. AllLate(wide, stdout'[p], job'[p], stdin'[p]) BY <1>3, <1>4, <1>7, <1>8
<1> QED BY <1>1, <1>4, <1>5, <1>6, <1>9, TalkComposes

\* What has been said stays so while the client calls.
LEMMA TalkClient ==
    ASSUME Inv, Talk, Client
    PROVE  Talk'
<1> USE DEF daemonVars, pipeVars
<1>0. TypeOK /\ (current = "none" => call = "none") /\ launching \in Process \cup {"none"}
      /\ current \in Process \cup {"none"}
    BY DEF Inv, TypeOK, Talk, Heard
<1>1. ASSUME NEW p \in Process, Launch(p) PROVE Talk'
    <2>1. /\ current = "none" /\ call = "none" /\ launching = "none" /\ proc[p] = "none"
          /\ proc' = [proc EXCEPT ![p] = "prompt"] /\ launching' = p
          /\ current' = current /\ call' = call /\ job' = job /\ session' = session
          /\ stdin' = stdin /\ stdout' = stdout /\ phase' = phase
        BY <1>1 DEF Launch
    <2>2. stdin[p] = <<>> /\ stdout[p] = <<>> /\ job[p] = "none" /\ ~session[p]
        BY <2>1 DEF Talk, Unheard, Inv, Fresh
    <2>3. Unheard' BY <1>0, <2>1, <2>2 DEF Talk, Unheard, TypeOK
    <2>4. stdout[p] \in {<<>>, <<"ready">>} BY <2>2
    <2>5. Awaited' BY <2>1, <2>2, <2>4 DEF Awaited
    <2>6. Phased' BY <2>1 DEF Phased
    <2>7. Heard' BY <2>1 DEF Heard
    <2> QED BY <2>3, <2>5, <2>6, <2>7 DEF Talk
<1>2. ASSUME NEW p \in Process, TakeReady(p) PROVE Talk'
    <2>1. /\ launching = p /\ stdout[p] # <<>> /\ launching' = "none" /\ current' = p
          /\ stdout' = [stdout EXCEPT ![p] = Tail(@)] /\ phase' = "vetted"
          /\ call' = call /\ proc' = proc /\ job' = job /\ stdin' = stdin
        BY <1>2 DEF TakeReady
    <2>2. p # "none" BY ProcessAssumption
    <2>3. /\ call = "none" /\ stdin[p] = <<>> /\ job[p] = "none"
          /\ stdout[p] \in {<<>>, <<"ready">>}
        BY <2>1, <2>2 DEF Talk, Awaited
    <2>4. stdout \in [Process -> Seq(Line)] BY <1>0 DEF TypeOK
    <2>5. stdout'[p] = <<>>
        <3>1. stdout'[p] = Tail(stdout[p]) BY <2>1, <2>4
        <3>2. stdout[p] = <<"ready">> BY <2>1, <2>3
        <3> QED BY <3>1, <3>2
    <2>6. proc[p] \notin {"none", "prompt"} BY <2>1 DEF Talk, Unheard
    <2>7. Unheard' BY <2>1, <2>4, <2>6 DEF Talk, Unheard
    <2>8. Awaited' BY <2>1 DEF Awaited
    <2>9. Phased' BY <2>1, <2>3 DEF Phased
    <2>10. ASSUME NEW wide PROVE AllLate(wide, stdout'[p], job'[p], stdin'[p])
        <3>1. \A i \in DOMAIN <<>> : FALSE OBVIOUS
        <3>2. stdin'[p] = <<>> /\ job'[p] = "none" BY <2>1, <2>3
        <3> QED BY <2>5, <3>1, <3>2 DEF AllLate
    <2>11. Heard' BY <2>1, <2>2, <2>3, <2>6, <2>10 DEF Heard
    <2> QED BY <2>7, <2>8, <2>9, <2>11 DEF Talk
<1>3. ASSUME NEW p \in Process, LaunchFails(p) PROVE Talk'
    <2>1. /\ launching = p /\ launching' = "none" /\ current' = current /\ call' = call
          /\ proc' = [proc EXCEPT ![p] = IF @ = "prompt" THEN "dead" ELSE @]
          /\ phase' = phase /\ stdin' = stdin /\ stdout' = stdout
        BY <1>3 DEF LaunchFails
    <2>2. current = "none" /\ call = "none"
        <3>1. p # "none" BY ProcessAssumption
        <3> QED BY <2>1, <3>1 DEF Talk, Awaited
    <2>3. Unheard' BY <1>0, <2>1 DEF Talk, Unheard, TypeOK
    <2>4. Awaited' /\ Phased' /\ Heard' BY <2>1, <2>2 DEF Awaited, Phased, Heard
    <2> QED BY <2>3, <2>4 DEF Talk
<1>4. ASSUME NEW p \in Process, Succeeds(p) PROVE Talk'
    <2>1. /\ current = p /\ call # "none" /\ call # "quit" /\ stdout[p] # <<>>
          /\ stdout' = [stdout EXCEPT ![p] = Tail(@)] /\ stdin' = stdin
          /\ launching' = launching /\ UNCHANGED daemonVars
          /\ current' = current /\ call' = "none" /\ phase' = NextPhase[call]
        BY <1>4 DEF Succeeds, TakeLine, WantedLine
    <2>2. /\ stdout'[p] = Tail(stdout[p]) /\ \A q \in Process \ {p} : stdout'[q] = stdout[q]
        BY <1>0, <2>1 DEF TypeOK
    <2>3. CASE call = "sync"
        <3>1. phase' = phase BY <2>1, <2>3 DEF NextPhase
        <3> QED BY <1>0, <2>1, <2>2, <2>3, <3>1, CallEnds
    <2>4. CASE call # "sync"
        <3>1. /\ stdin[p] = <<>> /\ job[p] = "none"
              /\ \A i \in DOMAIN Tail(stdout[p]) : Tail(stdout[p])[i] = "error"
            BY <1>0, <1>4, <2>4, SuccessIsNew
        <3>2. stdin'[p] = <<>> /\ job'[p] = "none" BY <2>1, <3>1
        <3>3. \A i \in DOMAIN stdout'[p] : stdout'[p][i] = "error" BY <2>2, <3>1
        <3>4. ASSUME NEW wide PROVE AllLate(wide, stdout'[p], job'[p], stdin'[p])
            BY <3>2, <3>3, ErrorsAreLate
        <3>5. Hears(p, call') BY <2>1, <3>4 DEF Hears
        <3>6. launching = "none" BY <1>0, <2>1, TalkNow
        <3>7. Phased' BY <2>1 DEF Phased
        <3>8. Untouched(p) BY <2>1, <2>2 DEF Untouched
        <3> QED BY <2>1, <3>5, <3>6, <3>7, <3>8, TalkComposes
    <2> QED BY <2>3, <2>4
<1>5. ASSUME NEW p \in Process, current = p, call \in Call, NEW active, Failed(active),
             UNCHANGED daemonVars, stdin' = stdin, launching' = launching,
             stdout'[p] = stdout[p] \/ (stdout[p] # <<>> /\ stdout'[p] = Tail(stdout[p])),
             \A q \in Process \ {p} : stdout'[q] = stdout[q]
      PROVE  Talk'
    <2>1. CASE call \in {"vet", "reset", "start", "stop", "quit"}
        <3>1. current' = "none" /\ call' = "none"
            BY <1>5, <2>1 DEF Failed, Discard
        <3>2. launching = "none" BY <1>0, <1>5, TalkNow
        <3>3. Phased' BY <3>1 DEF Phased
        <3>4. Untouched(p) BY <1>5 DEF Untouched
        <3> QED BY <1>5, <3>1, <3>2, <3>3, <3>4, TalkComposes
    <2>2. CASE call = "check"
        <3>1. current' = p /\ call' = "none" /\ phase' = "leaving"
            BY <1>5, <2>2 DEF Failed
        <3> QED BY <1>0, <1>5, <2>2, <3>1, CallEnds
    <2>3. CASE call = "sync"
        <3>1. current' = p /\ call' = "none" /\ phase' = phase
            BY <1>5, <2>3 DEF Failed
        <3> QED BY <1>0, <1>5, <2>3, <3>1, CallEnds
    <2> QED BY <1>5, <2>1, <2>2, <2>3 DEF Call
<1>6. ASSUME NEW p \in Process, Fails(p) PROVE Talk'
    <2>1. /\ TakeLine(p) /\ ~WantedLine(Head(stdout[p]))
          /\ \/ call = "vet" /\ Head(stdout[p]) = "on" /\ StopNext(p)
             \/ /\ Failed(isActive /\ Head(stdout[p]) \notin {"error", "off"})
                /\ UNCHANGED stdin
        BY <1>6 DEF Fails
    <2>2. /\ current = p /\ call # "none" /\ stdout[p] # <<>>
          /\ stdout' = [stdout EXCEPT ![p] = Tail(@)]
          /\ launching' = launching /\ UNCHANGED daemonVars
        BY <2>1 DEF TakeLine
    <2>3. /\ stdout'[p] = Tail(stdout[p]) /\ \A q \in Process \ {p} : stdout'[q] = stdout[q]
          /\ call \in Call
        BY <1>0, <2>2 DEF TypeOK
    <2>4. CASE call = "vet" /\ Head(stdout[p]) = "on" /\ StopNext(p)
        <3>1. /\ stdin' = [stdin EXCEPT ![p] = Append(@, "stop")] /\ call' = "reset"
              /\ behind' = Owed(p) - 1 /\ phase' = phase /\ current' = current
            BY <2>4 DEF StopNext
        <3>2. /\ stdout[p] \in Seq(Line)
              /\ Waiting(phase = "leaving", call, behind, stdout[p], job[p], stdin[p])
            BY <1>0, <2>2, TalkNow
        <3>3. phase = "away" BY <2>4 DEF Talk, Phased
        <3>4. Head(stdout[p]) \notin LateLines(phase = "leaving")
            BY <2>4, <3>3 DEF LateLines
        <3>5. /\ stdin[p] = <<>> /\ job[p] = "none"
              /\ \A i \in DOMAIN Tail(stdout[p]) : Tail(stdout[p])[i] = "error"
            <4> DEFINE wide == phase = "leaving"
                       out == stdout[p]
                       doing == job[p]
                       in == stdin[p]
            <4>1. /\ out \in Seq(Line) /\ out # <<>> /\ Head(out) \notin LateLines(wide)
                  /\ Waiting(wide, call, behind, out, doing, in)
                BY <2>2, <3>2, <3>4
            <4> HIDE DEF wide, out, doing, in
            <4>2. /\ in = <<>> /\ doing = "none" /\ ~(behind > 0)
                  /\ \A i \in DOMAIN Tail(out) : Tail(out)[i] = "error"
                BY <4>1, OwnAnswer
            <4> QED BY <4>2 DEF out, doing, in
        <3>6. stdin'[p] = <<"stop">> /\ job'[p] = "none"
              /\ \A q \in Process \ {p} : stdin'[q] = stdin[q]
            <4>1. stdin'[p] = Append(stdin[p], "stop")
                  /\ \A q \in Process \ {p} : stdin'[q] = stdin[q]
                BY <1>0, <3>1 DEF TypeOK
            <4> QED BY <2>2, <3>5, <4>1
        <3>7. \A i \in DOMAIN stdout'[p] : stdout'[p][i] \in LateLines(phase' = "leaving")
            BY <2>3, <3>5 DEF LateLines
        <3>8. behind' > 0 => stdout'[p] # <<>>
            <4>1. Owed(p) = Len(stdout[p])
                <5>1. {i \in DOMAIN stdin[p] : stdin[p][i] # "quit"} = {} BY <3>5
                <5>2. Cardinality({i \in DOMAIN stdin[p] : stdin[p][i] # "quit"}) = 0
                    BY <5>1, FS_EmptySet
                <5>3. Len(stdout[p]) \in Nat BY <3>2
                <5> QED BY <3>5, <5>2, <5>3 DEF Owed
            <4>2. Len(Tail(stdout[p])) = Len(stdout[p]) - 1 /\ Tail(stdout[p]) \in Seq(Line)
                BY <2>2, <3>2, Shortened
            <4>3. behind' = Len(stdout'[p]) BY <2>3, <3>1, <4>1, <4>2
            <4> QED BY <4>3
        <3>9. Unread(phase' = "leaving", "reset", behind', stdout'[p], job'[p], stdin'[p])
            <4>1. CommandOf["reset"] = "stop" BY DEF CommandOf
            <4>2. /\ stdin'[p] # <<>> /\ Len(stdin'[p]) = 1 /\ stdin'[p][1] = "stop"
                BY <3>6
            <4>3. \A i \in 1 .. Len(stdin'[p]) - 1 : FALSE BY <4>2
            <4> QED BY <3>6, <3>7, <3>8, <4>1, <4>2, <4>3 DEF Unread
        <3>10. Hears(p, call') BY <3>1, <3>9 DEF Hears, Waiting
        <3>11. launching = "none" BY <1>0, <2>2, TalkNow
        <3>12. Phased' BY <3>1, <3>3 DEF Phased
        <3>13. Untouched(p) BY <2>2, <2>3, <3>6 DEF Untouched
        <3> QED BY <2>2, <3>1, <3>10, <3>11, <3>12, <3>13, TalkComposes
    <2>5. ASSUME NEW active, Failed(active), UNCHANGED stdin PROVE Talk'
        BY <1>5, <2>2, <2>3, <2>5
    <2> QED BY <2>1, <2>4, <2>5
<1>7. ASSUME NEW c \in Call, MakeCall(c) PROVE Talk'
    <2>1. PICK p \in Process :
            /\ current = p /\ call = "none" /\ launching = "none" /\ MayCall(c) /\ Alive(p)
            /\ Write(p, c)
            /\ UNCHANGED <<phase, current, launching, isActive, gui, daemonVars, stdout>>
        BY <1>7 DEF MakeCall
    <2>2. /\ stdin' = [stdin EXCEPT ![p] = Append(@, CommandOf[c])]
          /\ call' = c /\ behind' = Owed(p)
        BY <2>1 DEF Write
    <2>3. AllLate(phase = "leaving", stdout[p], job[p], stdin[p])
        BY <1>0, <2>1, TalkNow
    <2>4. Waiting(phase = "leaving", c, Owed(p), stdout[p], job[p],
                  Append(stdin[p], CommandOf[c]))
        BY <1>0, <2>3, Called
    <2>5. /\ stdin'[p] = Append(stdin[p], CommandOf[c])
          /\ \A q \in Process \ {p} : stdin'[q] = stdin[q]
        BY <1>0, <2>2 DEF TypeOK
    <2>6. Hears(p, call') 
        <3>1. c # "none" BY DEF Call
        <3> QED BY <2>1, <2>2, <2>4, <2>5, <3>1 DEF Hears
    <2>7. Phased' BY <2>1, <2>2 DEF MayCall, Phased
    <2>8. Untouched(p) BY <2>1, <2>5 DEF Untouched
    <2> QED BY <2>1, <2>6, <2>7, <2>8, TalkComposes
<1>8. ASSUME NEW c \in Call, CallDead(c) PROVE Talk'
    <2>1. PICK p \in Process :
            /\ current = p /\ call = "none" /\ launching = "none" /\ ~Alive(p)
            /\ IF c \in {"vet", "start", "quit"} THEN Discard
               ELSE isActive' = (c = "sync") /\ UNCHANGED current
            /\ UNCHANGED <<launching, call, behind, gui, daemonVars, pipeVars>>
        BY <1>8 DEF CallDead
    <2>2. current' = "none" \/ current' = p BY <2>1 DEF Discard
    <2>3. AllLate(phase = "leaving" \/ ~Alive(p), stdout[p], job[p], stdin[p])
        BY <1>0, <2>1, TalkNow
    <2>4. (phase = "leaving" \/ ~Alive(p))' = (phase = "leaving" \/ ~Alive(p))
        BY <2>1 DEF Alive
    <2>5. Hears(p, call') BY <2>1, <2>3, <2>4 DEF Hears
    <2>6. Phased' /\ Untouched(p) BY <2>1 DEF Phased, Untouched
    <2> QED BY <2>1, <2>2, <2>5, <2>6, TalkComposes
<1>9. CASE CallNone
    <2>1. /\ current = "none" /\ call = "none" /\ current' = "none" /\ call' = "none"
          /\ launching' = launching /\ UNCHANGED daemonVars
          /\ stdin' = stdin /\ stdout' = stdout
        BY <1>9 DEF CallNone
    <2> QED BY <2>1 DEF Talk, Unheard, Awaited, Phased, Heard
<1>10. CASE GivesUp
    <2>1. /\ call # "none" /\ Failed(isActive) /\ UNCHANGED daemonVars
          /\ stdin' = stdin /\ stdout' = stdout /\ launching' = launching
        BY <1>10 DEF GivesUp
    <2>2. current \in Process /\ call \in Call BY <1>0, <2>1 DEF TypeOK
    <2> QED BY <1>5, <2>1, <2>2
<1>11. CASE Leave
    <2>1. /\ call = "none" /\ call' = "none" /\ current' = current /\ launching' = launching
          /\ (phase = "vetted" /\ phase' = "away") \/ (phase = "session" /\ phase' = "leaving")
          /\ UNCHANGED daemonVars /\ stdin' = stdin /\ stdout' = stdout
        BY <1>11 DEF Leave
    <2>2. CASE current = "none"
        BY <2>1, <2>2 DEF Talk, Unheard, Awaited, Phased, Heard
    <2>3. CASE current # "none"
        <3> DEFINE p == current
                   narrow == phase = "leaving" \/ ~Alive(p)
                   wide == (phase = "leaving" \/ ~Alive(p))'
        <3>1. p \in Process BY <1>0, <2>3
        <3>2. launching = "none" /\ AllLate(narrow, stdout[p], job[p], stdin[p])
            BY <1>0, <2>1, <3>1, TalkNow
        <3>3. narrow => wide BY <2>1 DEF Alive
        <3>4. AllLate(wide, stdout[p], job[p], stdin[p])
            <4>1. narrow \in BOOLEAN /\ wide \in BOOLEAN OBVIOUS
            <4> HIDE DEF narrow, wide
            <4> QED BY <3>2, <3>3, <4>1, LateWidens
        <3>5. Hears(current, call') BY <2>1, <3>4 DEF Hears
        <3>6. Phased' /\ Untouched(p) BY <2>1 DEF Phased, Untouched
        <3> QED BY <2>1, <3>1, <3>2, <3>5, <3>6, TalkComposes
    <2> QED BY <2>2, <2>3
<1>12. CASE GuiExits
    <2>1. /\ current' = "none" /\ call' = "none" /\ launching' = "none"
          /\ UNCHANGED daemonVars /\ stdin' = stdin /\ stdout' = stdout
        BY <1>12 DEF GuiExits
    <2> QED BY <2>1 DEF Talk, Unheard, Awaited, Phased, Heard
<1> QED BY <1>1, <1>2, <1>3, <1>4, <1>6, <1>7, <1>8, <1>9, <1>10, <1>11, <1>12 DEF Client

\* So it stays in every step.
LEMMA TalkStep == Inv /\ Talk /\ [Next]_vars => Talk'
<1> SUFFICES ASSUME Inv, Talk, [Next]_vars PROVE Talk' OBVIOUS
<1>1. CASE Client BY <1>1, TalkClient
<1>2. ASSUME NEW p \in Process, Helper(p) \/ ByItself(p) PROVE Talk'
    BY <1>2, TalkHelper
<1>3. CASE Over \/ UNCHANGED vars
    BY <1>3 DEF Over, vars, clientVars, daemonVars, pipeVars, Talk, Unheard, Awaited,
       Phased, Heard, Alive
<1> QED BY <1>1, <1>2, <1>3 DEF Next

LEMMA TalkInvariance == Spec => []Talk
<1>1. Init => Talk
    BY DEF Init, Talk, Unheard, Awaited, Phased, Heard
<1>2. Inv /\ Talk /\ [Next]_vars => Talk' BY TalkStep
<1> QED BY <1>1, <1>2, Invariance, PTL DEF Spec

\* The worker is never told of success by an answer to an earlier command, however
\* many lines syncs, timeouts and the daemon itself have left in the pipe
\* (helper_client.rs:97-115): what it waits for is never among them.
THEOREM SuccessOwn == Spec => SuccessIsOwn
<1>1. Inv /\ Talk /\ [Next]_vars
        => [\A p \in Process : Succeeds(p) /\ call # "sync" => behind = 0]_vars
    <2> SUFFICES ASSUME Inv, Talk, NEW p \in Process, Succeeds(p), call # "sync"
                 PROVE  behind = 0
        OBVIOUS
    <2>1. TypeOK /\ behind \in Nat BY DEF Inv, TypeOK
    <2>2. ~(behind > 0) BY <2>1, SuccessIsNew
    <2> QED BY <2>1, <2>2
<1> QED BY <1>1, Invariance, TalkInvariance, PTL DEF Spec, SuccessIsOwn

-----------------------------------------------------------------------------
(* The pipe seen as the service. *)

\* While a helper is used no other lives.
Alone == current # "none" => \A p \in Process \ {current} : ~Alive(p)

\* What is installed belongs to the helper that works, and to one that has worked.
Owner ==
    \A p \in Process :
        /\ proc[p] \in Working => installed \in {"none", p}
        /\ installed = p => proc[p] \notin {"none", "prompt"}

\* The prompt is that of the helper which is awaited, and when that is up no other
\* lives and nothing is installed.
Prompted == \A p \in Process : gui /\ proc[p] = "prompt" => launching = p
Up ==
    launching # "none" /\ stdout[launching] # <<>> =>
        installed = "none" /\ \A p \in Process \ {launching} : ~Alive(p)

\* A helper that was found fit for use has nothing before it and owes nothing, up to
\* the command to start.
Quiet(p) == stdin[p] = <<>> /\ stdout[p] = <<>> /\ job[p] = "none" /\ ~session[p]
Vetted == current # "none" /\ phase = "vetted" /\ call = "none" => Quiet(current)
Starting ==
    current # "none" /\ call = "start" =>
        \/ stdin[current] = <<>> /\ job[current] = "none"
        \/ /\ stdout[current] = <<>>
           /\ \/ stdin[current] = <<>> /\ job[current] \in {"start", "started"}
              \/ stdin[current] = <<"start">> /\ job[current] = "none" /\ ~session[current]
Vetting ==
    current # "none" /\ call \in {"vet", "reset"} =>
        \A i \in DOMAIN stdout[current] : stdout[current][i] = Wanted[call] =>
            /\ i = Len(stdout[current])
            /\ stdin[current] = <<>> /\ job[current] = "none" /\ ~session[current]

Between == call \in {"sync", "quit"} => phase # "vetted"

Fit == Alone /\ Owner /\ Prompted /\ Up /\ Vetted /\ Starting /\ Vetting /\ Between

\* What a helper's step does to the kernel, and that only one that lives makes a step.
LEMMA HelperInstalls ==
    ASSUME TypeOK, NEW p \in Process, Helper(p) \/ ByItself(p)
    PROVE  /\ Alive(p)
           /\ \/ installed' \in {installed, "none"}
              \/ installed' = p /\ job[p] = "start" /\ proc[p] = "serving"
           /\ proc[p] = "prompt" =>
                \/ UNCHANGED stdout /\ proc'[p] = "dead"
                \/ installed' = "none" /\ \A q \in Process \ {p} : ~Alive(q)'
<1>1. CASE Boot(p)
    <2>1. installed' = "none" /\ \A q \in Process \ {p} : ~Alive(q)'
        BY <1>1 DEF Boot, Clearing, Alive, Living
    <2> QED BY <1>1, <2>1 DEF Boot, Alive, Living
<1>2. CASE SetUp(p) BY <1>2 DEF SetUp, Serving, Alive, Living
<1>3. ASSUME Serving(p), NEW line, NEW left, Cleared(p) \/ Kept(p), Done(p, line, left)
      PROVE  installed' \in {installed, "none"} /\ Alive(p) /\ proc[p] = "serving"
    BY <1>3 DEF Cleared, Clearing, Kept, Serving, Alive, Living
<1>4. CASE \/ Started(p) \/ RollsBack(p) \/ Stops(p) \/ FindsSick(p) \/ SyncFails(p)
           \/ TunEnds(p) \/ TellsStatus(p) \/ Syncs(p)
    <2>1. installed' \in {installed, "none"} /\ Alive(p) /\ proc[p] = "serving"
        BY <1>3, <1>4
        DEF Started, RollsBack, Stops, FindsSick, SyncFails, TunEnds, TellsStatus, Syncs
    <2> QED BY <2>1
<1>5. CASE Read(p) \/ Closes(p) \/ Terminated(p)
    BY <1>5 DEF Read, Closes, Terminated, Serving, Alive, Living
<1>6. CASE Killed(p)
    BY <1>6 DEF Killed, Alive, pipeVars, TypeOK
<1>7. CASE TickFails(p) \/ ClosesDown(p)
    <2>1. installed' = "none" /\ proc[p] \in {"serving", "closing"}
        BY <1>7 DEF TickFails, ClosesDown, Clearing, Serving
    <2> QED BY <2>1 DEF Alive, Living
<1> QED BY <1>1, <1>2, <1>4, <1>5, <1>6, <1>7 DEF Helper, ByItself

\* Whoever is told that there is no session, or that it was stopped, is told so by a
\* helper without one that was asked.
LEMMA HelperTells ==
    ASSUME TypeOK, NEW p \in Process, Helper(p) \/ ByItself(p), Open(p), proc[p] # "prompt",
           NEW line \in {"off", "stopped"}, stdout'[p] = Append(stdout[p], line)
    PROVE  /\ job[p] \in {"status", "stop"} /\ job'[p] = "none" /\ ~session'[p]
           /\ stdin' = stdin
<1>1. /\ stdout[p] \in Seq(Line) /\ line \in Line /\ session[p] \in BOOLEAN
      /\ stdout \in [Process -> Seq(Line)]
    BY DEF TypeOK, Line
<1>2. stdout'[p] # stdout[p]
    <2>1. Len(Append(stdout[p], line)) = Len(stdout[p]) + 1 /\ Len(stdout[p]) \in Nat
        BY <1>1, Appended
    <2> QED BY <2>1
<1>3. ASSUME NEW other \in Line, NEW left \in BOOLEAN, Done(p, other, left)
      PROVE  other = line /\ job'[p] = "none" /\ session'[p] = left /\ stdin' = stdin
    <2>1. stdout'[p] = Append(stdout[p], other) BY <1>1, <1>3 DEF Done, Writes
    <2>2. Append(stdout[p], other) = Append(stdout[p], line) BY <2>1
    <2>3. /\ Append(stdout[p], other)[Len(stdout[p]) + 1] = other
          /\ Append(stdout[p], line)[Len(stdout[p]) + 1] = line
        BY <1>1, Appended
    <2>4. other = line BY <2>2, <2>3
    <2> QED BY <1>3, <2>4, DoneOwn DEF Done
<1>4. CASE Started(p) \/ RollsBack(p) \/ FindsSick(p) \/ SyncFails(p) \/ TunEnds(p) \/ Syncs(p)
    <2>1. {"active", "error", "synced"} \subseteq Line BY DEF Line
    <2>2. PICK other \in {"active", "error", "synced"}, left \in BOOLEAN : Done(p, other, left)
        BY <1>1, <1>4 DEF Started, RollsBack, FindsSick, SyncFails, TunEnds, Syncs
    <2> QED BY <1>3, <2>1, <2>2
<1>5. CASE Stops(p) BY <1>3, <1>5 DEF Stops, Line
<1>6. CASE TellsStatus(p)
    <2>1. CASE session[p]
        <3>1. Done(p, "on", session[p]) /\ "on" \in Line BY <1>6, <2>1 DEF TellsStatus, Line
        <3> QED BY <1>1, <1>3, <3>1
    <2>2. CASE ~session[p]
        <3>1. /\ Done(p, "off", session[p]) /\ "off" \in Line /\ job[p] = "status"
            BY <1>6, <2>2 DEF TellsStatus, Line
        <3> QED BY <1>1, <1>3, <2>2, <3>1
    <2> QED BY <2>1, <2>2
<1>7. ASSUME stdout' = stdout PROVE FALSE BY <1>2, <1>7
<1>8. CASE \/ Read(p) \/ SetUp(p) \/ Closes(p) \/ Terminated(p) \/ Killed(p) \/ TickFails(p)
           \/ ClosesDown(p)
    BY <1>7, <1>8 DEF Read, SetUp, Closes, Terminated, Killed, TickFails, ClosesDown, pipeVars
<1>9. ~Boot(p) BY DEF Boot
<1> QED BY <1>4, <1>5, <1>6, <1>8, <1>9 DEF Helper, ByItself

\* Between two commands a helper without a session has nothing to say.
LEMMA WithoutSession ==
    ASSUME TypeOK, NEW p \in Process, Helper(p) \/ ByItself(p),
           proc[p] # "prompt", job[p] = "none", ~session[p], stdin[p] # <<>>
    PROVE  Read(p) \/ (UNCHANGED <<stdin, stdout, job>> /\ session'[p] = session[p])
<1>1. /\ ~SetUp(p) /\ ~Started(p) /\ ~RollsBack(p) /\ ~Stops(p) /\ ~TellsStatus(p)
      /\ ~FindsSick(p) /\ ~Syncs(p) /\ ~SyncFails(p) /\ ~TickFails(p) /\ ~TunEnds(p)
      /\ ~Boot(p)
    BY DEF SetUp, Started, RollsBack, Stops, TellsStatus, FindsSick, Syncs, SyncFails,
       TickFails, TunEnds, Boot
<1>2. CASE Closes(p) \/ Terminated(p) \/ Killed(p)
    BY <1>2 DEF Closes, Terminated, Killed, pipeVars
<1>3. CASE ClosesDown(p) BY <1>3 DEF ClosesDown, pipeVars, TypeOK
<1> QED BY <1>1, <1>2, <1>3 DEF Helper, ByItself

\* What is said by a helper that is used is said as above, and only it lives.
LEMMA OnlyCurrent ==
    ASSUME Inv, Talk, Fit, NEW p \in Process, Helper(p) \/ ByItself(p), current # "none"
    PROVE  /\ current = p /\ proc[p] \in Working /\ SpeaksOf(p) /\ LeavesOthers(p)
           /\ UNCHANGED clientVars
<1>1. TypeOK /\ current \in Process BY DEF Inv, TypeOK
<1>2. Alive(p) /\ OnPipe(p) BY <1>1, HelperInstalls, HelperOnPipe
<1>3. current = p BY <1>1, <1>2 DEF Fit, Alone
<1>4. proc[p] \in Working BY <1>2, <1>3, <1>1 DEF Talk, Heard, Alive, Living, Working
<1> QED BY <1>2, <1>3, <1>4 DEF OnPipe, Open, Working

\* What makes a helper fit for use stays so while helpers work.
LEMMA FitHelper ==
    ASSUME Inv, Talk, Fit, NEW p \in Process, Helper(p) \/ ByItself(p)
    PROVE  Fit'
<1>0. TypeOK /\ OnPipe(p) BY HelperOnPipe DEF Inv
<1>1. /\ phase' = phase /\ current' = current /\ launching' = launching /\ call' = call
      /\ gui' = gui
    BY <1>0 DEF OnPipe, clientVars
<1>2. /\ Alive(p)
      /\ \/ installed' \in {installed, "none"}
         \/ installed' = p /\ job[p] = "start" /\ proc[p] = "serving"
      /\ proc[p] = "prompt" =>
            \/ stdout' = stdout /\ proc'[p] = "dead"
            \/ installed' = "none" /\ \A q \in Process \ {p} : ~Alive(q)'
    BY <1>0, HelperInstalls
<1>3. /\ proc'[p] \notin {"none", "prompt"}
      /\ \A q \in Process \ {p} : /\ stdin'[q] = stdin[q] /\ stdout'[q] = stdout[q]
                                  /\ job'[q] = job[q] /\ session'[q] = session[q]
                                  /\ proc'[q] \in {proc[q], "dead"}
    BY <1>0 DEF OnPipe, LeavesOthers
<1>4. \A q \in Process : q # "none" BY ProcessAssumption
<1>5. \A q \in Process \ {p} : ~Alive(q) => ~Alive(q)' BY <1>3 DEF Alive, Living
<1>6. Alone' BY <1>1, <1>2, <1>5 DEF Fit, Alone
<1>7. Owner'
    <2>1. ASSUME NEW q \in Process, installed' = q PROVE proc'[q] \notin {"none", "prompt"}
        BY <1>2, <1>3, <1>4, <2>1 DEF Fit, Owner
    <2>2. ASSUME NEW q \in Process \ {p}, proc'[q] \in Working
          PROVE  installed' \in {"none", q}
        <3>1. proc[q] \in Working BY <1>3, <2>2 DEF Working
        <3>2. installed \in {"none", q} BY <3>1 DEF Fit, Owner
        <3>3. proc[p] # "serving" BY <3>1 DEF Inv, OneServing, Working
        <3> QED BY <1>2, <3>2, <3>3
    <2>3. ASSUME proc'[p] \in Working PROVE installed' \in {"none", p}
        <3>1. CASE proc[p] = "prompt" BY <1>2, <2>3, <3>1 DEF Working
        <3>2. CASE proc[p] # "prompt"
            <4>1. proc[p] \in Working BY <1>2, <3>2 DEF Alive, Living, Working
            <4> QED BY <1>2, <4>1 DEF Fit, Owner
        <3> QED BY <3>1, <3>2
    <2> QED BY <2>1, <2>2, <2>3 DEF Owner
<1>8. Prompted' BY <1>1, <1>3 DEF Fit, Prompted
<1>9. Up'
    <2> SUFFICES ASSUME launching # "none", stdout'[launching] # <<>>
                 PROVE  installed' = "none" /\ \A q \in Process \ {launching} : ~Alive(q)'
        BY <1>1 DEF Up
    <2>0. launching \in Process /\ Idle(launching)
        BY <1>0 DEF TypeOK, Talk, Awaited, Idle
    <2>1. CASE launching # p
        <3>1. stdout[launching] # <<>> BY <1>3, <2>0, <2>1
        <3> QED BY <1>2, <2>1, <3>1 DEF Fit, Up
    <2>2. CASE launching = p /\ proc[p] = "prompt"
        <3>1. stdout[p] = <<>> BY <2>2 DEF Talk, Unheard
        <3>2. stdout'[p] # stdout[p] BY <2>2, <3>1
        <3> QED BY <1>2, <2>2, <3>2
    <2>3. CASE launching = p /\ proc[p] # "prompt"
        <3>1. stdout[p] # <<>> /\ job[p] = "none" BY <1>0, <2>0, <2>3 DEF OnPipe, Idle
        <3>2. installed = "none" /\ \A q \in Process \ {p} : ~Alive(q)
            BY <2>3, <3>1 DEF Fit, Up
        <3> QED BY <1>2, <1>5, <2>3, <3>1, <3>2
    <2> QED BY <2>1, <2>2, <2>3
<1>10. ASSUME current # "none"
      PROVE  /\ current = p /\ proc[p] \in Working /\ SpeaksOf(p)
             /\ Idle(p) => stdout'[p] = stdout[p] /\ Idle(p)'
             /\ session'[p] \in BOOLEAN /\ stdout[p] \in Seq(Line)
    <2>1. current = p /\ proc[p] \in Working /\ SpeaksOf(p) BY <1>10, OnlyCurrent
    <2> QED BY <1>0, <2>1, HelperTypeStep DEF OnPipe, Working, TypeOK
<1>11. Vetted'
    <2> SUFFICES ASSUME current # "none", phase = "vetted", call = "none"
                 PROVE  Quiet(current)'
        BY <1>1 DEF Vetted
    <2>1. Quiet(p) BY <1>10 DEF Fit, Vetted
    <2> QED BY <1>1, <1>10, <2>1 DEF Quiet, Idle
<1>12. Starting'
    <2> SUFFICES ASSUME current # "none", call = "start"
                 PROVE  \/ stdin'[p] = <<>> /\ job'[p] = "none"
                        \/ /\ stdout'[p] = <<>>
                           /\ \/ stdin'[p] = <<>> /\ job'[p] \in {"start", "started"}
                              \/ /\ stdin'[p] = <<"start">> /\ job'[p] = "none"
                                 /\ ~session'[p]
        BY <1>1, <1>10 DEF Starting
    <2>1. \/ stdin[p] = <<>> /\ job[p] = "none"
          \/ /\ stdout[p] = <<>>
             /\ \/ stdin[p] = <<>> /\ job[p] \in {"start", "started"}
                \/ stdin[p] = <<"start">> /\ job[p] = "none" /\ ~session[p]
        BY <1>10 DEF Fit, Starting
    <2>2. CASE stdin[p] = <<>> /\ job[p] = "none"
        BY <1>10, <2>2 DEF SpeaksOf, Speaks
    <2>3. CASE stdout[p] = <<>> /\ stdin[p] = <<>> /\ job[p] \in {"start", "started"}
        BY <1>10, <2>3 DEF SpeaksOf, Speaks
    <2>4. CASE /\ stdout[p] = <<>> /\ stdin[p] = <<"start">> /\ job[p] = "none"
               /\ ~session[p]
        <3>1. Read(p) \/ (UNCHANGED <<stdin, stdout, job>> /\ session'[p] = session[p])
            BY <1>0, <1>10, <2>4, WithoutSession DEF Working
        <3>2. ASSUME Read(p)
              PROVE  stdin'[p] = <<>> /\ job'[p] = "start" /\ stdout'[p] = <<>>
            <4>1. /\ job'[p] = Head(<<"start">>) /\ stdin'[p] = Tail(<<"start">>)
                  /\ stdout' = stdout
                BY <1>0, <2>4, <3>2 DEF Read, TypeOK
            <4> QED BY <2>4, <4>1
        <3> QED BY <2>4, <3>1, <3>2
    <2> QED BY <2>1, <2>2, <2>3, <2>4
<1>13. Vetting'
    <2> SUFFICES ASSUME current # "none", call \in {"vet", "reset"},
                        NEW i \in DOMAIN stdout'[p], stdout'[p][i] = Wanted[call]
                 PROVE  /\ i = Len(stdout'[p])
                        /\ stdin'[p] = <<>> /\ job'[p] = "none" /\ ~session'[p]
        BY <1>1, <1>10 DEF Vetting
    <2> DEFINE line == Wanted[call]
    <2>1. line \in {"off", "stopped"} /\ line # "error" BY DEF Wanted
    <2>2. ASSUME NEW k \in DOMAIN stdout[p], stdout[p][k] = line
          PROVE  k = Len(stdout[p]) /\ Idle(p)
        BY <1>10, <2>2 DEF Fit, Vetting, Idle
    <2> HIDE DEF line
    <2>3. CASE stdout'[p] = stdout[p]
        <3>1. i = Len(stdout[p]) /\ Idle(p) BY <2>2, <2>3 DEF line
        <3> QED BY <1>10, <2>3, <3>1 DEF Idle
    <2>4. CASE stdout'[p] # stdout[p]
        <3>1. ~Idle(p) BY <1>10, <2>4
        <3>2. PICK new \in Answers(job[p]) \cup {"error"} : stdout'[p] = Append(stdout[p], new)
            BY <1>10, <2>4 DEF SpeaksOf, Speaks
        <3>3. new \in Line BY AnswersAreLines DEF Line
        <3>4. /\ DOMAIN stdout'[p] = 1 .. Len(stdout[p]) + 1 /\ Len(stdout[p]) \in Nat
              /\ Len(stdout'[p]) = Len(stdout[p]) + 1 /\ DOMAIN stdout[p] = 1 .. Len(stdout[p])
              /\ \A k \in DOMAIN stdout[p] : stdout'[p][k] = stdout[p][k]
              /\ stdout'[p][Len(stdout[p]) + 1] = new
            BY <1>10, <3>2, <3>3, Appended
        <3>5. i \notin DOMAIN stdout[p] BY <2>2, <3>1, <3>4 DEF line
        <3>6. i = Len(stdout[p]) + 1 BY <3>4, <3>5
        <3>7. new = line BY <3>4, <3>6 DEF line
        <3>8. Open(p) /\ proc[p] # "prompt" BY <1>10 DEF Open, Working
        <3>9. /\ job[p] \in {"status", "stop"} /\ job'[p] = "none" /\ ~session'[p]
              /\ stdin' = stdin
            BY <1>0, <2>1, <3>2, <3>7, <3>8, HelperTells
        <3>10. stdin[p] = <<>>
            <4>1. /\ Waiting(phase = "leaving", call, behind, stdout[p], job[p], stdin[p])
                  /\ phase = "away"
                BY <1>0, <1>10, TalkNow DEF Talk, Phased
            <4>2. job[p] \notin LateCommands(phase = "leaving") /\ job[p] # "none"
                BY <3>9, <4>1 DEF LateCommands
            <4> QED BY <4>1, <4>2 DEF Waiting, Unread, Doing, Answered
        <3> QED BY <3>4, <3>6, <3>9, <3>10
    <2> QED BY <2>3, <2>4
<1>14. Between' BY <1>1 DEF Fit, Between
<1> QED BY <1>6, <1>7, <1>8, <1>9, <1>11, <1>12, <1>13, <1>14 DEF Fit

\* The client's steps with a helper leave what is said of the others and the kernel.
LEMMA FitComposes ==
    ASSUME Inv, Talk, Fit, NEW p \in Process, current = p, UNCHANGED daemonVars,
           launching' = "none", gui' => gui,
           current' = "none" \/ (current' = p /\ Vetted' /\ Starting' /\ Vetting'),
           Between'
    PROVE  Fit'
<1>1. /\ TypeOK /\ launching = "none" BY TalkNow DEF Inv
<1>2. proc' = proc /\ installed' = installed BY DEF daemonVars
<1>3. Alone' BY <1>2 DEF Fit, Alone, Alive
<1>4. Owner' BY <1>2 DEF Fit, Owner
<1>5. Prompted' BY <1>1, <1>2 DEF Fit, Prompted
<1>6. Up' BY DEF Up
<1>7. current' = "none" => Vetted' /\ Starting' /\ Vetting' BY DEF Vetted, Starting, Vetting
<1> QED BY <1>3, <1>4, <1>5, <1>6, <1>7 DEF Fit

\* A sequence of no length is empty.
LEMMA NothingLong ==
    ASSUME NEW S, NEW s \in Seq(S), Len(s) = 0
    PROVE  s = <<>>
OBVIOUS

\* A helper that was found fit for use is, and has said nothing since.
LEMMA VettedIsQuiet ==
    ASSUME TypeOK, Talk, Fit, NEW p \in Process, Succeeds(p), call \in {"vet", "reset"}
    PROVE  Quiet(p)'
<1>1. /\ current = p /\ stdout[p] # <<>> /\ Head(stdout[p]) = Wanted[call]
      /\ stdout' = [stdout EXCEPT ![p] = Tail(@)] /\ stdin' = stdin
      /\ UNCHANGED daemonVars
    BY DEF Succeeds, TakeLine, WantedLine
<1>2. stdout[p] \in Seq(Line) /\ stdout'[p] = Tail(stdout[p]) BY <1>1 DEF TypeOK
<1>3. p # "none" BY ProcessAssumption
<1>4. \A i \in DOMAIN stdout[p] : stdout[p][i] = Wanted[call] =>
        /\ i = Len(stdout[p])
        /\ stdin[p] = <<>> /\ job[p] = "none" /\ ~session[p]
    BY <1>1, <1>3 DEF Fit, Vetting
<1>5. /\ Head(stdout[p]) = stdout[p][1] /\ DOMAIN stdout[p] = 1 .. Len(stdout[p])
      /\ Len(stdout[p]) \in Nat /\ Len(stdout[p]) > 0
      /\ Len(Tail(stdout[p])) = Len(stdout[p]) - 1 /\ Tail(stdout[p]) \in Seq(Line)
    BY <1>1, <1>2, Shortened
<1>6. 1 \in DOMAIN stdout[p] /\ stdout[p][1] = Wanted[call] BY <1>1, <1>5
<1>7. /\ 1 = Len(stdout[p]) /\ stdin[p] = <<>> /\ job[p] = "none" /\ ~session[p]
    BY <1>4, <1>6
<1>8. Len(Tail(stdout[p])) = 0 BY <1>5, <1>7
<1>9. Tail(stdout[p]) = <<>> BY <1>5, <1>8, NothingLong
<1> QED BY <1>1, <1>2, <1>7, <1>9 DEF Quiet, daemonVars

\* A session that is found left was asked for, and after it only errors were said.
LEMMA ReadsOn ==
    ASSUME TypeOK, Talk, NEW p \in Process, TakeLine(p), call = "vet",
           Head(stdout[p]) = "on"
    PROVE  \A i \in DOMAIN stdout'[p] : stdout'[p][i] = "error"
<1> DEFINE wide == phase = "leaving"
           out == stdout[p]
           doing == job[p]
           in == stdin[p]
<1>1. /\ current = p /\ stdout[p] # <<>> /\ stdout'[p] = Tail(stdout[p])
    BY DEF TakeLine, TypeOK
<1>2. phase = "away" BY DEF Talk, Phased
<1>3. /\ out \in Seq(Line) /\ out # <<>> /\ Head(out) \notin LateLines(wide)
      /\ Waiting(wide, call, behind, out, doing, in) /\ stdout'[p] = Tail(out)
    BY <1>1, <1>2, TalkNow DEF LateLines
<1> HIDE DEF wide, out, doing, in
<1>4. /\ in = <<>> /\ doing = "none" /\ ~(behind > 0)
      /\ \A i \in DOMAIN Tail(out) : Tail(out)[i] = "error"
    BY <1>3, OwnAnswer
<1> QED BY <1>3, <1>4

\* What makes a helper fit for use stays so while the client calls.
LEMMA FitClient ==
    ASSUME Inv, Talk, Fit, Client
    PROVE  Fit'
<1> USE DEF daemonVars, pipeVars
<1>0. /\ TypeOK /\ (current = "none" => call = "none")
      /\ current \in Process \cup {"none"} /\ call \in Call \cup {"none"}
      /\ \A q \in Process : q # "none"
    BY ProcessAssumption DEF Inv, TypeOK, Talk, Heard
<1>1. ASSUME NEW p \in Process, Launch(p) PROVE Fit'
    <2>1. /\ gui /\ gui' = gui /\ current = "none" /\ launching = "none" /\ proc[p] = "none"
          /\ call = "none" /\ call' = "none" /\ current' = "none" /\ launching' = p
          /\ proc' = [proc EXCEPT ![p] = "prompt"] /\ installed' = installed
          /\ stdout' = stdout
        BY <1>1 DEF Launch
    <2>2. /\ proc'[p] = "prompt" /\ \A q \in Process \ {p} : proc'[q] = proc[q]
        BY <1>0, <2>1 DEF TypeOK
    <2>3. installed # p BY <2>1 DEF Fit, Owner
    <2>4. Owner' BY <2>1, <2>2, <2>3 DEF Fit, Owner, Working
    <2>5. Prompted'
        <3> SUFFICES ASSUME NEW q \in Process, proc'[q] = "prompt" PROVE q = p
            BY <2>1 DEF Prompted
        <3>1. q # p => launching = q BY <2>1, <2>2 DEF Fit, Prompted
        <3> QED BY <1>0, <2>1, <3>1
    <2>6. Up' BY <2>1 DEF Up, Talk, Unheard
    <2>7. Alone' /\ Vetted' /\ Starting' /\ Vetting' /\ Between'
        BY <2>1 DEF Alone, Vetted, Starting, Vetting, Between
    <2> QED BY <2>4, <2>5, <2>6, <2>7 DEF Fit
<1>2. ASSUME NEW p \in Process, TakeReady(p) PROVE Fit'
    <2>1. /\ launching = p /\ stdout[p] # <<>> /\ launching' = "none" /\ current' = p
          /\ stdout' = [stdout EXCEPT ![p] = Tail(@)] /\ gui' = gui /\ call' = call
          /\ UNCHANGED daemonVars /\ stdin' = stdin
        BY <1>2 DEF TakeReady
    <2>2. /\ call = "none" /\ Idle(p) /\ stdout[p] \in {<<>>, <<"ready">>}
        BY <1>0, <2>1 DEF Talk, Awaited, Idle
    <2>3. stdout'[p] = <<>>
        <3>1. stdout'[p] = Tail(stdout[p]) BY <1>0, <2>1 DEF TypeOK
        <3>2. stdout[p] = <<"ready">> BY <2>1, <2>2
        <3> QED BY <3>1, <3>2
    <2>4. Quiet(p)' BY <2>1, <2>2, <2>3 DEF Quiet, Idle
    <2>5. installed = "none" /\ \A q \in Process \ {p} : ~Alive(q)
        BY <1>0, <2>1 DEF Fit, Up
    <2>6. Alone' BY <2>1, <2>5 DEF Alone, Alive
    <2>7. Owner' BY <1>0, <2>1, <2>5 DEF Owner
    <2>8. Prompted'
        <3>1. proc[p] # "prompt" BY <2>1 DEF Talk, Unheard
        <3> QED BY <2>1, <3>1 DEF Fit, Prompted
    <2>9. Up' BY <2>1 DEF Up
    <2>10. Vetted' BY <2>1, <2>4 DEF Vetted
    <2>11. Starting' /\ Vetting' /\ Between'
        BY <2>1, <2>2 DEF Starting, Vetting, Between
    <2> QED BY <2>6, <2>7, <2>8, <2>9, <2>10, <2>11 DEF Fit
<1>3. ASSUME NEW p \in Process, LaunchFails(p) PROVE Fit'
    <2>1. /\ launching = p /\ launching' = "none" /\ current' = current /\ call' = call
          /\ proc' = [proc EXCEPT ![p] = IF @ = "prompt" THEN "dead" ELSE @]
          /\ gui' = gui /\ installed' = installed
        BY <1>3 DEF LaunchFails
    <2>2. current = "none" /\ call = "none" BY <1>0, <2>1 DEF Talk, Awaited
    <2>3. /\ proc'[p] = (IF proc[p] = "prompt" THEN "dead" ELSE proc[p])
          /\ \A q \in Process \ {p} : proc'[q] = proc[q]
        BY <1>0, <2>1 DEF TypeOK
    <2>4. Owner' BY <2>1, <2>3 DEF Fit, Owner, Working
    <2>5. Prompted' BY <2>1, <2>3 DEF Fit, Prompted
    <2>6. Alone' /\ Up' /\ Vetted' /\ Starting' /\ Vetting' /\ Between'
        BY <1>0, <2>1, <2>2 DEF Alone, Up, Vetted, Starting, Vetting, Between
    <2> QED BY <2>4, <2>5, <2>6 DEF Fit
<1>4. ASSUME NEW p \in Process, current = p, TakeLine(p) \/ GivesUp, call' = "none",
             phase' = "vetted" => current' = "none" \/ (current' = p /\ Quiet(p)'),
             current' \in {p, "none"}
      PROVE  Fit'
    <2>1. launching' = "none" /\ UNCHANGED daemonVars /\ gui' = gui
        BY <1>0, <1>4, TalkNow DEF TakeLine, GivesUp
    <2>2. Vetted' BY <1>4 DEF Vetted
    <2>3. Starting' /\ Vetting' /\ Between' BY <1>4 DEF Starting, Vetting, Between
    <2> QED BY <1>4, <2>1, <2>2, <2>3, FitComposes
<1>5. ASSUME NEW p \in Process, Succeeds(p) PROVE Fit'
    <2>1. /\ current = p /\ current' = p /\ TakeLine(p) /\ call # "none" /\ call # "quit"
          /\ phase' = NextPhase[call] /\ call' = "none"
        BY <1>5 DEF Succeeds, TakeLine, WantedLine
    <2>2. call \in {"vet", "reset"} => Quiet(p)' BY <1>0, <1>5, VettedIsQuiet
    <2>3. call = "sync" => phase' # "vetted" BY <2>1 DEF NextPhase, Fit, Between
    <2>4. call \in {"start", "check", "stop"} => phase' # "vetted" BY <2>1 DEF NextPhase
    <2>5. phase' = "vetted" => Quiet(p)' BY <1>0, <2>1, <2>2, <2>3, <2>4 DEF Call
    <2> QED BY <1>4, <2>1, <2>5
<1>6. ASSUME NEW active, Failed(active), call \in Call
      PROVE  /\ call' = "none" /\ current' \in {current, "none"}
             /\ phase' = "vetted" => current' = "none"
    <2>1. CASE call \in {"vet", "reset", "start", "stop", "quit"}
        BY <1>6, <2>1 DEF Failed, Discard
    <2>2. CASE call = "check" BY <1>6, <2>2 DEF Failed
    <2>3. CASE call = "sync" BY <1>6, <2>3 DEF Failed, Fit, Between
    <2> QED BY <1>6, <2>1, <2>2, <2>3 DEF Call
<1>7. ASSUME NEW p \in Process, Fails(p) PROVE Fit'
    <2>1. /\ TakeLine(p) /\ current = p /\ call \in Call
          /\ \/ call = "vet" /\ Head(stdout[p]) = "on" /\ StopNext(p)
             \/ Failed(isActive /\ Head(stdout[p]) \notin {"error", "off"})
        BY <1>0, <1>7 DEF Fails, TakeLine
    <2>2. ASSUME NEW active, Failed(active) PROVE Fit'
        BY <1>4, <1>6, <2>1, <2>2
    <2>3. CASE call = "vet" /\ Head(stdout[p]) = "on" /\ StopNext(p)
        <3>1. /\ call' = "reset" /\ current' = p /\ launching' = launching
              /\ gui' = gui /\ UNCHANGED daemonVars
            BY <2>1, <2>3 DEF StopNext, TakeLine
        <3>2. launching = "none" BY <1>0, <2>1, TalkNow
        <3>3. \A i \in DOMAIN stdout'[p] : stdout'[p][i] = "error"
            BY <1>0, <2>1, <2>3, ReadsOn
        <3>4. Vetting' BY <3>1, <3>3 DEF Vetting, Wanted
        <3>5. Vetted' /\ Starting' /\ Between' BY <3>1 DEF Vetted, Starting, Between
        <3> QED BY <2>1, <3>1, <3>2, <3>4, <3>5, FitComposes
    <2> QED BY <2>1, <2>2, <2>3
<1>8. ASSUME NEW c \in Call, MakeCall(c) PROVE Fit'
    <2>1. PICK p \in Process :
            /\ current = p /\ call = "none" /\ launching = "none" /\ MayCall(c) /\ Alive(p)
            /\ Write(p, c)
            /\ UNCHANGED <<phase, current, launching, isActive, gui, daemonVars, stdout>>
        BY <1>8 DEF MakeCall
    <2>2. /\ stdin' = [stdin EXCEPT ![p] = Append(@, CommandOf[c])]
          /\ call' = c /\ c # "none"
        BY <2>1 DEF Write, Call
    <2>3. Vetted' BY <2>2 DEF Vetted
    <2>4. Starting'
        <3> SUFFICES ASSUME c = "start" PROVE Starting' BY <2>2 DEF Starting
        <3>1. phase = "vetted" BY <2>1 DEF MayCall
        <3>2. Quiet(p) BY <1>0, <2>1, <3>1 DEF Fit, Vetted
        <3>3. stdin'[p] = Append(stdin[p], "start") BY <1>0, <2>2 DEF CommandOf, TypeOK
        <3>4. stdin'[p] = <<"start">> BY <3>2, <3>3 DEF Quiet
        <3> QED BY <2>1, <3>2, <3>4 DEF Starting, Quiet
    <2>5. Vetting'
        <3> SUFFICES ASSUME c \in {"vet", "reset"} PROVE Vetting' BY <2>2 DEF Vetting
        <3>1. phase = "away" /\ c = "vet" BY <2>1 DEF MayCall
        <3>2. AllLate(phase = "leaving" \/ ~Alive(p), stdout[p], job[p], stdin[p])
            BY <1>0, <2>1, TalkNow
        <3>3. "off" \notin LateLines(phase = "leaving" \/ ~Alive(p))
            BY <2>1, <3>1 DEF LateLines
        <3>4. \A i \in DOMAIN stdout[p] : stdout[p][i] # "off" BY <3>2, <3>3 DEF AllLate
        <3> QED BY <2>1, <2>2, <3>1, <3>4 DEF Vetting, Wanted
    <2>6. Between' BY <2>1, <2>2 DEF Between, MayCall
    <2> QED BY <2>1, <2>3, <2>4, <2>5, <2>6, FitComposes
<1>9. ASSUME NEW c \in Call, CallDead(c) PROVE Fit'
    <2>1. PICK p \in Process :
            /\ current = p /\ call = "none" /\ launching = "none" /\ MayCall(c)
            /\ IF c \in {"vet", "start", "quit"} THEN Discard
               ELSE isActive' = (c = "sync") /\ UNCHANGED current
            /\ phase' = CASE c = "check" -> "leaving" [] c \in {"start", "stop"} -> "away"
                          [] OTHER -> phase
            /\ UNCHANGED <<launching, call, behind, gui, daemonVars, pipeVars>>
        BY <1>9 DEF CallDead
    <2>2. current' = "none" \/ current' = p BY <2>1 DEF Discard
    <2>3. phase' # "vetted" \/ current' = "none"
        <3>1. CASE c \in {"vet", "start", "quit"} BY <2>1, <3>1 DEF Discard
        <3>2. CASE c = "check" BY <2>1, <3>2
        <3>3. CASE c = "stop" BY <2>1, <3>3
        <3>4. CASE c = "sync" BY <2>1, <3>4 DEF MayCall
        <3>5. c # "reset" BY <2>1 DEF MayCall
        <3> QED BY <3>1, <3>2, <3>3, <3>4, <3>5 DEF Call
    <2>4. Vetted' BY <2>3 DEF Vetted
    <2>5. Starting' /\ Vetting' /\ Between' BY <2>1 DEF Starting, Vetting, Between
    <2> QED BY <2>1, <2>2, <2>4, <2>5, FitComposes
<1>10. CASE GivesUp
    <2>1. call \in Call /\ current \in Process BY <1>0, <1>10 DEF GivesUp
    <2>2. Failed(isActive) BY <1>10 DEF GivesUp
    <2> QED BY <1>4, <1>6, <1>10, <2>1, <2>2
<1>11. ASSUME UNCHANGED <<current, launching, call, daemonVars, stdin, stdout, gui>>,
              current = "none" \/ phase' # "vetted", call = "none"
       PROVE  Fit'
    <2>1. Alone' /\ Owner' /\ Prompted' /\ Up'
        BY <1>11 DEF Fit, Alone, Owner, Prompted, Up, Alive
    <2>2. Vetted' /\ Starting' /\ Vetting' /\ Between'
        BY <1>11 DEF Vetted, Starting, Vetting, Between
    <2> QED BY <2>1, <2>2 DEF Fit
<1>12. CASE CallNone BY <1>11, <1>12 DEF CallNone
<1>13. CASE Leave
    <2>1. phase' # "vetted" BY <1>13 DEF Leave
    <2> QED BY <1>11, <1>13, <2>1 DEF Leave
<1>14. CASE GuiExits
    <2>1. /\ current' = "none" /\ call' = "none" /\ launching' = "none" /\ gui' = FALSE
          /\ UNCHANGED daemonVars
        BY <1>14 DEF GuiExits
    <2>2. Owner' BY <2>1 DEF Fit, Owner
    <2>3. Alone' /\ Prompted' /\ Up' /\ Vetted' /\ Starting' /\ Vetting' /\ Between'
        BY <2>1 DEF Alone, Prompted, Up, Vetted, Starting, Vetting, Between
    <2> QED BY <2>2, <2>3 DEF Fit
<1> QED BY <1>1, <1>2, <1>3, <1>5, <1>7, <1>8, <1>9, <1>10, <1>12, <1>13, <1>14 DEF Client

\* So it stays in every step.
LEMMA FitStep == Inv /\ Talk /\ Fit /\ [Next]_vars => Fit'
<1> SUFFICES ASSUME Inv, Talk, Fit, [Next]_vars PROVE Fit' OBVIOUS
<1>1. CASE Client BY <1>1, FitClient
<1>2. ASSUME NEW p \in Process, Helper(p) \/ ByItself(p) PROVE Fit'
    BY <1>2, FitHelper
<1>3. CASE Over \/ UNCHANGED vars
    BY <1>3 DEF Over, vars, clientVars, daemonVars, pipeVars, Fit, Alone, Owner, Prompted,
       Up, Vetted, Starting, Vetting, Between, Quiet, Alive
<1> QED BY <1>1, <1>2, <1>3 DEF Next

LEMMA FitInvariance == Spec => []Fit
<1>1. Init => Fit
    <2> SUFFICES ASSUME Init PROVE Fit OBVIOUS
    <2>1. \A q \in Process : q # "none" BY ProcessAssumption
    <2>2. Owner BY <2>1 DEF Init, Owner, Working
    <2>3. Alone /\ Prompted /\ Up /\ Vetted /\ Starting /\ Vetting /\ Between
        BY DEF Init, Alone, Prompted, Up, Vetted, Starting, Vetting, Between
    <2> QED BY <2>2, <2>3 DEF Fit
<1>2. Inv /\ Talk /\ Fit /\ [Next]_vars => Fit' BY FitStep
<1> QED BY <1>1, <1>2, Invariance, TalkInvariance, PTL DEF Spec

-----------------------------------------------------------------------------
(* The lines that are to come. *)

Asked(in) == Cardinality({i \in DOMAIN in : in[i] # "quit"})
Busy(doing) == IF doing \in {"none", "quit"} THEN 0 ELSE 1

\* The commands that are to be answered can be counted.
LEMMA AskedIsNat ==
    ASSUME NEW S, NEW in \in Seq(S)
    PROVE  /\ Asked(in) \in Nat /\ IsFiniteSet({i \in DOMAIN in : in[i] # "quit"})
           /\ \A i \in DOMAIN in : in[i] # "quit" => Asked(in) # 0
<1> DEFINE written == {i \in DOMAIN in : in[i] # "quit"}
<1>1. DOMAIN in = 1 .. Len(in) /\ Len(in) \in Nat OBVIOUS
<1>2. IsFiniteSet(1 .. Len(in)) BY <1>1, FS_Interval
<1>3. written \in SUBSET (1 .. Len(in)) BY <1>1
<1>4. \A i \in DOMAIN in : in[i] # "quit" => written # {} OBVIOUS
<1>5. Asked(in) = Cardinality(written) BY DEF Asked
<1> HIDE DEF written
<1>6. IsFiniteSet(written) /\ Cardinality(written) \in Nat
    BY <1>2, <1>3, FS_Subset, FS_CardinalityType
<1>7. Cardinality(written) = 0 <=> written = {} BY <1>6, FS_EmptySet
<1> QED BY <1>4, <1>5, <1>6, <1>7 DEF written

\* One more is written.
LEMMA AskedAppend ==
    ASSUME NEW S, NEW in \in Seq(S), NEW command \in S
    PROVE  Asked(Append(in, command)) = Asked(in) + IF command = "quit" THEN 0 ELSE 1
<1> DEFINE in2 == Append(in, command)
           n == Len(in) + 1
           old == {i \in DOMAIN in : in[i] # "quit"}
           new == {i \in DOMAIN in2 : in2[i] # "quit"}
<1>1. /\ DOMAIN in2 = 1 .. n /\ DOMAIN in = 1 .. n - 1 /\ n \in Nat /\ n > 0
      /\ in2[n] = command /\ \A i \in DOMAIN in : in2[i] = in[i]
    BY Appended
<1>2. n \notin DOMAIN in /\ DOMAIN in2 = DOMAIN in \cup {n} BY <1>1
<1>3. Asked(in2) = Cardinality(new) /\ Asked(in) = Cardinality(old) BY DEF Asked
<1>4. IsFiniteSet(old) /\ Cardinality(old) \in Nat BY AskedIsNat DEF Asked
<1> HIDE DEF in2, n
<1>5. n \notin old BY <1>2
<1>6. CASE command = "quit"
    <2>1. new = old BY <1>1, <1>2, <1>6
    <2> HIDE DEF new, old
    <2> QED BY <1>3, <1>4, <1>6, <2>1 DEF in2
<1>7. CASE command # "quit"
    <2>1. new = old \cup {n} BY <1>1, <1>2, <1>7
    <2> HIDE DEF new, old
    <2>2. Cardinality(old \cup {n}) = Cardinality(old) + 1 BY <1>4, <1>5, FS_AddElement
    <2> QED BY <1>3, <1>7, <2>1, <2>2 DEF in2
<1> QED BY <1>6, <1>7

\* The first is read.
LEMMA AskedTail ==
    ASSUME NEW S, NEW in \in Seq(S), in # <<>>
    PROVE  Asked(in) = Asked(Tail(in)) + IF Head(in) = "quit" THEN 0 ELSE 1
<1> DEFINE in2 == Tail(in)
           old == {i \in DOMAIN in : in[i] # "quit"}
           new == {i \in DOMAIN in2 : in2[i] # "quit"}
           step == [i \in new |-> i + 1]
<1>1. /\ DOMAIN in = 1 .. Len(in) /\ Len(in) \in Nat /\ Len(in) > 0 /\ Head(in) = in[1]
      /\ DOMAIN in2 = 1 .. Len(in) - 1 /\ in2 \in Seq(S)
      /\ \A i \in DOMAIN in2 : i + 1 \in DOMAIN in /\ in2[i] = in[i + 1]
    BY Shortened
<1>2. 1 \in DOMAIN in BY <1>1
<1>3. \A i \in DOMAIN in : i # 1 => i - 1 \in DOMAIN in2 /\ in2[i - 1] = in[i]
    <2> SUFFICES ASSUME NEW i \in DOMAIN in, i # 1
                 PROVE  i - 1 \in DOMAIN in2 /\ in2[i - 1] = in[i]
        OBVIOUS
    <2>1. i - 1 \in DOMAIN in2 /\ (i - 1) + 1 = i BY <1>1
    <2> QED BY <1>1, <2>1
<1>4. Asked(in2) = Cardinality(new) /\ Asked(in) = Cardinality(old) BY DEF Asked
<1>5. IsFiniteSet(old) /\ Cardinality(old) \in Nat BY AskedIsNat DEF Asked
<1>6. IsFiniteSet(new) /\ Cardinality(new) \in Nat BY <1>1, AskedIsNat DEF Asked
<1> HIDE DEF in2
<1>7. new \subseteq Int /\ 1 \notin {i + 1 : i \in new} BY <1>1
<1>8. ExistsBijection(new, old \ {1})
    <2>1. \A i \in new : i + 1 \in old \ {1} BY <1>1, <1>7
    <2>2. \A j \in old \ {1} : j - 1 \in new /\ (j - 1) + 1 = j BY <1>1, <1>3
    <2>3. step \in [new -> old \ {1}] BY <2>1
    <2>4. \A i, j \in new : step[i] = step[j] => i = j BY <1>7
    <2>5. \A j \in old \ {1} : \E i \in new : step[i] = j
        <3> SUFFICES ASSUME NEW j \in old \ {1} PROVE \E i \in new : step[i] = j OBVIOUS
        <3>1. j - 1 \in new /\ step[j - 1] = j BY <2>2
        <3> QED BY <3>1
    <2> HIDE DEF step, old, new
    <2>6. step \in Bijection(new, old \ {1})
        BY <2>3, <2>4, <2>5, Zenon DEF Bijection, Injection, Surjection, IsInjective
    <2> QED BY <2>6 DEF ExistsBijection
<1> HIDE DEF new, old
<1>9. Cardinality(old \ {1}) = Cardinality(new) BY <1>6, <1>8, FS_Bijection
<1>10. Cardinality(old \ {1}) = IF 1 \in old THEN Cardinality(old) - 1 ELSE Cardinality(old)
    BY <1>5, FS_RemoveElement
<1>11. 1 \in old <=> Head(in) # "quit" BY <1>1, <1>2 DEF old
<1>12. CASE Head(in) = "quit" BY <1>4, <1>5, <1>6, <1>9, <1>10, <1>11, <1>12 DEF in2
<1>13. CASE Head(in) # "quit" BY <1>4, <1>5, <1>6, <1>9, <1>10, <1>11, <1>13 DEF in2
<1> QED BY <1>12, <1>13

\* What is owed is what was said, what was asked, and what is being done.
LEMMA OwedParts ==
    ASSUME TypeOK, NEW p \in Process
    PROVE  /\ Owed(p) = Len(stdout[p]) + Asked(stdin[p]) + Busy(job[p])
           /\ Len(stdout[p]) \in Nat /\ Asked(stdin[p]) \in Nat /\ Busy(job[p]) \in Nat
           /\ stdin[p] \in Seq(Command) /\ stdout[p] \in Seq(Line)
<1>1. stdin[p] \in Seq(Command) /\ stdout[p] \in Seq(Line) BY DEF TypeOK
<1> QED BY <1>1, AskedIsNat DEF Owed, Asked, Busy

\* A call that waits, but for that to quit, is owed a line.
LEMMA SomethingOwed ==
    ASSUME TypeOK, Talk, NEW p \in Process, current = p, call \notin {"none", "quit"}
    PROVE  Owed(p) # 0
<1> DEFINE n == Len(stdout[p])
           m == Asked(stdin[p])
           b == Busy(job[p])
<1>1. Waiting(phase = "leaving", call, behind, stdout[p], job[p], stdin[p]) BY TalkNow
<1>2. call \in Call /\ CommandOf[call] \notin {"none", "quit"}
    BY DEF TypeOK, CommandOf, Call
<1>3. /\ Owed(p) = n + m + b /\ n \in Nat /\ m \in Nat /\ b \in Nat
      /\ stdin[p] \in Seq(Command) /\ stdout[p] \in Seq(Line)
    BY OwedParts
<1>4. CASE Unread(phase = "leaving", call, behind, stdout[p], job[p], stdin[p])
    <2>1. Len(stdin[p]) \in DOMAIN stdin[p] BY <1>3, <1>4 DEF Unread
    <2>2. m # 0 BY <1>2, <1>3, <1>4, <2>1, AskedIsNat DEF Unread
    <2> HIDE DEF n, m, b
    <2> QED BY <1>3, <2>2
<1>5. CASE Doing(phase = "leaving", call, behind, stdout[p], job[p], stdin[p])
    <2>1. b = 1 BY <1>2, <1>5 DEF Doing, Busy
    <2> HIDE DEF n, m, b
    <2> QED BY <1>3, <2>1
<1>6. CASE Answered(phase = "leaving", call, behind, stdout[p], job[p], stdin[p])
    <2>1. PICK k \in DOMAIN stdout[p] : TRUE BY <1>6 DEF Answered
    <2>2. DOMAIN stdout[p] = 1 .. n /\ n \in Nat BY <1>3
    <2> HIDE DEF n, m, b
    <2>3. n # 0 BY <2>1, <2>2
    <2> QED BY <1>3, <2>3
<1> QED BY <1>1, <1>4, <1>5, <1>6 DEF Waiting

\* The same after a step.
LEMMA OwedNext ==
    ASSUME TypeOK', NEW p \in Process
    PROVE  /\ Owed(p)' = Len(stdout'[p]) + Asked(stdin'[p]) + Busy(job'[p])
           /\ Len(stdout'[p]) \in Nat /\ Asked(stdin'[p]) \in Nat /\ Busy(job'[p]) \in Nat
           /\ stdin'[p] \in Seq(Command) /\ stdout'[p] \in Seq(Line)
<1>1. stdin'[p] \in Seq(Command) /\ stdout'[p] \in Seq(Line) BY DEF TypeOK
<1> QED BY <1>1, AskedIsNat DEF Owed, Asked, Busy

-----------------------------------------------------------------------------
(* The session as the service sees it. *)

\* The used helper is the only one, so what is installed is its own while it lives.
LEMMA ViewUsed ==
    ASSUME Inv, Talk, Fit, NEW p \in Process, current = p
    PROVE  /\ ~Alive(p) => /\ daemonBar = "dead"
                           /\ routingBar = IF installed = "none" THEN "off" ELSE "leaked"
           /\ Alive(p) => /\ installed \in {"none", p} /\ proc[p] \in Working
                          /\ routingBar = IF installed = p THEN "held" ELSE "off"
                          /\ daemonBar = IF ~InStep(p) \/ proc[p] = "closing" THEN "mute"
                                         ELSE IF installed = p THEN "active" ELSE "idle"
<1>1. /\ p # "none" /\ \A q \in Process : ~Orphan(q)
    BY ProcessAssumption DEF Fit, Alone, Orphan
<1>2. proc[p] \notin {"none", "prompt"} BY TalkNow DEF Inv
<1>3. CASE ~Alive(p) BY <1>1, <1>3 DEF daemonBar, routingBar
<1>4. CASE Alive(p)
    <2>1. proc[p] \in Working BY <1>2, <1>4 DEF Alive, Living, Working
    <2>2. installed \in {"none", p} BY <2>1 DEF Fit, Owner
    <2> QED BY <1>1, <1>4, <2>1, <2>2 DEF daemonBar, routingBar
<1> QED BY <1>3, <1>4

\* Without a session there are those that were dropped, and what they left.
LEMMA ViewNone ==
    ASSUME current = "none", Inv
    PROVE  /\ daemonBar = "none"
           /\ routingBar = IF \E q \in Process : Orphan(q) THEN "orphan"
                           ELSE IF installed = "none" THEN "off" ELSE "leaked"
BY ProcessAssumption DEF daemonBar, routingBar, Inv, TypeOK

\* The same of the state after a step.
LEMMA ViewUsedNext ==
    ASSUME (Inv /\ Talk /\ Fit)', NEW p \in Process, current' = p
    PROVE  /\ ~Alive(p)' => /\ daemonBar' = "dead"
                            /\ routingBar' = IF installed' = "none" THEN "off" ELSE "leaked"
           /\ Alive(p)' => /\ installed' \in {"none", p} /\ proc'[p] \in Working
                           /\ routingBar' = IF installed' = p THEN "held" ELSE "off"
                           /\ daemonBar' = IF ~InStep(p)' \/ proc'[p] = "closing" THEN "mute"
                                           ELSE IF installed' = p THEN "active" ELSE "idle"
<1>1. /\ p # "none" /\ \A q \in Process : ~Orphan(q)'
    BY ProcessAssumption DEF Fit, Alone, Orphan
<1>2. proc'[p] \notin {"none", "prompt"} BY <1>1 DEF Talk, Heard
<1>3. CASE ~Alive(p)' BY <1>1, <1>3 DEF daemonBar, routingBar
<1>4. CASE Alive(p)'
    <2>1. proc'[p] \in Working BY <1>2, <1>4 DEF Alive, Living, Working
    <2>2. installed' \in {"none", p} BY <2>1 DEF Fit, Owner
    <2> QED BY <1>1, <1>4, <2>1, <2>2 DEF daemonBar, routingBar
<1> QED BY <1>3, <1>4

\* Likewise without a session.
LEMMA ViewNoneNext ==
    ASSUME current' = "none", Inv'
    PROVE  /\ daemonBar' = "none"
           /\ routingBar' = IF \E q \in Process : Orphan(q)' THEN "orphan"
                            ELSE IF installed' = "none" THEN "off" ELSE "leaked"
BY ProcessAssumption DEF daemonBar, routingBar, Inv, TypeOK

\* The service may stay as it is, or make the step that one of its actions is.
ServiceStep == Service!HelperNext \/ UNCHANGED <<daemonBar, routingBar>>

\* The three ways to be a step of the service.
LEMMA Stays ==
    ASSUME daemonBar' = daemonBar, routingBar' = routingBar
    PROVE  ServiceStep
BY DEF ServiceStep

LEMMA Environment ==
    ASSUME Service!DaemonDies \/ Service!GoesMute \/ Service!SessionEnds \/ Service!OrphanEnds
    PROVE  ServiceStep
BY DEF ServiceStep, Service!HelperNext, Service!HelperEnvironment

LEMMA Calls ==
    ASSUME \/ Service!EnsureStarted \/ Service!EnsureFails \/ Service!Discard
           \/ Service!StartSession \/ Service!StartFails
    PROVE  ServiceStep
BY DEF ServiceStep, Service!HelperNext, Service!HelperCall

\* A command that is done is answered to the client, so that as many lines are to come
\* as before.
LEMMA DoneServes ==
    ASSUME TypeOK, TypeOK', NEW p \in Process, NEW line \in Line, NEW left \in BOOLEAN,
           Serving(p), Open(p), Cleared(p) \/ Kept(p), Done(p, line, left)
    PROVE  /\ Owed(p)' = Owed(p) + 1 - Busy(job[p]) /\ proc'[p] = proc[p]
           /\ proc[p] = "serving"
           /\ Cleared(p) => installed' = "none"
           /\ Kept(p) => installed' = installed
<1>1. /\ stdout'[p] = Append(stdout[p], line) /\ stdin' = stdin /\ job'[p] = "none"
    BY DEF Done, Writes, TypeOK
<1>2. stdout[p] \in Seq(Line) BY DEF TypeOK
<1>3. Len(stdout'[p]) = Len(stdout[p]) + 1 BY <1>1, <1>2, Appended
<1>4. Busy(job'[p]) = 0 /\ Busy(job[p]) \in {0, 1} BY <1>1 DEF Busy
<1>5. Owed(p)' = Owed(p) + 1 - Busy(job[p])
    <2> DEFINE n == Len(stdout[p])
               m == Asked(stdin[p])
               b == Busy(job[p])
    <2>1. /\ Owed(p) = n + m + b /\ n \in Nat /\ m \in Nat /\ b \in Nat
        BY OwedParts
    <2>2. Owed(p)' = (n + 1) + m + 0 BY <1>1, <1>3, <1>4, OwedNext
    <2> HIDE DEF n, m, b
    <2>3. Owed(p)' = (n + m + b) + 1 - b BY <2>1, <2>2
    <2> QED BY <2>1, <2>3 DEF b
<1>6. proc[p] = "serving" BY DEF Serving
<1>7. proc'[p] = "serving"
    BY DEF Cleared, Clearing, Kept, AfterWrite, TypeOK
<1>8. Cleared(p) => installed' = "none" BY DEF Cleared, Clearing
<1>9. Kept(p) => installed' = installed BY DEF Kept
<1> QED BY <1>5, <1>6, <1>7, <1>8, <1>9

\* What a used helper does is one of these, as far as the service can tell.
GoesOn(p) == Owed(p)' = Owed(p) /\ proc'[p] = proc[p] /\ installed' \in {installed, "none"}
SpeaksUp(p) ==
    /\ Owed(p)' = Owed(p) + 1 /\ proc'[p] = proc[p]
    /\ installed = p /\ installed' = "none"
Installs(p) ==
    /\ Owed(p)' = Owed(p) /\ proc'[p] = proc[p] /\ proc[p] = "serving"
    /\ InStep(p) /\ installed' = p
TurnsAway(p) == Owed(p)' = Owed(p) /\ proc'[p] = "closing" /\ installed' = installed
Ends(p) == proc'[p] = "dead" /\ installed' \in {installed, "none"}

\* Every step of the helper that is used is one of these.
LEMMA HelperServes ==
    ASSUME Inv, Talk, Fit, NEW p \in Process, Helper(p) \/ ByItself(p), current = p
    PROVE  GoesOn(p) \/ SpeaksUp(p) \/ Installs(p) \/ TurnsAway(p) \/ Ends(p)
<1> USE DEF pipeVars
<1>0. TypeOK /\ TypeOK' /\ Open(p) BY HelperTypeStep DEF Inv, Open
<1>1. p # "none" /\ Owed(p) \in Nat /\ session[p] \in BOOLEAN
    BY <1>0, OwedIsNat, ProcessAssumption DEF TypeOK
<1>2. proc[p] \in Working BY OnlyCurrent, <1>1
<1>3. CASE Boot(p) BY <1>2, <1>3 DEF Boot, Working
<1>4. CASE Read(p)
    <2>1. /\ proc' = proc /\ installed' = installed /\ stdout' = stdout
          /\ job[p] = "none" /\ stdin[p] # <<>>
          /\ job'[p] = Head(stdin[p]) /\ stdin'[p] = Tail(stdin[p])
        BY <1>0, <1>4 DEF Read, TypeOK
    <2> DEFINE n == Len(stdout[p])
               m == Asked(stdin[p])
               m2 == Asked(stdin'[p])
               b == Busy(job[p])
               b2 == Busy(job'[p])
    <2>2. /\ Owed(p) = n + m + b /\ n \in Nat /\ m \in Nat /\ b \in Nat
          /\ stdin[p] \in Seq(Command)
        BY <1>0, OwedParts
    <2>3. Owed(p)' = n + m2 + b2 /\ m2 \in Nat /\ b2 \in Nat BY <1>0, <2>1, OwedNext
    <2>4. m = m2 + IF Head(stdin[p]) = "quit" THEN 0 ELSE 1 BY <2>1, <2>2, AskedTail
    <2>5. Head(stdin[p]) \in Command BY <2>1, <2>2, Shortened
    <2>6. b = 0 /\ b2 = IF Head(stdin[p]) = "quit" THEN 0 ELSE 1
        BY <2>1, <2>5 DEF Busy, Command
    <2> HIDE DEF n, m, m2, b, b2
    <2>7. m = m2 + b2 BY <2>4, <2>6
    <2>8. Owed(p)' = Owed(p) BY <2>2, <2>3, <2>6, <2>7
    <2> QED BY <2>1, <2>8 DEF GoesOn
<1>5. CASE SetUp(p)
    <2>1. /\ proc[p] = "serving" /\ job[p] = "start" /\ job' = [job EXCEPT ![p] = "started"]
          /\ stdin' = stdin /\ stdout' = stdout /\ installed' = p
          /\ proc' = [q \in Process |-> IF q # p /\ Alive(q) THEN "dead" ELSE proc[q]]
        BY <1>5 DEF SetUp, Serving
    <2>2. job'[p] = "started" /\ proc'[p] = proc[p] BY <1>0, <2>1 DEF TypeOK
    <2>3. Busy(job'[p]) = 1 /\ Busy(job[p]) = 1 BY <2>1, <2>2 DEF Busy
    <2>4. Owed(p)' = Owed(p) BY <1>0, <2>1, <2>3, OwedParts, OwedNext
    <2>5. call = "start"
        <3>1. job[p] \notin LateCommands(phase = "leaving") \cup {"none"}
              /\ job[p] \notin LateCommands(phase = "leaving" \/ ~Alive(p)) \cup {"none"}
            BY <2>1 DEF LateCommands
        <3>2. call # "none"
            <4>1. call = "none" =>
                    AllLate(phase = "leaving" \/ ~Alive(p), stdout[p], job[p], stdin[p])
                BY <1>0, TalkNow
            <4> QED BY <3>1, <4>1 DEF AllLate
        <3>3. Waiting(phase = "leaving", call, behind, stdout[p], job[p], stdin[p])
              /\ call \in Call
            BY <1>0, <3>2, TalkNow DEF TypeOK
        <3>4. Doing(phase = "leaving", call, behind, stdout[p], job[p], stdin[p])
            BY <2>1, <3>1, <3>3 DEF Waiting, Unread, Answered
        <3>5. CommandOf[call] = "start" BY <2>1, <3>4 DEF Doing
        <3> QED BY <3>3, <3>5 DEF CommandOf, Call
    <2>6. stdin[p] = <<>> /\ stdout[p] = <<>>
        BY <1>1, <2>1, <2>5 DEF Fit, Starting
    <2>7. Asked(stdin[p]) = 0
        <3>1. {i \in DOMAIN stdin[p] : stdin[p][i] # "quit"} = {} BY <2>6
        <3> QED BY <3>1, FS_EmptySet DEF Asked
    <2>8. Len(stdout[p]) = 0 BY <2>6
    <2>9. Owed(p) = 1 BY <1>0, <2>3, <2>7, <2>8, OwedParts
    <2>10. InStep(p) BY <2>5, <2>9 DEF InStep
    <2> QED BY <2>1, <2>2, <2>4, <2>10 DEF Installs
<1>6. ASSUME Serving(p), NEW line \in Line, NEW left \in BOOLEAN, Cleared(p) \/ Kept(p),
             Done(p, line, left), job[p] \notin {"none", "quit"}
      PROVE  GoesOn(p)
    <2>1. Busy(job[p]) = 1 BY <1>6 DEF Busy
    <2>2. /\ Owed(p)' = Owed(p) + 1 - 1 /\ proc'[p] = proc[p]
          /\ Cleared(p) => installed' = "none"
          /\ Kept(p) => installed' = installed
        BY <1>0, <1>6, <2>1, DoneServes
    <2>3. Owed(p)' = Owed(p) BY <1>1, <2>2
    <2> QED BY <1>6, <2>2, <2>3 DEF GoesOn
<1>7. CASE \/ Started(p) \/ RollsBack(p) \/ Stops(p) \/ FindsSick(p) \/ SyncFails(p)
           \/ TellsStatus(p) \/ Syncs(p)
    <2>1. {"active", "error", "stopped", "on", "off", "synced"} \subseteq Line BY DEF Line
    <2> QED BY <1>1, <1>6, <1>7, <2>1
        DEF Started, RollsBack, Stops, FindsSick, SyncFails, TellsStatus, Syncs
<1>8. CASE TunEnds(p)
    <2>1. /\ Serving(p) /\ job[p] = "none" /\ session[p] /\ Cleared(p)
          /\ Done(p, "error", FALSE) /\ "error" \in Line /\ proc[p] = "serving"
        BY <1>8 DEF TunEnds, Line, Serving
    <2>2. Busy(job[p]) = 0 BY <2>1 DEF Busy
    <2>3. Owed(p)' = Owed(p) + 1 - 0 /\ proc'[p] = proc[p] /\ installed' = "none"
        BY <1>0, <2>1, <2>2, DoneServes
    <2>4. Owed(p)' = Owed(p) + 1 BY <1>1, <2>3
    <2>5. installed = p BY <2>1 DEF Inv, Kernel
    <2> QED BY <2>3, <2>4, <2>5 DEF SpeaksUp
<1>9. ASSUME job' = job, stdin' = stdin, stdout' = stdout PROVE Owed(p)' = Owed(p)
    BY <1>9 DEF Owed
<1>10. CASE TickFails(p)
    <2>1. proc[p] = "serving" /\ Clearing(p, "serving") /\ job' = job /\ stdin' = stdin
          /\ stdout' = stdout
        BY <1>10 DEF TickFails, Serving
    <2>2. proc'[p] = proc[p] /\ installed' = "none" BY <2>1 DEF Clearing
    <2> QED BY <1>9, <2>1, <2>2 DEF GoesOn
<1>11. CASE Closes(p) \/ Terminated(p)
    <2>1. /\ proc' = [proc EXCEPT ![p] = "closing"] /\ installed' = installed
          /\ job' = job /\ stdin' = stdin /\ stdout' = stdout
        BY <1>11 DEF Closes, Terminated
    <2>2. proc'[p] = "closing" BY <1>0, <2>1 DEF TypeOK
    <2> QED BY <1>9, <2>1, <2>2 DEF TurnsAway
<1>12. CASE ClosesDown(p) BY <1>12 DEF ClosesDown, Clearing, Ends
<1>13. CASE Killed(p) BY <1>0, <1>13 DEF Killed, Ends, TypeOK
<1> QED BY <1>3, <1>4, <1>5, <1>7, <1>8, <1>10, <1>11, <1>12, <1>13 DEF Helper, ByItself

\* Each of these is a step of the service.
LEMMA UsedHelperStep ==
    ASSUME Inv, Talk, Fit, (Inv /\ Talk /\ Fit)',
           NEW p \in Process, Helper(p) \/ ByItself(p), current = p
    PROVE  ServiceStep
<1>1. /\ Alive(p) /\ current' = p /\ call' = call /\ TypeOK
    BY HelperInstalls, HelperOnPipe DEF Inv, OnPipe, clientVars
<1>2. /\ installed \in {"none", p} /\ proc[p] \in Working
      /\ routingBar = IF installed = p THEN "held" ELSE "off"
      /\ daemonBar = IF ~InStep(p) \/ proc[p] = "closing" THEN "mute"
                     ELSE IF installed = p THEN "active" ELSE "idle"
    BY <1>1, ViewUsed
<1>3. /\ ~Alive(p)' => /\ daemonBar' = "dead"
                       /\ routingBar' = IF installed' = "none" THEN "off" ELSE "leaked"
      /\ Alive(p)' => /\ routingBar' = IF installed' = p THEN "held" ELSE "off"
                      /\ daemonBar' = IF ~InStep(p)' \/ proc'[p] = "closing" THEN "mute"
                                      ELSE IF installed' = p THEN "active" ELSE "idle"
    BY <1>1, ViewUsedNext
<1>4. p # "none" BY ProcessAssumption
<1>5. proc'[p] \in Working => Alive(p)' BY DEF Alive, Living, Working
<1>6. Owed(p)' = Owed(p) => InStep(p)' = InStep(p) BY <1>1 DEF InStep
<1>7. CASE GoesOn(p)
    <2>1. /\ daemonBar' = IF ~InStep(p) \/ proc[p] = "closing" THEN "mute"
                          ELSE IF installed' = p THEN "active" ELSE "idle"
          /\ routingBar' = IF installed' = p THEN "held" ELSE "off"
          /\ installed' \in {installed, "none"}
        BY <1>2, <1>3, <1>5, <1>6, <1>7 DEF GoesOn
    <2>2. CASE installed' = installed BY <1>2, <2>1, <2>2, Stays
    <2>3. CASE installed # "none" /\ installed' = "none"
        <3>1. /\ routingBar = "held" /\ daemonBar \in {"active", "mute"} /\ routingBar' = "off"
              /\ daemonBar' = IF daemonBar = "active" THEN "idle" ELSE "mute"
            BY <1>2, <1>4, <2>1, <2>3
        <3>2. Service!SessionEnds BY <3>1 DEF Service!SessionEnds
        <3> QED BY <3>2, Environment
    <2> QED BY <2>1, <2>2, <2>3
<1>8. CASE SpeaksUp(p)
    <2>1. ~InStep(p)'
        <3>1. call \notin {"none", "quit"} => Owed(p) # 0 BY <1>1, SomethingOwed
        <3>2. Owed(p) \in Nat BY <1>1, OwedIsNat
        <3>3. Owed(p)' = Owed(p) + 1 BY <1>8 DEF SpeaksUp
        <3>4. Owed(p) + 1 # 0 /\ (Owed(p) # 0 => Owed(p) + 1 # 1) BY <3>2
        <3> QED BY <1>1, <3>1, <3>3, <3>4 DEF InStep
    <2>2. /\ routingBar = "held" /\ daemonBar \in {"active", "mute"}
          /\ routingBar' = "off" /\ daemonBar' = "mute"
        BY <1>2, <1>3, <1>4, <1>5, <1>8, <2>1 DEF SpeaksUp
    <2>3. Service!SessionEnds BY <2>2 DEF Service!SessionEnds
    <2> QED BY <2>3, Environment
<1>9. CASE Installs(p)
    <2>1. /\ daemonBar = (IF installed = p THEN "active" ELSE "idle")
          /\ daemonBar' = "active" /\ routingBar' = "held"
        BY <1>2, <1>3, <1>5, <1>6, <1>9 DEF Installs, Working
    <2>2. CASE installed = p BY <1>2, <2>1, <2>2, Stays
    <2>3. CASE installed # p
        <3>1. Service!StartSession BY <2>1, <2>3 DEF Service!StartSession
        <3> QED BY <3>1, Calls
    <2> QED BY <2>2, <2>3
<1>10. CASE TurnsAway(p)
    <2>1. daemonBar' = "mute" /\ routingBar' = routingBar
        BY <1>2, <1>3, <1>5, <1>10 DEF TurnsAway, Working
    <2>2. CASE daemonBar = "mute" BY <2>1, <2>2, Stays
    <2>3. CASE daemonBar # "mute"
        <3>1. daemonBar \in {"idle", "active"} BY <1>2, <2>3
        <3>2. Service!GoesMute BY <2>1, <3>1 DEF Service!GoesMute
        <3> QED BY <3>2, Environment
    <2> QED BY <2>2, <2>3
<1>11. CASE Ends(p)
    <2>1. ~Alive(p)' BY <1>11 DEF Ends, Alive, Living
    <2>2. /\ daemonBar \in {"idle", "active", "mute"} /\ daemonBar' = "dead"
          /\ routingBar' \in IF routingBar = "held" THEN {"off", "leaked"} ELSE {routingBar}
        BY <1>2, <1>3, <1>11, <2>1 DEF Ends
    <2>3. Service!DaemonDies BY <2>2 DEF Service!DaemonDies
    <2> QED BY <2>3, Environment
<1> QED BY <1>7, <1>8, <1>9, <1>10, <1>11, HelperServes

\* A command is begun when it is read.
LEMMA HelperReads ==
    ASSUME TypeOK, NEW p \in Process, Helper(p) \/ ByItself(p)
    PROVE  \/ job'[p] = job[p] /\ stdin'[p] = stdin[p]
           \/ /\ job[p] = "none" /\ stdin[p] # <<>>
              /\ job'[p] = Head(stdin[p]) /\ stdin'[p] = Tail(stdin[p])
           \/ job'[p] # "start" /\ stdin'[p] = stdin[p]
<1>1. CASE Read(p) BY <1>1 DEF Read, TypeOK
<1>2. CASE SetUp(p) BY <1>2 DEF SetUp, pipeVars, TypeOK
<1>3. ASSUME NEW line, NEW left, Done(p, line, left)
      PROVE  job'[p] # "start" /\ stdin'[p] = stdin[p]
    BY <1>3 DEF Done, TypeOK
<1>4. CASE \/ Started(p) \/ RollsBack(p) \/ Stops(p) \/ FindsSick(p) \/ SyncFails(p)
           \/ TunEnds(p) \/ TellsStatus(p) \/ Syncs(p)
    <2>1. job'[p] # "start" /\ stdin'[p] = stdin[p]
        BY <1>3, <1>4
        DEF Started, RollsBack, Stops, FindsSick, SyncFails, TunEnds, TellsStatus, Syncs
    <2> QED BY <2>1
<1>5. CASE \/ Boot(p) \/ Closes(p) \/ Terminated(p) \/ Killed(p) \/ TickFails(p)
           \/ ClosesDown(p)
    BY <1>5 DEF Boot, Closes, Terminated, Killed, TickFails, ClosesDown, pipeVars
<1> QED BY <1>1, <1>2, <1>4, <1>5 DEF Helper, ByItself

\* One line fewer is to come when one is taken.
LEMMA LineTaken ==
    ASSUME TypeOK, TypeOK', NEW p \in Process, stdout[p] # <<>>,
           stdout'[p] = Tail(stdout[p]), stdin' = stdin, job' = job
    PROVE  Owed(p)' = Owed(p) - 1 /\ Owed(p) \in Nat
<1> DEFINE n == Len(stdout[p])
           m == Asked(stdin[p])
           b == Busy(job[p])
<1>1. /\ Owed(p) = n + m + b /\ n \in Nat /\ m \in Nat /\ b \in Nat
      /\ stdout[p] \in Seq(Line)
    BY OwedParts
<1>2. Len(stdout'[p]) = n - 1 BY <1>1, Shortened
<1>3. Owed(p)' = (n - 1) + m + b BY <1>2, OwedNext
<1> HIDE DEF n, m, b
<1> QED BY <1>1, <1>3

\* With no session to a helper, those that are left come to their end.
LEMMA LeftHelperStep ==
    ASSUME Inv, Talk, Fit, (Inv /\ Talk /\ Fit)',
           NEW p \in Process, Helper(p) \/ ByItself(p), current = "none"
    PROVE  ServiceStep
<1>1. /\ current' = "none" /\ TypeOK /\ OnPipe(p) /\ Alive(p)
      /\ \/ installed' \in {installed, "none"}
         \/ installed' = p /\ job[p] = "start" /\ proc[p] = "serving"
    BY HelperInstalls, HelperOnPipe DEF Inv, OnPipe, clientVars
<1>2. /\ daemonBar = "none"
      /\ routingBar = IF \E q \in Process : Orphan(q) THEN "orphan"
                      ELSE IF installed = "none" THEN "off" ELSE "leaked"
    BY ViewNone
<1>3. /\ daemonBar' = "none"
      /\ routingBar' = IF \E q \in Process : Orphan(q)' THEN "orphan"
                       ELSE IF installed' = "none" THEN "off" ELSE "leaked"
    BY <1>1, ViewNoneNext
<1>4. /\ \A q \in Process \ {p} : /\ stdin'[q] = stdin[q] /\ job'[q] = job[q]
                                  /\ proc'[q] \in {proc[q], "dead"}
      /\ \A q \in Process : q # "none"
    BY <1>1, ProcessAssumption DEF OnPipe, LeavesOthers
<1>5. ASSUME NEW q \in Process, Orphan(q)' PROVE Orphan(q)
    <2>1. Alive(q)' /\ (installed' = q \/ job'[q] = "start"
                        \/ \E i \in DOMAIN stdin'[q] : stdin'[q][i] = "start")
        BY <1>5 DEF Orphan
    <2>2. CASE q # p
        <3>1. Alive(q) BY <1>4, <2>1, <2>2 DEF Alive, Living
        <3>2. installed' = q => installed = q BY <1>1, <1>4, <2>2
        <3> QED BY <1>4, <2>1, <2>2, <3>1, <3>2 DEF Orphan
    <2>3. CASE q = p
        <3>1. installed' = p => installed = p \/ job[p] = "start" BY <1>1, <1>4
        <3>2. \/ job'[p] = job[p] /\ stdin'[p] = stdin[p]
              \/ job[p] = "none" /\ stdin[p] # <<>> /\ job'[p] = Head(stdin[p])
                 /\ stdin'[p] = Tail(stdin[p])
              \/ job'[p] # "start" /\ stdin'[p] = stdin[p]
            BY <1>1, HelperReads
        <3>3. stdin[p] \in Seq(Command) BY <1>1 DEF TypeOK
        <3>4. ASSUME stdin[p] # <<>>, job'[p] = Head(stdin[p]), stdin'[p] = Tail(stdin[p]),
                     job'[p] = "start" \/ \E i \in DOMAIN stdin'[p] : stdin'[p][i] = "start"
              PROVE  \E i \in DOMAIN stdin[p] : stdin[p][i] = "start"
            <4>1. /\ Head(stdin[p]) = stdin[p][1] /\ DOMAIN stdin[p] = 1 .. Len(stdin[p])
                  /\ Len(stdin[p]) \in Nat /\ Len(stdin[p]) > 0
                  /\ \A i \in DOMAIN Tail(stdin[p]) :
                        i + 1 \in DOMAIN stdin[p] /\ Tail(stdin[p])[i] = stdin[p][i + 1]
                BY <3>3, <3>4, Shortened
            <4>2. 1 \in DOMAIN stdin[p] BY <4>1
            <4>3. CASE job'[p] = "start" BY <3>4, <4>1, <4>2, <4>3
            <4>4. CASE \E i \in DOMAIN stdin'[p] : stdin'[p][i] = "start"
                BY <3>4, <4>1, <4>4
            <4> QED BY <3>4, <4>3, <4>4
        <3>5. \/ installed = p \/ job[p] = "start"
              \/ \E i \in DOMAIN stdin[p] : stdin[p][i] = "start"
            BY <2>1, <2>3, <3>1, <3>2, <3>4
        <3> QED BY <1>1, <1>4, <2>3, <3>5 DEF Orphan
    <2> QED BY <2>2, <2>3
<1>6. CASE \E q \in Process : Orphan(q)
    <2>1. routingBar = "orphan" /\ routingBar' \in {"orphan", "off", "leaked"}
        BY <1>2, <1>3, <1>6
    <2>2. CASE routingBar' = "orphan" BY <1>2, <1>3, <2>1, <2>2, Stays
    <2>3. CASE routingBar' # "orphan"
        <3>1. Service!OrphanEnds BY <1>2, <1>3, <2>1, <2>3 DEF Service!OrphanEnds
        <3> QED BY <3>1, Environment
    <2> QED BY <2>2, <2>3
<1>7. CASE ~\E q \in Process : Orphan(q)
    <2>1. ~\E q \in Process : Orphan(q)' BY <1>5, <1>7
    <2>2. job[p] # "start"
        BY <1>1, <1>4, <1>7 DEF Orphan
    <2>3. routingBar' \in {routingBar, "off"} BY <1>1, <1>2, <1>3, <1>7, <2>1, <2>2
    <2>4. Service!EnsureFails BY <1>2, <1>3, <2>3 DEF Service!EnsureFails
    <2> QED BY <2>4, Calls
<1> QED BY <1>6, <1>7

\* The client takes the first helper that comes up, or another.
LEMMA ClientStep ==
    ASSUME Inv, Talk, Fit, (Inv /\ Talk /\ Fit)', Client
    PROVE  ServiceStep
<1> USE DEF daemonVars, pipeVars
<1>0. /\ TypeOK /\ TypeOK' /\ (current = "none" => call = "none")
      /\ current \in Process \cup {"none"} /\ call \in Call \cup {"none"}
      /\ \A q \in Process : q # "none"
    BY ProcessAssumption DEF Inv, TypeOK, Talk, Heard
\* Without a session.
<1>1. ASSUME current = "none", current' = "none", installed' = installed,
             \A q \in Process : Orphan(q)' <=> Orphan(q)
      PROVE  ServiceStep
    <2>1. daemonBar' = daemonBar /\ routingBar' = routingBar
        BY <1>0, <1>1, ViewNone, ViewNoneNext
    <2> QED BY <2>1, Stays
<1>2. ASSUME current = "none", current' = "none", UNCHANGED daemonVars, stdin' = stdin
      PROVE  ServiceStep
    <2>1. \A q \in Process : Orphan(q)' <=> Orphan(q) BY <1>2 DEF Orphan, Alive
    <2> QED BY <1>1, <1>2, <2>1
<1>3. ASSUME NEW p \in Process, Launch(p) PROVE ServiceStep
    <2>1. /\ current = "none" /\ current' = "none" /\ proc[p] = "none"
          /\ proc' = [proc EXCEPT ![p] = "prompt"]
          /\ job' = job /\ stdin' = stdin /\ installed' = installed
        BY <1>3 DEF Launch
    <2>2. installed # p /\ job[p] = "none" /\ stdin[p] = <<>>
        BY <2>1 DEF Fit, Owner, Inv, Fresh, Talk, Unheard
    <2>3. \A i \in DOMAIN stdin[p] : FALSE BY <2>2
    <2>4. ~Orphan(p)' /\ ~Orphan(p) BY <2>1, <2>2, <2>3 DEF Orphan
    <2>5. \A q \in Process \ {p} : proc'[q] = proc[q] BY <1>0, <2>1 DEF TypeOK
    <2>6. \A q \in Process \ {p} : Orphan(q)' <=> Orphan(q)
        BY <2>1, <2>5 DEF Orphan, Alive
    <2> QED BY <1>1, <2>1, <2>4, <2>6
<1>4. ASSUME NEW p \in Process, LaunchFails(p) PROVE ServiceStep
    <2>1. /\ launching = p /\ current' = current
          /\ proc' = [proc EXCEPT ![p] = IF @ = "prompt" THEN "dead" ELSE @]
          /\ job' = job /\ stdin' = stdin /\ installed' = installed
        BY <1>4 DEF LaunchFails
    <2>2. current = "none" BY <1>0, <2>1 DEF Talk, Awaited
    <2>3. proc'[p] = (IF proc[p] = "prompt" THEN "dead" ELSE proc[p])
          /\ \A q \in Process \ {p} : proc'[q] = proc[q]
        BY <1>0, <2>1 DEF TypeOK
    <2>4. \A q \in Process \ {p} : Orphan(q)' <=> Orphan(q)
        BY <2>1, <2>3 DEF Orphan, Alive
    <2>5. Orphan(p)' <=> Orphan(p)
        <3>1. CASE proc[p] = "prompt"
            <4>1. installed # p /\ job[p] = "none" /\ stdin[p] = <<>>
                BY <3>1 DEF Fit, Owner, Inv, Fresh, Talk, Unheard
            <4>2. \A i \in DOMAIN stdin[p] : FALSE BY <4>1
            <4> QED BY <2>1, <4>1, <4>2 DEF Orphan
        <3>2. CASE proc[p] # "prompt" BY <2>1, <2>3, <3>2 DEF Orphan, Alive
        <3> QED BY <3>1, <3>2
    <2> QED BY <1>1, <2>1, <2>2, <2>4, <2>5
<1>5. ASSUME NEW p \in Process, TakeReady(p) PROVE ServiceStep
    <2>1. launching = p /\ stdout[p] # <<>> /\ current' = p /\ UNCHANGED daemonVars
        BY <1>5 DEF TakeReady
    <2>2. /\ installed = "none" /\ \A q \in Process \ {p} : ~Alive(q)
          /\ current = "none" /\ stdin[p] = <<>> /\ job[p] = "none"
        BY <1>0, <2>1 DEF Fit, Up, Talk, Awaited
    <2>3. /\ \A i \in DOMAIN stdin[p] : FALSE
        BY <2>2
    <2>4. \A q \in Process : ~Orphan(q) BY <1>0, <2>2, <2>3 DEF Orphan
    <2>5. daemonBar = "none" /\ routingBar = "off" BY <2>2, <2>4, ViewNone
    <2>6. daemonBar' \in {"idle", "mute", "dead"} /\ routingBar' = "off"
        BY <1>0, <2>1, <2>2, ViewUsedNext
    <2>7. Service!EnsureStarted BY <2>5, <2>6 DEF Service!EnsureStarted
    <2> QED BY <2>7, Calls
\* With one that goes on.
<1>6. ASSUME NEW p \in Process, current = p, current' = p, UNCHANGED daemonVars,
             InStep(p)' => InStep(p)
      PROVE  ServiceStep
    <2>1. Alive(p)' = Alive(p) /\ proc'[p] = proc[p] /\ installed' = installed
        BY <1>6 DEF Alive
    <2>2. CASE ~Alive(p)
        <3>1. daemonBar' = daemonBar /\ routingBar' = routingBar
            BY <1>6, <2>1, <2>2, ViewUsed, ViewUsedNext
        <3> QED BY <3>1, Stays
    <2>3. CASE Alive(p)
        <3>1. /\ routingBar' = routingBar
              /\ daemonBar = IF ~InStep(p) \/ proc[p] = "closing" THEN "mute"
                             ELSE IF installed = p THEN "active" ELSE "idle"
              /\ daemonBar' = IF ~InStep(p)' \/ proc[p] = "closing" THEN "mute"
                              ELSE IF installed = p THEN "active" ELSE "idle"
            BY <1>6, <2>1, <2>3, ViewUsed, ViewUsedNext
        <3>2. CASE daemonBar' = daemonBar BY <3>1, <3>2, Stays
        <3>3. CASE daemonBar' # daemonBar
            <4>1. daemonBar \in {"idle", "active"} /\ daemonBar' = "mute"
                BY <1>6, <3>1, <3>3
            <4>2. Service!GoesMute BY <3>1, <4>1 DEF Service!GoesMute
            <4> QED BY <4>2, Environment
        <3> QED BY <3>2, <3>3
    <2> QED BY <2>2, <2>3
\* With one that is dropped.
<1>7. ASSUME NEW p \in Process, current = p, current' = "none", UNCHANGED daemonVars,
             stdin' = stdin
      PROVE  ServiceStep
    <2>1. \A q \in Process \ {p} : ~Orphan(q)'
        <3>1. \A q \in Process \ {p} : ~Alive(q) BY <1>0, <1>7 DEF Fit, Alone
        <3> QED BY <1>7, <3>1 DEF Orphan, Alive
    <2>2. /\ daemonBar' = "none"
          /\ routingBar' = IF Orphan(p)' THEN "orphan"
                           ELSE IF installed = "none" THEN "off" ELSE "leaked"
        BY <1>7, <2>1, ViewNoneNext
    <2>3. Orphan(p)' <=> /\ Alive(p)
                         /\ \/ installed = p \/ job[p] = "start"
                            \/ \E i \in DOMAIN stdin[p] : stdin[p][i] = "start"
        BY <1>0, <1>7 DEF Orphan, Alive
    <2>4. CASE ~Alive(p)
        <3>1. routingBar' = routingBar /\ routingBar \in {"off", "leaked"}
            BY <1>7, <2>2, <2>3, <2>4, ViewUsed
        <3>2. Service!Discard BY <2>2, <3>1 DEF Service!Discard
        <3> QED BY <3>2, Calls
    <2>5. CASE Alive(p) /\ installed = p
        <3>1. routingBar = "held" /\ routingBar' = "orphan"
            BY <1>7, <2>2, <2>3, <2>5, ViewUsed
        <3>2. Service!Discard BY <2>2, <3>1 DEF Service!Discard
        <3> QED BY <3>2, Calls
    <2>6. CASE Alive(p) /\ installed # p
        <3>1. /\ installed = "none" /\ routingBar = "off" /\ daemonBar \in {"idle", "mute"}
              /\ routingBar' \in {"off", "orphan"}
            BY <1>7, <2>2, <2>3, <2>6, ViewUsed
        <3>2. Service!StartFails BY <2>2, <3>1 DEF Service!StartFails
        <3> QED BY <3>2, Calls
    <2> QED BY <2>4, <2>5, <2>6
<1>8. ASSUME NEW p \in Process, TakeLine(p), stdin' = stdin, call \notin {"none", "quit"},
             current' = p, call' = "none"
      PROVE  ServiceStep
    <2>1. /\ current = p /\ stdout[p] # <<>> /\ stdout'[p] = Tail(stdout[p])
          /\ UNCHANGED daemonVars
        BY <1>0, <1>8 DEF TakeLine, TypeOK
    <2>2. Owed(p)' = Owed(p) - 1 /\ Owed(p) \in Nat BY <1>0, <1>8, <2>1, LineTaken
    <2>3. InStep(p)' => InStep(p)
        <3>1. InStep(p)' => Owed(p)' = 0 BY <1>8 DEF InStep
        <3>2. Owed(p)' = 0 => Owed(p) = 1 BY <2>2
        <3>3. Owed(p) = 1 => InStep(p) BY <1>8 DEF InStep
        <3> QED BY <3>1, <3>2, <3>3
    <2> QED BY <1>6, <1>8, <2>1, <2>3
<1>9. ASSUME NEW p \in Process, Succeeds(p) PROVE ServiceStep
    <2>1. /\ TakeLine(p) /\ stdin' = stdin /\ call \notin {"none", "quit"}
          /\ current' = p /\ call' = "none"
        BY <1>9 DEF Succeeds, TakeLine, WantedLine
    <2> QED BY <1>8, <2>1
<1>10. ASSUME NEW active, Failed(active), call \in Call
       PROVE  /\ call' = "none"
              /\ current' = "none" \/ (current' = current /\ call \in {"check", "sync"})
    BY <1>10 DEF Failed, Discard, Call
<1>11. ASSUME NEW p \in Process, Fails(p) PROVE ServiceStep
    <2>1. /\ TakeLine(p) /\ current = p /\ call \in Call
          /\ \/ call = "vet" /\ StopNext(p)
             \/ /\ Failed(isActive /\ Head(stdout[p]) \notin {"error", "off"})
                /\ UNCHANGED stdin
        BY <1>0, <1>11 DEF Fails, TakeLine
    <2>2. ASSUME NEW active, Failed(active), stdin' = stdin PROVE ServiceStep
        <3>1. /\ call' = "none"
              /\ current' = "none" \/ (current' = p /\ call \in {"check", "sync"})
            BY <1>10, <2>1, <2>2
        <3>2. CASE current' = "none" BY <1>7, <2>1, <2>2, <3>2 DEF TakeLine
        <3>3. CASE current' = p /\ call \in {"check", "sync"}
            BY <1>8, <2>1, <2>2, <3>1, <3>3
        <3> QED BY <3>1, <3>2, <3>3
    <2>3. CASE call = "vet" /\ StopNext(p)
        <3>1. /\ stdin' = [stdin EXCEPT ![p] = Append(@, "stop")] /\ call' = "reset"
              /\ current' = p /\ stdout[p] # <<>> /\ stdout' = [stdout EXCEPT ![p] = Tail(@)]
              /\ UNCHANGED daemonVars
            BY <2>1, <2>3 DEF StopNext, TakeLine
        <3>2. /\ stdin'[p] = Append(stdin[p], "stop") /\ stdout'[p] = Tail(stdout[p])
            BY <1>0, <3>1 DEF TypeOK
        <3>3. Owed(p)' = Owed(p)
            <4> DEFINE n == Len(stdout[p])
                       m == Asked(stdin[p])
                       b == Busy(job[p])
            <4>1. /\ Owed(p) = n + m + b /\ n \in Nat /\ m \in Nat /\ b \in Nat
                  /\ stdin[p] \in Seq(Command) /\ stdout[p] \in Seq(Line)
                BY <1>0, OwedParts
            <4>2. Asked(stdin'[p]) = m + 1
                <5>1. "stop" \in Command BY DEF Command
                <5> QED BY <3>2, <4>1, <5>1, AskedAppend
            <4>3. Len(stdout'[p]) = n - 1 BY <3>1, <3>2, <4>1, Shortened
            <4>4. Owed(p)' = (n - 1) + (m + 1) + b BY <1>0, <3>1, <4>2, <4>3, OwedNext
            <4> HIDE DEF n, m, b
            <4> QED BY <4>1, <4>4
        <3>4. InStep(p)' => InStep(p) BY <2>3, <3>1, <3>3 DEF InStep
        <3> QED BY <1>6, <2>1, <3>1, <3>4
    <2> QED BY <2>1, <2>2, <2>3
<1>12. ASSUME NEW c \in Call, MakeCall(c) PROVE ServiceStep
    <2>1. PICK p \in Process :
            /\ current = p /\ call = "none" /\ Write(p, c)
            /\ UNCHANGED <<phase, current, launching, isActive, gui, daemonVars, stdout>>
        BY <1>12 DEF MakeCall
    <2>2. /\ stdin' = [stdin EXCEPT ![p] = Append(@, CommandOf[c])] /\ call' = c /\ c # "none"
        BY <2>1 DEF Write, Call
    <2>3. stdin'[p] = Append(stdin[p], CommandOf[c]) /\ CommandOf[c] \in Command
          /\ (CommandOf[c] = "quit" <=> c = "quit")
        BY <1>0, <2>2 DEF TypeOK, CommandOf, Call, Command
    <2> DEFINE n == Len(stdout[p])
               m == Asked(stdin[p])
               b == Busy(job[p])
               one == IF c = "quit" THEN 0 ELSE 1
    <2>4. /\ Owed(p) = n + m + b /\ n \in Nat /\ m \in Nat /\ b \in Nat
          /\ stdin[p] \in Seq(Command)
        BY <1>0, OwedParts
    <2>5. Asked(stdin'[p]) = m + one BY <2>3, <2>4, AskedAppend
    <2>6. Owed(p)' = n + (m + one) + b BY <1>0, <2>1, <2>5, OwedNext
    <2>7. one \in Nat OBVIOUS
    <2> HIDE DEF n, m, b
    <2>8. Owed(p)' = Owed(p) + one /\ Owed(p) \in Nat BY <2>4, <2>6, <2>7
    <2>9. InStep(p)' => InStep(p)
        <3>1. InStep(p)' => Owed(p)' = one BY <2>2 DEF InStep
        <3>2. Owed(p)' = one => Owed(p) = 0 BY <2>7, <2>8
        <3>3. Owed(p) = 0 => InStep(p) BY <2>1 DEF InStep
        <3> QED BY <3>1, <3>2, <3>3
    <2>10. current' = p /\ UNCHANGED daemonVars BY <2>1
    <2> QED BY <1>6, <2>1, <2>9, <2>10
<1>13. ASSUME NEW p \in Process, current = p, current' = p, call' = call,
              UNCHANGED <<daemonVars, stdin, stdout>>
       PROVE  ServiceStep
    <2>1. InStep(p)' => InStep(p) BY <1>13 DEF InStep, Owed
    <2> QED BY <1>6, <1>13, <2>1
<1>14. ASSUME NEW c \in Call, CallDead(c) PROVE ServiceStep
    <2>1. PICK p \in Process :
            /\ current = p
            /\ IF c \in {"vet", "start", "quit"} THEN Discard
               ELSE isActive' = (c = "sync") /\ UNCHANGED current
            /\ UNCHANGED <<launching, call, behind, gui, daemonVars, pipeVars>>
        BY <1>14 DEF CallDead
    <2>2. current' = "none" \/ current' = p BY <2>1 DEF Discard
    <2> QED BY <1>7, <1>13, <2>1, <2>2
<1>15. CASE CallNone BY <1>2, <1>15 DEF CallNone
<1>16. CASE GivesUp
    <2>1. /\ call \in Call /\ current \in Process /\ UNCHANGED <<daemonVars, stdin, stdout>>
          /\ Failed(isActive)
        BY <1>0, <1>16 DEF GivesUp
    <2>2. /\ call' = "none"
          /\ current' = "none" \/ (current' = current /\ call \in {"check", "sync"})
        BY <1>10, <2>1
    <2>3. CASE current' = "none" BY <1>7, <2>1, <2>3
    <2>4. CASE current' = current /\ call \in {"check", "sync"}
        <3>1. Owed(current) # 0 BY <1>0, <2>1, <2>4, SomethingOwed
        <3>2. Owed(current)' = Owed(current) BY <2>1, <2>4 DEF Owed
        <3>3. ~InStep(current)' BY <2>2, <3>1, <3>2 DEF InStep
        <3> QED BY <1>6, <2>1, <2>4, <3>3
    <2> QED BY <2>2, <2>3, <2>4
<1>17. CASE Leave
    <2>1. UNCHANGED <<current, call, daemonVars, stdin, stdout>> BY <1>17 DEF Leave
    <2>2. CASE current = "none" BY <1>2, <2>1, <2>2
    <2>3. CASE current # "none" BY <1>0, <1>13, <2>1, <2>3
    <2> QED BY <2>2, <2>3
<1>18. CASE GuiExits
    <2>1. current' = "none" /\ UNCHANGED <<daemonVars, stdin>> BY <1>18 DEF GuiExits
    <2>2. CASE current = "none" BY <1>2, <2>1, <2>2
    <2>3. CASE current # "none" BY <1>0, <1>7, <2>1, <2>3
    <2> QED BY <2>2, <2>3
<1> QED BY <1>3, <1>4, <1>5, <1>9, <1>11, <1>12, <1>14, <1>15, <1>16, <1>17, <1>18 DEF Client

\* The two ends of the pipe implement the service that the controller is built on, as
\* far as safety goes: the session starts as the service does, and each step of
\* client, pipe and helpers is a step of the service or none (helper_client.rs:10-71,
\* helper.rs:31-115).  What the service has to do in the end is in ImplementsService.
THEOREM ImplementsSafely ==
    Spec => Service!HelperInit /\ [][Service!HelperNext]_<<daemonBar, routingBar>>
<1>1. Init => Service!HelperInit
    <2> SUFFICES ASSUME Init PROVE Service!HelperInit OBVIOUS
    <2>1. \A q \in Process : ~Orphan(q) BY DEF Init, Orphan, Alive, Living
    <2>2. daemonBar = "none" /\ routingBar = "off"
        BY <2>1 DEF Init, daemonBar, routingBar
    <2> QED BY <2>2 DEF Service!HelperInit
<1>2. Inv /\ Talk /\ Fit /\ (Inv /\ Talk /\ Fit)' /\ [Next]_vars
        => [Service!HelperNext]_<<daemonBar, routingBar>>
    <2> SUFFICES ASSUME Inv, Talk, Fit, (Inv /\ Talk /\ Fit)', [Next]_vars
                 PROVE  ServiceStep
        BY DEF ServiceStep
    <2>1. CASE Client BY <2>1, ClientStep
    <2>2. ASSUME NEW p \in Process, Helper(p) \/ ByItself(p) PROVE ServiceStep
        <3>1. CASE current = "none" BY <2>2, <3>1, LeftHelperStep
        <3>2. CASE current # "none" BY <2>2, <3>2, OnlyCurrent, UsedHelperStep
        <3> QED BY <3>1, <3>2
    <2>3. CASE Over \/ UNCHANGED vars
        <3>1. UNCHANGED vars BY <2>3 DEF Over
        <3>2. daemonBar' = daemonBar /\ routingBar' = routingBar
            BY <3>1 DEF vars, clientVars, daemonVars, pipeVars, daemonBar, routingBar, Alive,
               InStep, Owed, Orphan
        <3> QED BY <3>2, Stays
    <2> QED BY <2>1, <2>2, <2>3 DEF Next
<1> QED BY <1>1, <1>2, Invariance, TalkInvariance, FitInvariance, PTL DEF Spec

=============================================================================
