-------------------------- MODULE ConnectionsProofs --------------------------
(***************************************************************************)
(* What holds of the cards and the tray for all lists of servers and any   *)
(* number of workers: the state keeps its shape, the buttons do what they  *)
(* say where they do, the active server is that of the newest worker, and  *)
(* the tray agrees with the window.                                        *)
(***************************************************************************)
EXTENDS Connections, SequenceTheorems, TLAPS

\* While anything is connected or runs, the only buttons that can be pressed
\* offer to disconnect; unless the window is astray, they are those of the active
\* one, and unless is_running was cleared under them, there is what to disconnect.
Buttons ==
    /\ connected \/ running =>
        \A p \in DOMAIN cards : cards[p].sensitive => cards[p].label = "disconnect"
    /\ connected \/ (running /\ ~astray) =>
        \A p \in DOMAIN cards : cards[p].sensitive => p = active
    /\ ~stale /\ ~astray =>
        \A p \in DOMAIN cards : cards[p].sensitive /\ cards[p].label = "disconnect" =>
            p = active /\ (connected \/ running)

\* What runs has a worker with a server.
Worked == running => generation \in Generations /\ server[generation] \in Servers

NoneTwice(s) == \A i, j \in DOMAIN s : s[i] = s[j] => i = j
CardSets == UNION {[S -> Card] : S \in SUBSET Servers}

-----------------------------------------------------------------------------
(* Lists of profiles and cards. *)

\* Removing a profile leaves a list of servers without repetition.
LEMMA WithoutKeeps ==
    ASSUME NEW s \in Seq(Servers), NEW p, NoneTwice(s)
    PROVE  Without(s, p) \in Seq(Servers) /\ NoneTwice(Without(s, p))
<1>1. CASE p \notin InSequence(s) BY <1>1 DEF Without
<1>2. CASE p \in InSequence(s)
    <2> DEFINE i == CHOOSE j \in DOMAIN s : s[j] = p
    <2>1. i \in 1 .. Len(s) BY <1>2 DEF InSequence
    <2> HIDE DEF i
    <2> DEFINE a == SubSeq(s, 1, i - 1)
               b == SubSeq(s, i + 1, Len(s))
               t == a \o b
    <2>2. /\ a \in Seq(Servers) /\ Len(a) = i - 1
          /\ \A k \in 1 .. i - 1 : a[k] = s[k]
        BY <2>1
    <2>3. /\ b \in Seq(Servers) /\ Len(b) = Len(s) - i
          /\ \A k \in 1 .. Len(s) - i : b[k] = s[k + i]
        BY <2>1
    <2> HIDE DEF a, b
    <2>4. /\ t \in Seq(Servers) /\ Len(t) = Len(s) - 1
          /\ \A k \in 1 .. Len(t) : t[k] = s[IF k < i THEN k ELSE k + 1]
        <3>0. /\ t \in Seq(Servers) /\ Len(t) = Len(a) + Len(b)
              /\ \A k \in 1 .. Len(a) + Len(b) :
                    t[k] = IF k <= Len(a) THEN a[k] ELSE b[k - Len(a)]
            BY <2>2, <2>3, ConcatProperties
        <3>1. t \in Seq(Servers) /\ Len(t) = Len(s) - 1 BY <3>0, <2>1, <2>2, <2>3
        <3>2. ASSUME NEW k \in 1 .. i - 1 PROVE t[k] = s[k] BY <3>0, <2>1, <2>2, <2>3
        <3>3. ASSUME NEW k \in i .. Len(s) - 1 PROVE t[k] = s[k + 1]
            <4>1. k - (i - 1) \in 1 .. Len(s) - i /\ k > i - 1 BY <2>1
            <4>2. t[k] = b[k - (i - 1)] BY <3>0, <2>1, <2>2, <2>3, <4>1
            <4> QED BY <4>1, <4>2, <2>3, <2>1
        <3> HIDE DEF t
        <3>4. ASSUME NEW k \in 1 .. Len(t) PROVE t[k] = s[IF k < i THEN k ELSE k + 1]
            <4>1. CASE k < i BY <4>1, <3>2, <2>1
            <4>2. CASE ~(k < i) BY <4>2, <3>3, <3>1, <2>1
            <4> QED BY <4>1, <4>2
        <3> QED BY <3>1, <3>4
    <2>5. NoneTwice(t)
        <3> SUFFICES ASSUME NEW k \in DOMAIN t, NEW l \in DOMAIN t, t[k] = t[l] PROVE k = l
            BY DEF NoneTwice
        <3> HIDE DEF t
        <3>1. k \in 1 .. Len(t) /\ l \in 1 .. Len(t) BY <2>4
        <3>2. s[IF k < i THEN k ELSE k + 1] = s[IF l < i THEN l ELSE l + 1] BY <3>1, <2>4
        <3>3. /\ (IF k < i THEN k ELSE k + 1) \in DOMAIN s
              /\ (IF l < i THEN l ELSE l + 1) \in DOMAIN s
            BY <3>1, <2>1, <2>4
        <3>4. (IF k < i THEN k ELSE k + 1) = (IF l < i THEN l ELSE l + 1)
            BY <3>2, <3>3 DEF NoneTwice
        <3> QED BY <3>4, <3>1, <2>1
    <2>6. Without(s, p) = t BY <1>2 DEF Without, i, a, b
    <2> QED BY <2>4, <2>5, <2>6
<1> QED BY <1>1, <1>2

\* So does adding one that is not there.
LEMMA AppendKeeps ==
    ASSUME NEW s \in Seq(Servers), NEW p \in Servers, NoneTwice(s), p \notin InSequence(s)
    PROVE  Append(s, p) \in Seq(Servers) /\ NoneTwice(Append(s, p))
BY DEF NoneTwice, InSequence

\* Cards are drawn for the servers of the list.
LEMMA DrawnCards ==
    ASSUME NEW s \in Seq(Servers), NEW current, NEW shown \in BOOLEAN, NEW runs \in BOOLEAN
    PROVE  Drawn(s, current, shown, runs) \in CardSets
<1>1. InSequence(s) \in SUBSET Servers BY DEF InSequence
<1>2. Drawn(s, current, shown, runs) \in [InSequence(s) -> Card] BY DEF Drawn, Card
<1> QED BY <1>1, <1>2 DEF CardSets

\* Cards are functions on some of the servers.
LEMMA CardsAre ==
    ASSUME NEW f \in CardSets
    PROVE  DOMAIN f \in SUBSET Servers /\ f \in [DOMAIN f -> Card]
BY DEF CardSets

LEMMA AreCards ==
    ASSUME NEW S \in SUBSET Servers, NEW f \in [S -> Card]
    PROVE  f \in CardSets
BY DEF CardSets

-----------------------------------------------------------------------------
(* The state keeps its shape. *)

\* What Refresh draws are cards.
LEMMA RefreshCards ==
    ASSUME NEW s \in Seq(Servers), NEW current, NEW shown \in BOOLEAN,
           running \in BOOLEAN, Refresh(s, current, shown)
    PROVE  cards' \in CardSets /\ stale' \in BOOLEAN
BY DrawnCards DEF Refresh

\* stop() and start() keep the shape of the workers.
Workers ==
    /\ generation \in 0 .. MaxGeneration /\ running \in BOOLEAN
    /\ worker \in [Generations -> Stage]
    /\ server \in [Generations -> Servers \cup {None}]
    /\ retrying \in BOOLEAN

LEMMA StopTypes == Workers /\ Stop => Workers'
<1> SUFFICES ASSUME Workers, Stop PROVE Workers' OBVIOUS
<1>1. generation' \in 0 .. MaxGeneration /\ running' \in BOOLEAN
    <2>1. generation \in 0 .. MaxGeneration BY DEF Workers
    <2>2. generation < MaxGeneration /\ generation' = generation + 1 /\ running' = FALSE
        BY DEF Stop
    <2>3. generation' \in 0 .. MaxGeneration
        <3>1. MaxGeneration \in Nat /\ generation \in Nat BY <2>1, BoundsAssumption
        <3> QED BY <2>1, <2>2, <3>1
    <2>4. running' \in BOOLEAN BY <2>2
    <2> QED BY <2>3, <2>4
<1>2. worker' = worker /\ server' = server /\ retrying' = retrying BY DEF Stop, workerVars
<1> QED BY <1>1, <1>2 DEF Workers, Generations

LEMMA StartTypes == ASSUME NEW p \in Servers PROVE Workers /\ Start(p) => Workers'
BY BoundsAssumption DEF Workers, Start, Generations, Stage

\* A click keeps the shape, on whatever card.
LEMMA ClickTypes ==
    ASSUME TypeOK, NEW p \in DOMAIN cards, Click(p)
    PROVE  TypeOK'
<1>1. p \in Servers /\ DOMAIN cards \in SUBSET Servers /\ cards \in [DOMAIN cards -> Card]
    BY CardsAre DEF TypeOK, CardSets
<1>2. CASE ClickToStop(p)
    <2>1. cards' \in CardSets
        <3>1. cards' \in [DOMAIN cards -> Card] BY <1>1, <1>2 DEF ClickToStop, Card
        <3> QED BY <1>1, <3>1, AreCards
    <2>2. Workers' BY <1>2, StopTypes DEF ClickToStop, TypeOK, Workers
    <2> QED BY <1>2, <2>1, <2>2 DEF ClickToStop, TypeOK, CardSets, Workers, configVars, Tray
<1>3. ASSUME NEW saved \in BOOLEAN, ClickToStart(p, saved) PROVE TypeOK'
    <2>1. CASE saved
        <3>1. cards' \in CardSets
            <4>1. cards' = [q \in DOMAIN cards |->
                       [label |-> IF q = p THEN "connecting" ELSE "connect", sensitive |-> FALSE]]
                BY <1>3, <2>1 DEF ClickToStart
            <4>2. ASSUME NEW q PROVE
                    [label |-> IF q = p THEN "connecting" ELSE "connect", sensitive |-> FALSE] \in Card
                BY DEF Card
            <4>3. cards' \in [DOMAIN cards -> Card] BY <4>1, <4>2
            <4> QED BY <1>1, <4>3, AreCards
        <3>2. Workers' BY <1>1, <1>3, <2>1, StartTypes DEF ClickToStart, TypeOK, Workers
        <3> QED BY <1>1, <1>3, <2>1, <3>1, <3>2 DEF ClickToStart, TypeOK, CardSets, Workers, Tray
    <2>2. CASE ~saved
        BY <1>1, <1>3, <2>2 DEF ClickToStart, TypeOK, controllerVars, workerVars
    <2> QED BY <2>1, <2>2
<1> QED BY <1>2, <1>3 DEF Click

\* Selecting, saving and removing a profile keep the shape.
LEMMA EditTypes ==
    ASSUME TypeOK, NEW p \in Servers, NEW saved \in BOOLEAN,
           SelectServer(p, saved) \/ SaveProfile(p, saved) \/ RemoveProfile(p, saved)
    PROVE  TypeOK'
<1>1. CASE SelectServer(p, saved)
    <2>1. cards' \in CardSets /\ stale' \in BOOLEAN
        BY <1>1, RefreshCards DEF SelectServer, TypeOK, CardSets
    <2> QED BY <1>1, <2>1 DEF SelectServer, TypeOK, CardSets, controllerVars, workerVars
<1>2. CASE SaveProfile(p, saved)
    <2> DEFINE list == IF p \in InSequence(profiles) THEN profiles ELSE Append(profiles, p)
               current == IF active = None THEN p ELSE active
    <2>1. list \in Seq(Servers) /\ NoneTwice(list)
        BY AppendKeeps DEF TypeOK, NoneTwice
    <2>2. current \in Servers \cup {None} BY DEF TypeOK
    <2>3. /\ profiles' = list /\ active' = current
          /\ (Refresh(list, current, connected) \/ UNCHANGED <<cards, stale>>)
        BY <1>2 DEF SaveProfile
    <2> HIDE DEF list, current
    <2>4. cards' \in CardSets /\ stale' \in BOOLEAN BY <2>1, <2>3, RefreshCards DEF TypeOK, CardSets
    <2> QED BY <1>2, <2>1, <2>2, <2>3, <2>4
            DEF SaveProfile, TypeOK, CardSets, NoneTwice, controllerVars, workerVars
<1>3. CASE RemoveProfile(p, saved)
    <2> DEFINE list == Without(profiles, p)
               current == IF active # p THEN active
                          ELSE IF list = <<>> THEN None ELSE list[1]
    <2>1. list \in Seq(Servers) /\ NoneTwice(list)
        BY WithoutKeeps DEF TypeOK, NoneTwice
    <2>2. /\ profiles' = list /\ active' = current
          /\ (Refresh(list, current, connected) \/ UNCHANGED <<cards, stale>>)
        BY <1>3 DEF RemoveProfile
    <2> HIDE DEF list
    <2>3. current \in Servers \cup {None} BY <2>1 DEF TypeOK
    <2> HIDE DEF current
    <2>4. cards' \in CardSets /\ stale' \in BOOLEAN BY <2>1, <2>2, RefreshCards DEF TypeOK, CardSets
    <2> QED BY <1>3, <2>1, <2>2, <2>3, <2>4
            DEF RemoveProfile, TypeOK, CardSets, NoneTwice, controllerVars, workerVars
<1> QED BY <1>1, <1>2, <1>3

\* So do the events.
LEMMA TakeTypes == ASSUME TypeOK, TakeEvent PROVE TypeOK'
<1>1. PICK e \in Event : Take(e)
    BY DEF TakeEvent, TakeConnected, TakeDisconnected, TakeStatus, TakeError, Event
<1>2. events' \in Seq(Event) /\ Len(events') <= MaxEvents
    BY <1>1, BoundsAssumption DEF Take, TypeOK
<1>3. /\ connected' \in BOOLEAN /\ tray' \in Tray
      /\ \E shown \in BOOLEAN : Refresh(profiles, active, shown)
    BY DEF TakeEvent, TakeConnected, TakeDisconnected, TakeStatus, TakeError, Tray
<1>4. cards' \in CardSets /\ stale' \in BOOLEAN BY <1>3, RefreshCards DEF TypeOK
<1> QED BY <1>1, <1>2, <1>3, <1>4
        DEF Take, TypeOK, CardSets, configVars, controllerVars, workerVars

\* What a worker does leaves the window alone.
LEMMA WorkLeaves ==
    ASSUME NEW g \in Generations, Work(g)
    PROVE  /\ UNCHANGED <<profiles, active, generation, server, connected, tray, cards>>
           /\ \/ UNCHANGED <<running, stale, astray>>
              \/ running' = FALSE /\ stale' = TRUE /\ astray' = (astray \/ Stopped(g))
           /\ worker' \in {[worker EXCEPT ![g] = to] : to \in Stage}
<1> USE DEF Move, Step, configVars, Stage, Alive
<1>1. CASE BeginWork(g) BY <1>1 DEF BeginWork
<1>2. CASE Attempt(g) BY <1>2 DEF Attempt
<1>3. CASE KeepHelper(g) \/ Authorize(g) \/ Authorized(g) \/ Refused(g)
    BY <1>3 DEF KeepHelper, Authorize, Authorized, Refused
<1>4. CASE Leave(g) \/ ClearRunning(g) BY <1>4 DEF Leave, ClearRunning
<1>5. CASE FailToConnect(g) \/ Connect(g) BY <1>5 DEF FailToConnect, Connect
<1>6. CASE EndPause(g) BY <1>6 DEF EndPause
<1>7. CASE NoticeStop(g) \/ Close(g) \/ Break(g) BY <1>7 DEF NoticeStop, Close, Break
<1>8. CASE Recover(g) BY <1>8 DEF Recover
<1>9. CASE EndWait(g) BY <1>9 DEF EndWait
<1> QED BY <1>1, <1>2, <1>3, <1>4, <1>5, <1>6, <1>7, <1>8, <1>9 DEF Work

\* It sends some events, if there is room for them.
LEMMA WorkSends ==
    ASSUME NEW g \in Generations, Work(g), TypeOK
    PROVE  /\ events' \in Seq(Event) /\ Len(events') <= MaxEvents
           /\ retrying' \in BOOLEAN
<1>0. ASSUME NEW sequence \in Seq(Event), Send(sequence)
      PROVE  events' \in Seq(Event) /\ Len(events') <= MaxEvents
    <2>1. /\ events \o sequence \in Seq(Event)
          /\ Len(events \o sequence) = Len(events) + Len(sequence)
        BY ConcatProperties DEF TypeOK
    <2> QED BY <1>0, <2>1 DEF Send
<1>1. /\ <<>> \in Seq(Event) /\ <<"status">> \in Seq(Event) /\ <<"error">> \in Seq(Event)
      /\ <<"connected">> \in Seq(Event) /\ <<"disconnected">> \in Seq(Event)
      /\ <<"status", "disconnected">> \in Seq(Event)
    BY DEF Event
<1>2. CASE BeginWork(g) BY <1>0, <1>1, <1>2 DEF BeginWork, TypeOK
<1>3. CASE Attempt(g) BY <1>0, <1>1, <1>3 DEF Attempt, TypeOK
<1>4. CASE KeepHelper(g) \/ Authorize(g) \/ Authorized(g) \/ Refused(g)
    BY <1>0, <1>1, <1>4 DEF KeepHelper, Authorize, Authorized, Refused, TypeOK
<1>5. CASE Leave(g) \/ ClearRunning(g) BY <1>5 DEF Leave, ClearRunning, TypeOK
<1>6. CASE FailToConnect(g) \/ Connect(g)
    BY <1>0, <1>1, <1>6 DEF FailToConnect, Connect, TypeOK
<1>7. CASE EndPause(g) BY <1>7 DEF EndPause, TypeOK
<1>8. CASE NoticeStop(g) \/ Close(g) \/ Break(g)
    BY <1>0, <1>1, <1>8 DEF NoticeStop, Close, Break, TypeOK
<1>9. CASE Recover(g) BY <1>0, <1>1, <1>9 DEF Recover, TypeOK
<1>10. CASE EndWait(g) BY <1>0, <1>1, <1>10 DEF EndWait, TypeOK
<1> QED BY <1>2, <1>3, <1>4, <1>5, <1>6, <1>7, <1>8, <1>9, <1>10 DEF Work

LEMMA StoppedIsBoolean == ASSUME NEW g PROVE Stopped(g) \in BOOLEAN
BY DEF Stopped

LEMMA TypeStep == TypeOK /\ [Next]_vars => TypeOK'
<1> SUFFICES ASSUME TypeOK, [Next]_vars PROVE TypeOK' OBVIOUS
<1>0. DOMAIN cards \in SUBSET Servers BY CardsAre DEF TypeOK, CardSets
<1>1. CASE ClickCard BY <1>1, ClickTypes DEF ClickCard
<1>2. CASE ToggleInTray \/ ToggleInWidget
    BY <1>2, ClickTypes DEF ToggleInTray, ToggleInWidget
<1>3. CASE ChangeLanguage
    <2>1. cards' \in CardSets /\ stale' \in BOOLEAN BY <1>3, RefreshCards DEF ChangeLanguage, TypeOK
    <2> QED BY <1>3, <2>1
            DEF ChangeLanguage, TypeOK, CardSets, configVars, controllerVars, workerVars
<1>4. CASE \E p \in Servers, saved \in BOOLEAN :
              SelectServer(p, saved) \/ SaveProfile(p, saved) \/ RemoveProfile(p, saved)
    BY <1>4, EditTypes
<1>5. CASE TakeEvent BY <1>5, TakeTypes
<1>6. ASSUME NEW g \in Generations, Work(g) PROVE TypeOK'
    <2>1. worker' \in [Generations -> Stage]
        BY <1>6, WorkLeaves DEF TypeOK
    <2>2. running' \in BOOLEAN /\ stale' \in BOOLEAN /\ astray' \in BOOLEAN
        BY <1>6, WorkLeaves, StoppedIsBoolean DEF TypeOK
    <2> QED BY <1>6, <2>1, <2>2, WorkLeaves, WorkSends DEF TypeOK
<1>7. CASE UNCHANGED vars
    BY <1>7 DEF vars, configVars, controllerVars, workerVars, windowVars, TypeOK
<1> QED BY <1>1, <1>2, <1>3, <1>4, <1>5, <1>6, <1>7 DEF Next, User

LEMMA TypeInit == Init => TypeOK
<1> SUFFICES ASSUME Init PROVE TypeOK OBVIOUS
<1>1. profiles \in Seq(Servers) /\ NoneTwice(profiles)
    BY StartsAssumption DEF Init, NoneTwice
<1>2. active \in Servers \cup {None} BY <1>1 DEF Init
<1>3. cards \in CardSets BY <1>1, DrawnCards DEF Init
<1>4. events \in Seq(Event) /\ Len(events) <= MaxEvents BY BoundsAssumption DEF Init
<1>5. /\ generation \in 0 .. MaxGeneration
      /\ worker \in [Generations -> Stage]
      /\ server \in [Generations -> Servers \cup {None}]
    BY BoundsAssumption DEF Init, Stage
<1> QED BY <1>1, <1>2, <1>3, <1>4, <1>5 DEF Init, TypeOK, CardSets, NoneTwice, Tray

\* The state keeps its shape, and no profile is in the list twice: a profile
\* that is saved replaces the one with its id (dialogs.rs:346-376) and one that
\* is removed is looked up by it (connect_view.rs:320-337).
THEOREM TypeCorrect == Spec => []TypeOK
<1>1. Init => TypeOK BY TypeInit
<1>2. TypeOK /\ [Next]_vars => TypeOK' BY TypeStep
<1> QED BY <1>1, <1>2, PTL DEF Spec

-----------------------------------------------------------------------------
(* The buttons, the tray and the server that is shown. *)

Inv == TypeOK /\ Worked /\ Buttons /\ ShownServer /\ TrayFollows

\* Cards that are drawn are as Buttons says.
LEMMA RefreshButtons ==
    ASSUME TypeOK, NEW s, NEW current, NEW shown \in BOOLEAN, Refresh(s, current, shown)
    PROVE  \A q \in DOMAIN cards' : cards'[q].sensitive =>
              /\ shown \/ running => cards'[q].label = "disconnect" /\ q = current
              /\ cards'[q].label = "disconnect" => q = current /\ (shown \/ running)
<1> SUFFICES ASSUME NEW q \in DOMAIN cards', cards'[q].sensitive
             PROVE  /\ shown \/ running => cards'[q].label = "disconnect" /\ q = current
                    /\ cards'[q].label = "disconnect" => q = current /\ (shown \/ running)
    OBVIOUS
<1> DEFINE text == IF q = current /\ (shown \/ running) THEN "disconnect" ELSE "connect"
           open == q = current \/ ~(shown \/ running)
<1>1. cards'[q] = [label |-> text, sensitive |-> open] BY Zenon DEF Refresh, Drawn
<1> HIDE DEF text, open
<1>2. cards'[q].label = text /\ cards'[q].sensitive = open BY <1>1
<1>3. open BY <1>2, Zenon
<1>4. text = "disconnect" <=> q = current /\ (shown \/ running)
    <2>1. "connect" # "disconnect" OBVIOUS
    <2> QED BY <2>1, Zenon DEF text
<1>5. shown \/ running => q = current BY <1>3, Zenon DEF open
<1> QED BY <1>2, <1>4, <1>5, Zenon

\* No card stands for no server.
LEMMA NoneHasNoCard == TypeOK => None \notin DOMAIN cards
BY CardsAre, ServersAssumption DEF TypeOK, CardSets

\* A click that stops the connection.
LEMMA StopKeeps ==
    ASSUME Inv, NEW p \in DOMAIN cards, ClickToStop(p)
    PROVE  (Worked /\ Buttons /\ ShownServer /\ TrayFollows)'
<1>1. ~running' BY DEF ClickToStop, Stop
<1>2. DOMAIN cards' = DOMAIN cards
      /\ \A q \in DOMAIN cards :
            cards'[q].sensitive => cards[q].sensitive /\ cards'[q].label = cards[q].label
    <2>1. cards \in [DOMAIN cards -> Card] BY CardsAre DEF Inv, TypeOK, CardSets
    <2>2. cards' = [cards EXCEPT ![p].sensitive = FALSE] BY DEF ClickToStop
    <2>3. ASSUME NEW q \in DOMAIN cards, cards'[q].sensitive
          PROVE  cards[q].sensitive /\ cards'[q].label = cards[q].label
        <3>1. CASE q = p
            <4>1. cards'[q].sensitive = FALSE BY <2>1, <2>2, <3>1 DEF Card
            <4> QED BY <4>1, <2>3
        <3>2. CASE q # p BY <2>2, <3>2, <2>3
        <3> QED BY <3>1, <3>2
    <2> QED BY <2>2, <2>3
<1>3. /\ active' = active /\ connected' = connected /\ tray' = "disconnecting"
      /\ stale' = stale /\ astray' = astray
    BY DEF ClickToStop, configVars
<1>4. \A q \in DOMAIN cards' : cards'[q].sensitive => q # p
    <2>1. cards \in [DOMAIN cards -> Card] BY CardsAre DEF Inv, TypeOK, CardSets
    <2> QED BY <2>1, <1>2 DEF ClickToStop, Card
<1>5. active = p BY DEF ClickToStop
<1>6. Buttons'
    <2>1. \A q \in DOMAIN cards' : cards'[q].sensitive => cards[q].sensitive
            /\ cards'[q].label = cards[q].label /\ q \in DOMAIN cards /\ q # p
        BY <1>2, <1>4
    <2> QED BY <1>1, <1>3, <1>5, <2>1 DEF Inv, Buttons
<1> QED BY <1>1, <1>3, <1>6 DEF Inv, Worked, ShownServer, TrayFollows

\* A click that starts one: while anything runs or is connected, no button
\* that can be pressed and no menu leads there.
LEMMA StartKeeps ==
    ASSUME Inv, NEW p \in DOMAIN cards, NEW saved \in BOOLEAN, ClickToStart(p, saved),
           cards[p].sensitive \/ p = active
    PROVE  (Worked /\ Buttons /\ ShownServer /\ TrayFollows)'
<1>1. ~(active = p /\ (connected \/ running)) BY DEF ClickToStart
<1>2. ~connected
    BY <1>1 DEF Inv, Buttons
<1>3. running => astray
    BY <1>1 DEF Inv, Buttons
<1>4. active' = p /\ connected' = connected BY DEF ClickToStart
<1>5. CASE saved
    <2>1. /\ tray' = "connecting" /\ astray' = FALSE /\ stale' = FALSE
          /\ generation' = generation + 2 /\ running' = TRUE
          /\ generation + 1 < MaxGeneration
          /\ server' = [server EXCEPT ![generation + 2] = p]
        BY <1>5 DEF ClickToStart, Start
    <2>2. cards' = [q \in DOMAIN cards |->
              [label |-> IF q = p THEN "connecting" ELSE "connect", sensitive |-> FALSE]]
        BY <1>5 DEF ClickToStart
    <2>3. \A q \in DOMAIN cards' : ~cards'[q].sensitive BY <2>2
    <2>4. generation' \in Generations
        <3>1. generation \in 0 .. MaxGeneration BY DEF Inv, TypeOK
        <3>2. MaxGeneration \in Nat BY BoundsAssumption
        <3> QED BY <2>1, <3>1, <3>2 DEF Generations
    <2>5. server'[generation'] = p
        <3>1. server \in [Generations -> Servers \cup {None}] BY DEF Inv, TypeOK
        <3> QED BY <2>1, <2>4, <3>1
    <2>6. p \in Servers BY CardsAre DEF Inv, TypeOK, CardSets
    <2> QED BY <1>2, <1>4, <2>1, <2>3, <2>4, <2>5, <2>6
            DEF Worked, Buttons, ShownServer, TrayFollows
<1>6. CASE ~saved
    <2>1. UNCHANGED <<running, generation, server, cards, tray, stale, astray>>
        BY <1>6 DEF ClickToStart, controllerVars, workerVars
    <2> QED BY <1>2, <1>3, <1>4, <2>1 DEF Inv, Worked, Buttons, ShownServer, TrayFollows
<1> QED BY <1>5, <1>6

\* Changes of the configuration.
LEMMA SelectKeeps ==
    ASSUME Inv, NEW p \in Servers, NEW saved \in BOOLEAN, SelectServer(p, saved)
    PROVE  (Worked /\ Buttons /\ ShownServer /\ TrayFollows)'
<1>1. /\ ~connected /\ active' = p /\ astray' = (astray \/ (running /\ p # active))
      /\ UNCHANGED <<running, generation, server, connected, tray>>
      /\ Refresh(profiles, p, connected) \/ UNCHANGED <<cards, stale>>
    BY DEF SelectServer, controllerVars, workerVars
<1>2. CASE Refresh(profiles, p, connected)
    <2>1. \A q \in DOMAIN cards' : cards'[q].sensitive =>
              /\ connected \/ running => cards'[q].label = "disconnect" /\ q = p
              /\ cards'[q].label = "disconnect" => q = p /\ (connected \/ running)
        BY <1>2, RefreshButtons DEF Inv, TypeOK
    <2> QED BY <1>1, <2>1 DEF Inv, Worked, Buttons, ShownServer, TrayFollows
<1>3. CASE UNCHANGED <<cards, stale>>
    BY <1>1, <1>3 DEF Inv, Worked, Buttons, ShownServer, TrayFollows
<1> QED BY <1>1, <1>2, <1>3

\* Saving and removing a profile leave the active one alone while its worker
\* runs.
LEMMA EditKeeps ==
    ASSUME Inv, NEW s \in Seq(Servers), NEW current,
           UNCHANGED <<running, generation, server, connected, tray, astray>>,
           active' = current,
           active # current =>
              \/ active = None
              \/ ~connected /\ ~running,
           Refresh(s, current, connected) \/ UNCHANGED <<cards, stale>>
    PROVE  (Worked /\ Buttons /\ ShownServer /\ TrayFollows)'
<1>1. running /\ ~astray => active = current
    BY ServersAssumption DEF Inv, Worked, ShownServer
<1>2. CASE Refresh(s, current, connected)
    <2>1. \A q \in DOMAIN cards' : cards'[q].sensitive =>
              /\ connected \/ running => cards'[q].label = "disconnect" /\ q = current
              /\ cards'[q].label = "disconnect" => q = current /\ (connected \/ running)
        BY <1>2, RefreshButtons DEF Inv, TypeOK
    <2> QED BY <1>1, <2>1 DEF Inv, Worked, Buttons, ShownServer, TrayFollows
<1>3. CASE UNCHANGED <<cards, stale>>
    <2>1. None \notin DOMAIN cards BY NoneHasNoCard DEF Inv
    <2>2. connected /\ active # current => \A q \in DOMAIN cards : ~cards[q].sensitive
        BY <2>1 DEF Inv, Buttons
    <2> QED BY <1>1, <1>3, <2>2 DEF Inv, Worked, Buttons, ShownServer, TrayFollows
<1> QED BY <1>2, <1>3

\* The events of a worker.
LEMMA TakeKeeps ==
    ASSUME Inv, TakeEvent
    PROVE  (Worked /\ Buttons /\ ShownServer /\ TrayFollows)'
<1>1. UNCHANGED <<active, running, generation, server, astray>>
    BY DEF TakeEvent, TakeConnected, TakeDisconnected, TakeStatus, TakeError, Take,
           configVars, controllerVars, workerVars
<1>2. PICK shown \in BOOLEAN :
        connected' = shown /\ Refresh(profiles, active, shown)
        /\ tray' \in (IF shown THEN {"connected"} ELSE {"disconnected", "connecting"})
    BY DEF TakeEvent, TakeConnected, TakeDisconnected, TakeStatus, TakeError
<1>3. \A q \in DOMAIN cards' : cards'[q].sensitive =>
          /\ shown \/ running => cards'[q].label = "disconnect" /\ q = active
          /\ cards'[q].label = "disconnect" => q = active /\ (shown \/ running)
    BY <1>2, RefreshButtons DEF Inv
<1> QED BY <1>1, <1>2, <1>3 DEF Inv, Worked, Buttons, ShownServer, TrayFollows

LEMMA InvStep == Inv /\ [Next]_vars => Inv'
<1> SUFFICES ASSUME Inv, [Next]_vars
             PROVE  (Worked /\ Buttons /\ ShownServer /\ TrayFollows)'
    BY TypeStep DEF Inv
<1>1. CASE ClickCard BY <1>1, StopKeeps, StartKeeps DEF ClickCard, Click
<1>2. CASE ToggleInTray \/ ToggleInWidget
    BY <1>2, StopKeeps, StartKeeps DEF ToggleInTray, ToggleInWidget, Click
<1>3. CASE ChangeLanguage
    <2>1. /\ profiles \in Seq(Servers) /\ active' = active
          /\ UNCHANGED <<running, generation, server, connected, tray, astray>>
          /\ Refresh(profiles, active, connected)
        BY <1>3 DEF ChangeLanguage, Inv, TypeOK, configVars, controllerVars, workerVars
    <2> QED BY <2>1, EditKeeps
<1>4. ASSUME NEW p \in Servers, NEW saved \in BOOLEAN, SelectServer(p, saved)
      PROVE  (Worked /\ Buttons /\ ShownServer /\ TrayFollows)'
    BY <1>4, SelectKeeps
<1>5. ASSUME NEW p \in Servers, NEW saved \in BOOLEAN, SaveProfile(p, saved)
      PROVE  (Worked /\ Buttons /\ ShownServer /\ TrayFollows)'
    <2> DEFINE list == IF p \in InSequence(profiles) THEN profiles ELSE Append(profiles, p)
               current == IF active = None THEN p ELSE active
    <2>1. list \in Seq(Servers) BY DEF Inv, TypeOK
    <2>2. /\ active' = current /\ (Refresh(list, current, connected) \/ UNCHANGED <<cards, stale>>)
          /\ UNCHANGED <<running, generation, server, connected, tray, astray>>
        BY <1>5 DEF SaveProfile, controllerVars, workerVars
    <2>3. active # current => active = None OBVIOUS
    <2> HIDE DEF list, current
    <2> QED BY <2>1, <2>2, <2>3, EditKeeps
<1>6. ASSUME NEW p \in Servers, NEW saved \in BOOLEAN, RemoveProfile(p, saved)
      PROVE  (Worked /\ Buttons /\ ShownServer /\ TrayFollows)'
    <2> DEFINE list == Without(profiles, p)
               current == IF active # p THEN active
                          ELSE IF list = <<>> THEN None ELSE list[1]
    <2>1. list \in Seq(Servers) BY WithoutKeeps DEF Inv, TypeOK, NoneTwice
    <2>2. /\ active' = current /\ (Refresh(list, current, connected) \/ UNCHANGED <<cards, stale>>)
          /\ UNCHANGED <<running, generation, server, connected, tray, astray>>
          /\ ~((connected \/ running) /\ active = p)
        BY <1>6 DEF RemoveProfile, controllerVars, workerVars
    <2>3. active # current => ~connected /\ ~running BY <2>2
    <2> HIDE DEF list, current
    <2> QED BY <2>1, <2>2, <2>3, EditKeeps
<1>7. CASE TakeEvent BY <1>7, TakeKeeps
<1>8. ASSUME NEW g \in Generations, Work(g)
      PROVE  (Worked /\ Buttons /\ ShownServer /\ TrayFollows)'
    <2>1. UNCHANGED <<active, generation, server, connected, tray, cards>>
        BY <1>8, WorkLeaves
    <2>2. UNCHANGED <<running, stale, astray>> \/ (running' = FALSE /\ stale' = TRUE)
        BY <1>8, WorkLeaves
    <2> QED BY <2>1, <2>2 DEF Inv, Worked, Buttons, ShownServer, TrayFollows
<1>9. CASE UNCHANGED vars
    BY <1>9 DEF vars, configVars, controllerVars, workerVars, windowVars,
                Inv, Worked, Buttons, ShownServer, TrayFollows
<1> QED BY <1>1, <1>2, <1>3, <1>4, <1>5, <1>6, <1>7, <1>8, <1>9 DEF Next, User

LEMMA InvCorrect == Spec => []Inv
<1>1. Init => Inv
    <2>1. Init => TypeOK BY TypeInit
    <2>2. Init => \A q \in DOMAIN cards : cards[q].label # "disconnect"
        BY DEF Init, Drawn
    <2>3. Init => Worked /\ Buttons /\ ShownServer /\ TrayFollows
        BY <2>2 DEF Init, Worked, Buttons, ShownServer, TrayFollows
    <2> QED BY <2>1, <2>3 DEF Inv
<1>2. Inv /\ [Next]_vars => Inv' BY InvStep
<1> QED BY <1>1, <1>2, PTL DEF Spec

\* The tray says connected only while the window does, and while the window
\* does the tray says so too, or that the connection is being ended
\* (event_loop.rs:174-273, connect_view.rs:361-390).
THEOREM TrayCorrect == Spec => []TrayFollows
<1>1. Inv => TrayFollows BY DEF Inv
<1> QED BY <1>1, InvCorrect, PTL

\* A button that offers to connect stops nothing, one that offers to disconnect
\* does so unless is_running was cleared under it, and no click starts a worker
\* over a connection that is shown (connect_view.rs:278-293, 361, 383).
THEOREM CardsCorrect == Spec => []CardsTell
<1>1. Inv => CardsTell
    <2> SUFFICES ASSUME Inv, NEW p \in DOMAIN cards, cards[p].sensitive
                 PROVE  /\ cards[p].label # "disconnect" =>
                                ~(active = p /\ (connected \/ running))
                        /\ cards[p].label = "disconnect" =>
                                (active = p /\ (connected \/ running)) \/ stale \/ astray
                        /\ connected => p = active
        BY DEF CardsTell
    <2> QED BY DEF Inv, Buttons
<1> QED BY <1>1, InvCorrect, PTL

\* While a worker runs and no other server was selected under it, the active
\* server is the one it was started for (connect_view.rs:141, 320-339,
\* mod.rs:731-746).
THEOREM ShownCorrect == Spec => []ShownServer
<1>1. Inv => ShownServer BY DEF Inv
<1> QED BY <1>1, InvCorrect, PTL

=============================================================================
