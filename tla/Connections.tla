------------------------------ MODULE Connections ------------------------------
(***************************************************************************)
(* How the window and the tray show the connection and let the user turn   *)
(* it on and off: the cards of the servers (ui/connect_view.rs), the icon  *)
(* and the menu of the tray (tray.rs, app/mod.rs), the menu of the         *)
(* floating widget, and the events that change them (app/event_loop.rs).   *)
(*                                                                         *)
(* A connection is a worker of the runtime controller.  Of it this module  *)
(* has what the window can tell: when it looks whether it was stopped, and *)
(* which events it sends.  What it does to SSH and to the helper is in     *)
(* Controller, where stop() is taken apart as well.  The cards remember    *)
(* what was true when they were drawn; the worker clears is_running by     *)
(* itself, and its events do not say whose they are.                       *)
(***************************************************************************)
EXTENDS Naturals, Sequences, FiniteSets

CONSTANTS
    Servers,            \* the profiles there can be
    Starts,             \* the lists of profiles the program starts with
    MaxGeneration,      \* bound: how often start() and stop() count up
    MaxEvents           \* bound: the events that wait for the window

None == "none"

ASSUME ServersAssumption == None \notin Servers
ASSUME StartsAssumption ==
    \A s \in Starts :
        s \in Seq(Servers) /\ \A i, j \in DOMAIN s : s[i] = s[j] => i = j
ASSUME BoundsAssumption == MaxGeneration \in Nat /\ MaxEvents \in Nat

Generations == 1 .. MaxGeneration
Tray == {"disconnected", "connecting", "connected", "disconnecting"}
Card == [label : {"connect", "connecting", "disconnect"}, sensitive : BOOLEAN]
Event == {"connected", "disconnected", "status", "error"}

\* Where a worker can be.  "new" waits for its turn.
Alive == {"loop", "usable", "authorizing", "authorized", "pausing", "up",
          "closing", "broken", "waiting", "leaving", "clearing"}
Stage == {"none", "new", "gone"} \cup Alive

VARIABLES
    profiles,   \* the servers of the configuration
    active,     \* active_profile
    generation, \* counts starts and stops; a worker has that of its start
    running,    \* is_running
    worker,     \* where the worker of each generation is
    server,     \* the server it was started for
    retrying,   \* retry_attempt > 0 of the worker that has its turn
    events,     \* the channel to the window
    connected,  \* is_connected
    tray,       \* the state of the tray
    cards,      \* the buttons of the cards that were drawn
    stale,      \* history: a worker cleared is_running since they were
    astray      \* history: a server was selected under the newest worker, or
                \* is_running cleared under it by an earlier one

configVars == <<profiles, active>>
workerVars == <<worker, server, retrying>>
controllerVars == <<generation, running, workerVars>>
windowVars == <<connected, tray, cards, stale>>
vars == <<configVars, controllerVars, events, windowVars, astray>>

InSequence(s) == {s[i] : i \in DOMAIN s}

\* retain: the profiles are told apart by their ids.
Without(s, p) ==
    IF p \notin InSequence(s) THEN s
    ELSE LET i == CHOOSE j \in DOMAIN s : s[j] = p
         IN SubSeq(s, 1, i - 1) \o SubSeq(s, i + 1, Len(s))

\* The shape of the state; no profile is in the list twice.
TypeOK ==
    /\ profiles \in Seq(Servers)
    /\ \A i, j \in DOMAIN profiles : profiles[i] = profiles[j] => i = j
    /\ active \in Servers \cup {None}
    /\ generation \in 0 .. MaxGeneration
    /\ running \in BOOLEAN
    /\ worker \in [Generations -> Stage]
    /\ server \in [Generations -> Servers \cup {None}]
    /\ retrying \in BOOLEAN
    /\ events \in Seq(Event) /\ Len(events) <= MaxEvents
    /\ connected \in BOOLEAN
    /\ tray \in Tray
    /\ cards \in UNION {[S -> Card] : S \in SUBSET Servers}
    /\ stale \in BOOLEAN /\ astray \in BOOLEAN

-----------------------------------------------------------------------------
(* Drawing. *)

\* render_connection_cards
Drawn(servers, current, shown, runs) ==
    [p \in InSequence(servers) |->
        [label |-> IF p = current /\ (shown \/ runs) THEN "disconnect" ELSE "connect",
         sensitive |-> p = current \/ ~(shown \/ runs)]]

Refresh(servers, current, shown) ==
    /\ cards' = Drawn(servers, current, shown, running)
    /\ stale' = FALSE

\* menu_layout: the entry that turns the connection on and off, and those
\* that select a server.
ToggleEnabled ==
    \/ tray = "connected"
    \/ tray = "disconnected" /\ active \in InSequence(profiles)

SelectEnabled == tray = "disconnected"

Init ==
    /\ profiles \in Starts
    /\ active = IF profiles = <<>> THEN None ELSE profiles[1]
    /\ generation = 0 /\ running = FALSE
    /\ worker = [g \in Generations |-> "none"]
    /\ server = [g \in Generations |-> None]
    /\ retrying = FALSE
    /\ events = <<>>
    /\ connected = FALSE /\ tray = "disconnected"
    /\ cards = Drawn(profiles, active, FALSE, FALSE)
    /\ stale = FALSE /\ astray = FALSE

-----------------------------------------------------------------------------
(* What the user does. *)

Stop ==
    /\ generation < MaxGeneration
    /\ generation' = generation + 1
    /\ running' = FALSE
    /\ UNCHANGED workerVars

\* start() stops what runs and counts up a second time.
Start(p) ==
    /\ generation + 1 < MaxGeneration
    /\ generation' = generation + 2
    /\ running' = TRUE
    /\ worker' = [worker EXCEPT ![generation + 2] = "new"]
    /\ server' = [server EXCEPT ![generation + 2] = p]
    /\ UNCHANGED retrying

\* The button of a card, pressed by the user or by the program.
ClickToStop(p) ==
    /\ active = p /\ (connected \/ running)
    /\ cards' = [cards EXCEPT ![p].sensitive = FALSE]
    /\ tray' = "disconnecting"
    /\ Stop
    /\ UNCHANGED <<configVars, events, connected, stale, astray>>

\* Mutant: the cards keep their buttons when a connection is started.
ClickToStartOpen(p, saved) ==
    /\ ~(active = p /\ (connected \/ running))
    /\ active' = p
    /\ IF saved
       THEN /\ cards' = [cards EXCEPT ![p].label = "connecting"]
            /\ tray' = "connecting"
            /\ stale' = FALSE /\ astray' = FALSE
            /\ Start(p)
       ELSE UNCHANGED <<controllerVars, cards, tray, stale, astray>>
    /\ UNCHANGED <<profiles, events, connected>>

\* If the configuration cannot be saved, the server is active all the same.
ClickToStart(p, saved) ==
    /\ ~(active = p /\ (connected \/ running))
    /\ active' = p
    /\ IF saved
       THEN /\ cards' = [q \in DOMAIN cards |->
                    [label |-> IF q = p THEN "connecting" ELSE "connect",
                     sensitive |-> FALSE]]
            /\ tray' = "connecting"
            /\ stale' = FALSE /\ astray' = FALSE
            /\ Start(p)
       ELSE UNCHANGED <<controllerVars, cards, tray, stale, astray>>
    /\ UNCHANGED <<profiles, events, connected>>

Click(p) == ClickToStop(p) \/ \E saved \in BOOLEAN : ClickToStart(p, saved)

ClickCard == \E p \in DOMAIN cards : cards[p].sensitive /\ Click(p)

\* Both menus press the button of the active server, sensitive or not; the
\* entry in the tray is disabled at times, that of the widget never is.
ToggleInTray == ToggleEnabled /\ active \in DOMAIN cards /\ Click(active)
ToggleInWidget == active \in DOMAIN cards /\ Click(active)

\* A server in the menu of the tray.
SelectServer(p, saved) ==
    /\ SelectEnabled /\ p \in InSequence(profiles)
    /\ ~connected
    /\ active' = p
    /\ astray' = (astray \/ (running /\ p # active))
    /\ IF saved THEN Refresh(profiles, p, connected) ELSE UNCHANGED <<cards, stale>>
    /\ UNCHANGED <<profiles, controllerVars, events, connected, tray>>

\* Mutant: a profile that is edited is added once more.
SaveProfileTwice(p, saved) ==
    LET list == Append(profiles, p)
        current == IF active = None THEN p ELSE active
    IN /\ profiles' = list /\ active' = current
       /\ IF saved THEN Refresh(list, current, connected) ELSE UNCHANGED <<cards, stale>>
       /\ UNCHANGED <<controllerVars, events, connected, tray, astray>>

\* show_profile_dialog, for a new profile or one that there is.
SaveProfile(p, saved) ==
    LET list == IF p \in InSequence(profiles) THEN profiles ELSE Append(profiles, p)
        current == IF active = None THEN p ELSE active
    IN /\ profiles' = list /\ active' = current
       /\ IF saved THEN Refresh(list, current, connected) ELSE UNCHANGED <<cards, stale>>
       /\ UNCHANGED <<controllerVars, events, connected, tray, astray>>

\* Mutant: only a connection that is up keeps a profile from being removed.
RemoveProfileRunning(p, saved) ==
    LET list == Without(profiles, p)
        current == IF active # p THEN active
                   ELSE IF list = <<>> THEN None ELSE list[1]
    IN /\ p \in DOMAIN cards
       /\ ~(connected /\ active = p)
       /\ profiles' = list /\ active' = current
       /\ IF saved THEN Refresh(list, current, connected) ELSE UNCHANGED <<cards, stale>>
       /\ UNCHANGED <<controllerVars, events, connected, tray, astray>>

RemoveProfile(p, saved) ==
    LET list == Without(profiles, p)
        current == IF active # p THEN active
                   ELSE IF list = <<>> THEN None ELSE list[1]
    IN /\ p \in DOMAIN cards
       /\ ~((connected \/ running) /\ active = p)
       /\ profiles' = list /\ active' = current
       /\ IF saved THEN Refresh(list, current, connected) ELSE UNCHANGED <<cards, stale>>
       /\ UNCHANGED <<controllerVars, events, connected, tray, astray>>

\* A change of the language draws the cards anew.
ChangeLanguage ==
    /\ Refresh(profiles, active, connected)
    /\ UNCHANGED <<configVars, controllerVars, events, connected, tray, astray>>

-----------------------------------------------------------------------------
(* The window takes an event. *)

Take(event) ==
    /\ events # <<>> /\ Head(events) = event
    /\ events' = Tail(events)
    /\ UNCHANGED <<configVars, controllerVars, astray>>

TakeConnected ==
    /\ Take("connected")
    /\ connected' = TRUE /\ tray' = "connected"
    /\ Refresh(profiles, active, TRUE)

TakeDisconnected ==
    /\ Take("disconnected")
    /\ connected' = FALSE /\ tray' = "disconnected"
    /\ Refresh(profiles, active, FALSE)

\* Mutant: a worker that connects again leaves the tray as it is.
TakeStatusQuiet ==
    /\ Take("status")
    /\ connected' = FALSE /\ UNCHANGED tray
    /\ Refresh(profiles, active, FALSE)

\* Mutant: one that connects again does not take the connection back.
TakeStatusSticky ==
    /\ Take("status")
    /\ UNCHANGED connected /\ tray' = "connecting"
    /\ Refresh(profiles, active, connected)

TakeStatus ==
    /\ Take("status")
    /\ connected' = FALSE /\ tray' = "connecting"
    /\ Refresh(profiles, active, FALSE)

TakeError ==
    /\ Take("error")
    /\ connected' = FALSE /\ tray' = "disconnected"
    /\ Refresh(profiles, active, FALSE)

TakeEvent == TakeConnected \/ TakeDisconnected \/ TakeStatus \/ TakeError

-----------------------------------------------------------------------------
(* The worker. *)

Stopped(g) == generation # g

Send(sequence) ==
    /\ Len(events) + Len(sequence) <= MaxEvents
    /\ events' = events \o sequence

Step(g, from, to) ==
    /\ worker[g] = from
    /\ worker' = [worker EXCEPT ![g] = to]
    /\ UNCHANGED <<configVars, generation, server, connected, tray, cards>>

Move(g, from, to) == Step(g, from, to) /\ UNCHANGED <<stale, astray>>

\* The lock on the workers is free.  A worker that was stopped before its
\* turn says nothing.
BeginWork(g) ==
    /\ \A h \in Generations : worker[h] \notin Alive
    /\ retrying' = FALSE
    /\ IF Stopped(g) THEN Move(g, "new", "gone") /\ UNCHANGED events
       ELSE Move(g, "new", "loop") /\ Send(<<"status">>)
    /\ UNCHANGED running

\* The top of the loop.
Attempt(g) ==
    /\ IF Stopped(g) THEN Move(g, "loop", "gone") /\ UNCHANGED events
       ELSE Move(g, "loop", "usable") /\ Send(IF retrying THEN <<"status">> ELSE <<>>)
    /\ UNCHANGED <<running, retrying>>

\* The helper answers, or a new one has to be authorized.
KeepHelper(g) == Move(g, "usable", "authorized") /\ UNCHANGED <<running, retrying, events>>

Authorize(g) ==
    /\ Move(g, "usable", "authorizing")
    /\ Send(<<"status">>)
    /\ UNCHANGED <<running, retrying>>

Authorized(g) == Move(g, "authorizing", "authorized") /\ UNCHANGED <<running, retrying, events>>

\* The error is sent before is_running is cleared.
Refused(g) ==
    /\ Move(g, "authorizing", "leaving")
    /\ Send(<<"error">>)
    /\ UNCHANGED <<running, retrying>>

\* The generation is read first, then is_running written: a worker that was
\* started in between loses it.
Leave(g) ==
    /\ Move(g, "leaving", IF Stopped(g) THEN "gone" ELSE "clearing")
    /\ UNCHANGED <<running, retrying, events>>

ClearRunning(g) ==
    /\ Step(g, "clearing", "gone")
    /\ running' = FALSE
    /\ stale' = TRUE
    /\ astray' = (astray \/ Stopped(g))
    /\ UNCHANGED <<retrying, events>>

\* SSH or the helper fails to start.
FailToConnect(g) ==
    /\ Move(g, "authorized", "pausing")
    /\ retrying' = TRUE
    /\ Send(<<"status">>)
    /\ UNCHANGED running

Connect(g) ==
    /\ Move(g, "authorized", "up")
    /\ retrying' = FALSE
    /\ Send(<<"connected">>)
    /\ UNCHANGED running

\* A worker that is stopped in this pause says nothing either.
EndPause(g) ==
    /\ Move(g, "pausing", IF Stopped(g) THEN "gone" ELSE "loop")
    /\ UNCHANGED <<running, retrying, events>>

NoticeStop(g) ==
    /\ Stopped(g)
    /\ Move(g, "up", "closing")
    /\ UNCHANGED <<running, retrying, events>>

\* Mutant: the session is closed and nobody is told.
CloseQuietly(g) ==
    /\ Move(g, "closing", "gone")
    /\ UNCHANGED <<running, retrying, events>>

Close(g) ==
    /\ Move(g, "closing", "gone")
    /\ Send(<<"disconnected">>)
    /\ UNCHANGED <<running, retrying>>

\* SSH ends, or three checks of its health fail, or the helper does.
Break(g) ==
    /\ Move(g, "up", "broken")
    /\ Send(<<"status">>)
    /\ UNCHANGED <<running, retrying>>

\* A stop that came before this pause is found at once, and reported.
Recover(g) ==
    /\ IF Stopped(g) THEN Move(g, "broken", "gone") /\ Send(<<"status", "disconnected">>)
       ELSE Move(g, "broken", "waiting") /\ Send(<<"status">>)
    /\ retrying' = TRUE
    /\ UNCHANGED running

\* One that comes in it is reported, unless the pause is over by then too.
EndWait(g) ==
    /\ \/ Stopped(g) /\ Move(g, "waiting", "gone") /\ Send(<<"disconnected">>)
       \/ Move(g, "waiting", "loop") /\ UNCHANGED events
    /\ UNCHANGED <<running, retrying>>

Work(g) ==
    \/ BeginWork(g) \/ Attempt(g)
    \/ KeepHelper(g) \/ Authorize(g) \/ Authorized(g) \/ Refused(g)
    \/ Leave(g) \/ ClearRunning(g)
    \/ FailToConnect(g) \/ Connect(g) \/ EndPause(g)
    \/ NoticeStop(g) \/ Close(g) \/ Break(g) \/ Recover(g) \/ EndWait(g)

User ==
    \/ ClickCard \/ ToggleInTray \/ ToggleInWidget \/ ChangeLanguage
    \/ \E p \in Servers, saved \in BOOLEAN :
            SelectServer(p, saved) \/ SaveProfile(p, saved) \/ RemoveProfile(p, saved)

Next == User \/ TakeEvent \/ \E g \in Generations : Work(g)

Spec == Init /\ [][Next]_vars

\* The runtime's threads go on with every worker, and the timer of the window
\* takes events.  A user need not do anything.
FairSpec == Spec /\ WF_vars(TakeEvent) /\ \A g \in Generations : WF_vars(Work(g))

-----------------------------------------------------------------------------
(* Properties. *)

\* The tray says what the window says: connected only with it, and with it
\* always, from when the user has asked it to end disconnecting
\* (event_loop.rs:174-273, connect_view.rs:361-390).
TrayFollows ==
    /\ tray = "connected" => connected
    /\ connected => tray \in {"connected", "disconnecting"}

\* A button that offers to connect and can be pressed never stops a connection,
\* and while one is shown as connected the buttons of other servers cannot be
\* pressed, so that no click starts over it.  One that offers to disconnect does
\* so, unless a worker has cleared is_running since the cards were drawn, as one
\* does that was refused, or the window is astray: the button then starts a
\* connection (connect_view.rs:278-293, 361, 383, controller.rs:344, 564).
CardsTell ==
    \A p \in DOMAIN cards : cards[p].sensitive =>
        /\ cards[p].label # "disconnect" => ~(active = p /\ (connected \/ running))
        /\ cards[p].label = "disconnect" =>
                (active = p /\ (connected \/ running)) \/ stale \/ astray
        /\ connected => p = active

\* While is_running is set, the active server, which is shown as connecting or
\* connected, is the one for which the newest worker was started, unless another
\* was selected in the tray under it.  No removal or edit of a profile takes it
\* away.  (An earlier worker may still report its own connection to another
\* server: connect_view.rs:141, 320-339, mod.rs:731-746.)
ShownServer ==
    running /\ ~astray => active = server[generation]

\* The server that is shown as the one connected is in the end the one to which
\* there is a session: a worker that was superseded while it connected has its
\* session shown as one of the new server, but takes it down and says so; so
\* does one whose session breaks (event_loop.rs:174-250, controller.rs:430-546).
TrulyShown == \E g \in Generations : worker[g] = "up" /\ server[g] = active
ShownInTheEnd ==
    (connected /\ ~TrulyShown) ~> (~connected \/ TrulyShown \/ astray)

\* After a click that ends a connection that is up, or was until it broke,
\* the window and the tray do not stay with their buttons disabled
\* (connect_view.rs:361-368, controller.rs:444-447, 544-559).
StopIsTold ==
    (tray = "disconnecting"
     /\ \E g \in Generations : Stopped(g) /\ worker[g] \in {"up", "closing", "broken"})
        ~> tray # "disconnecting"

=============================================================================
