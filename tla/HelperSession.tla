--------------------------- MODULE HelperSession ----------------------------
(***************************************************************************)
(* The two ends of the pipe between the controller and the privileged      *)
(* helper: PrivilegedHelperSession (helper_client.rs) with the calls the   *)
(* holders of the helper lock make of it (controller.rs), and run_daemon   *)
(* (bin/helper.rs).  A call writes a command and takes the next line that  *)
(* comes, whatever it answers: a call that times out or is cancelled, and  *)
(* an event the daemon sends unasked, leave a line behind for the next.    *)
(*                                                                         *)
(* A helper whose session is dropped lives on until it notices; a helper   *)
(* that clears stale resources kills every other one.                      *)
(***************************************************************************)
EXTENDS Naturals, Sequences, FiniteSets

CONSTANTS
    Process,    \* the helper processes that may be launched, one after another
    MaxPipe     \* bound: commands and answers under way to and from one helper

ASSUME ProcessAssumption == "none" \notin Process
ASSUME MaxPipeAssumption == MaxPipe \in Nat \ {0}

VARIABLES
    phase,      \* how far the worker is in the use of its helper
    current,    \* the helper of the session in RuntimeController.helper
    launching,  \* the helper that ensure_started() waits for
    call,       \* the call that waits for its answer
    behind,     \* history: how many lines were to come before that answer
    isActive,   \* PrivilegedHelperSession.is_active
    gui,        \* whether the program of the client still runs
    proc,       \* what each helper process is doing
    job,        \* the command each helper is carrying out
    session,    \* active_session.is_some() of each helper
    stdin,      \* commands written to each helper and not read by it
    stdout,     \* lines written by each helper and not read by the client
    installed   \* the helper whose interception is installed in the kernel

clientVars == <<phase, current, launching, call, behind, isActive, gui>>
daemonVars == <<proc, job, session, installed>>
pipeVars == <<stdin, stdout>>
vars == <<clientVars, daemonVars, pipeVars>>

\* The worker holds the helper lock from "vetted" to "session"; the other users
\* of the lock come between its calls in the other phases.
Phase == {"away", "vetted", "session", "leaving"}
Call == {"vet", "reset", "start", "check", "stop", "sync", "quit"}
Command == {"status", "start", "stop", "sync", "quit"}
Line == {"ready", "active", "stopped", "synced", "on", "off", "error"}

CommandOf == [vet |-> "status", reset |-> "stop", start |-> "start",
              check |-> "status", stop |-> "stop", sync |-> "sync", quit |-> "quit"]

Living == {"prompt", "serving", "closing"}
Alive(p) == proc[p] \in Living

TypeOK ==
    /\ phase \in Phase
    /\ current \in Process \cup {"none"} /\ launching \in Process \cup {"none"}
    /\ call \in Call \cup {"none"} /\ behind \in Nat
    /\ isActive \in BOOLEAN /\ gui \in BOOLEAN
    /\ proc \in [Process -> Living \cup {"none", "dead"}]
    /\ job \in [Process -> Command \cup {"none", "started"}]
    /\ session \in [Process -> BOOLEAN]
    /\ stdin \in [Process -> Seq(Command)]
    /\ stdout \in [Process -> Seq(Line)]
    /\ installed \in Process \cup {"none"}

Init ==
    /\ phase = "away" /\ current = "none" /\ launching = "none"
    /\ call = "none" /\ behind = 0 /\ isActive = FALSE /\ gui = TRUE
    /\ proc = [p \in Process |-> "none"]
    /\ job = [p \in Process |-> "none"]
    /\ session = [p \in Process |-> FALSE]
    /\ stdin = [p \in Process |-> <<>>]
    /\ stdout = [p \in Process |-> <<>>]
    /\ installed = "none"

-----------------------------------------------------------------------------
(* The client. *)

\* How many lines will come from a helper if nothing more is written to it.
Owed(p) ==
    Len(stdout[p]) + Cardinality({i \in DOMAIN stdin[p] : stdin[p][i] # "quit"})
    + IF job[p] \in {"none", "quit"} THEN 0 ELSE 1

\* take() and terminate(): the kill is refused (the process is root's), so the
\* ends of the pipes are closed and that is all.
Discard == current' = "none" /\ isActive' = FALSE

\* ensure_started, called when the session was found missing or unfit.
Launch(p) ==
    /\ gui /\ phase = "away" /\ call = "none"
    /\ current = "none" /\ launching = "none"
    /\ proc[p] = "none"
    /\ proc' = [proc EXCEPT ![p] = "prompt"]
    /\ launching' = p
    /\ UNCHANGED <<phase, current, call, behind, isActive, gui, job, session, installed, pipeVars>>

TakeReady(p) ==
    /\ launching = p /\ stdout[p] # <<>>
    /\ stdout' = [stdout EXCEPT ![p] = Tail(@)]
    /\ launching' = "none"
    /\ current' = p
    /\ isActive' = FALSE
    /\ phase' = "vetted"
    /\ UNCHANGED <<call, behind, gui, daemonVars, stdin>>

\* Refused, dead or over a minute: the child is dropped, which kills it as long
\* as it is still the prompt.
LaunchFails(p) ==
    /\ launching = p
    /\ launching' = "none"
    /\ proc' = [proc EXCEPT ![p] = IF @ = "prompt" THEN "dead" ELSE @]
    /\ UNCHANGED <<phase, current, call, behind, isActive, gui, job, session, installed, pipeVars>>

\* The phases in which each call is made (controller.rs:289-316, 389, 491, 523;
\* 114-136 and 199, 237 for the other users of the lock).
MayCall(c) ==
    CASE c = "vet" -> phase = "away"
      [] c = "start" -> phase = "vetted"
      [] c = "check" -> phase = "session"
      [] c = "stop" -> phase = "leaving"
      [] c = "sync" -> phase # "vetted" /\ isActive
      [] c = "quit" -> phase # "vetted"
      [] OTHER -> FALSE

\* send_command: the line is written; a helper known to be dead gets none, and
\* its session is given up by all but stop(), which takes it for stopped.
Write(p, c) ==
    /\ stdin' = [stdin EXCEPT ![p] = Append(@, CommandOf[c])]
    /\ call' = c
    /\ behind' = Owed(p)

MakeCall(c) ==
    \E p \in Process :
        /\ gui /\ current = p /\ call = "none" /\ launching = "none"
        /\ MayCall(c)
        /\ Alive(p) /\ Len(stdin[p]) + Owed(p) < MaxPipe
        /\ Write(p, c)
        /\ UNCHANGED <<phase, current, launching, isActive, gui, daemonVars, stdout>>

CallDead(c) ==
    \E p \in Process :
        /\ gui /\ current = p /\ call = "none" /\ launching = "none"
        /\ MayCall(c) /\ ~Alive(p)
        /\ IF c \in {"vet", "start", "quit"} THEN Discard
           ELSE isActive' = (c = "sync") /\ UNCHANGED current
        /\ phase' = CASE c = "check" -> "leaving" [] c \in {"start", "stop"} -> "away"
                      [] OTHER -> phase
        /\ UNCHANGED <<launching, call, behind, gui, daemonVars, pipeVars>>

\* With no session there is nothing to call: the check fails, the stop is done.
CallNone ==
    /\ current = "none" /\ call = "none"
    /\ \/ phase = "session" /\ phase' = "leaving"
       \/ phase = "leaving" /\ phase' = "away"
    /\ UNCHANGED <<current, launching, call, behind, isActive, gui, daemonVars, pipeVars>>

\* What a failed call comes to: the sessions of worker and shutdown() are given
\* up, except on a failed check, after which the worker calls stop(); nobody
\* looks at the outcome of a sync.  "active" is what is_active has become.
Failed(active) ==
    /\ call' = "none" /\ behind' = 0
    /\ CASE call \in {"vet", "reset", "start", "stop", "quit"} ->
              /\ Discard
              /\ phase' = IF call = "quit" THEN phase ELSE "away"
         [] call = "check" -> phase' = "leaving" /\ isActive' = active /\ UNCHANGED current
         [] call = "sync" -> UNCHANGED <<phase, current, isActive>>

Wanted == [vet |-> "off", reset |-> "stopped", start |-> "active",
           check |-> "on", stop |-> "stopped", sync |-> "synced"]
WantedLine(line) == call # "quit" /\ line = Wanted[call]
NextPhase == [vet |-> "vetted", reset |-> "vetted", start |-> "session",
              check |-> "session", stop |-> "away", sync |-> phase]

\* next_line: the call takes the first line in the pipe for its answer.
TakeLine(p) ==
    /\ current = p /\ call # "none" /\ stdout[p] # <<>>
    /\ stdout' = [stdout EXCEPT ![p] = Tail(@)]
    /\ UNCHANGED <<launching, gui, daemonVars>>

Succeeds(p) ==
    /\ TakeLine(p)
    /\ WantedLine(Head(stdout[p]))
    /\ phase' = NextPhase[call]
    /\ isActive' = IF call = "sync" THEN isActive ELSE call \in {"start", "check"}
    /\ call' = "none" /\ behind' = 0
    /\ UNCHANGED <<current, stdin>>

\* status() finds a session left: stop() is called next under the same lock.
StopNext(p) ==
    /\ stdin' = [stdin EXCEPT ![p] = Append(@, "stop")]
    /\ call' = "reset"
    /\ behind' = Owed(p) - 1
    /\ isActive' = TRUE
    /\ UNCHANGED <<phase, current>>

Fails(p) ==
    /\ TakeLine(p)
    /\ LET line == Head(stdout[p])
       IN /\ ~WantedLine(line)
          /\ IF call = "vet" /\ line = "on"
             THEN StopNext(p)
             ELSE Failed(isActive /\ line \notin {"error", "off"}) /\ UNCHANGED stdin

\* Mutant: the session is kept after a call that was given up.
GivesUpKeeps ==
    /\ call # "none"
    /\ call' = "none" /\ behind' = 0
    /\ phase' = IF call = "check" THEN "leaving"
                ELSE IF call \in {"sync", "quit"} THEN phase ELSE "away"
    /\ UNCHANGED <<current, isActive, launching, gui, daemonVars, pipeVars>>

\* 20 s without a line, or the end of the helper's output, or a forward that is
\* cancelled while its preparation waits for the sync.
GivesUp ==
    /\ call # "none"
    /\ Failed(isActive)
    /\ UNCHANGED <<launching, gui, daemonVars, pipeVars>>

\* SSH fails before start(), or the user or the SSH process ends the session.
Leave ==
    /\ call = "none"
    /\ \/ phase = "vetted" /\ phase' = "away"
       \/ phase = "session" /\ phase' = "leaving"
    /\ UNCHANGED <<current, launching, call, behind, isActive, gui, daemonVars, pipeVars>>

\* The program ends, and closes the pipes and the helper's standard error.
GuiExits ==
    /\ gui /\ gui' = FALSE
    /\ current' = "none" /\ launching' = "none" /\ call' = "none" /\ behind' = 0
    /\ isActive' = FALSE /\ phase' = "away"
    /\ UNCHANGED <<daemonVars, pipeVars>>

Client ==
    \/ \E p \in Process : \/ Launch(p) \/ TakeReady(p) \/ LaunchFails(p)
                          \/ Succeeds(p) \/ Fails(p)
    \/ \E c \in Call : MakeCall(c) \/ CallDead(c)
    \/ CallNone \/ GivesUp \/ Leave \/ GuiExits

-----------------------------------------------------------------------------
(* The helper process. *)

Open(p) == p \in {current, launching}

\* clean_stale_resources and ActiveSession::stop: every other helper is killed
\* and the kernel cleared.  What becomes of p itself is "state".
Clearing(p, state) ==
    /\ proc' = [q \in Process |-> IF q = p THEN state
                                  ELSE IF Alive(q) THEN "dead" ELSE proc[q]]
    /\ installed' = "none"

\* send_event: without a reader the write fails, run_daemon returns at once and
\* no session is stopped.
Writes(p, line) ==
    stdout' = IF Open(p) THEN [stdout EXCEPT ![p] = Append(@, line)] ELSE stdout
AfterWrite(p) == IF Open(p) THEN "serving" ELSE "dead"

\* The command is done, with this answer and this session, in a kernel that was
\* cleared or left alone.
Done(p, line, left) ==
    /\ job' = [job EXCEPT ![p] = "none"]
    /\ session' = [session EXCEPT ![p] = left]
    /\ Writes(p, line)
    /\ UNCHANGED <<clientVars, stdin>>
Cleared(p) == Clearing(p, AfterWrite(p))
Kept(p) == proc' = [proc EXCEPT ![p] = AfterWrite(p)] /\ UNCHANGED installed

\* Mutant: stale resources are cleared, and older helpers left alone.
BootAmongOthers(p) ==
    /\ gui /\ proc[p] = "prompt"
    /\ proc' = [proc EXCEPT ![p] = AfterWrite(p)]
    /\ installed' = "none"
    /\ Writes(p, "ready")
    /\ UNCHANGED <<clientVars, job, session, stdin>>

\* Mutant: older helpers are killed, and what they installed is left.
BootUnclean(p) ==
    /\ gui /\ proc[p] = "prompt"
    /\ proc' = [q \in Process |-> IF q = p THEN AfterWrite(p)
                                  ELSE IF Alive(q) THEN "dead" ELSE proc[q]]
    /\ UNCHANGED installed
    /\ Writes(p, "ready")
    /\ UNCHANGED <<clientVars, job, session, stdin>>

\* Once the program that read its standard error is gone, the first message a
\* helper prints ends it.
Boot(p) ==
    /\ gui /\ proc[p] = "prompt"
    /\ Clearing(p, AfterWrite(p))
    /\ Writes(p, "ready")
    /\ UNCHANGED <<clientVars, job, session, stdin>>

Serving(p) == gui /\ proc[p] = "serving"

Read(p) ==
    /\ Serving(p) /\ job[p] = "none" /\ stdin[p] # <<>>
    /\ job' = [job EXCEPT ![p] = Head(stdin[p])]
    /\ stdin' = [stdin EXCEPT ![p] = Tail(@)]
    /\ UNCHANGED <<clientVars, proc, session, installed, stdout>>

\* Start stops a session that is there, clears, and sets the system up step by
\* step; a step that fails has everything rolled back.
SetUp(p) ==
    /\ Serving(p) /\ job[p] = "start"
    /\ job' = [job EXCEPT ![p] = "started"]
    /\ session' = [session EXCEPT ![p] = FALSE]
    /\ proc' = [q \in Process |-> IF q # p /\ Alive(q) THEN "dead" ELSE proc[q]]
    /\ installed' = p
    /\ UNCHANGED <<clientVars, pipeVars>>

Started(p) == Serving(p) /\ job[p] = "started" /\ Kept(p) /\ Done(p, "active", TRUE)

\* Mutant: nothing is undone when a start fails.
RollsNothingBack(p) ==
    /\ Serving(p) /\ job[p] \in {"start", "started"}
    /\ Kept(p) /\ Done(p, "error", FALSE)

RollsBack(p) ==
    /\ Serving(p) /\ job[p] \in {"start", "started"}
    /\ Cleared(p) /\ Done(p, "error", FALSE)

Stops(p) == Serving(p) /\ job[p] = "stop" /\ Cleared(p) /\ Done(p, "stopped", FALSE)

\* Mutant: an answer the client has no name for.
TellsUnknown(p) ==
    /\ Serving(p) /\ job[p] = "status"
    /\ Kept(p) /\ Done(p, "unknown", session[p])

TellsStatus(p) ==
    /\ Serving(p) /\ job[p] = "status"
    /\ Kept(p) /\ Done(p, IF session[p] THEN "on" ELSE "off", session[p])

\* A routing task has ended unnoticed.
FindsSick(p) ==
    /\ Serving(p) /\ job[p] = "status" /\ session[p]
    /\ Cleared(p) /\ Done(p, "error", FALSE)

Syncs(p) == Serving(p) /\ job[p] = "sync" /\ Kept(p) /\ Done(p, "synced", session[p])

\* The configuration cannot be read, or the rebuild fails after the session was
\* stopped for it.
SyncFails(p) ==
    /\ Serving(p) /\ job[p] = "sync" /\ session[p]
    /\ \/ Kept(p) /\ Done(p, "error", TRUE)
       \/ Cleared(p) /\ Done(p, "error", FALSE)

\* The same rebuild on a tick is answered to nobody.
TickFails(p) ==
    /\ Serving(p) /\ job[p] = "none" /\ session[p]
    /\ Clearing(p, "serving")
    /\ session' = [session EXCEPT ![p] = FALSE]
    /\ UNCHANGED <<clientVars, job, pipeVars>>

\* The TUN task ends: an Error goes out unasked.
TunEnds(p) ==
    /\ Serving(p) /\ job[p] = "none" /\ session[p]
    /\ Owed(p) < MaxPipe
    /\ Cleared(p) /\ Done(p, "error", FALSE)

\* Quit, the end of the input once all of it is read, or SIGTERM.
Closes(p) ==
    /\ Serving(p)
    /\ \/ job[p] = "quit"
       \/ job[p] = "none" /\ stdin[p] = <<>> /\ ~Open(p)
    /\ proc' = [proc EXCEPT ![p] = "closing"]
    /\ UNCHANGED <<clientVars, job, session, installed, pipeVars>>

Terminated(p) ==
    /\ Serving(p) /\ job[p] = "none"
    /\ proc' = [proc EXCEPT ![p] = "closing"]
    /\ UNCHANGED <<clientVars, job, session, installed, pipeVars>>

ClosesDown(p) ==
    /\ gui /\ proc[p] = "closing"
    /\ Clearing(p, "dead")
    /\ session' = [session EXCEPT ![p] = FALSE]
    /\ UNCHANGED <<clientVars, job, pipeVars>>

\* Killed from outside, or by its own message when nobody reads it any more.
Killed(p) ==
    /\ Alive(p)
    /\ proc' = [proc EXCEPT ![p] = "dead"]
    /\ UNCHANGED <<clientVars, job, session, installed, pipeVars>>

Dies(p) == ~gui /\ Killed(p)

Helper(p) ==
    \/ Read(p) \/ SetUp(p) \/ Started(p) \/ RollsBack(p) \/ Stops(p)
    \/ TellsStatus(p) \/ FindsSick(p) \/ Syncs(p) \/ SyncFails(p)
    \/ Closes(p) \/ ClosesDown(p)

ByItself(p) == Boot(p) \/ TickFails(p) \/ TunEnds(p) \/ Terminated(p) \/ Killed(p)

\* Nothing is left to do once every helper that could be launched is dead.
Over ==
    /\ \A p \in Process : ~Alive(p)
    /\ call = "none" /\ launching = "none"
    /\ UNCHANGED vars

Next ==
    \/ Client
    \/ \E p \in Process : Helper(p) \/ ByItself(p)
    \/ Over

\* A helper serves its input and comes to the end of it: its steps have
\* timeouts of their own (system.rs:26, helper.rs:28, 410).  Whether the user
\* answers the prompt, and the accidents, are nobody's duty.
Spec ==
    /\ Init /\ [][Next]_vars
    /\ \A p \in Process : WF_vars(Helper(p)) /\ WF_vars(Dies(p))

-----------------------------------------------------------------------------

\* Between two commands a helper has a session exactly when its interception is
\* in the kernel, whatever failed half-way before (helper.rs:160-198, 237-254).
KernelFollowsSession ==
    \A p \in Process : proc[p] = "serving" /\ job[p] = "none" =>
        (session[p] <=> installed = p)

\* Two helpers never work on the kernel at once: a helper that is still there
\* when the next comes up is killed before that one serves (system.rs:534-546).
OneServing ==
    \A p, q \in Process : {proc[p], proc[q]} \subseteq {"serving", "closing"} => p = q

\* The worker is never told of success by an answer to an earlier command,
\* however many lines syncs, timeouts and the daemon itself have left in the
\* pipe: what it does after it holds (helper_client.rs:97-115).
SuccessIsOwn ==
    [][\A p \in Process : Succeeds(p) /\ call # "sync" => behind = 0]_vars

\* The session seen as the abstract service.  A dropped helper counts as one
\* that intercepts as soon as it has a Start before it.
InStep(p) == Owed(p) = IF call \in {"none", "quit"} THEN 0 ELSE 1
daemonBar ==
    IF current = "none" THEN "none"
    ELSE IF ~Alive(current) THEN "dead"
    ELSE IF ~InStep(current) \/ proc[current] = "closing" THEN "mute"
    ELSE IF installed = current THEN "active" ELSE "idle"

Orphan(p) ==
    /\ Alive(p) /\ p # current
    /\ installed = p \/ job[p] = "start" \/ \E i \in DOMAIN stdin[p] : stdin[p][i] = "start"
routingBar ==
    IF \E p \in Process : Orphan(p) THEN "orphan"
    ELSE IF installed = "none" THEN "off"
    ELSE IF installed = current /\ Alive(current) THEN "held" ELSE "leaked"

Service == INSTANCE HelperService WITH daemon <- daemonBar, routing <- routingBar

\* The two ends of the pipe implement the service the controller is built on,
\* and a helper whose session was dropped comes to its end.
ImplementsService == Service!HelperSpec

=============================================================================
