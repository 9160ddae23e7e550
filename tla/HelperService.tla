---------------------------- MODULE HelperService ----------------------------
(***************************************************************************)
(* What the privileged helper promises to whoever holds the helper lock of *)
(* the controller: the abstract service behind PrivilegedHelperSession     *)
(* (helper_client.rs) and run_daemon (bin/helper.rs).  HelperSession.tla   *)
(* models the two ends of the pipe in detail and is checked to implement   *)
(* this module; Controller.tla composes its actions with the worker.       *)
(*                                                                         *)
(* An action stands for one call of the client, from the command written   *)
(* to the answer read (or given up on).                                    *)
(***************************************************************************)

VARIABLES
    daemon,     \* what the Option<PrivilegedHelperSession> of the controller holds
    routing     \* the interception of traffic installed in the kernel

helperVars == <<daemon, routing>>

\* "mute": the process lives, and no command is answered as it should be any
\* more (it hangs, or an answer too many is in the pipe).
Daemon == {"none", "idle", "active", "mute", "dead"}

\* "held":   installed by the daemon behind the session,
\* "orphan": installed by a daemon whose session was dropped and that has not
\*           yet noticed,
\* "leaked": installed, and no process is left that would remove it.
Routing == {"off", "held", "orphan", "leaked"}

HelperTypeOK == daemon \in Daemon /\ routing \in Routing

HelperInit == daemon = "none" /\ routing = "off"

-----------------------------------------------------------------------------
(* The client's calls. *)

\* ensure_started with an answer: the new daemon kills every other helper and
\* clears the kernel before it reports Ready; it may be gone again by the time
\* that is read.
EnsureStarted ==
    /\ daemon = "none"
    /\ daemon' \in {"idle", "mute", "dead"}
    /\ routing' = "off"

\* The user refuses, the minute is over, or the daemon dies before Ready; it
\* may have cleared the kernel already.
EnsureFails ==
    /\ daemon = "none"
    /\ routing' \in {routing, "off"}
    /\ UNCHANGED daemon

\* take() and terminate(): the process of root cannot be killed by the user, so
\* dropping the pipes is all that happens to it.
Discard ==
    /\ daemon' = "none"
    /\ routing' = IF routing = "held" THEN "orphan" ELSE routing

\* start() answered with Active.
StartSession ==
    /\ daemon = "idle"
    /\ daemon' = "active"
    /\ routing' = "held"

\* start() answered with Error after the daemon rolled back, or not answered in
\* time: the caller discards the session, and a daemon that still works on the
\* command may yet install the interception.
StartFails ==
    /\ daemon \in {"idle", "mute", "dead"}
    /\ daemon' = "none"
    /\ IF daemon = "dead" THEN UNCHANGED routing
                          ELSE routing' \in {"off", "orphan"}

\* stop() returns Ok: answered with Stopped, or not sent because the process is
\* gone.
StopSession ==
    /\ daemon \in {"idle", "active", "dead"}
    /\ daemon' = IF daemon = "dead" THEN "dead" ELSE "idle"
    /\ routing' = IF daemon = "dead" THEN routing ELSE "off"

\* stop() fails: the caller discards the session.
StopFails == daemon = "mute" /\ Discard

\* check_active(): only an answering daemon with a session passes.
CheckPasses == daemon = "active" /\ UNCHANGED helperVars
CheckFails == daemon # "active" /\ UNCHANGED helperVars

\* status() and, when a session is left, stop(): the helper is fit for use.
ResetPasses ==
    /\ daemon \in {"idle", "active"}
    /\ daemon' = "idle"
    /\ routing' = "off"
ResetFails == daemon \in {"mute", "dead"} /\ Discard

\* sync_rules(): only an active session is touched, and a rebuild that fails
\* leaves the daemon without one.  The caller ignores the outcome.
SyncRules ==
    \/ UNCHANGED helperVars
    \/ daemon = "active" /\ daemon' = "idle" /\ routing' = "off"

\* shutdown(): Quit, then terminate and drop.
Quit ==
    /\ daemon' = "none"
    /\ routing' = IF routing # "held" THEN routing
                  ELSE IF daemon = "mute" THEN "orphan" ELSE "off"

-----------------------------------------------------------------------------
(* What happens to the daemon by itself. *)

\* The process ends: after its own cleanup (SIGTERM), or killed, or on a write
\* that fails, which skips the cleanup.
DaemonDies ==
    /\ daemon \in {"idle", "active", "mute"}
    /\ daemon' = "dead"
    /\ routing' \in IF routing = "held" THEN {"off", "leaked"} ELSE {routing}

\* An answer is late or comes unasked: the pipe is out of step from now on.
GoesMute ==
    /\ daemon \in {"idle", "active"}
    /\ daemon' = "mute"
    /\ UNCHANGED routing

\* The daemon drops its session by itself: the TUN task ended and it says so
\* unasked ("mute"), or a rebuild on a tick or a sick task seen by a Status
\* left it without one ("idle").
SessionEnds ==
    /\ daemon \in {"active", "mute"} /\ routing = "held"
    /\ daemon' \in IF daemon = "active" THEN {"mute", "idle"} ELSE {"mute"}
    /\ routing' = "off"

\* A daemon whose session was dropped sees the end of its input and cleans up,
\* or fails to write first and exits without.
OrphanEnds ==
    /\ routing = "orphan"
    /\ routing' \in {"off", "leaked"}
    /\ UNCHANGED daemon

HelperEnvironment == DaemonDies \/ GoesMute \/ SessionEnds \/ OrphanEnds

HelperCall ==
    \/ EnsureStarted \/ EnsureFails \/ Discard \/ StartSession \/ StartFails
    \/ StopSession \/ StopFails \/ CheckPasses \/ CheckFails
    \/ ResetPasses \/ ResetFails \/ SyncRules \/ Quit

HelperNext == HelperCall \/ HelperEnvironment

HelperSpec == HelperInit /\ [][HelperNext]_helperVars /\ WF_helperVars(OrphanEnds)

-----------------------------------------------------------------------------
\* The kernel and the session agree: traffic is held only by a living daemon,
\* and a daemon that answers as one without a session holds none.  Controller
\* code relies on it whenever it reuses a helper (controller.rs:288-298).
HeldByTheLiving ==
    /\ routing = "held" => daemon \in {"active", "mute"}
    /\ daemon = "active" => routing = "held"
    /\ daemon = "idle" => routing = "off"

=============================================================================
