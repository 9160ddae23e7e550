------------------------------- MODULE RuleSync -------------------------------
(***************************************************************************)
(* How the rules in the configuration file come into the kernel.  The      *)
(* window writes the file (config.rs); the helper reads it when a session  *)
(* starts, and again when a sync command or its own tick finds another     *)
(* modification time (bin/helper.rs, system.rs).                           *)
(*                                                                         *)
(* Of a configuration matters what routing_signature compares, and the     *)
(* rules for applications.  The commands to ip, nft and resolvectl are     *)
(* taken together; each part of a start may fail.  Every write of the file *)
(* gives it a modification time of its own.                                *)
(***************************************************************************)
EXTENDS Naturals

CONSTANTS
    Rules,      \* what routing_signature may be
    Apps,       \* what the rules for applications may be
    MaxStamp    \* bound: how often the file is written to

ASSUME RulesAssumption == "off" \notin Rules \cup Apps
ASSUME MaxStampAssumption == MaxStamp \in Nat

Config == [rules : Rules, apps : Apps]

VARIABLES
    file,       \* the configuration file, once the save under way is over
    disk,       \* "torn" when a save has emptied the file and not filled it yet
    stamp,      \* the modification time of the file
    place,      \* where the helper is in a command or a tick
    session,    \* active_session of the daemon
    config,     \* SystemState.config of the session that runs or starts
    mtime,      \* SystemState.config_mtime
    seen,       \* current_mtime of the sync under way
    kernel,     \* the rules the interception was installed with
    assigned    \* the rules by which processes are in the control groups

fileVars == <<file, disk, stamp>>
sessionVars == <<session, config, mtime, seen>>
kernelVars == <<kernel, assigned>>
vars == <<fileVars, place, sessionVars, kernelVars>>

Starting == {"read", "tun", "setup", "apps", "resolver"}

TypeOK ==
    /\ file \in Config /\ config \in Config
    /\ stamp \in Nat /\ mtime \in Nat /\ seen \in Nat
    /\ place \in Starting \cup {"idle", "compare", "assign"}
    /\ kernel \in Rules \cup {"off"} /\ assigned \in Apps \cup {"off"}
    /\ disk \in {"whole", "torn"} /\ session \in {"none", "active"}

Init ==
    /\ file \in Config /\ disk = "whole" /\ stamp = 0
    /\ place = "idle" /\ session = "none"
    /\ config = file /\ mtime = 0 /\ seen = 0
    /\ kernel = "off" /\ assigned = "off"

-----------------------------------------------------------------------------
(* The window: fs::write empties the file and then writes to it. *)

BeginSave(c) ==
    /\ disk = "whole" /\ stamp + 2 <= MaxStamp
    /\ disk' = "torn" /\ file' = c
    /\ stamp' = stamp + 1
    /\ UNCHANGED <<place, sessionVars, kernelVars>>

EndSave ==
    /\ disk = "torn" /\ disk' = "whole"
    /\ stamp' = stamp + 1
    /\ UNCHANGED <<file, place, sessionVars, kernelVars>>

-----------------------------------------------------------------------------
(* The helper starts a session: Start, and a sync that must rebuild. *)

\* ActiveSession::stop and clean_stale_resources.
Clear == kernel' = "off" /\ assigned' = "off" /\ session' = "none"

Start ==
    /\ place = "idle" /\ place' = "read"
    /\ Clear
    /\ UNCHANGED <<fileVars, config, mtime, seen>>

\* A file that is being saved is no JSON.
ReadConfig ==
    /\ place = "read"
    /\ \/ disk = "torn" /\ place' = "idle" /\ UNCHANGED config
       \/ disk = "whole" /\ place' = "tun" /\ config' = file
    /\ UNCHANGED <<fileVars, session, mtime, seen, kernelVars>>

\* Mutant: off by one.
NewSystemEarlier ==
    /\ place = "tun" /\ place' = "setup"
    /\ mtime' = stamp - 1
    /\ UNCHANGED <<fileVars, session, config, seen, kernelVars>>

\* The TUN device is there: SystemState::new takes the modification time.
NewSystem ==
    /\ place = "tun" /\ place' = "setup"
    /\ mtime' = stamp
    /\ UNCHANGED <<fileVars, session, config, seen, kernelVars>>

\* setup() installs routes and rules, and then puts processes into the groups.
Install ==
    /\ place = "setup" /\ place' = "apps"
    /\ kernel' = config.rules
    /\ UNCHANGED <<fileVars, sessionVars, assigned>>

AssignFirst ==
    /\ place = "apps" /\ place' = "resolver"
    /\ assigned' = config.apps
    /\ UNCHANGED <<fileVars, sessionVars, kernel>>

Activate ==
    /\ place = "resolver" /\ place' = "idle"
    /\ session' = "active"
    /\ UNCHANGED <<fileVars, config, mtime, seen, kernelVars>>

\* Mutant: what is installed stays when processes cannot be assigned.
StartFailsLeaves ==
    /\ place \in Starting /\ place' = "idle"
    /\ IF place = "apps" THEN UNCHANGED <<kernelVars, session>> ELSE Clear
    /\ UNCHANGED <<fileVars, config, mtime, seen>>

\* Whatever fails, all that was done is undone.
StartFails ==
    /\ place \in Starting /\ place' = "idle"
    /\ Clear
    /\ UNCHANGED <<fileVars, config, mtime, seen>>

\* Stop, a routing task that has ended, or the end of the daemon.
Stop ==
    /\ place = "idle" /\ UNCHANGED place
    /\ Clear
    /\ UNCHANGED <<fileVars, config, mtime, seen>>

-----------------------------------------------------------------------------
(* sync_active_rules, on a command or a tick. *)

\* Mutant: nothing is done about an unchanged file.
SyncSkips ==
    /\ place = "idle" /\ session = "active"
    /\ seen' = stamp
    /\ place' = IF stamp = mtime THEN "idle" ELSE "compare"
    /\ UNCHANGED <<fileVars, session, config, mtime, kernelVars>>

Sync ==
    /\ place = "idle" /\ session = "active"
    /\ seen' = stamp
    /\ place' = IF stamp = mtime THEN "assign" ELSE "compare"
    /\ UNCHANGED <<fileVars, session, config, mtime, kernelVars>>

SyncUnreadable ==
    /\ place = "compare" /\ disk = "torn"
    /\ place' = "idle"
    /\ UNCHANGED <<fileVars, sessionVars, kernelVars>>

\* Mutant: the new rules for applications are not kept.
SyncAppsForgets ==
    /\ place = "compare" /\ disk = "whole"
    /\ file.rules = config.rules
    /\ mtime' = seen
    /\ place' = "assign"
    /\ UNCHANGED <<fileVars, session, config, seen, kernelVars>>

SyncApps ==
    /\ place = "compare" /\ disk = "whole"
    /\ file.rules = config.rules
    /\ mtime' = seen
    /\ config' = [config EXCEPT !.apps = file.apps]
    /\ place' = "assign"
    /\ UNCHANGED <<fileVars, session, seen, kernelVars>>

Rebuild ==
    /\ place = "compare" /\ disk = "whole"
    /\ file.rules # config.rules
    /\ mtime' = seen
    /\ Clear
    /\ place' = "read"
    /\ UNCHANGED <<fileVars, config, seen>>

AssignApps ==
    /\ place = "assign" /\ place' = "idle"
    /\ assigned' = config.apps
    /\ UNCHANGED <<fileVars, sessionVars, kernel>>

\* The list of processes cannot be read.
AssignFails ==
    /\ place = "assign" /\ place' = "idle"
    /\ UNCHANGED <<fileVars, sessionVars, kernelVars>>

-----------------------------------------------------------------------------

Syncing == SyncUnreadable \/ SyncApps \/ Rebuild
Begins == ReadConfig \/ NewSystem \/ Install \/ AssignFirst \/ Activate

Next ==
    \/ EndSave \/ \E c \in Config : BeginSave(c)
    \/ Start \/ Begins \/ StartFails \/ Stop
    \/ Sync \/ Syncing \/ AssignApps \/ AssignFails

Spec == Init /\ [][Next]_vars

\* Nothing is saved while a start has the file read and its modification time
\* not yet: it brings the TUN device up in between, which takes 250 ms and more
\* (bin/helper.rs:377-399).
Calm == place = "tun" => UNCHANGED fileVars
CalmSpec == Init /\ [][Next /\ Calm]_vars

\* The tick comes every two seconds, and processes can be listed again.
FairCalmSpec ==
    /\ CalmSpec
    /\ WF_vars(Sync) /\ WF_vars(Syncing) /\ SF_vars(AssignApps) /\ WF_vars(AssignFails)

-----------------------------------------------------------------------------

\* Between two commands the kernel has the rules of the session, or nothing at
\* all if there is none, whichever step of a start or a rebuild failed
\* (bin/helper.rs:159-184, 296-306).
RulesFollowSession ==
    place = "idle" =>
        IF session = "active" THEN kernel = config.rules
                              ELSE kernel = "off" /\ assigned = "off"

\* What the comment in sync_active_rules says (bin/helper.rs:279): an unchanged
\* modification time means that the session has the rules of the file.
UnchangedMeansSame ==
    place = "idle" /\ session = "active" /\ disk = "whole" /\ mtime = stamp => config = file

\* With finitely many saves, each of them complete, the last one comes into
\* force in a session that goes on, although it may be read half-written, or
\* between the reads of a sync.
Applied == kernel = file.rules /\ assigned = file.apps
Converges == (session = "active" /\ <>[](disk = "whole")) ~> (Applied \/ session = "none")

=============================================================================
