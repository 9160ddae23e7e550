# A verification development for SSH Rocket

SSH Rocket sends the traffic of a Linux desktop through an SSH connection: a
GTK program keeps an OpenSSH process with a SOCKS port and, through a helper
that runs as root, a TUN device, routes and an nftables chain that lead traffic
into it. Everything that is hard in it lies between these parts: a user who
clicks while something is being waited for, processes that die, answers that
come late, commands that fail half-way. This directory models those parts in
TLA+, checks them with TLC on small instances and proves the main results with
TLAPS for every instance.

Paths below are relative to `src/crates/`. The controller is
`ssh-rocket-gui/src/controller.rs`, the helper
`ssh-rocket-runtime/src/bin/helper.rs`.

## The system: parts, state, interaction

| part | state it keeps | operations | interacts by |
|---|---|---|---|
| connection worker (controller) | generation, is_running, stop channel, worker lock; per worker: user_cancelled, health failures, SSH session | start, stop, shutdown; the reconnect loop | helper lock, runtime events, oneshot channel |
| forward requests (controller, forward view, dialogs, connect view) | rules and profiles in the configuration | set_forward_enabled, stop_forward, start_enabled_forwards, restart_profile_forwards | one spawned task for each request, manager lock |
| forward manager (`forward.rs`) | map of rule to supervisor; per supervisor: token, delay | start_with_prepare, stop, stop_all | cancellation tokens, join handles; takes the helper lock to prepare |
| helper client (`helper_client.rs`) | child process, pipes, is_active | ensure_started, status, start, stop, sync_rules, shutdown, terminate | JSON lines to and from the helper |
| helper daemon (`bin/helper.rs`) | the active session (TUN task, DNS task, system state) | Start, Stop, SyncRules, Status, Quit; ticks | pipes, kernel, configuration file, SIGKILL of other helpers |
| system state (`system.rs`) | routes, rules, nft table, cgroups; modification time of the configuration | setup, cleanup, assign_apps, clean_stale_resources | commands to ip, nft, resolvectl; /proc, /sys |
| configuration (`config.rs`) | a JSON file | load, save | the window writes it, the helper reads it |
| SSH session (`ssh.rs`) | the ssh process | start, wait, stop, health probes | SOCKS port, DNS forward |
| event loop (`app/event_loop.rs`) | is_connected, labels, forward states | takes at most 30 events every 200 ms | runtime events |
| routing engine (`ssh-rocket-core/src/routing.rs`) | rule lists | decide, match_domain | called by the DNS router |
| DNS router (`dns_router.rs`) | sockets, domain sets | answer or block a query | UDP, nft sets |
| rule lists and importer (`app/rules.rs`, `ui/rules_view.rs`, `rule_manager.rs`, `rule_importer.rs`) | the user's list, the imported list, rules for programs, default policy; pages with batches and searches | edits, imports from sources and backups, the blacklist, changes of the language | events of the import threads, saves, syncs |
| cards, tray, floating widget (`ui/connect_view.rs`, `tray.rs`, `app/mod.rs`) | profiles, active profile, sensitivity of buttons, state of the tray | connect, disconnect, select, add, edit and remove servers | start and stop of the controller, runtime events |
| statistics, other views | counters, widgets | sampling, drawing | /proc |

### What is hard, and what makes each part correct

* **Worker.** A click on disconnect and one on connect take no time, an
  authorization may take a minute: several workers are alive at once, and the
  old ones still hold locks, an SSH process and the helper. Correct means: they
  run one after another, whoever was superseded is told, no living helper in use
  intercepts without the SSH session behind it and what a lost one left is cleared
  before the next session, a worker that was stopped only finishes, and the window
  in the end shows the truth.
* **Helper.** A call writes a line and takes the next line that comes. Time-outs,
  dropped futures and an Error sent unasked leave lines behind. Processes of root
  cannot be killed by the user, so a dropped helper lives on until it notices; and
  a helper that writes to a closed pipe exits without cleaning up. Correct means:
  a success that is reported is the success of that call, what was half done is
  undone, two helpers never serve at once, and the kernel has what the session says.
* **Forwards.** Each request is a task of its own, supervisors hang in attempts
  while the manager waits for their end under its lock. Correct means: one
  supervisor for each rule, none out of reach, requests that end, retries that
  come back after the network does, and the last request deciding.
* **Rules.** The window rewrites the file at any moment, the helper reads it and
  its modification time at two moments. Correct means: kernel and session agree
  after every failure, and the last save comes into force.
* **Names and packets.** The engine decides about names, the chain about packets,
  and sets of addresses with time-outs lie between them, filled by tasks that may
  outlive their session. Correct means: the chain does what the engine would, what
  an application was told is routed before it can use it (unless nft failed, which
  nobody looks at), and only the rules of the session fill its sets, as long as no
  task of an earlier one does.

* **Rule lists.** Four ways lead into a list, each with its own search for the rule
  that is there; imports run on threads and end in any order, over a source that may
  be gone by then; and a save may fail after the configuration in memory has changed.
  Correct means: one rule for each target, imported rules of the source that is
  shown, pages that follow, and a program that stays blocked until it is unblocked.
* **Cards and tray.** What a button does is decided when it is pressed, what it says
  when it was drawn; between them are is_running, which the worker clears by itself,
  and events that do not say whose they are. Correct means: no button that offers to
  connect stops a connection, and one that offers to disconnect starts one only in
  the cases that are findings below; tray and window agree; the server shown is the
  one the newest worker was started for, and when it is shown as connected before it
  is, that ends; and a click that ends a connection is answered.

PROJECT.json lists each of these hazards at its line, with the properties that
would catch it, or the reason why none does.

## The modules

| module | models | stands on |
|---|---|---|
| `HelperService` | what the helper promises to the holder of the helper lock: the abstract specification (two variables: the session, and the interception in the kernel) | |
| `Controller` | the connection worker, the window's two buttons and its events, syncs and shutdown | composes the actions of `HelperService` |
| `HelperSession` | both ends of the pipe in detail, several helper processes | implements `HelperService` |
| `Forward` | forward requests, manager, supervisors, shutdown's part | |
| `RuleSync` | configuration file, start of a session, synchronisation of rules | |
| `Routing` | the routing engine and the packet chain, as operators | |
| `DnsRouter` | queries, domain sets and the sockets over the life of sessions | extends `Routing` |
| `RuleLists` | the rules as the window keeps them, the import threads, the pages | |
| `Connections` | cards, tray and menus, profiles, the events, and of the worker what the window can tell | |
| `MC...` | the instances TLC checks | the module named |
| `...Proofs` | theorems about the module named | TLAPS |

`HelperService` joins the two halves of the connection: `Controller` is checked
and proved with the abstract service, and the detailed protocol is checked to
implement it, and proved to as far as safety goes. `Controller` and `Forward` share
the helper lock, which forwards
take to have the rules synchronised; in `Controller` this is the syncer, in
`HelperSession` a call `sync` that comes between those of the worker and may be
given up at any moment, in `Forward` a part of an attempt, which may hang.

### State and actions against the code

* **Controller.** `pc` says where each spawned task is. Places that start with
  `want` wait for the helper lock, the others of `Holding` hold it; `monitor` is
  the inner select!, `retry` and `backoff` the pauses against the stop channel,
  `finish` and `clear` the two halves of the last `if` (the read of the
  generation and the write of is_running are separate steps). Every break,
  continue and return of the loop is an action of its own. `events` holds what
  each undelivered event says about the connection, because the event loop
  reduces Connected, Disconnected, Status and Error to that.
* **HelperService, HelperSession.** `routing` tells apart an interception held by
  the daemon behind the session, by an orphan whose session was dropped, and one
  leaked, of which no process is left. In the detailed module this is derived
  from who installed it and who is alive (`routingBar`), and `mute` is derived
  from the number of lines that are under way (`daemonBar`).
* **Forward.** A request bears a number and its supervisor the same number. The
  history variable `inOrder` says whether the lock was taken in the order of the
  clicks so far.
* **RuleSync.** A configuration is a pair: what `routing_signature` compares, and
  the rules for applications. A save is two writes.
* **Routing.** `MatchDomain` looks into two maps and then at the keywords before the
  rule that was found, as the code does; `FirstMatch` is what the comment on it
  promises. `Chain` is the list of entries in the order of the commands to nft, and
  `Settles` says when an entry ends the way of a packet: an entry that proxies lets
  UDP pass, but for QUIC. Domains are sequences of labels.
* **DnsRouter.** `phase` follows start_proxy_session between its binds. A query
  carries the engine of the router that received it, and its session. `Update` and
  `UpdateFails` are the two outcomes of the batch for nft, after both of which the
  answer is sent. `told`, `expired`, `unwritten` and `overtaken` are history: what
  applications know, what the time-outs took, what nft failed to add, and whether a
  task of an earlier session wrote to the sets.

* **RuleLists.** `config` is the configuration in memory; a handler that saves and
  looks at the result has a parameter `saved`, with the early return of the code when
  it is false (`stale` notes that pages were left as they were). The two lists the
  code keeps for domains and for networks are treated alike by it and are one here.
  Parsing is a fold over the lines of a source, each of them what its syntax means;
  a rule set that is read is merged with the action the source gives to it. A row of
  a program has what it shows (`combos`), which the handler compares with the
  configuration. `importer` says where each thread is: the source, the rule sets one
  after the other, the report.
* **Connections.** `cards` holds label and sensitivity of the buttons as they were
  last drawn; `Refresh` is what render_connection_cards makes of the state of the
  moment. The worker is the one of `Controller` without what the window cannot see:
  the places that send an event, and those where it looks for a stop or clears
  is_running (the read of the generation and the write are two steps, as they are
  there). Here stop() is one step, and every generation that was started has a worker
  of its own. Menus press the button of the active card, whether it is sensitive or
  not. `stale` and `astray` are history: whether a worker has cleared is_running since
  the cards were drawn, and whether another server was selected under the newest
  worker, or is_running cleared under it.

Definitions whose comment begins with "Mutant" are variants of the definition
after them, with a plausible bug; they belong to no specification. Each checked
property is shown to fail for the mutant PROJECT.json gives for it.

## The runs

| run | instance | shows |
|---|---|---|
| ControllerSafety | 2 workers, 6 generations, 3 health failures, 2 events | type invariant; no living helper in use intercepts without SSH, and no session begins over what a lost one left; one SSH session; the window tells the truth; is_running has a worker; a stopped worker only goes on to its end |
| ControllerStartLive | 2 workers, no other user of the helper lock | stops and starts take effect |
| ControllerQuitLive | 1 worker, syncs, quit | quitting ends; the window learns of the end |
| HelperSession | 2 helper processes, 2 lines under way | kernel follows session, one helper serves, success is one's own, implements `HelperService` |
| ForwardSafety | 2 rules, 3 requests, delays to 4 | one supervisor, last request decides if in order |
| ForwardLive | 1 rule, 3 requests | requests and shutdown end; rules recover |
| ForwardDeleted (violated) | 1 rule, 3 requests | a deleted rule may run on |
| RuleSyncCalm | 2 routings, 2 sets of application rules, 3 saves | kernel follows session after any failure; the last save comes into force |
| DnsRouting | 1 query at a time, 2 sessions, 3 configurations, 3 domains, 3 addresses | answers are routed before they are sent unless nft failed; only rules fill the sets; chain and engine agree; the first rule decides |
| DnsRebuild (violated) | the same, nothing fails and nobody stops | a query under way makes a rebuild fail |
| RuleLists | 2 targets, 1 program, 2 sources, 3 rule sets, 2 import threads, 3 edits | one rule for each target; imported rules are the source's; pages follow; a block is kept; the import buttons return |
| Connections | 2 servers, 5 generations, 3 events | tray and window agree; buttons do what they say but for the findings; the server shown is the newest worker's, and is connected in the end if it is shown so; a click that ends a connection is answered |

**Bounds and why they suffice.** Two workers let one be superseded at every place
by another that waits, begins or is itself superseded; a third behaves towards
the second as the second towards the first. `MaxGeneration` lets each be started
and stopped with one click more. `MaxEvents` only delays Connected. Two helper
processes are one that was dropped and one in use; two lines are an answer left
over and the answer awaited, which is all the difference "behind" makes. Three
requests are a start, one that overtakes it and one more; two rules are enough
for a request about another to come in between. Three saves (`MaxStamp` counts two
writes for each) are a save, one that overtakes it and one that takes it back.
Symmetry is used in safety runs only. One query that is used again and again meets
every phase of its own session and of the next; queries do not touch each other but
through the sets, and the proofs are for any number. The configurations have rules
of each kind that overlap: a suffix before and after a name and a keyword, an
override, a name and its address with different actions, an address that two names
share, a pattern that is empty; two of them differ in their programs only.

In `RuleLists` two targets are one that a rule is about and one that lies beside it,
three edits are enough to make a rule, overlay it and take it away, with imports in
between at any place, and two threads to overtake one another. `RuleSetLimit` is 2
for the 8 of the code, and one source has three rule sets, so that the limit bites;
`Batch` is 1 for 20, so that lists of two need a second batch. In `Connections` two
servers are the active one and another; five generations are two starts and a stop.

**Fairness.** tokio's mutexes are handed over in the order in which they are
asked for, so whoever asks for one gets it although it is taken again and again:
strong fairness for lock steps. Steps that end by a time-out of their own (every
call of the worker, every step of the helper) are weakly fair. A select! polls
all its branches before it sleeps, in random order: strong fairness for the stop
branch of the monitor, and a biased select! gives weak fairness for the
supervisor's token. An import has a limit of 120 s for each
download and waits for nothing else, so its thread goes on (weak fairness), and the
timer of the window takes events while it is open; that is all that `ButtonsReturn`,
`StopIsTold` and `ShownInTheEnd` need besides the progress of the worker. Nothing is assumed of
queries and time-outs in `DnsRouter`, whose properties are safety. Nothing is assumed of the user, the network, the helper as
seen by the worker, or the attempts of a supervisor; `Recovers` assumes that
attempts end and says so in the property.

## What is proved

`ControllerProofs`, `HelperSessionProofs`, `ForwardProofs`, `RuleSyncProofs`,
`RoutingProofs`, `DnsRouterProofs`, `ConnectionsProofs` and `RuleListsProofs` prove,
for any sets and bounds that satisfy the named assumptions of the modules (the
sentinels are not elements of the sets, the bounds are numbers, the domains are
sequences of labels, no list of profiles or of programs names one twice, a
configuration that is read at the start was saved by an earlier run), every safety
property of the corresponding runs, the safety half of the refinement, and several
that no run repeats because they are parts of the invariants (`SupersededAreStopped`,
`HelperIsHonest`, `SupervisorsAreRegistered`, `BrokenIsRetriedSoon`).

* **Controller.** The invariant is the type invariant, the properties themselves
  and what makes them inductive: a lock is held exactly by the task at a place
  that holds it (`Ownership`); flags and places of a task agree (`FlagTypeOK` and
  the parts beside it); a task's generation is at most the current one and unique;
  and what an undelivered last event says is what the places of the tasks say
  (`Telling`) - the window's property only speaks of an empty queue and says
  nothing about the steps that fill it. Each part has a lemma with one step for
  each action. What is intercepted without SSH was installed by a helper that is lost
  (`LostInstalled`, in the invariant): `RoutingIsOwned` follows from it and from the
  order in which a session is closed, and that the next one does not begin over it from
  what is done between the helper lock and SSH (`CleanStep`). `StoppedWorkersFinish` needs that a worker with a stop message
  finds it at every place where it could go back (`StoppedGoesForward`).
  `UsesHelperService` shows that the controller, seen through
  `daemon` and `routing`, is a behaviour of the abstract service.
* **Forward.** One supervisor for each rule follows from two facts: one that lives
  is registered or being joined, and while one is being joined its rule is not
  started. The second needs the discipline of the lock: who is at a place past the
  lock holds it.
  `LastDecides` adds to this invariant that, while the lock is taken in the order of
  the clicks, its holder is the last that took it (`Ordered`), that the map is as the
  latest request of each rule left it (`Decided`), and that what the map names runs
  (`Living`).
* **HelperSession.** That two helpers never serve at once rests on the order in which
  one comes up: it kills before it serves. That the kernel agrees with the session
  needs to be said of the middle of a command as well: between the end of its setup
  and its answer a helper has installed what its session is about to be (`Kernel`),
  and one that is not up yet has neither session nor command (`Fresh`). The types need the count
  of the lines that are still to come to stay a number, which is what a call that is
  given up subtracts from.
  `SuccessOwn` needs an invariant about the lines (`Talk`): in the pipe of the helper
  that is used, all but what answers the call that waits is late, and late are only
  answers to syncs, errors, and, once a check has failed, the answer to that check. A
  call that waits is unread, being done or answered, with what is late before it and
  only errors after it. None of what the worker waits for is among the late, so what
  it takes for its answer is the answer, and nothing came before.
  `ImplementsSafely` is the safety half of the refinement: the session starts as the
  service does, and every step is one of `HelperService` or none. To what is above it
  adds (`Fit`) that no other helper lives while one is used, that what is installed
  belongs to the one that works, and that a helper which was found fit for use has
  nothing before it and owes nothing until Start is read, for else an interception
  would begin behind a pipe that is out of step. A pipe that is out of step stays so:
  of a call that waits a line is owed (`SomethingOwed`), so one that is given up
  leaves one line too many. TLC has checked `Talk` and `Fit` over all the states of
  the run HelperSession.
* **RuleSync.** Rollback (`RulesFollowSession`) is proved for every interleaving of
  saves, while the runs check it for calm ones. `CalmMeansSame` needs, in the middle
  of a start or a sync, that what was read is what the file was at the modification
  time that was noted.
* **Routing.** `FirstRule` (RoutingProofs): for every list of rules and every domain
  the maps and the early exit find the rule that a plain search would. A map holds
  the least index of its name, the least of the maps' answers is the least of the
  rules they stand for, and a keyword that is skipped has a greater index.
  `ChainIsEngine`: for all settings with one rule for each program, the chain does
  with a connection what the engine decides. The places of the chain are laid out
  (`ChainPlaces`), the entries that settle the packet are found among them
  (`SettledByChain`), the first of these is an override, the entry of the group, that
  of a domain set, or a rule for the address (`FirstOfChain`), in the order in which
  the engine asks.
* **DnsRouter.** That an answer is routed needs to be known before it is sent
  (`Answered`), and this in turn that a task of the current session decides as the
  session does (`Current`), although its engine may have earlier programs:
  decisions about domains do not depend on them (`SameDecision`). What nft failed to
  add is noted and stays so until it is added (`StaysRouted`). `Carried` and
  `NothingKnown` cover what lies before and after. `ChainCorrect` is `ChainIsEngine`
  applied to what was told.
* **Connections.** The cards are right because whoever starts a connection disables
  them all, and whatever draws them anew looks at is_running: while anything is
  connected or runs, the buttons that can be pressed offer to disconnect (`Buttons`),
  a button that offers to disconnect was drawn while that was so,
  and what runs has a worker with a server (`Worked`). The types need that removing a
  profile leaves a list without repetition (`WithoutKeeps`).

* **RuleLists.** The lists are folds over the lines of a source, the conditions of a
  backup, the rows of programs, so their proofs are inductions. Theorems of the
  library that take an operator cannot be used, but sets can: every set of numbers
  has a least element (`HasLeast`, since no infinite chain of finite sets shrinks for
  ever), hence what holds at 0 and goes from each place to the next holds at all
  (`EveryPlace`). A fold of the community modules is a function on the sets of places
  of a list that is chosen by what it recurs on; that there is one (`FoldExists`), and
  that it makes one step for each place (`FoldRuns`), is proved once, and `KeepSteps`,
  `ParseSteps`, `MergeSteps`, `BackupSteps`, `OverlaySteps` and `RowSteps` apply it.
  `PushTells` is the step of the argument about imports: a rule that is pushed for
  what is said later than all the rest leaves the rules of the first mentions. With it
  the invariant says of a thread that reads rule sets, after k of them, that it has
  the rules of the first mentions of its source and of some of those k (`Found`), and
  of an event that is not taken yet that it tells the same of all (`Told`).

**Only model-checked:** liveness, for the prover has no fairness. This includes that
part of `ImplementsService` which says that the service's fairness is kept: that a
helper whose session was dropped comes to its end.

## Where code and comments differ

Two runs are expected to fail; each refutes a sentence of the code's comments.
PROJECT.json quotes them under "findings".

* `stop_forward` may be overtaken by an earlier start of the same rule: the
  deleted rule runs on (controller.rs:219). Run ForwardDeleted.
* Changed rules do not always rebuild the data plane (bin/helper.rs:268): a query
  that is still waiting for its resolver holds the socket the new session has to
  bind, and the old session has been stopped already. Run DnsRebuild.

Four are shown by TLC when a definition that is there is checked where it does not
hold:

* `shutdown()` reports completion while a stopped worker may still authorize a
  helper and install the interception (controller.rs:113): `INVARIANT ShutdownClears`
  in the instance of ControllerQuitLive, under `Spec`.
* A rule for a domain does not always come before one for an address (README.md:31
  of the repository): nobody looks whether nft has added the addresses of an answer
  (system.rs:443-462, dns_router.rs:116-119): `INVARIANT DomainBeforeAddress` in the
  instance of DnsRouting. Without `UpdateFails` it holds there.
* A save between the read of the configuration (bin/helper.rs:356) and that of
  its modification time (system.rs:51) is taken for applied
  (bin/helper.rs:279): `INVARIANT UnchangedMeansSame` under `Spec` of `RuleSync`.
* A task that was decided by the rules of an earlier session writes to the sets of
  the next (dns_router.rs:38, 117): `INVARIANT phase = "up" => Justified` of `DnsRouter`,
  where `NoneOvertakes` excepts it.

Two sentences are refuted by reading alone, both of the fixed priority (README.md:31
of the repository): the DNS router blocks a name before it can know of an override
or a rule for the program, and the chain lets private addresses pass before the
overrides. `ChainAgrees` is stated apart from them. The default policy Block, too, is
one of TCP and of names only: other UDP passes the chain.

The others are exceptions the properties had to be given, and a freedom the model has to
leave (`SaveRule`); each exception becomes a
counterexample when it is left out:

* `stop()` of a helper that has died returns Ok, and SSH is closed with the
  interception in the kernel: traffic goes to a closed port until the next session,
  if there is one (helper_client.rs:145-147; `daemon` in `RoutingOwned`).
* A card that is drawn between the Error of a worker that was refused and its clearing
  of is_running offers to disconnect, and starts a connection (controller.rs:344, 564;
  `stale` in `CardsTell`).
* A worker that leaves compares the generation and then clears is_running, which may
  be that of a worker started in between (controller.rs:564-565; `astray` in
  `CardsTell` and `ShownServer`).
* A worker that is superseded while it connects still reports Connected, and the
  window shows it as a connection to the server that is active by then
  (controller.rs:430, connect_view.rs:141); `ShownServer` speaks of the newest worker,
  `ShownInTheEnd` says that it passes.
* An edit of a forward is saved with the flag from before the last toggle of its
  switch (dialogs.rs:849; `SaveRule` lets it be either).
* A change of the language gives every row of a program its labels anew and fires
  its handler with what the row showed before: a block made elsewhere is overwritten
  (rules_view.rs:485-503; `BlockKept`).
* The button that updates the source presses a hidden one that is insensitive:
  imports run side by side, and a source removed in the meantime comes back
  (rules_view.rs:357).
* Imported rules that cannot be saved stay in force in memory, and the row of the
  default policy tells of the old one (event_loop.rs:388; `stale` in `PagesFollow`).
* A worker stopped while it waits for its turn or between failed attempts leaves
  without an event, and cards and tray stay disabled (controller.rs:375; `StopIsTold`
  speaks of sessions that were up).
* A server can be selected in the tray while a worker is on its way to another
  (app/mod.rs:732; `astray` in `ShownServer`).

## What is abstracted, and what is left out

* Time: time-outs and pauses may end at any moment. Whether a check is put off by
  a busier branch is out of scope.
* The commands to ip, nft and resolvectl of a start, and those of a cleanup, are one
  step; a start may fail between its parts, a cleanup ignores every error in the
  code and clears here.
* Modification times differ for every write (a coarse clock could hide one).
* The loading of the configuration, and a program that dies in the middle of a save.
  What the file holds after a save is in `RuleSync`; that a save may fail, in
  `RuleLists` and `Connections`.
* Names: a keyword matches a run of whole labels, where the code looks for
  characters; a program is a file name, which rules and processes are compared by.
* nft adds the addresses of an answer all together or not at all, and an element that
  is added again keeps its time-out. IPv6 is taken with IPv4; a mark without a route for
  IPv6 is not looked at. The ports of the SSH servers' exemptions are left out.
* DNS messages: parsing, the answers' form, and a query that is no query. It is
  arithmetic on the bytes of one message, without state.
* The syntax of rule sources and backups: a line is what it means. The page
  navigation of the rules, the row for IPv6, and the numbers of rules shown.
* The states shown of forwards, which nothing but their view reads.
* Traffic figures, which nothing depends on; log lines, wording, settings, theme.
* `run_oneshot` (the helper's one-shot mode), ssh-keygen, desktop files, drawing.

## Plan

Done: `HelperService`, `Controller`, `HelperSession`, `Forward`, `RuleSync`,
`Routing`, `DnsRouter`, `RuleLists`, `Connections`, and the proofs named above. What
would add to them, in this order:

1. `AppGroups`: processes and control groups over ticks, rules by path and by file
   name (a path typed into the blacklist may leave two rules for one program, which
   `ProgramsAssumption` leaves out), and the group a process is left in.
2. The states shown of forwards: the relay of a supervisor's events against those
   that are sent directly.
3. Loading the configuration at start, with its fallback after a torn save.
