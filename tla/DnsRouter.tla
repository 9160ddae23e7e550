------------------------------- MODULE DnsRouter -------------------------------
(***************************************************************************)
(* The DNS router of the helper (dns_router.rs) and the domain sets of     *)
(* nftables that it fills, over the life of sessions: a session binds two  *)
(* sockets, installs the table with empty sets and starts the router; when *)
(* the rules change it is stopped and built anew (bin/helper.rs).          *)
(*                                                                         *)
(* Each query is handled by a task of its own that nobody joins.  It has   *)
(* the engine of the router that received it, and a share of its socket,   *)
(* which stays bound until the last task that shares it has ended.         *)
(*                                                                         *)
(* The TUN device and the commands to ip and resolvectl are taken together *)
(* with the steps they come between.  Whether nft has added the addresses  *)
(* of an answer, nobody looks.                                             *)
(***************************************************************************)
EXTENDS Routing

CONSTANTS
    Domains,        \* what is asked for
    Resolves,       \* the addresses a resolver may give for each domain
    Configs,        \* what the configuration file may say
    Queries,        \* the tasks that handle queries
    MaxSessions     \* bound: how many sessions are begun

ASSUME DomainsAssumption == Domains \subseteq Seq(Labels) \ {<<>>}
ASSUME ResolvesAssumption == Resolves \in [Domains -> SUBSET Addresses]
ASSUME ConfigsAssumption == Configs \subseteq Settings
\* The window leaves one rule for each program (app/rules.rs:611, 730), as long as
\* nobody types a path into the blacklist.
ASSUME ProgramsAssumption ==
    \A c \in Configs : \A i, j \in DOMAIN c.programs :
        c.programs[i].program = c.programs[j].program => i = j
ASSUME MaxSessionsAssumption == MaxSessions \in Nat

Types == {"A", "AAAA", "HTTPS"}
Sockets == {"intercept", "resolver"}

VARIABLES
    file,       \* the configuration file
    phase,      \* where the helper is with the session
    rebuild,    \* the session under way replaces one whose rules have changed
    config,     \* SystemState.config; the engine of the router may have earlier programs
    session,    \* the number of the session
    table,      \* whether the nftables table is there
    sets,       \* the addresses in domain_proxy, domain_direct, domain_block
    expired,    \* history: what was in a set until its time ran out
    unwritten,  \* history: what nft failed to add to a set for this session
    overtaken,  \* history: a query of an earlier session wrote to the sets
    query,      \* where each task is
    told        \* history: answers of this session, for as long as it has its table

fileVars == <<file>>
sessionVars == <<phase, rebuild, config, session>>
setVars == <<table, sets, expired, unwritten, overtaken>>
vars == <<fileVars, sessionVars, setVars, query, told>>

Idle == [at |-> "idle"]
Query == [at : {"refusing", "resolving", "updating", "answering"}, domain : Domains,
          socket : Sockets, engine : Configs, session : 0 .. MaxSessions,
          addresses : SUBSET Addresses]

Installed == {"installed", "listening", "up", "stopping"}
Starting == {"tun", "bound", "installed", "listening"}

TypeOK ==
    /\ file \in Configs /\ config \in Configs
    /\ phase \in {"off", "read"} \cup Starting \cup Installed
    /\ rebuild \in BOOLEAN /\ overtaken \in BOOLEAN
    /\ session \in 0 .. MaxSessions
    /\ table \in BOOLEAN /\ (table <=> phase \in Installed)
    /\ sets \in [Action -> SUBSET Addresses]
    /\ expired \in [Action -> SUBSET Addresses]
    /\ unwritten \in [Action -> SUBSET Addresses]
    /\ query \in [Queries -> Query \cup {Idle}]
    /\ told \subseteq Domains \X Addresses

Empty == [x \in Action |-> {}]

Init ==
    /\ file \in Configs /\ config = file
    /\ phase = "off" /\ rebuild = FALSE /\ session = 0
    /\ table = FALSE /\ sets = Empty
    /\ expired = Empty /\ unwritten = Empty /\ overtaken = FALSE
    /\ query = [q \in Queries |-> Idle]
    /\ told = {}

-----------------------------------------------------------------------------
(* The session. *)

\* The socket is shared by a task that has not ended.
Shared(socket) == \E q \in Queries : query[q].at # "idle" /\ query[q].socket = socket

NoTable ==
    /\ table' = FALSE /\ sets' = Empty
    /\ expired' = Empty /\ unwritten' = Empty /\ overtaken' = FALSE
    /\ told' = {}

Save(c) ==
    /\ file' = c
    /\ UNCHANGED <<sessionVars, setVars, query, told>>

\* start_proxy_session, on a command or in a rebuild.
Start ==
    /\ phase \in {"off", "read"} /\ session < MaxSessions
    /\ phase' = "tun"
    /\ rebuild' = (phase = "read")
    /\ config' = file
    /\ session' = session + 1
    /\ UNCHANGED <<fileVars, setVars, query, told>>

BindIntercept ==
    /\ phase = "tun" /\ ~Shared("intercept")
    /\ phase' = "bound"
    /\ UNCHANGED <<fileVars, rebuild, config, session, setVars, query, told>>

Install ==
    /\ phase = "bound"
    /\ phase' = "installed"
    /\ table' = TRUE /\ sets' = Empty
    /\ expired' = Empty /\ unwritten' = Empty /\ overtaken' = FALSE
    /\ told' = {}
    /\ UNCHANGED <<fileVars, rebuild, config, session, query>>

BindResolver ==
    /\ phase = "installed" /\ ~Shared("resolver")
    /\ phase' = "listening"
    /\ UNCHANGED <<fileVars, rebuild, config, session, setVars, query, told>>

StartRouter ==
    /\ phase = "listening"
    /\ phase' = "up"
    /\ UNCHANGED <<fileVars, rebuild, config, session, setVars, query, told>>

\* Mutant: a start that fails after the table is installed leaves it.
BindFailsLeaves ==
    /\ \/ phase = "tun" /\ Shared("intercept")
       \/ phase = "installed" /\ Shared("resolver")
    /\ phase' = "off" /\ rebuild' = FALSE
    /\ UNCHANGED <<fileVars, config, session, setVars, query, told>>

\* The address is in use.
BindFails ==
    /\ \/ phase = "tun" /\ Shared("intercept")
       \/ phase = "installed" /\ Shared("resolver")
    /\ phase' = "off" /\ rebuild' = FALSE
    /\ NoTable
    /\ UNCHANGED <<fileVars, config, session, query>>

\* Anything else that fails.
StartFails ==
    /\ phase \in Starting
    /\ phase' = "off" /\ rebuild' = FALSE
    /\ NoTable
    /\ UNCHANGED <<fileVars, config, session, query>>

\* ActiveSession::stop ends the router, but not the tasks it has spawned.
StopRouter(again) ==
    /\ phase = "up"
    /\ phase' = "stopping" /\ rebuild' = again
    /\ UNCHANGED <<fileVars, config, session, setVars, query, told>>

Stop == StopRouter(FALSE)

\* sync_active_rules: settings that have the same signature are taken over, others
\* make a new session.
Sync ==
    /\ Signature(file) # Signature(config) /\ session < MaxSessions
    /\ StopRouter(TRUE)

SyncApps ==
    /\ phase = "up" /\ file # config /\ Signature(file) = Signature(config)
    /\ config' = file
    /\ UNCHANGED <<fileVars, phase, rebuild, session, setVars, query, told>>

Cleanup ==
    /\ phase = "stopping"
    /\ phase' = IF rebuild THEN "read" ELSE "off"
    /\ NoTable
    /\ UNCHANGED <<fileVars, rebuild, config, session, query>>

-----------------------------------------------------------------------------
(* handle_dns_query. *)

Ends(q) == query' = [query EXCEPT ![q] = Idle]

\* Answered at once: no data, or no such domain.
Refused(s, domain, type) ==
    \/ type = "AAAA" /\ ~s.ipv6
    \/ DomainDecision(s, domain).action = "block"
    \/ DomainDecision(s, domain).action = "proxy" /\ type # "A"

\* What a task does up to its first await depends on nothing that may change: it
\* refuses, or asks a local resolver, or the remote one through SSH.
Receive(q, domain, type, socket) ==
    /\ phase = "up" /\ query[q] = Idle
    /\ query' = [query EXCEPT ![q] =
         [at |-> IF Refused(config, domain, type) THEN "refusing" ELSE "resolving",
          domain |-> domain, socket |-> socket,
          engine |-> config, session |-> session, addresses |-> {}]]
    /\ UNCHANGED <<fileVars, sessionVars, setVars, told>>

Refuse(q) ==
    /\ query[q].at = "refusing"
    /\ Ends(q)
    /\ UNCHANGED <<fileVars, sessionVars, setVars, told>>

\* The resolvers fail, or take too long.
ResolveFails(q) ==
    /\ query[q].at = "resolving"
    /\ Ends(q)
    /\ UNCHANGED <<fileVars, sessionVars, setVars, told>>

\* Mutant: domains without a rule go into the sets as well.
ResolveAlways(q, found) ==
    /\ query[q].at = "resolving"
    /\ query' = [query EXCEPT ![q].addresses = found,
                              ![q].at = IF found # {} THEN "updating" ELSE "answering"]
    /\ UNCHANGED <<fileVars, sessionVars, setVars, told>>

Resolve(q, found) ==
    /\ query[q].at = "resolving"
    /\ query' = [query EXCEPT
         ![q].addresses = found,
         ![q].at = IF found # {} /\ Ruled(query[q].engine, query[q].domain)
                   THEN "updating" ELSE "answering"]
    /\ UNCHANGED <<fileVars, sessionVars, setVars, told>>

\* The set that the addresses of a task go into.
Target(q) == DomainDecision(query[q].engine, query[q].domain).action

\* update_domain_addresses: nft finds no set to add to, or adds the addresses, all
\* of them in one transaction.
Update(q) ==
    /\ query[q].at = "updating"
    /\ query' = [query EXCEPT ![q].at = "answering"]
    /\ IF table
       THEN /\ sets' = [sets EXCEPT ![Target(q)] = @ \cup query[q].addresses]
            /\ expired' = [expired EXCEPT ![Target(q)] = @ \ query[q].addresses]
            /\ unwritten' = [unwritten EXCEPT ![Target(q)] = @ \ query[q].addresses]
            /\ overtaken' = (overtaken \/ query[q].session # session)
       ELSE UNCHANGED <<sets, expired, unwritten, overtaken>>
    /\ UNCHANGED <<fileVars, sessionVars, table, told>>

\* nft cannot be run, or ends with an error: the task goes on to answer.
UpdateFails(q) ==
    /\ query[q].at = "updating"
    /\ query' = [query EXCEPT ![q].at = "answering"]
    /\ IF table /\ query[q].session = session
       THEN unwritten' = [unwritten EXCEPT ![Target(q)] = @ \cup query[q].addresses]
       ELSE UNCHANGED unwritten
    /\ UNCHANGED <<fileVars, sessionVars, table, sets, expired, overtaken, told>>

Learnt(q) ==
    IF table /\ query[q].session = session
    THEN {query[q].domain} \X query[q].addresses ELSE {}

\* Mutant: the answer is sent before the sets are updated.
AnswerEarly(q) ==
    /\ query[q].at \in {"updating", "answering"}
    /\ told' = told \cup Learnt(q)
    /\ Ends(q)
    /\ UNCHANGED <<fileVars, sessionVars, setVars>>

Answer(q) ==
    /\ query[q].at = "answering"
    /\ told' = told \cup Learnt(q)
    /\ Ends(q)
    /\ UNCHANGED <<fileVars, sessionVars, setVars>>

\* The time-out of an element; nft does not prolong it when the address is added
\* again.
Expire(x, a) ==
    /\ a \in sets[x]
    /\ sets' = [sets EXCEPT ![x] = @ \ {a}]
    /\ expired' = [expired EXCEPT ![x] = @ \cup {a}]
    /\ UNCHANGED <<fileVars, sessionVars, table, unwritten, overtaken, query, told>>

-----------------------------------------------------------------------------

Handle(q) ==
    \/ Refuse(q) \/ ResolveFails(q)
    \/ \E found \in SUBSET (IF query[q].at = "resolving" THEN Resolves[query[q].domain] ELSE {}) :
           Resolve(q, found)
    \/ Update(q) \/ UpdateFails(q) \/ Answer(q)

Session == Start \/ BindIntercept \/ Install \/ BindResolver \/ StartRouter \/ BindFails \/ Cleanup

Asks ==
    \E q \in Queries, d \in Domains, type \in Types, socket \in Sockets :
        Receive(q, d, type, socket)

Unharmed ==
    \/ \E c \in Configs : Save(c)
    \/ Session \/ Sync \/ SyncApps
    \/ Asks \/ \E q \in Queries : Handle(q)
    \/ \E x \in Action, a \in Addresses : Expire(x, a)

Next == Unharmed \/ StartFails \/ Stop

Spec == Init /\ [][Next]_vars

\* Nobody stops the session, and nothing fails that it is built with.
CalmSpec == Init /\ [][Unharmed]_vars

-----------------------------------------------------------------------------

\* An application that was told an address of a domain with a rule finds it in the
\* set of the rule's action - the packets that follow at once go the right way -
\* until its time runs out or the table is taken away; or nft has failed to add it,
\* which the code does not look at (dns_router.rs:115-119).
ToldIsRouted ==
    \A t \in told :
        Ruled(config, t[1]) =>
            LET x == DomainDecision(config, t[1]).action
            IN t[2] \in sets[x] \cup expired[x] \cup unwritten[x]

\* What the README promises (README.md:31): a rule for a domain comes before those
\* for addresses and the default policy.  So a packet to an address of the domain,
\* that has been told and whose time has not run out, goes where the domain's rule
\* says, unless a domain with another rule has the same address.
DomainBeforeAddress ==
    \A t \in told :
        LET decision == Decide(config, [to |-> t[2], domain |-> t[1], program |-> None])
        IN /\ decision.source = "domain" /\ t[2] \notin Passed \cup Virtual
           /\ t[2] \notin expired[decision.action]
           /\ \A x \in Action \ {decision.action} : t[2] \notin sets[x]
           => Verdict(config, sets, [to |-> t[2], proto |-> "tcp", group |-> GroupOf(config, None)])
                = decision.action

\* An address is in a set because a rule of the session says so of a domain that
\* has it: a domain that is left to the default policy does not get in the way of
\* one that shares its address (dns_router.rs:92).
Justified ==
    \A x \in Action : \A a \in sets[x] :
        \E d \in Domains :
            /\ a \in Resolves[d] /\ Ruled(config, d)
            /\ DomainDecision(config, d).action = x
NoneOvertakes == table /\ ~overtaken => Justified

\* The rule that comes first decides about a domain (routing.rs:118).
FirstRuleDecides ==
    \A d \in Domains : MatchDomain(config.domains, d) = FirstMatch(config.domains, d)

\* The engine lets the first rule for a domain decide, and the chain treats a
\* connection as the engine would, if it knew all of it, whichever way the domain,
\* the address and the program have got into the rules; and it refuses QUIC where it
\* would have to be proxied (system.rs:222-267, routing.rs:75, 118).  Domains with
\* different actions that share an address, elements whose time has run out, and
\* those that nft failed to add, are apart.
Alone(domain, address) ==
    \A x \in Action :
        (address \in sets[x]) <=> (Ruled(config, domain) /\ DomainDecision(config, domain).action = x)
ChainFollows ==
    \A t \in told, program \in Programs \cup {None} :
        Alone(t[1], t[2]) /\ t[2] \notin Passed \cup Virtual =>
            LET decision == Decide(config, [to |-> t[2], domain |-> t[1], program |-> program])
                Goes_(proto) == Verdict(config, sets,
                    [to |-> t[2], proto |-> proto, group |-> GroupOf(config, program)])
            IN /\ Goes_("tcp") = decision.action
               /\ decision.action = "proxy" => Goes_("quic") = "block"
ChainAgrees == FirstRuleDecides /\ ChainFollows

\* What the comment on sync_active_rules promises (bin/helper.rs:268): rules that
\* have changed are brought into force by building the session anew.  It is gone
\* only when something fails, or when somebody stops it.
RebuildKeepsSession == [][rebuild => phase' # "off"]_vars

=============================================================================
