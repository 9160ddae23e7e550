---------------------------- MODULE DnsRouterProofs ----------------------------
(***************************************************************************)
(* What holds of the domain sets for all rules, resolvers and any number   *)
(* of queries and sessions: an answer finds its addresses routed, unless   *)
(* nft failed to add them, and nothing but the rules of the session gets   *)
(* into the sets unless a query of an earlier session is overtaken.        *)
(***************************************************************************)
EXTENDS DnsRouter, RoutingProofs

\* A task knows the session it was spawned in, and its engine, but for the programs,
\* if that goes on; a session that starts has no tasks.
Current ==
    \A q \in Queries : query[q].at # "idle" =>
        /\ query[q].session <= session
        /\ query[q].session = session =>
             Signature(query[q].engine) = Signature(config) /\ phase \notin Starting

\* What a task carries came from a resolver, and goes into a set only by a rule.
Carried ==
    \A q \in Queries :
        /\ query[q].at \in {"updating", "answering"} =>
             query[q].addresses \subseteq Resolves[query[q].domain]
        /\ query[q].at = "updating" => Ruled(query[q].engine, query[q].domain)

\* Where the addresses of a domain with a rule have to be.
Routed(domain) ==
    LET x == DomainDecision(config, domain).action
    IN sets[x] \cup expired[x] \cup unwritten[x]

\* The answer that is about to be sent is routed already.
Answered ==
    \A q \in Queries :
        /\ query[q].at = "answering" /\ query[q].session = session /\ table
        /\ Ruled(config, query[q].domain)
        => query[q].addresses \subseteq Routed(query[q].domain)

\* Nothing is known of a table that is not there.
NothingKnown == table \/ told = {}

IInv == TypeOK /\ Current /\ Carried /\ Answered /\ NothingKnown /\ ToldIsRouted /\ NoneOvertakes

\* The engine decides with an action, whatever it is asked.
LEMMA DecisionIsAction ==
    ASSUME NEW s \in Settings, NEW domain \in Domains
    PROVE  DomainDecision(s, domain).action \in Action
<1> DEFINE flow == [to |-> None, domain |-> domain, program |-> None]
<1>1. ASSUME NEW rules \in Seq(AddressRule) PROVE FirstCovering(rules, flow.to) \in 0 .. Len(rules)
    <2> DEFINE S == {i \in DOMAIN rules : flow.to \in rules[i].network}
    <2>1. Len(rules) \in Nat /\ S \in SUBSET (1 .. Len(rules)) OBVIOUS
    <2> HIDE DEF S
    <2>2. Least(S) \in 0 .. Len(rules) BY <2>1, LeastInRange
    <2> QED BY <2>2 DEF FirstCovering, S
<1>2. FirstAbout(s.programs, flow.program) \in 0 .. Len(s.programs)
    <2> DEFINE rules == s.programs
    <2> DEFINE S == {i \in DOMAIN rules : rules[i].program = flow.program}
    <2>1. rules \in Seq(ProgramRule) BY DEF Settings
    <2> HIDE DEF rules
    <2>2. Len(rules) \in Nat /\ S \in SUBSET (1 .. Len(rules)) BY <2>1
    <2> HIDE DEF S
    <2>3. Least(S) \in 0 .. Len(rules) BY <2>2, LeastInRange
    <2> QED BY <2>3 DEF FirstAbout, S, rules
<1>3. MatchDomain(s.domains, domain) \in 0 .. Len(s.domains)
    <2> DEFINE rules == s.domains
    <2> DEFINE S == {i \in DOMAIN rules : Matches(rules[i], domain)}
    <2>1. rules \in Seq(DomainRule) BY DEF Settings
    <2>2. domain \in Seq(Labels) \ {<<>>} BY DomainsAssumption
    <2> HIDE DEF rules
    <2>3. MatchDomain(rules, domain) = Least(S) BY <2>1, <2>2, FirstRule DEF FirstMatch
    <2>4. Len(rules) \in Nat /\ S \in SUBSET (1 .. Len(rules)) BY <2>1
    <2> HIDE DEF S
    <2>5. Least(S) \in 0 .. Len(rules) BY <2>4, LeastInRange
    <2> QED BY <2>3, <2>5 DEF rules
<1> DEFINE o == FirstCovering(s.overrides, flow.to)
           p == FirstAbout(s.programs, flow.program)
           d == MatchDomain(s.domains, flow.domain)
           a == FirstCovering(s.addresses, flow.to)
<1>4. /\ s.overrides \in Seq(AddressRule) /\ s.addresses \in Seq(AddressRule)
      /\ s.programs \in Seq(ProgramRule) /\ s.domains \in Seq(DomainRule) /\ s.default \in Action
    BY DEF Settings
<1>5. o \in 0 .. Len(s.overrides) /\ a \in 0 .. Len(s.addresses) BY <1>1, <1>4
<1>6. p \in 0 .. Len(s.programs) /\ d \in 0 .. Len(s.domains) BY <1>2, <1>3
<1> HIDE DEF o, p, d, a
<1>7. o # 0 => s.overrides[o].action \in Action
    <2>1. o # 0 => s.overrides[o] \in AddressRule BY <1>4, <1>5, FoundIsRule
    <2> QED BY <2>1 DEF AddressRule
<1>8. a # 0 => s.addresses[a].action \in Action
    <2>1. a # 0 => s.addresses[a] \in AddressRule BY <1>4, <1>5, FoundIsRule
    <2> QED BY <2>1 DEF AddressRule
<1>9. p # 0 => s.programs[p].action \in Action
    <2>1. p # 0 => s.programs[p] \in ProgramRule BY <1>4, <1>6, FoundIsRule
    <2> QED BY <2>1 DEF ProgramRule
<1>10. d # 0 => s.domains[d].action \in Action
    <2>1. d # 0 => s.domains[d] \in DomainRule BY <1>4, <1>6, FoundIsRule
    <2> QED BY <2>1 DEF DomainRule
<1>11. "direct" \in Action BY DEF Action
<1>12. Decide(s, flow) =
         CASE o # 0 -> [action |-> s.overrides[o].action, source |-> "override"]
           [] o = 0 /\ p # 0 -> [action |-> s.programs[p].action, source |-> "program"]
           [] o = 0 /\ p = 0 /\ flow.domain \in Unreal -> [action |-> "direct", source |-> "override"]
           [] OTHER -> IF d # 0 THEN [action |-> s.domains[d].action, source |-> "domain"]
                       ELSE IF a # 0 THEN [action |-> s.addresses[a].action, source |-> "address"]
                       ELSE [action |-> s.default, source |-> "default"]
    BY DEF Decide, o, p, d, a
<1> HIDE DEF flow
<1>13. Decide(s, flow).action \in Action
    BY <1>4, <1>7, <1>8, <1>9, <1>10, <1>11, <1>12
<1> QED BY <1>13 DEF DomainDecision, flow

\* What is decided about a domain does not depend on the programs.
LEMMA SameDecision ==
    ASSUME NEW s \in Settings, NEW t \in Settings, Signature(s) = Signature(t), NEW domain
    PROVE  /\ DomainDecision(s, domain) = DomainDecision(t, domain)
           /\ Ruled(s, domain) <=> Ruled(t, domain)
<1>1. /\ s.overrides = t.overrides /\ s.domains = t.domains /\ s.addresses = t.addresses
      /\ s.default = t.default
    <2>1. \A r \in Settings :
              LET f == [r EXCEPT !.programs = <<>>]
              IN /\ f.overrides = r.overrides /\ f.domains = r.domains
                 /\ f.addresses = r.addresses /\ f.default = r.default
        BY DEF Settings
    <2> QED BY <2>1 DEF Signature
<1>2. \A r \in Settings : FirstAbout(r.programs, None) = 0
    <2> SUFFICES ASSUME NEW r \in Settings PROVE FirstAbout(r.programs, None) = 0
        OBVIOUS
    <2>1. r.programs \in Seq(ProgramRule) BY DEF Settings
    <2>2. ASSUME NEW i \in DOMAIN r.programs PROVE r.programs[i].program # None
        <3>1. r.programs[i] \in ProgramRule BY <2>1
        <3>2. r.programs[i].program \in Programs BY <3>1 DEF ProgramRule
        <3> QED BY <3>2, NoneAssumption
    <2>3. {i \in DOMAIN r.programs : r.programs[i].program = None} = {} BY <2>2
    <2> QED BY <2>3 DEF FirstAbout, Least
<1>3. DomainDecision(s, domain) = DomainDecision(t, domain)
    BY <1>1, <1>2 DEF DomainDecision, Decide
<1> QED BY <1>3 DEF Ruled

\* The programs of the session may change; what is decided about domains does not.
LEMMA SyncAppsKeeps ==
    ASSUME TypeOK, SyncApps
    PROVE  /\ \A domain : DomainDecision(config', domain) = DomainDecision(config, domain)
           /\ Signature(config') = Signature(config)
           /\ UNCHANGED <<query, session, table, sets, expired, unwritten, overtaken, told, phase>>
<1>1. file \in Settings /\ config \in Settings BY ConfigsAssumption DEF TypeOK
<1>2. config' = file /\ Signature(file) = Signature(config) BY DEF SyncApps
<1>3. UNCHANGED <<query, session, table, sets, expired, unwritten, overtaken, told, phase>>
    BY DEF SyncApps, setVars
<1> QED BY <1>1, <1>2, <1>3, SameDecision

\* Every step keeps the types.
LEMMA TypeStep == TypeOK /\ [Next]_vars => TypeOK'
<1> SUFFICES ASSUME TypeOK, [Next]_vars PROVE TypeOK'
    OBVIOUS
<1> USE DEF TypeOK, fileVars, sessionVars, setVars, NoTable, Empty, Starting, Installed
<1>1. ASSUME NEW c \in Configs, Save(c) PROVE TypeOK' BY <1>1 DEF Save
<1>2. CASE Start BY <1>2, MaxSessionsAssumption DEF Start
<1>3. CASE BindIntercept \/ BindResolver \/ StartRouter
    BY <1>3 DEF BindIntercept, BindResolver, StartRouter
<1>4. CASE Install BY <1>4 DEF Install
<1>5. CASE BindFails \/ StartFails
    <2>1. phase' = "off" /\ rebuild' = FALSE /\ NoTable /\ UNCHANGED <<fileVars, config, session, query>>
        BY <1>5 DEF BindFails, StartFails
    <2>2. phase' \notin Installed BY <2>1
    <2> QED BY <2>1, <2>2
<1>6. CASE Cleanup
    <2>1. phase' \in {"read", "off"} BY <1>6 DEF Cleanup
    <2>2. phase' \notin Installed BY <2>1
    <2>3. rebuild' \in BOOLEAN /\ overtaken' \in BOOLEAN BY <1>6 DEF Cleanup
    <2> QED BY <1>6, <2>1, <2>2, <2>3 DEF Cleanup
<1>7. CASE Stop \/ Sync \/ SyncApps BY <1>7 DEF Stop, Sync, SyncApps, StopRouter
<1>8. ASSUME NEW q \in Queries, NEW d \in Domains, NEW type \in Types, NEW socket \in Sockets,
             Receive(q, d, type, socket)
      PROVE  TypeOK'
    <2> DEFINE new == [at |-> IF Refused(config, d, type) THEN "refusing" ELSE "resolving",
                       domain |-> d, socket |-> socket,
                       engine |-> config, session |-> session, addresses |-> {}]
    <2>1. new \in Query BY DEF Query
    <2>2. query' = [query EXCEPT ![q] = new] BY <1>8 DEF Receive
    <2> HIDE DEF new
    <2>3. query' \in [Queries -> Query \cup {Idle}] BY <2>1, <2>2
    <2> QED BY <1>8, <2>3 DEF Receive
<1>9. ASSUME NEW q \in Queries, Handle(q) PROVE TypeOK'
    <2>1. CASE Refuse(q) \/ ResolveFails(q) BY <2>1 DEF Refuse, ResolveFails, Ends
    <2>2. ASSUME NEW found \in SUBSET (IF query[q].at = "resolving" THEN Resolves[query[q].domain] ELSE {}),
                 Resolve(q, found)
          PROVE  TypeOK'
        <3>1. query[q] \in Query BY <2>2 DEF Resolve, Idle
        <3>2. found \subseteq Addresses BY <2>2, <3>1, ResolvesAssumption DEF Resolve, Query
        <3>3. query' \in [Queries -> Query \cup {Idle}] BY <2>2, <3>1, <3>2 DEF Resolve, Query
        <3> QED BY <2>2, <3>3 DEF Resolve
    <2>3. CASE Update(q)
        <3>1. query[q] \in Query BY <2>3 DEF Update, Idle
        <3>2. query' \in [Queries -> Query \cup {Idle}] BY <2>3, <3>1 DEF Update, Query
        <3>3. query[q].addresses \subseteq Addresses BY <3>1 DEF Query
        <3>4. /\ sets' \in [Action -> SUBSET Addresses]
              /\ expired' \in [Action -> SUBSET Addresses]
              /\ unwritten' \in [Action -> SUBSET Addresses]
            BY <2>3, <3>3 DEF Update
        <3>5. overtaken' \in BOOLEAN BY <2>3 DEF Update
        <3> QED BY <2>3, <3>2, <3>4, <3>5 DEF Update
    <2>5. CASE UpdateFails(q)
        <3>1. query[q] \in Query BY <2>5 DEF UpdateFails, Idle
        <3>2. query' \in [Queries -> Query \cup {Idle}] BY <2>5, <3>1 DEF UpdateFails, Query
        <3>3. query[q].addresses \subseteq Addresses BY <3>1 DEF Query
        <3>4. unwritten' \in [Action -> SUBSET Addresses] BY <2>5, <3>3 DEF UpdateFails
        <3> QED BY <2>5, <3>2, <3>4 DEF UpdateFails
    <2>4. CASE Answer(q)
        <3>1. query[q] \in Query BY <2>4 DEF Answer, Idle
        <3>2. Learnt(q) \subseteq Domains \X Addresses BY <3>1 DEF Learnt, Query
        <3> QED BY <2>4, <3>2 DEF Answer, Ends
    <2> QED BY <1>9, <2>1, <2>2, <2>3, <2>4, <2>5 DEF Handle
<1>10. ASSUME NEW x \in Action, NEW a \in Addresses, Expire(x, a) PROVE TypeOK'
    BY <1>10 DEF Expire
<1>11. CASE UNCHANGED vars BY <1>11 DEF vars
<1> QED BY <1>1, <1>2, <1>3, <1>4, <1>5, <1>6, <1>7, <1>8, <1>9, <1>10, <1>11
        DEF Next, Unharmed, Session, Asks

\* What a task does leaves the other tasks alone, and does not change what it knows.
LEMMA HandleKeeps ==
    ASSUME TypeOK, NEW q \in Queries, Handle(q)
    PROVE  /\ query[q].at # "idle"
           /\ \A r \in Queries \ {q} : query'[r] = query[r]
           /\ query'[q].at # "idle" =>
                /\ query'[q].domain = query[q].domain
                /\ query'[q].session = query[q].session /\ query'[q].engine = query[q].engine
<1> DEFINE Goal == /\ query[q].at # "idle"
                   /\ \A r \in Queries \ {q} : query'[r] = query[r]
                   /\ query'[q].at # "idle" =>
                        /\ query'[q].domain = query[q].domain
                        /\ query'[q].session = query[q].session /\ query'[q].engine = query[q].engine
<1>0. query \in [Queries -> Query \cup {Idle}] BY DEF TypeOK
<1>1. CASE Refuse(q) \/ ResolveFails(q) BY <1>0, <1>1 DEF Refuse, ResolveFails, Ends, Idle
<1>2. ASSUME NEW found \in SUBSET (IF query[q].at = "resolving" THEN Resolves[query[q].domain] ELSE {}),
             Resolve(q, found)
      PROVE  Goal
    <2>1. query[q].at = "resolving" BY <1>2 DEF Resolve
    <2>2. query[q] \in Query BY <1>0, <2>1 DEF Idle
    <2>3. \A r \in Queries \ {q} : query'[r] = query[r] BY <1>0, <1>2 DEF Resolve
    <2>4. /\ query'[q].domain = query[q].domain
          /\ query'[q].session = query[q].session /\ query'[q].engine = query[q].engine
        BY <1>0, <1>2, <2>2 DEF Resolve, Query
    <2> QED BY <2>1, <2>3, <2>4
<1>3. CASE Update(q) \/ UpdateFails(q)
    <2>1. query[q].at = "updating" /\ query' = [query EXCEPT ![q].at = "answering"]
        BY <1>3 DEF Update, UpdateFails
    <2>2. query[q] \in Query BY <1>0, <2>1 DEF Idle
    <2> QED BY <1>0, <2>1, <2>2 DEF Query
<1>4. CASE Answer(q) BY <1>0, <1>4 DEF Answer, Ends, Idle
<1> QED BY <1>1, <1>2, <1>3, <1>4 DEF Handle

\* The engine of a task of this session decides as the session does.
LEMMA EngineIsCurrent ==
    ASSUME TypeOK, Current, NEW q \in Queries, query[q].at # "idle", query[q].session = session
    PROVE  /\ DomainDecision(query[q].engine, query[q].domain) = DomainDecision(config, query[q].domain)
           /\ Ruled(query[q].engine, query[q].domain) <=> Ruled(config, query[q].domain)
<1>1. query[q].engine \in Settings /\ config \in Settings
    BY ConfigsAssumption DEF TypeOK, Query, Idle
<1>2. Signature(query[q].engine) = Signature(config) BY DEF Current
<1> QED BY <1>1, <1>2, SameDecision

\* Every step leaves what tasks know of their session true.
LEMMA CurrentStep == TypeOK /\ Current /\ [Next]_vars => Current'
<1> SUFFICES ASSUME TypeOK, Current, [Next]_vars PROVE Current'
    OBVIOUS
<1> USE DEF Current, fileVars, sessionVars, setVars, Starting, Idle
<1>0. session \in Nat /\ \A q \in Queries : query[q].at # "idle" => query[q].session \in Nat
    BY MaxSessionsAssumption DEF TypeOK, Query
<1>1. ASSUME NEW c \in Configs, Save(c) PROVE Current' BY <1>1 DEF Save
<1>2. CASE Start BY <1>0, <1>2 DEF Start
<1>3. CASE BindIntercept \/ BindResolver \/ StartRouter
    BY <1>3 DEF BindIntercept, BindResolver, StartRouter
<1>4. CASE Install BY <1>4 DEF Install
<1>5. CASE BindFails \/ StartFails BY <1>5 DEF BindFails, StartFails
<1>6. CASE Cleanup BY <1>6 DEF Cleanup
<1>7. CASE Stop \/ Sync BY <1>7 DEF Stop, Sync, StopRouter
<1>8. ASSUME NEW q \in Queries, NEW d \in Domains, NEW type \in Types, NEW socket \in Sockets,
             Receive(q, d, type, socket)
      PROVE  Current'
    BY <1>0, <1>8 DEF Receive, TypeOK
<1>9. ASSUME NEW q \in Queries, Handle(q) PROVE Current'
    <2>1. UNCHANGED <<config, session, phase>>
        BY <1>9 DEF Handle, Refuse, ResolveFails, Resolve, Update, UpdateFails, Answer
    <2>2. \A r \in Queries \ {q} : query'[r] = query[r] BY <1>9, HandleKeeps
    <2>3. query'[q].at # "idle" =>
            /\ query[q].at # "idle"
            /\ query'[q].session = query[q].session /\ query'[q].engine = query[q].engine
        BY <1>9, HandleKeeps
    <2> QED BY <2>1, <2>2, <2>3
<1>10. ASSUME NEW x \in Action, NEW a \in Addresses, Expire(x, a) PROVE Current'
    BY <1>10 DEF Expire
<1>11. CASE UNCHANGED vars BY <1>11 DEF vars
<1>12. CASE SyncApps BY <1>12, SyncAppsKeeps
<1> QED BY <1>1, <1>2, <1>3, <1>4, <1>5, <1>6, <1>7, <1>8, <1>9, <1>10, <1>11, <1>12
        DEF Next, Unharmed, Session, Asks

\* Steps that are none of a task's leave the tasks alone, but for a new one.
LEMMA CarriedStep == TypeOK /\ Carried /\ [Next]_vars => Carried'
<1> SUFFICES ASSUME TypeOK, Carried, [Next]_vars PROVE Carried'
    OBVIOUS
<1> USE DEF Carried, Idle
<1>1. CASE UNCHANGED query BY <1>1
<1>2. ASSUME NEW q \in Queries, NEW d \in Domains, NEW type \in Types, NEW socket \in Sockets,
             Receive(q, d, type, socket)
      PROVE  Carried'
    BY <1>2 DEF Receive, TypeOK
<1>3. ASSUME NEW q \in Queries, Handle(q) PROVE Carried'
    <2>1. \A r \in Queries \ {q} : query'[r] = query[r]
        BY <1>3 DEF Handle, Refuse, ResolveFails, Resolve, Update, UpdateFails, Answer, Ends, TypeOK
    <2>2. CASE Refuse(q) \/ ResolveFails(q) \/ Answer(q)
        BY <2>1, <2>2 DEF Refuse, ResolveFails, Answer, Ends, TypeOK
    <2>3. ASSUME NEW found \in SUBSET (IF query[q].at = "resolving" THEN Resolves[query[q].domain] ELSE {}),
                 Resolve(q, found)
          PROVE  Carried'
        <3>1. found \subseteq Resolves[query[q].domain] BY <2>3 DEF Resolve
        <3>2. /\ query'[q].addresses = found /\ query'[q].domain = query[q].domain
              /\ query'[q].engine = query[q].engine
              /\ query'[q].at = "updating" => Ruled(query[q].engine, query[q].domain)
            BY <2>3 DEF Resolve, TypeOK
        <3> QED BY <2>1, <3>1, <3>2
    <2>4. CASE Update(q) \/ UpdateFails(q)
        <3>1. query[q].at = "updating" /\ query' = [query EXCEPT ![q].at = "answering"]
            BY <2>4 DEF Update, UpdateFails
        <3>2. /\ query'[q].at = "answering"
              /\ query'[q].addresses = query[q].addresses /\ query'[q].domain = query[q].domain
            BY <3>1 DEF TypeOK
        <3> QED BY <2>1, <3>1, <3>2
    <2> QED BY <1>3, <2>2, <2>3, <2>4 DEF Handle
<1>4. Next => \/ UNCHANGED query
              \/ Asks \/ \E q \in Queries : Handle(q)
    BY DEF Next, Unharmed, Session, Save, Start, BindIntercept, Install, BindResolver, StartRouter,
           BindFails, StartFails, Cleanup, Stop, Sync, SyncApps, StopRouter, Expire
<1> QED BY <1>1, <1>2, <1>3, <1>4 DEF Asks, vars

\* What has been routed stays routed, or its time runs out; and what nft failed to
\* add is added, or stays noted.
LEMMA StaysRouted ==
    ASSUME TypeOK,
           \/ \E q \in Queries : Update(q) \/ UpdateFails(q)
           \/ \E x \in Action, a \in Addresses : Expire(x, a)
    PROVE  \A x \in Action : sets[x] \cup expired[x] \cup unwritten[x]
                                \subseteq (sets[x] \cup expired[x] \cup unwritten[x])'
<1> USE DEF TypeOK
<1> DEFINE Known(x) == sets[x] \cup expired[x] \cup unwritten[x]
<1>1. ASSUME NEW q \in Queries, Update(q), NEW x \in Action
      PROVE  Known(x) \subseteq Known(x)'
    <2> DEFINE y == Target(q)
    <2>1. CASE table
        <3>1. /\ sets' = [sets EXCEPT ![y] = @ \cup query[q].addresses]
              /\ expired' = [expired EXCEPT ![y] = @ \ query[q].addresses]
              /\ unwritten' = [unwritten EXCEPT ![y] = @ \ query[q].addresses]
            BY <1>1, <2>1 DEF Update
        <3> HIDE DEF y
        <3> QED BY <3>1
    <2>2. CASE ~table BY <1>1, <2>2 DEF Update
    <2> QED BY <2>1, <2>2
<1>2. ASSUME NEW q \in Queries, UpdateFails(q), NEW x \in Action
      PROVE  Known(x) \subseteq Known(x)'
    <2> DEFINE y == Target(q)
    <2>1. /\ UNCHANGED <<sets, expired>>
          /\ \/ unwritten' = [unwritten EXCEPT ![y] = @ \cup query[q].addresses]
             \/ UNCHANGED unwritten
        BY <1>2 DEF UpdateFails
    <2> HIDE DEF y
    <2> QED BY <2>1
<1>3. ASSUME NEW y \in Action, NEW a \in Addresses, Expire(y, a), NEW x \in Action
      PROVE  Known(x) \subseteq Known(x)'
    BY <1>3 DEF Expire
<1> QED BY <1>1, <1>2, <1>3

LEMMA KeepsRouted ==
    ASSUME TypeOK, config' = config,
           \/ \E q \in Queries : Update(q) \/ UpdateFails(q)
           \/ \E x \in Action, a \in Addresses : Expire(x, a)
    PROVE  \A domain \in Domains : Routed(domain) \subseteq Routed(domain)'
<1> SUFFICES ASSUME NEW domain \in Domains PROVE Routed(domain) \subseteq Routed(domain)'
    OBVIOUS
<1>1. DomainDecision(config, domain).action \in Action
    BY DecisionIsAction, ConfigsAssumption DEF TypeOK
<1>2. \A x \in Action : sets[x] \cup expired[x] \cup unwritten[x]
                            \subseteq (sets[x] \cup expired[x] \cup unwritten[x])'
    BY StaysRouted
<1> QED BY <1>1, <1>2 DEF Routed

\* No step makes a task ready to answer before its addresses are routed.
LEMMA AnsweredStep ==
    TypeOK /\ Current /\ Carried /\ Answered /\ [Next]_vars => Answered'
<1> SUFFICES ASSUME TypeOK, Current, Carried, Answered, [Next]_vars PROVE Answered'
    OBVIOUS
<1> USE DEF Answered, Routed, fileVars, sessionVars, setVars
<1>1. ASSUME NEW c \in Configs, Save(c) PROVE Answered' BY <1>1 DEF Save
<1>2. CASE Start
    <2>1. session \in Nat /\ session' = session + 1 /\ query' = query
        BY <1>2, MaxSessionsAssumption DEF Start, TypeOK
    <2>2. \A q \in Queries : query[q].at = "answering" =>
              query[q].session \in Nat /\ query[q].session <= session
        BY MaxSessionsAssumption DEF Current, TypeOK, Query, Idle
    <2> QED BY <2>1, <2>2
<1>3. CASE BindIntercept \/ BindResolver \/ StartRouter
    BY <1>3 DEF BindIntercept, BindResolver, StartRouter
<1>4. CASE Install BY <1>4 DEF Install, Current, Starting
<1>5. CASE BindFails \/ StartFails BY <1>5 DEF BindFails, StartFails, NoTable
<1>6. CASE Cleanup BY <1>6 DEF Cleanup, NoTable
<1>7. CASE Stop \/ Sync BY <1>7 DEF Stop, Sync, StopRouter
<1>8. ASSUME NEW q \in Queries, NEW d \in Domains, NEW type \in Types, NEW socket \in Sockets,
             Receive(q, d, type, socket)
      PROVE  Answered'
    <2>1. \A r \in Queries \ {q} : query'[r] = query[r] BY <1>8 DEF Receive, TypeOK
    <2>2. query'[q].at # "answering" BY <1>8 DEF Receive, TypeOK
    <2> QED BY <1>8, <2>1, <2>2 DEF Receive
<1>9. ASSUME NEW q \in Queries, Handle(q) PROVE Answered'
    <2>1. \A r \in Queries \ {q} : query'[r] = query[r] BY <1>9, HandleKeeps
    <2>2. CASE Refuse(q) \/ ResolveFails(q) \/ Answer(q)
        <3>1. query'[q].at # "answering"
            BY <2>2 DEF Refuse, ResolveFails, Answer, Ends, TypeOK, Idle
        <3> QED BY <2>1, <2>2, <3>1 DEF Refuse, ResolveFails, Answer
    <2>3. ASSUME NEW found \in SUBSET (IF query[q].at = "resolving" THEN Resolves[query[q].domain] ELSE {}),
                 Resolve(q, found)
          PROVE  Answered'
        <3>1. query[q] \in Query BY <2>3 DEF Resolve, TypeOK, Idle
        <3>2. /\ query'[q].addresses = found /\ query'[q].domain = query[q].domain
              /\ query'[q].session = query[q].session
              /\ query'[q].at = "answering" => found = {} \/ ~Ruled(query[q].engine, query[q].domain)
            BY <2>3, <3>1 DEF Resolve, TypeOK, Query
        <3>3. query[q].session = session =>
                  (Ruled(query[q].engine, query[q].domain) <=> Ruled(config, query[q].domain))
            BY <2>3, EngineIsCurrent DEF Resolve
        <3>4. UNCHANGED <<config, session, table, sets, expired, unwritten>> BY <2>3 DEF Resolve
        <3>5. ASSUME query'[q].at = "answering", query'[q].session = session',
                     Ruled(config', query'[q].domain)
              PROVE  query'[q].addresses = {}
            BY <3>2, <3>3, <3>4, <3>5
        <3> QED BY <2>1, <3>4, <3>5
    <2>4. CASE Update(q) \/ UpdateFails(q)
        <3>1. UNCHANGED <<config, session, table>> BY <2>4 DEF Update, UpdateFails
        <3>2. \A d \in Domains : Routed(d) \subseteq Routed(d)' BY <2>4, <3>1, KeepsRouted
        <3>3. \A r \in Queries : query[r].at = "answering" => query[r].domain \in Domains
            BY DEF TypeOK, Query, Idle
        <3>4. query[q] \in Query BY <2>4 DEF Update, UpdateFails, TypeOK, Idle
        <3>5. /\ query'[q].addresses = query[q].addresses /\ query'[q].domain = query[q].domain
              /\ query'[q].session = query[q].session
            BY <2>4, <3>4 DEF Update, UpdateFails, TypeOK, Query
        <3>6. query[q].session = session =>
                  DomainDecision(query[q].engine, query[q].domain) = DomainDecision(config, query[q].domain)
            BY <2>4, EngineIsCurrent DEF Update, UpdateFails
        <3>7. table /\ query[q].session = session =>
                  query[q].addresses \subseteq sets'[Target(q)] \cup unwritten'[Target(q)]
            <4>1. Target(q) \in Action
                BY <3>4, DecisionIsAction, ConfigsAssumption DEF Query, Target
            <4>2. CASE Update(q) BY <4>1, <4>2 DEF Update, TypeOK
            <4>3. CASE UpdateFails(q) BY <4>1, <4>3 DEF UpdateFails, TypeOK
            <4> QED BY <2>4, <4>2, <4>3
        <3>8. ASSUME query'[q].session = session', table'
              PROVE  query'[q].addresses \subseteq
                         LET x == DomainDecision(config', query'[q].domain).action
                         IN sets'[x] \cup expired'[x] \cup unwritten'[x]
            BY <3>1, <3>5, <3>6, <3>7, <3>8 DEF Target
        <3>9. ASSUME NEW r \in Queries \ {q}, query'[r].at = "answering", query'[r].session = session',
                     table', Ruled(config', query'[r].domain)
              PROVE  query'[r].addresses \subseteq
                         LET x == DomainDecision(config', query'[r].domain).action
                         IN sets'[x] \cup expired'[x] \cup unwritten'[x]
            <4>1. query'[r] = query[r] BY <2>1
            <4>2. query[r].domain \in Domains BY <3>3, <3>9, <4>1
            <4>3. query[r].addresses \subseteq Routed(query[r].domain) BY <3>1, <3>9, <4>1
            <4> QED BY <3>2, <4>1, <4>2, <4>3
        <3> QED BY <3>8, <3>9
    <2> QED BY <1>9, <2>2, <2>3, <2>4 DEF Handle
<1>10. ASSUME NEW x \in Action, NEW a \in Addresses, Expire(x, a) PROVE Answered'
    <2>1. UNCHANGED <<config, session, table, query>> BY <1>10 DEF Expire
    <2>2. \A d \in Domains : Routed(d) \subseteq Routed(d)' BY <1>10, <2>1, KeepsRouted
    <2>3. \A r \in Queries : query[r].at = "answering" => query[r].domain \in Domains
        BY DEF TypeOK, Query, Idle
    <2> QED BY <2>1, <2>2, <2>3
<1>11. CASE UNCHANGED vars BY <1>11 DEF vars
<1>12. CASE SyncApps
    <2>1. UNCHANGED <<query, session, table, sets, expired, unwritten>> BY <1>12, SyncAppsKeeps
    <2> SUFFICES ASSUME NEW q \in Queries,
                        query[q].at = "answering" /\ query[q].session = session /\ table,
                        Ruled(config', query[q].domain)
                 PROVE  query[q].addresses \subseteq
                            LET x == DomainDecision(config', query[q].domain).action
                            IN sets[x] \cup expired[x] \cup unwritten[x]
        BY <2>1
    <2> DEFINE d == query[q].domain
    <2>2. DomainDecision(config', d) = DomainDecision(config, d)
        BY <1>12, SyncAppsKeeps
    <2>3. Ruled(config, d) BY <2>2 DEF Ruled
    <2> QED BY <2>2, <2>3
<1> QED BY <1>1, <1>2, <1>3, <1>4, <1>5, <1>6, <1>7, <1>8, <1>9, <1>10, <1>11, <1>12
        DEF Next, Unharmed, Session, Asks

\* Nothing is known of a table that is not there, and an answer tells only what is
\* routed.
LEMMA ToldStep ==
    TypeOK /\ Current /\ Answered /\ NothingKnown /\ ToldIsRouted /\ [Next]_vars
    => NothingKnown' /\ ToldIsRouted'
<1> SUFFICES ASSUME TypeOK, Current, Answered, NothingKnown, ToldIsRouted, [Next]_vars
             PROVE  NothingKnown' /\ ToldIsRouted'
    OBVIOUS
<1> USE DEF NothingKnown, ToldIsRouted, fileVars, sessionVars, setVars
<1>1. ASSUME NEW c \in Configs, Save(c) PROVE NothingKnown' /\ ToldIsRouted' BY <1>1 DEF Save
<1>2. CASE Start
    <2>1. phase \notin Installed BY <1>2 DEF Start, Installed
    <2>2. ~table BY <2>1 DEF TypeOK
    <2> QED BY <1>2, <2>2 DEF Start
<1>3. CASE BindIntercept \/ BindResolver \/ StartRouter
    BY <1>3 DEF BindIntercept, BindResolver, StartRouter
<1>4. CASE Install BY <1>4 DEF Install
<1>5. CASE BindFails \/ StartFails BY <1>5 DEF BindFails, StartFails, NoTable
<1>6. CASE Cleanup BY <1>6 DEF Cleanup, NoTable
<1>7. CASE Stop \/ Sync BY <1>7 DEF Stop, Sync, StopRouter
<1>8. ASSUME NEW q \in Queries, NEW d \in Domains, NEW type \in Types, NEW socket \in Sockets,
             Receive(q, d, type, socket)
      PROVE  NothingKnown' /\ ToldIsRouted'
    BY <1>8 DEF Receive
<1>9. ASSUME UNCHANGED <<told, table, config>>,
             \A d \in Domains : Routed(d) \subseteq Routed(d)'
      PROVE  NothingKnown' /\ ToldIsRouted'
    <2>1. \A t \in told : t[1] \in Domains BY DEF TypeOK
    <2> QED BY <1>9, <2>1 DEF Routed
<1>10. ASSUME NEW q \in Queries, Handle(q) PROVE NothingKnown' /\ ToldIsRouted'
    <2>1. CASE Refuse(q) \/ ResolveFails(q) BY <2>1 DEF Refuse, ResolveFails
    <2>2. ASSUME NEW found, Resolve(q, found) PROVE NothingKnown' /\ ToldIsRouted'
        BY <2>2 DEF Resolve
    <2>3. CASE Update(q) \/ UpdateFails(q)
        <3>1. UNCHANGED <<told, table, config>> BY <2>3 DEF Update, UpdateFails
        <3> QED BY <1>9, <2>3, <3>1, KeepsRouted
    <2>4. CASE Answer(q)
        <3>1. UNCHANGED <<table, config, sets, expired, unwritten>> /\ told' = told \cup Learnt(q)
            BY <2>4 DEF Answer
        <3>2. ASSUME NEW t \in Learnt(q), Ruled(config, t[1])
              PROVE  t[2] \in Routed(t[1])
            <4>1. /\ query[q].at = "answering" /\ query[q].session = session /\ table
                  /\ t \in {query[q].domain} \X query[q].addresses
                BY <2>4, <3>2 DEF Answer, Learnt
            <4>2. t[1] = query[q].domain /\ t[2] \in query[q].addresses BY <4>1
            <4> QED BY <3>2, <4>1, <4>2 DEF Answered
        <3>3. ~table => Learnt(q) = {} BY DEF Learnt
        <3> QED BY <3>1, <3>2, <3>3 DEF Routed
    <2> QED BY <1>10, <2>1, <2>2, <2>3, <2>4 DEF Handle
<1>11. ASSUME NEW x \in Action, NEW a \in Addresses, Expire(x, a)
       PROVE  NothingKnown' /\ ToldIsRouted'
    <2>1. UNCHANGED <<told, table, config>> BY <1>11 DEF Expire
    <2> QED BY <1>9, <1>11, <2>1, KeepsRouted
<1>12. CASE UNCHANGED vars BY <1>12 DEF vars
<1>13. CASE SyncApps
    <2>1. UNCHANGED <<told, table, sets, expired, unwritten>> BY <1>13, SyncAppsKeeps
    <2>2. ASSUME NEW t \in told, Ruled(config', t[1])
          PROVE  LET x == DomainDecision(config', t[1]).action
                 IN t[2] \in sets[x] \cup expired[x] \cup unwritten[x]
        <3>1. DomainDecision(config', t[1]) = DomainDecision(config, t[1])
            BY <1>13, SyncAppsKeeps
        <3>2. Ruled(config, t[1]) BY <2>2, <3>1 DEF Ruled
        <3> QED BY <3>1, <3>2
    <2> QED BY <2>1, <2>2
<1> QED BY <1>1, <1>2, <1>3, <1>4, <1>5, <1>6, <1>7, <1>8, <1>10, <1>11, <1>12, <1>13
        DEF Next, Unharmed, Session, Asks

\* A step puts an address into a set that no rule of the session asks for only if
\* it is the step of a task of an earlier one.
LEMMA OvertakenStep ==
    TypeOK /\ Current /\ Carried /\ NoneOvertakes /\ [Next]_vars => NoneOvertakes'
<1> SUFFICES ASSUME TypeOK, Current, Carried, NoneOvertakes, [Next]_vars PROVE NoneOvertakes'
    OBVIOUS
<1> USE DEF NoneOvertakes, Justified, fileVars, sessionVars, setVars
<1>1. ASSUME NEW c \in Configs, Save(c) PROVE NoneOvertakes' BY <1>1 DEF Save
<1>2. CASE Start
    <2>1. phase \notin Installed BY <1>2 DEF Start, Installed
    <2>2. ~table BY <2>1 DEF TypeOK
    <2> QED BY <1>2, <2>2 DEF Start
<1>3. CASE BindIntercept \/ BindResolver \/ StartRouter
    BY <1>3 DEF BindIntercept, BindResolver, StartRouter
<1>4. CASE Install BY <1>4 DEF Install, Empty
<1>5. CASE BindFails \/ StartFails BY <1>5 DEF BindFails, StartFails, NoTable
<1>6. CASE Cleanup BY <1>6 DEF Cleanup, NoTable
<1>7. CASE Stop \/ Sync BY <1>7 DEF Stop, Sync, StopRouter
<1>8. ASSUME NEW q \in Queries, NEW d \in Domains, NEW type \in Types, NEW socket \in Sockets,
             Receive(q, d, type, socket)
      PROVE  NoneOvertakes'
    BY <1>8 DEF Receive
<1>9. ASSUME NEW q \in Queries, Handle(q) PROVE NoneOvertakes'
    <2>1. CASE Refuse(q) \/ ResolveFails(q) \/ UpdateFails(q) \/ Answer(q)
        BY <2>1 DEF Refuse, ResolveFails, UpdateFails, Answer
    <2>2. ASSUME NEW found, Resolve(q, found) PROVE NoneOvertakes' BY <2>2 DEF Resolve
    <2>3. CASE Update(q)
        <3>1. SUFFICES ASSUME table', ~overtaken' PROVE Justified'
            OBVIOUS
        <3> DEFINE x == DomainDecision(query[q].engine, query[q].domain).action
        <3>2. /\ sets' = [sets EXCEPT ![x] = @ \cup query[q].addresses]
              /\ overtaken' = (overtaken \/ query[q].session # session)
              /\ query[q].at = "updating" /\ config' = config /\ table
            BY <2>3, <3>1 DEF Update, Target
        <3>3. query[q].session = session /\ ~overtaken BY <3>1, <3>2
        <3>4. /\ DomainDecision(query[q].engine, query[q].domain) = DomainDecision(config, query[q].domain)
              /\ Ruled(query[q].engine, query[q].domain) <=> Ruled(config, query[q].domain)
            BY <3>2, <3>3, EngineIsCurrent
        <3>5. query[q].addresses \subseteq Resolves[query[q].domain] /\ Ruled(config, query[q].domain)
            BY <3>2, <3>4 DEF Carried
        <3>6. query[q].domain \in Domains BY <3>2 DEF TypeOK, Query, Idle
        <3>7. x = DomainDecision(config, query[q].domain).action BY <3>4
        <3> HIDE DEF x
        <3>8. ASSUME NEW y \in Action, NEW a \in sets'[y]
              PROVE  \E d \in Domains :
                        /\ a \in Resolves[d] /\ Ruled(config, d)
                        /\ DomainDecision(config, d).action = y
            <4>1. a \in sets[y] \/ (y = x /\ a \in query[q].addresses) BY <3>2 DEF TypeOK
            <4>2. CASE a \in sets[y] BY <3>2, <3>3, <4>2
            <4>3. CASE y = x /\ a \in query[q].addresses BY <3>5, <3>6, <3>7, <4>3
            <4> QED BY <4>1, <4>2, <4>3
        <3> QED BY <3>2, <3>8
    <2> QED BY <1>9, <2>1, <2>2, <2>3 DEF Handle
<1>10. ASSUME NEW x \in Action, NEW a \in Addresses, Expire(x, a) PROVE NoneOvertakes'
    <2>1. \A y \in Action : sets'[y] \subseteq sets[y] BY <1>10 DEF Expire, TypeOK
    <2> QED BY <1>10, <2>1 DEF Expire
<1>11. CASE UNCHANGED vars BY <1>11 DEF vars
<1>12. CASE SyncApps
    <2>1. UNCHANGED <<table, sets, overtaken>> BY <1>12, SyncAppsKeeps
    <2>2. ASSUME NEW d \in Domains
          PROVE  /\ DomainDecision(config', d) = DomainDecision(config, d)
                 /\ Ruled(config, d) => Ruled(config', d)
        <3>1. DomainDecision(config', d) = DomainDecision(config, d) BY <1>12, SyncAppsKeeps
        <3> QED BY <3>1 DEF Ruled
    <2> QED BY <2>1, <2>2
<1> QED BY <1>1, <1>2, <1>3, <1>4, <1>5, <1>6, <1>7, <1>8, <1>9, <1>10, <1>11, <1>12
        DEF Next, Unharmed, Session, Asks

LEMMA InitIInv == Init => IInv
<1> SUFFICES ASSUME Init PROVE IInv
    OBVIOUS
<1> USE DEF Init, Idle, Empty
<1>1. TypeOK
    <2>1. 0 \in 0 .. MaxSessions BY MaxSessionsAssumption
    <2>2. [x \in Action |-> {}] \in [Action -> SUBSET Addresses] OBVIOUS
    <2>3. table \in BOOLEAN /\ (table <=> phase \in Installed) BY DEF Installed
    <2>4. rebuild \in BOOLEAN /\ overtaken \in BOOLEAN OBVIOUS
    <2> QED BY <2>1, <2>2, <2>3, <2>4 DEF TypeOK
<1>2. Current /\ Carried /\ Answered BY DEF Current, Carried, Answered
<1>3. NothingKnown /\ ToldIsRouted /\ NoneOvertakes
    BY DEF NothingKnown, ToldIsRouted, NoneOvertakes
<1> QED BY <1>1, <1>2, <1>3 DEF IInv

LEMMA IInvStep == IInv /\ [Next]_vars => IInv'
BY TypeStep, CurrentStep, CarriedStep, AnsweredStep, ToldStep, OvertakenStep DEF IInv

LEMMA SpecIInv == Spec => []IInv
BY InitIInv, IInvStep, PTL DEF Spec

\* The state is what the declarations of the helper say.
THEOREM TypesHold == Spec => []TypeOK
<1>1. IInv => TypeOK BY DEF IInv
<1> QED BY SpecIInv, <1>1, PTL

\* For all rules and any number of queries and sessions: whoever was told an address
\* finds it routed, until its time runs out, or nft had failed to add it.
THEOREM ToldRouted == Spec => []ToldIsRouted
<1>1. IInv => ToldIsRouted BY DEF IInv
<1> QED BY SpecIInv, <1>1, PTL

\* Nothing gets into a set without a rule of the session, as long as no task of an
\* earlier session is overtaken.
THEOREM OnlyRuled == Spec => []NoneOvertakes
<1>1. IInv => NoneOvertakes BY DEF IInv
<1> QED BY SpecIInv, <1>1, PTL

\* The maps and the early exit of the engine do not change which rule decides.
THEOREM FirstDecides == Spec => []FirstRuleDecides
<1>1. TypeOK => FirstRuleDecides
    <2> SUFFICES ASSUME TypeOK, NEW d \in Domains
                 PROVE  MatchDomain(config.domains, d) = FirstMatch(config.domains, d)
        BY DEF FirstRuleDecides
    <2>1. config.domains \in Seq(DomainRule) BY ConfigsAssumption DEF TypeOK, Settings
    <2>2. d \in Seq(Labels) \ {<<>>} BY DomainsAssumption
    <2> QED BY <2>1, <2>2, FirstRule
<1> QED BY TypesHold, <1>1, PTL

\* The engine follows the first rule, and the chain of the kernel the engine, about
\* every address that was told.
THEOREM ChainCorrect == Spec => []ChainAgrees
<1>1. TypeOK => ChainFollows
    <2> SUFFICES ASSUME TypeOK, NEW t \in told, NEW program \in Programs \cup {None},
                        Alone(t[1], t[2]), t[2] \notin Passed \cup Virtual,
                        NEW decision,
                        decision = Decide(config, [to |-> t[2], domain |-> t[1],
                                                   program |-> program])
                 PROVE  /\ Verdict(config, sets, [to |-> t[2], proto |-> "tcp",
                                group |-> GroupOf(config, program)]) = decision.action
                        /\ decision.action = "proxy" =>
                             Verdict(config, sets, [to |-> t[2], proto |-> "quic",
                                group |-> GroupOf(config, program)]) = "block"
        BY DEF ChainFollows
    <2>1. t[1] \in Domains /\ t[2] \in Addresses BY DEF TypeOK
    <2>2. t[1] \in Seq(Labels) \ {<<>>} BY <2>1, DomainsAssumption
    <2>3. t[2] \in Addresses \ (Passed \cup Virtual) BY <2>1
    <2>4. config \in Settings /\ OneForEach(config.programs)
        BY ConfigsAssumption, ProgramsAssumption DEF TypeOK, OneForEach
    <2>5. sets \in [Action -> SUBSET Addresses] BY DEF TypeOK
    <2>6. \A x \in Action : (t[2] \in sets[x]) <=>
            (Ruled(config, t[1]) /\ DomainDecision(config, t[1]).action = x)
        BY DEF Alone
    <2>7. ASSUME NEW proto \in {"tcp", "quic"}, proto = "quic" => decision.action = "proxy"
          PROVE  Verdict(config, sets, [to |-> t[2], proto |-> proto,
                    group |-> GroupOf(config, program)]) = Treat(decision.action, proto)
        <3>1. PICK domain, address, flow, packet :
                /\ domain = t[1] /\ address = t[2]
                /\ flow = [to |-> address, domain |-> domain, program |-> program]
                /\ packet = [to |-> address, proto |-> proto,
                              group |-> GroupOf(config, program)]
            OBVIOUS
        <3>2. /\ config \in Settings /\ OneForEach(config.programs)
              /\ domain \in Seq(Labels) \ {<<>>}
              /\ address \in Addresses \ (Passed \cup Virtual)
            BY <2>2, <2>3, <2>4, <3>1
        <3>3. ByItself(config, sets, domain, address) BY <2>6, <3>1 DEF ByItself
        <3>4. decision = Decide(config, flow) BY <3>1
        <3>5. proto = "quic" => Decide(config, flow).action = "proxy" BY <2>7, <3>4
        <3>6. Verdict(config, sets, packet) = Treat(Decide(config, flow).action, proto)
            BY <2>5, <3>1, <3>2, <3>3, <3>5, ChainIsEngine
        <3> QED BY <3>1, <3>4, <3>6
    <2>8. Treat(decision.action, "tcp") = decision.action BY DEF Treat
    <2>9. decision.action = "proxy" => Treat(decision.action, "quic") = "block" BY DEF Treat
    <2> QED BY <2>7, <2>8, <2>9
<1>2. ChainAgrees <=> FirstRuleDecides /\ ChainFollows BY DEF ChainAgrees
<1> QED BY TypesHold, FirstDecides, <1>1, <1>2, PTL

=============================================================================
