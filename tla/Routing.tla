-------------------------------- MODULE Routing --------------------------------
(***************************************************************************)
(* Which way a connection goes.  Two parts of the code answer this: the    *)
(* routing engine (routing.rs), which the DNS router asks about domains,   *)
(* and the chain of nftables rules (system.rs) that every packet of the    *)
(* user passes.                                                            *)
(*                                                                         *)
(* A domain, and the pattern of a rule about domains, is the sequence of   *)
(* its labels: lower case and without the leading "*." and the trailing    *)
(* dot that the engine removes.  A keyword is a run of whole labels.  A    *)
(* network is the set of its addresses.  A program is the file name of an  *)
(* executable, which is what the window writes into its rules.             *)
(***************************************************************************)
EXTENDS Naturals, Sequences

CONSTANTS
    Labels,         \* what domains are made of
    Addresses,
    Programs,
    Unreal,         \* the domains that are about this computer, like localhost
    Passed,         \* addresses the chain lets through first: local and private
                    \* ones, those of resolvers and of SSH servers
    Virtual         \* 198.18.0.0/15

None == "none"

ASSUME NoneAssumption == None \notin Addresses /\ None \notin Programs
ASSUME UnrealAssumption == Unreal \subseteq Seq(Labels) \ {<<>>}

Action == {"proxy", "direct", "block"}
Source == {"override", "program", "domain", "address", "default"}
Decision == [action : Action, source : Source]

AddressRule == [network : SUBSET Addresses, action : Action]
ProgramRule == [program : Programs, action : Action]
DomainRule == [pattern : Seq(Labels), kind : {"domain", "suffix", "keyword"}, action : Action]

\* domains and addresses hold the user's rules, followed by the imported ones.
Settings == [overrides : Seq(AddressRule), programs : Seq(ProgramRule),
             domains : Seq(DomainRule), addresses : Seq(AddressRule),
             default : Action, ipv6 : BOOLEAN]

-----------------------------------------------------------------------------
(* RoutingEngine.  An index stands for the rule there, 0 for no rule. *)

Least(S) == IF S = {} THEN 0 ELSE CHOOSE i \in S : \A j \in S : i <= j

\* exact_domain_map and suffix_domain_map keep the first rule for a name, and
\* a rule without one is not compiled.
Lookup(rules, kind, name) ==
    Least({i \in DOMAIN rules :
              rules[i].kind = kind /\ rules[i].pattern = name /\ name # <<>>})

Tails(domain) == {SubSeq(domain, k, Len(domain)) : k \in 1 .. Len(domain)}

Within(keyword, domain) ==
    \E k \in 0 .. Len(domain) - Len(keyword) :
        SubSeq(domain, k + 1, k + Len(keyword)) = keyword

Indexed(rules, domain) ==
    {Lookup(rules, "domain", domain)} \cup
    {Lookup(rules, "suffix", tail) : tail \in Tails(domain)}

\* The keywords that the domain contains and that come before the rule at best.
Keywords(rules, domain, best) ==
    {i \in DOMAIN rules :
        /\ rules[i].kind = "keyword" /\ rules[i].pattern # <<>>
        /\ best = 0 \/ i < best
        /\ Within(rules[i].pattern, domain)}

\* Mutant: the keywords are tried although a rule that comes first was found.
MatchDomainLate(rules, domain) ==
    LET best == Least(Indexed(rules, domain) \ {0})
        early == Keywords(rules, domain, 0)
    IN IF early # {} THEN Least(early) ELSE best

\* The maps first, then the keywords before the rule that was found.
MatchDomain(rules, domain) ==
    LET best == Least(Indexed(rules, domain) \ {0})
        early == Keywords(rules, domain, best)
    IN IF early # {} THEN Least(early) ELSE best

FirstCovering(rules, address) == Least({i \in DOMAIN rules : address \in rules[i].network})
FirstAbout(rules, program) == Least({i \in DOMAIN rules : rules[i].program = program})

Decide(s, flow) ==
    LET override == FirstCovering(s.overrides, flow.to)
        program == FirstAbout(s.programs, flow.program)
        domain == MatchDomain(s.domains, flow.domain)
        address == FirstCovering(s.addresses, flow.to)
        By(action, source) == [action |-> action, source |-> source]
    IN CASE override # 0 -> By(s.overrides[override].action, "override")
         [] override = 0 /\ program # 0 -> By(s.programs[program].action, "program")
         [] override = 0 /\ program = 0 /\ flow.domain \in Unreal -> By("direct", "override")
         [] OTHER -> IF domain # 0 THEN By(s.domains[domain].action, "domain")
                     ELSE IF address # 0 THEN By(s.addresses[address].action, "address")
                     ELSE By(s.default, "default")

\* What the DNS router asks: the domain is all it knows.
DomainDecision(s, domain) == Decide(s, [to |-> None, domain |-> domain, program |-> None])

\* The decision comes from a rule, so the addresses go into a set.
Ruled(s, domain) == DomainDecision(s, domain).source # "default"

-----------------------------------------------------------------------------
(* The chain "output".  sets gives the addresses in the domain sets; a      *)
(* packet has an address, a protocol and the control group of its process. *)

Groups == Action \cup {None}

Entry(to, groups, action) == [to |-> to, groups |-> groups, action |-> action]

AddressEntries(rules) ==
    [i \in DOMAIN rules |-> Entry(rules[i].network, Groups, rules[i].action)]

\* Mutant: the rules about addresses come before the domain sets.
ChainSwapped(s, sets) ==
    AddressEntries(s.overrides)
    \o <<Entry(Addresses, {"block"}, "block"), Entry(Addresses, {"direct"}, "direct"),
         Entry(Addresses, {"proxy"}, "proxy")>>
    \o AddressEntries(s.addresses)
    \o <<Entry(sets["block"], Groups, "block"), Entry(sets["direct"], Groups, "direct"),
         Entry(sets["proxy"], Groups, "proxy")>>

Chain(s, sets) ==
    AddressEntries(s.overrides)
    \o <<Entry(Addresses, {"block"}, "block"), Entry(Addresses, {"direct"}, "direct"),
         Entry(Addresses, {"proxy"}, "proxy")>>
    \o <<Entry(sets["block"], Groups, "block"), Entry(sets["direct"], Groups, "direct"),
         Entry(sets["proxy"], Groups, "proxy")>>
    \o AddressEntries(s.addresses)

\* Proxying marks TCP and rejects QUIC (UDP to port 443); other UDP goes on to
\* the next rule.
Settles(entry, packet) ==
    /\ packet.to \in entry.to /\ packet.group \in entry.groups
    /\ entry.action = "proxy" => packet.proto \in {"tcp", "quic"}

Treat(action, proto) == IF action = "proxy" /\ proto = "quic" THEN "block" ELSE action

\* The default policy blocks TCP only, and what no rule settles is accepted.
ByDefault(policy, proto) ==
    CASE proto = "tcp" -> policy
      [] proto = "quic" /\ policy = "proxy" -> "block"
      [] OTHER -> "direct"

Verdict(s, sets, packet) ==
    LET chain == Chain(s, sets)
        first == Least({i \in DOMAIN chain : Settles(chain[i], packet)})
    IN CASE packet.to \in Passed -> "direct"
         [] packet.to \in Virtual \ Passed /\ packet.proto = "tcp" -> "proxy"
         [] OTHER -> IF first # 0 THEN Treat(chain[first].action, packet.proto)
                                  ELSE ByDefault(s.default, packet.proto)

\* The control group a process of a program is put into: the map that is made of
\* the rules keeps the last one.  The window leaves one rule for each program.
GroupOf(s, program) ==
    LET about == {i \in DOMAIN s.programs : s.programs[i].program = program}
        last == CHOOSE i \in about : \A j \in about : j <= i
    IN IF about = {} THEN None ELSE s.programs[last].action

\* What settings must have in common for a session to go on: all but the programs.
Signature(s) == [s EXCEPT !.programs = <<>>]

-----------------------------------------------------------------------------

\* What the engine's comment promises of its maps (routing.rs:118): the rule that
\* comes first in the lists decides, whatever its kind.
Matches(rule, domain) ==
    /\ rule.pattern # <<>>
    /\ \/ rule.kind = "domain" /\ rule.pattern = domain
       \/ rule.kind = "suffix" /\ rule.pattern \in Tails(domain)
       \/ rule.kind = "keyword" /\ Within(rule.pattern, domain)

FirstMatch(rules, domain) == Least({i \in DOMAIN rules : Matches(rules[i], domain)})

=============================================================================
