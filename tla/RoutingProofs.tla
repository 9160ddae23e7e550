----------------------------- MODULE RoutingProofs -----------------------------
(***************************************************************************)
(* That the engine's indexes find the rule that comes first, and that the  *)
(* chain of the kernel does what the engine decides, for rules and domains *)
(* of any number and length.                                               *)
(***************************************************************************)
EXTENDS Routing, FiniteSetTheorems, SequenceTheorems, WellFoundedInduction, TLAPS

\* A set of numbers that is not empty has a least element, and Least is it.  The
\* intervals up to its elements are finite, so one of them contains no other.
LEMMA LeastIsLeast ==
    ASSUME NEW S \in SUBSET Nat, S # {}
    PROVE  Least(S) \in S /\ \A j \in S : Least(S) <= j
<1> DEFINE T == {0 .. i : i \in S}
<1>1. T \subseteq FiniteSubsetsOf(Nat)
    <2> SUFFICES ASSUME NEW i \in S PROVE 0 .. i \in FiniteSubsetsOf(Nat)
        OBVIOUS
    <2>1. IsFiniteSet(0 .. i) BY FS_Interval
    <2> QED BY <2>1 DEF FiniteSubsetsOf
<1>2. T # {} OBVIOUS
<1>3. PICK x \in T : \A y \in T : <<y, x>> \notin StrictSubsetOrdering(Nat)
    BY <1>1, <1>2, FS_StrictSubsetOrderingWellFounded, WFMin
<1>4. PICK i \in S : x = 0 .. i OBVIOUS
<1>5. ASSUME NEW j \in S PROVE i <= j
    <2> SUFFICES ASSUME j < i PROVE FALSE OBVIOUS
    <2>1. 0 .. j \subseteq 0 .. i /\ 0 .. j # 0 .. i /\ 0 .. j \subseteq Nat /\ 0 .. i \subseteq Nat
        OBVIOUS
    <2>2. <<0 .. j, 0 .. i>> \in StrictSubsetOrdering(Nat)
        BY <2>1 DEF StrictSubsetOrdering
    <2>3. 0 .. j \in T OBVIOUS
    <2> QED BY <1>3, <1>4, <2>2, <2>3
<1> QED BY <1>5 DEF Least

\* The same of a set of indexes that may be empty: 0 says that it is.
LEMMA LeastOfIndexes ==
    ASSUME NEW n \in Nat, NEW S \in SUBSET (1 .. n)
    PROVE  /\ S = {} <=> Least(S) = 0
           /\ S # {} => Least(S) \in S /\ \A j \in S : Least(S) <= j
<1>1. CASE S = {} BY <1>1 DEF Least
<1>2. CASE S # {}
    <2>1. S \in SUBSET Nat OBVIOUS
    <2>2. Least(S) \in S /\ \A j \in S : Least(S) <= j BY <1>2, <2>1, LeastIsLeast
    <2>3. Least(S) # 0 BY <2>2
    <2> QED BY <1>2, <2>2, <2>3
<1> QED BY <1>1, <1>2

\* Either way it is an index or 0.
LEMMA LeastInRange ==
    ASSUME NEW n \in Nat, NEW S \in SUBSET (1 .. n)
    PROVE  Least(S) \in 0 .. n
<1>1. CASE S = {} BY <1>1 DEF Least
<1>2. CASE S # {}
    <2>1. Least(S) \in S BY <1>2, LeastOfIndexes
    <2>2. Least(S) \in 1 .. n BY <2>1
    <2>3. \A i \in 1 .. n : i \in 0 .. n OBVIOUS
    <2> QED BY <2>2, <2>3
<1> QED BY <1>1, <1>2

\* A rule that is found is a rule.
LEMMA FoundIsRule ==
    ASSUME NEW Rule, NEW rules \in Seq(Rule), NEW i \in 0 .. Len(rules), i # 0
    PROVE  rules[i] \in Rule
<1>1. i \in 1 .. Len(rules) OBVIOUS
<1> QED BY <1>1

\* What a map of the engine gives for a name is the first rule of its kind.
LEMMA LookupFindsFirst ==
    ASSUME NEW rules \in Seq(DomainRule), NEW kind, NEW name, name # <<>>,
           NEW found, found = Lookup(rules, kind, name)
    PROVE  /\ found # 0 =>
                found \in DOMAIN rules /\ rules[found].kind = kind /\ rules[found].pattern = name
           /\ \A j \in DOMAIN rules : rules[j].kind = kind /\ rules[j].pattern = name =>
                found # 0 /\ found <= j
<1> DEFINE Like == {i \in DOMAIN rules : rules[i].kind = kind /\ rules[i].pattern = name}
<1>1. Len(rules) \in Nat /\ Like \in SUBSET (1 .. Len(rules)) OBVIOUS
<1>2. found = Least(Like) BY DEF Lookup
<1> HIDE DEF Like
<1>3. /\ Like = {} <=> Least(Like) = 0
      /\ Like # {} => Least(Like) \in Like /\ \A j \in Like : Least(Like) <= j
    BY <1>1, LeastOfIndexes
<1>4. \A j \in Like : found # 0 /\ found <= j BY <1>2, <1>3
<1>5. found # 0 => found \in Like BY <1>2, <1>3
<1> QED BY <1>4, <1>5 DEF Like

\* What follows a dot of a name is not empty.
LEMMA TailsAreSomething ==
    ASSUME NEW domain \in Seq(Labels), NEW tail \in Tails(domain)
    PROVE  tail # <<>>
<1>1. PICK k \in 1 .. Len(domain) : tail = SubSeq(domain, k, Len(domain)) BY DEF Tails
<1>2. Len(tail) = Len(domain) - k + 1 BY <1>1
<1> QED BY <1>2

\* The maps together find the first rule that is no keyword and matches.
LEMMA IndexedFindsFirst ==
    ASSUME NEW rules \in Seq(DomainRule), NEW domain \in Seq(Labels) \ {<<>>},
           NEW Found, Found = {i \in DOMAIN rules : rules[i].kind # "keyword" /\ Matches(rules[i], domain)},
           NEW best, best = Least(Indexed(rules, domain) \ {0})
    PROVE  /\ best = 0 <=> Found = {}
           /\ Found # {} => best \in Found /\ \A j \in Found : best <= j
<1>1. Len(rules) \in Nat /\ DOMAIN rules = 1 .. Len(rules) OBVIOUS
<1>2. ASSUME NEW i \in Indexed(rules, domain), i # 0 PROVE i \in Found
    <2>1. CASE i = Lookup(rules, "domain", domain)
        <3>1. i \in DOMAIN rules /\ rules[i].kind = "domain" /\ rules[i].pattern = domain
            BY <1>2, <2>1, LookupFindsFirst
        <3> QED BY <3>1 DEF Matches
    <2>2. ASSUME NEW tail \in Tails(domain), i = Lookup(rules, "suffix", tail) PROVE i \in Found
        <3>1. tail # <<>> BY TailsAreSomething
        <3>2. i \in DOMAIN rules /\ rules[i].kind = "suffix" /\ rules[i].pattern = tail
            BY <1>2, <2>2, <3>1, LookupFindsFirst
        <3> QED BY <3>1, <3>2 DEF Matches
    <2> QED BY <2>1, <2>2, <1>2 DEF Indexed
<1>3. ASSUME NEW j \in Found PROVE \E i \in Indexed(rules, domain) \ {0} : i <= j
    <2>1. j \in DOMAIN rules /\ rules[j].pattern # <<>> BY DEF Matches
    <2>2. CASE rules[j].kind = "domain" /\ rules[j].pattern = domain
        <3>1. Lookup(rules, "domain", domain) # 0 /\ Lookup(rules, "domain", domain) <= j
            BY <2>1, <2>2, LookupFindsFirst
        <3> QED BY <3>1 DEF Indexed
    <2>3. CASE rules[j].kind = "suffix" /\ rules[j].pattern \in Tails(domain)
        <3> DEFINE tail == rules[j].pattern
        <3>1. Lookup(rules, "suffix", tail) # 0 /\ Lookup(rules, "suffix", tail) <= j
            BY <2>1, <2>3, LookupFindsFirst
        <3> QED BY <2>3, <3>1 DEF Indexed
    <2>4. rules[j].kind # "keyword" /\ Matches(rules[j], domain) OBVIOUS
    <2> QED BY <2>2, <2>3, <2>4 DEF Matches
<1>4. Indexed(rules, domain) \ {0} \in SUBSET (1 .. Len(rules)) BY <1>1, <1>2
<1>5. /\ Indexed(rules, domain) \ {0} = {} <=> best = 0
      /\ best # 0 => /\ best \in Indexed(rules, domain) \ {0}
                    /\ \A i \in Indexed(rules, domain) \ {0} : best <= i
    BY <1>1, <1>4, LeastOfIndexes
<1>6. best # 0 => best \in Found BY <1>2, <1>5
<1>7. ASSUME NEW j \in Found PROVE best # 0 /\ best <= j
    <2>1. PICK i \in Indexed(rules, domain) \ {0} : i <= j BY <1>3
    <2>2. best # 0 /\ best <= i BY <1>5, <2>1
    <2>3. best \in Nat /\ i \in Nat /\ j \in Nat BY <1>1, <1>4, <1>5, <2>1, <2>2
    <2> QED BY <2>1, <2>2, <2>3
<1> QED BY <1>6, <1>7

\* The engine's maps and its list of keywords decide as the lists of rules say: the
\* first rule that matches (routing.rs:118).
THEOREM FirstRule ==
    ASSUME NEW rules \in Seq(DomainRule), NEW domain \in Seq(Labels) \ {<<>>}
    PROVE  MatchDomain(rules, domain) = FirstMatch(rules, domain)
<1> DEFINE Found == {i \in DOMAIN rules : rules[i].kind # "keyword" /\ Matches(rules[i], domain)}
           Words == {i \in DOMAIN rules : rules[i].kind = "keyword" /\ Matches(rules[i], domain)}
           Every == {i \in DOMAIN rules : Matches(rules[i], domain)}
           best == Least(Indexed(rules, domain) \ {0})
           Early == {i \in Words : best = 0 \/ i < best}
<1>1. Len(rules) \in Nat /\ DOMAIN rules = 1 .. Len(rules) OBVIOUS
<1>2. /\ best = 0 <=> Found = {}
      /\ Found # {} => best \in Found /\ \A j \in Found : best <= j
    <2> HIDE DEF best, Found
    <2> QED BY IndexedFindsFirst DEF best, Found
<1>3. Every = Found \cup Words OBVIOUS
<1>4. MatchDomain(rules, domain) = IF Early # {} THEN Least(Early) ELSE best
    <2>1. MatchDomain(rules, domain) =
            IF Keywords(rules, domain, best) # {} THEN Least(Keywords(rules, domain, best)) ELSE best
        BY DEF MatchDomain
    <2>2. ASSUME NEW i \in DOMAIN rules, rules[i].kind = "keyword"
          PROVE  Matches(rules[i], domain) <=> rules[i].pattern # <<>> /\ Within(rules[i].pattern, domain)
        BY <2>2 DEF Matches
    <2> HIDE DEF best
    <2>3. Keywords(rules, domain, best) = Early BY <2>2 DEF Keywords
    <2> HIDE DEF Early
    <2> QED BY <2>1, <2>3
<1>5. FirstMatch(rules, domain) = Least(Every) BY DEF FirstMatch
<1>6. /\ Early \in SUBSET (1 .. Len(rules)) /\ Every \in SUBSET (1 .. Len(rules))
      /\ Found \in SUBSET (1 .. Len(rules)) /\ Words \in SUBSET (1 .. Len(rules))
    BY <1>1
<1> HIDE DEF best
<1>7. Early = {i \in Words : best = 0 \/ i < best} OBVIOUS
<1> HIDE DEF Found, Words, Every, Early
<1>12. Early \subseteq Nat /\ Every \subseteq Nat /\ Found \subseteq Nat /\ Words \subseteq Nat
    BY <1>1, <1>6
<1>13. best \in Nat
    <2>1. CASE Found = {} BY <1>2, <2>1
    <2>2. CASE Found # {} BY <1>2, <1>12, <2>2
    <2> QED BY <2>1, <2>2
<1>8. /\ Every = {} <=> Least(Every) = 0
      /\ Every # {} => Least(Every) \in Every /\ \A j \in Every : Least(Every) <= j
    BY <1>1, <1>6, LeastOfIndexes
<1>9. /\ Early = {} <=> Least(Early) = 0
      /\ Early # {} => Least(Early) \in Early /\ \A j \in Early : Least(Early) <= j
    BY <1>1, <1>6, LeastOfIndexes
<1>10. CASE Early # {}
    <2>1. Least(Early) \in Every BY <1>3, <1>7, <1>9, <1>10
    <2>2. ASSUME NEW j \in Every PROVE Least(Early) <= j
        <3>1. Least(Early) \in Words /\ (best = 0 \/ Least(Early) < best) BY <1>7, <1>9, <1>10
        <3>2. best \in Nat /\ Least(Early) \in Nat /\ j \in Nat BY <1>9, <1>10, <1>12, <1>13
        <3>3. CASE j \in Found BY <1>2, <3>1, <3>2, <3>3
        <3>4. CASE j \in Early BY <1>9, <1>10, <3>4
        <3>5. CASE j \in Words \ Early BY <1>7, <3>1, <3>2, <3>5
        <3> QED BY <1>3, <3>3, <3>4, <3>5
    <2>3. Least(Every) = Least(Early)
        <3>1. Every # {} BY <2>1
        <3>2. Least(Every) <= Least(Early) /\ Least(Early) <= Least(Every) BY <1>8, <2>1, <2>2, <3>1
        <3>3. Least(Every) \in Nat /\ Least(Early) \in Nat BY <1>8, <1>12, <2>1, <3>1
        <3> QED BY <3>2, <3>3
    <2> QED BY <1>4, <1>5, <1>10, <2>3
<1>11. CASE Early = {}
    <2>1. CASE best = 0 BY <1>2, <1>3, <1>4, <1>5, <1>7, <1>8, <1>11, <2>1
    <2>2. CASE best # 0
        <3>1. best \in Every BY <1>2, <1>3, <2>2
        <3>2. ASSUME NEW j \in Every PROVE best <= j
            <4>1. best \in Nat /\ j \in Nat BY <1>12, <3>1
            <4>2. CASE j \in Found BY <1>2, <4>2
            <4>3. CASE j \in Words BY <1>7, <1>11, <2>2, <4>1, <4>3
            <4> QED BY <1>3, <4>2, <4>3
        <3>3. Least(Every) <= best /\ best <= Least(Every) BY <1>8, <3>1, <3>2
        <3>4. Least(Every) \in Nat /\ best \in Nat BY <1>8, <1>12, <3>1
        <3>5. Least(Every) = best BY <3>3, <3>4
        <3> QED BY <1>4, <1>5, <1>11, <3>5
    <2> QED BY <2>1, <2>2
<1> QED BY <1>10, <1>11

-----------------------------------------------------------------------------
(* The chain and the engine. *)

\* No program has two rules.
OneForEach(programs) ==
    \A i, j \in DOMAIN programs : programs[i].program = programs[j].program => i = j

\* An element that no other comes before is the least.
LEMMA LeastIs ==
    ASSUME NEW n \in Nat, NEW S \in SUBSET (1 .. n), NEW i \in S, \A j \in S : i <= j
    PROVE  Least(S) = i
<1>1. Least(S) \in S /\ Least(S) <= i BY LeastOfIndexes
<1>2. i <= Least(S) BY <1>1
<1>3. \A j \in S : j \in Nat OBVIOUS
<1>4. i \in Nat /\ Least(S) \in Nat BY <1>1, <1>3
<1> QED BY <1>1, <1>2, <1>4

\* Two sequences one after the other.
Joins(u, a, b) ==
    /\ Len(u) = Len(a) + Len(b)
    /\ \A i \in 1 .. Len(a) : u[i] = a[i]
    /\ \A i \in 1 .. Len(b) : u[Len(a) + i] = b[i]

LEMMA TwoParts ==
    ASSUME NEW T, NEW a \in Seq(T), NEW b \in Seq(T)
    PROVE  a \o b \in Seq(T) /\ Joins(a \o b, a, b)
<1> DEFINE ab == a \o b
<1>1. /\ ab \in Seq(T) /\ Len(ab) = Len(a) + Len(b)
      /\ \A i \in 1 .. Len(a) + Len(b) : ab[i] = IF i <= Len(a) THEN a[i] ELSE b[i - Len(a)]
    BY ConcatProperties
<1> HIDE DEF ab
<1>2. Len(a) \in Nat /\ Len(b) \in Nat OBVIOUS
<1> DEFINE k == Len(a)
           l == Len(b)
<1>3. k \in Nat /\ l \in Nat BY <1>2
<1>4. \A i \in 1 .. k + l : ab[i] = IF i <= k THEN a[i] ELSE b[i - k] BY <1>1
<1> HIDE DEF k, l
<1>5. ASSUME NEW i \in 1 .. k PROVE ab[i] = a[i]
    <2>1. i \in 1 .. k + l /\ i <= k BY <1>3
    <2> QED BY <1>4, <2>1
<1>6. ASSUME NEW i \in 1 .. l PROVE ab[k + i] = b[i]
    <2>1. k + i \in 1 .. k + l /\ ~(k + i <= k) /\ (k + i) - k = i BY <1>3
    <2> QED BY <1>4, <2>1
<1>7. Joins(ab, a, b) BY <1>1, <1>5, <1>6 DEF Joins, k, l
<1> QED BY <1>1, <1>7 DEF ab

\* The entries of rules about addresses are in the order of the rules.
LEMMA EntriesOfRules ==
    ASSUME NEW rules \in Seq(AddressRule)
    PROVE  /\ AddressEntries(rules) \in Seq([to : SUBSET Addresses, groups : SUBSET Groups,
                                             action : Action])
           /\ Len(AddressEntries(rules)) = Len(rules)
           /\ \A i \in 1 .. Len(rules) :
                AddressEntries(rules)[i] = Entry(rules[i].network, Groups, rules[i].action)
<1> DEFINE Any == [to : SUBSET Addresses, groups : SUBSET Groups, action : Action]
<1>1. Len(rules) \in Nat /\ DOMAIN rules = 1 .. Len(rules) OBVIOUS
<1>2. ASSUME NEW i \in 1 .. Len(rules)
      PROVE  Entry(rules[i].network, Groups, rules[i].action) \in Any
    <2>1. rules[i] \in AddressRule OBVIOUS
    <2> QED BY <2>1 DEF AddressRule, Entry
<1> HIDE DEF Any
<1>3. AddressEntries(rules) \in [1 .. Len(rules) -> Any] BY <1>1, <1>2 DEF AddressEntries
<1>4. AddressEntries(rules) \in Seq(Any) BY <1>1, <1>3, SeqDef
<1>5. Len(AddressEntries(rules)) = Len(rules) BY <1>1, <1>3, <1>4
<1> QED BY <1>1, <1>4, <1>5 DEF AddressEntries, Any

\* The places of the chain: the overrides, the groups, the domain sets and the
\* rules about addresses.
Places(chain, s, sets, n, m) ==
    /\ DOMAIN chain = 1 .. n + 6 + m
    /\ \A i \in 1 .. n :
         chain[i] = Entry(s.overrides[i].network, Groups, s.overrides[i].action)
    /\ chain[n + 1] = Entry(Addresses, {"block"}, "block")
    /\ chain[n + 2] = Entry(Addresses, {"direct"}, "direct")
    /\ chain[n + 3] = Entry(Addresses, {"proxy"}, "proxy")
    /\ chain[n + 4] = Entry(sets["block"], Groups, "block")
    /\ chain[n + 5] = Entry(sets["direct"], Groups, "direct")
    /\ chain[n + 6] = Entry(sets["proxy"], Groups, "proxy")
    /\ \A i \in 1 .. m :
         chain[n + 6 + i] = Entry(s.addresses[i].network, Groups, s.addresses[i].action)

LEMMA ChainPlaces ==
    ASSUME NEW s \in Settings, NEW sets \in [Action -> SUBSET Addresses],
           NEW n \in Nat, n = Len(s.overrides), NEW m \in Nat, m = Len(s.addresses),
           NEW chain, chain = Chain(s, sets)
    PROVE  Places(chain, s, sets, n, m)
<1> DEFINE Any == [to : SUBSET Addresses, groups : SUBSET Groups, action : Action]
           a == AddressEntries(s.overrides)
           b == <<Entry(Addresses, {"block"}, "block"), Entry(Addresses, {"direct"}, "direct"),
                  Entry(Addresses, {"proxy"}, "proxy")>>
           c == <<Entry(sets["block"], Groups, "block"), Entry(sets["direct"], Groups, "direct"),
                  Entry(sets["proxy"], Groups, "proxy")>>
           d == AddressEntries(s.addresses)
<1>1. s.overrides \in Seq(AddressRule) /\ s.addresses \in Seq(AddressRule) BY DEF Settings
<1>2. a \in Seq(Any) /\ Len(a) = n
      /\ \A i \in 1 .. n : a[i] = Entry(s.overrides[i].network, Groups, s.overrides[i].action)
    BY <1>1, EntriesOfRules
<1>3. d \in Seq(Any) /\ Len(d) = m
      /\ \A i \in 1 .. m : d[i] = Entry(s.addresses[i].network, Groups, s.addresses[i].action)
    BY <1>1, EntriesOfRules
<1>4. /\ Entry(Addresses, {"block"}, "block") \in Any
      /\ Entry(Addresses, {"direct"}, "direct") \in Any
      /\ Entry(Addresses, {"proxy"}, "proxy") \in Any
      /\ Entry(sets["block"], Groups, "block") \in Any
      /\ Entry(sets["direct"], Groups, "direct") \in Any
      /\ Entry(sets["proxy"], Groups, "proxy") \in Any
    BY DEF Entry, Groups, Action
<1> HIDE DEF a, d, Any
<1>5. b \in Seq(Any) /\ Len(b) = 3 BY <1>4
<1>6. c \in Seq(Any) /\ Len(c) = 3 BY <1>4
<1>7. /\ b[1] = Entry(Addresses, {"block"}, "block")
      /\ b[2] = Entry(Addresses, {"direct"}, "direct")
      /\ b[3] = Entry(Addresses, {"proxy"}, "proxy")
      /\ c[1] = Entry(sets["block"], Groups, "block")
      /\ c[2] = Entry(sets["direct"], Groups, "direct")
      /\ c[3] = Entry(sets["proxy"], Groups, "proxy")
    OBVIOUS
<1>8. chain = ((a \o b) \o c) \o d BY DEF Chain, a, d
<1> HIDE DEF b, c
<1> DEFINE ab == a \o b
           abc == ab \o c
           all == abc \o d
<1>9. /\ ab \in Seq(Any) /\ Len(ab) = n + 3
      /\ \A i \in 1 .. n : ab[i] = a[i]
      /\ \A i \in 1 .. 3 : ab[n + i] = b[i]
    <2>1. ab \in Seq(Any) /\ Joins(ab, a, b)
        BY <1>2, <1>5, TwoParts
    <2> HIDE DEF ab
    <2> QED BY <2>1, <1>2, <1>5 DEF Joins
<1> HIDE DEF ab
<1>10. /\ abc \in Seq(Any) /\ Len(abc) = (n + 3) + 3
       /\ \A i \in 1 .. n + 3 : abc[i] = ab[i]
       /\ \A i \in 1 .. 3 : abc[(n + 3) + i] = c[i]
    <2>1. abc \in Seq(Any) /\ Joins(abc, ab, c)
        BY <1>6, <1>9, TwoParts
    <2> HIDE DEF abc
    <2> QED BY <2>1, <1>6, <1>9 DEF Joins
<1>11. Len(abc) = n + 6 BY <1>10
<1> HIDE DEF abc
<1>12. /\ all \in Seq(Any) /\ Len(all) = n + 6 + m
       /\ \A i \in 1 .. n + 6 : all[i] = abc[i]
       /\ \A i \in 1 .. m : all[n + 6 + i] = d[i]
    <2>1. all \in Seq(Any) /\ Joins(all, abc, d)
        BY <1>3, <1>10, TwoParts
    <2> HIDE DEF all
    <2> QED BY <2>1, <1>3, <1>11 DEF Joins
<1> HIDE DEF all
<1>13. chain = all BY <1>8 DEF all, abc, ab
<1>14. DOMAIN all = 1 .. n + 6 + m BY <1>12
<1>15. ASSUME NEW i \in 1 .. n PROVE all[i] = a[i]
    <2>1. i \in 1 .. n + 6 OBVIOUS
    <2>2. i \in 1 .. n + 3 OBVIOUS
    <2> QED BY <2>1, <2>2, <1>9, <1>10, <1>12
<1>16. all[n + 1] = b[1] /\ all[n + 2] = b[2] /\ all[n + 3] = b[3]
    <2>1. n + 1 \in 1 .. n + 6 /\ n + 2 \in 1 .. n + 6 /\ n + 3 \in 1 .. n + 6 OBVIOUS
    <2>2. n + 1 \in 1 .. n + 3 /\ n + 2 \in 1 .. n + 3 /\ n + 3 \in 1 .. n + 3 OBVIOUS
    <2>3. 1 \in 1 .. 3 /\ 2 \in 1 .. 3 /\ 3 \in 1 .. 3 OBVIOUS
    <2>4. all[n + 1] = abc[n + 1] /\ all[n + 2] = abc[n + 2] /\ all[n + 3] = abc[n + 3]
        BY <2>1, <1>12, Zenon
    <2>5. abc[n + 1] = ab[n + 1] /\ abc[n + 2] = ab[n + 2] /\ abc[n + 3] = ab[n + 3]
        BY <2>2, <1>10, Zenon
    <2>6. ab[n + 1] = b[1] /\ ab[n + 2] = b[2] /\ ab[n + 3] = b[3]
        BY <2>3, <1>9, Zenon
    <2> QED BY <2>4, <2>5, <2>6
<1>17. all[n + 4] = c[1] /\ all[n + 5] = c[2] /\ all[n + 6] = c[3]
    <2>1. n + 4 \in 1 .. n + 6 /\ n + 5 \in 1 .. n + 6 /\ n + 6 \in 1 .. n + 6 OBVIOUS
    <2>2. n + 4 = (n + 3) + 1 /\ n + 5 = (n + 3) + 2 /\ n + 6 = (n + 3) + 3 OBVIOUS
    <2>3. 1 \in 1 .. 3 /\ 2 \in 1 .. 3 /\ 3 \in 1 .. 3 OBVIOUS
    <2>4. all[n + 4] = abc[n + 4] /\ all[n + 5] = abc[n + 5] /\ all[n + 6] = abc[n + 6]
        BY <2>1, <1>12, Zenon
    <2>5. abc[(n + 3) + 1] = c[1] /\ abc[(n + 3) + 2] = c[2] /\ abc[(n + 3) + 3] = c[3]
        BY <2>3, <1>10, Zenon
    <2> QED BY <2>2, <2>4, <2>5, Zenon
<1> QED BY <1>2, <1>3, <1>7, <1>12, <1>13, <1>14, <1>15, <1>16, <1>17 DEF Places

\* The entry that settles a packet first says what becomes of it.
LEMMA VerdictOfFirst ==
    ASSUME NEW s \in Settings, NEW sets \in [Action -> SUBSET Addresses], NEW packet,
           packet.to \notin Passed \cup Virtual,
           NEW k \in Nat, NEW chain, chain = Chain(s, sets), DOMAIN chain = 1 .. k,
           NEW first \in 1 .. k, Settles(chain[first], packet),
           \A j \in 1 .. k : Settles(chain[j], packet) => first <= j
    PROVE  Verdict(s, sets, packet) = Treat(chain[first].action, packet.proto)
<1> DEFINE S == {i \in DOMAIN chain : Settles(chain[i], packet)}
<1>1. first \in S /\ S \in SUBSET (1 .. k) /\ \A j \in S : first <= j OBVIOUS
<1> HIDE DEF S
<1>2. Least(S) = first BY <1>1, LeastIs
<1>3. first # 0 OBVIOUS
<1>4. Verdict(s, sets, packet) =
        IF Least(S) # 0 THEN Treat(chain[Least(S)].action, packet.proto)
        ELSE ByDefault(s.default, packet.proto)
    BY DEF Verdict, S
<1> QED BY <1>2, <1>3, <1>4

LEMMA VerdictOfNone ==
    ASSUME NEW s \in Settings, NEW sets \in [Action -> SUBSET Addresses], NEW packet,
           packet.to \notin Passed \cup Virtual,
           \A j \in DOMAIN Chain(s, sets) : ~Settles(Chain(s, sets)[j], packet)
    PROVE  Verdict(s, sets, packet) = ByDefault(s.default, packet.proto)
<1> DEFINE S == {i \in DOMAIN Chain(s, sets) : Settles(Chain(s, sets)[i], packet)}
<1>1. S = {} OBVIOUS
<1>2. Least(S) = 0 BY <1>1 DEF Least
<1> QED BY <1>2 DEF Verdict

\* f is the first of n rules that covers an address, 0 that none does.
Heads(f, rules, n, address) ==
    /\ f = 0 => \A i \in 1 .. n : address \notin rules[i].network
    /\ f # 0 => /\ f \in 1 .. n /\ address \in rules[f].network
                /\ \A i \in 1 .. n : address \in rules[i].network => f <= i

LEMMA CoveringFirst ==
    ASSUME NEW rules \in Seq(AddressRule), NEW address,
           NEW n \in Nat, n = Len(rules), NEW f, f = FirstCovering(rules, address)
    PROVE  Heads(f, rules, n, address)
<1> DEFINE S == {i \in DOMAIN rules : address \in rules[i].network}
<1>1. DOMAIN rules = 1 .. n /\ S \in SUBSET (1 .. n) OBVIOUS
<1>2. f = Least(S) BY DEF FirstCovering
<1>3. \A i \in 1 .. n : i \in S <=> address \in rules[i].network BY <1>1
<1> HIDE DEF S
<1>4. /\ S = {} <=> Least(S) = 0
      /\ S # {} => Least(S) \in S /\ \A j \in S : Least(S) <= j
    BY <1>1, LeastOfIndexes
<1> QED BY <1>1, <1>2, <1>3, <1>4 DEF Heads

\* A program with a rule is in the group of its action, and one without in none.
LEMMA GroupIsRule ==
    ASSUME NEW s \in Settings, OneForEach(s.programs), NEW program,
           NEW f, f = FirstAbout(s.programs, program)
    PROVE  /\ f # 0 => f \in DOMAIN s.programs /\ s.programs[f].program = program
                       /\ s.programs[f].action \in Action
                       /\ GroupOf(s, program) = s.programs[f].action
           /\ f = 0 => GroupOf(s, program) = None
<1> DEFINE about == {i \in DOMAIN s.programs : s.programs[i].program = program}
           n == Len(s.programs)
<1>1. s.programs \in Seq(ProgramRule) BY DEF Settings
<1>2. n \in Nat /\ DOMAIN s.programs = 1 .. n BY <1>1
<1>3. f = Least(about) BY DEF FirstAbout
<1>4. about \in SUBSET (1 .. n) BY <1>2
<1> HIDE DEF n
<1>5. /\ about = {} <=> Least(about) = 0
      /\ about # {} => Least(about) \in about
    <2> HIDE DEF about
    <2> QED BY <1>2, <1>4, LeastOfIndexes
<1>6. CASE about = {} BY <1>3, <1>5, <1>6 DEF GroupOf
<1>7. CASE about # {}
    <2>1. f # 0 /\ f \in about BY <1>3, <1>5, <1>7
    <2>2. about = {f} BY <2>1 DEF OneForEach
    <2>3. (CHOOSE i \in about : \A j \in about : j <= i) = f
        <3>1. f \in Nat BY <1>2, <2>1
        <3>2. f <= f BY <3>1
        <3> HIDE DEF about
        <3> QED BY <2>2, <3>2
    <2>4. GroupOf(s, program) = s.programs[f].action BY <1>7, <2>3 DEF GroupOf
    <2>5. s.programs[f] \in ProgramRule BY <1>1, <2>1
    <2> QED BY <2>1, <2>4, <2>5 DEF ProgramRule
<1> QED BY <1>6, <1>7

\* A rule about domains that the engine finds is a rule.
LEMMA DomainRuleFound ==
    ASSUME NEW s \in Settings, NEW domain \in Seq(Labels) \ {<<>>},
           NEW d, d = MatchDomain(s.domains, domain), d # 0
    PROVE  s.domains[d].action \in Action
<1> DEFINE Every == {i \in DOMAIN s.domains : Matches(s.domains[i], domain)}
           n == Len(s.domains)
<1>1. s.domains \in Seq(DomainRule) BY DEF Settings
<1>2. n \in Nat /\ DOMAIN s.domains = 1 .. n BY <1>1
<1>3. d = Least(Every) BY <1>1, FirstRule DEF FirstMatch
<1>4. Every \in SUBSET (1 .. n) BY <1>2
<1> HIDE DEF Every
<1>5. d \in 0 .. n BY <1>2, <1>3, <1>4, LeastInRange
<1>6. s.domains[d] \in DomainRule BY <1>1, <1>5, FoundIsRule
<1> QED BY <1>6 DEF DomainRule

\* What the engine says of a domain alone.
LEMMA DomainAlone ==
    ASSUME NEW s \in Settings, NEW domain, NEW d, d = MatchDomain(s.domains, domain)
    PROVE  DomainDecision(s, domain) =
              IF domain \in Unreal THEN [action |-> "direct", source |-> "override"]
              ELSE IF d # 0 THEN [action |-> s.domains[d].action, source |-> "domain"]
              ELSE [action |-> s.default, source |-> "default"]
<1>1. s.overrides \in Seq(AddressRule) /\ s.addresses \in Seq(AddressRule)
      /\ s.programs \in Seq(ProgramRule)
    BY DEF Settings
<1>2. ASSUME NEW rules \in Seq(AddressRule) PROVE FirstCovering(rules, None) = 0
    <2>1. ASSUME NEW i \in DOMAIN rules PROVE None \notin rules[i].network
        <3>1. rules[i] \in AddressRule OBVIOUS
        <3>2. rules[i].network \subseteq Addresses BY <3>1 DEF AddressRule
        <3> QED BY <3>2, NoneAssumption
    <2>2. {i \in DOMAIN rules : None \in rules[i].network} = {} BY <2>1
    <2> QED BY <2>2 DEF FirstCovering, Least
<1>3. FirstAbout(s.programs, None) = 0
    <2>1. ASSUME NEW i \in DOMAIN s.programs PROVE s.programs[i].program # None
        <3>1. s.programs[i] \in ProgramRule BY <1>1
        <3> QED BY <3>1, NoneAssumption DEF ProgramRule
    <2>2. {i \in DOMAIN s.programs : s.programs[i].program = None} = {} BY <2>1
    <2> QED BY <2>2 DEF FirstAbout, Least
<1>4. FirstCovering(s.overrides, None) = 0 /\ FirstCovering(s.addresses, None) = 0
    BY <1>1, <1>2
<1> QED BY <1>3, <1>4 DEF DomainDecision, Decide

\* The places of a chain that settle a packet, the actions whose sets hold an
\* address, and the first of a set of places.
Settling(chain, packet) == {j \in DOMAIN chain : Settles(chain[j], packet)}
Named(sets, address) == {x \in Action : address \in sets[x]}
IsFirst(S, i) == i \in S /\ \A j \in S : i <= j

\* The entries that settle a packet, of a chain with n overrides and m addresses:
\* o and a are the first of the overrides and of the addresses, 0 for none; group
\* is that of the process, named holds the actions whose sets have the address.
Settled(on, n, m, o, a, group, named) ==
    /\ on \subseteq 1 .. n + 6 + m
    /\ o = 0 => \A i \in 1 .. n : i \notin on
    /\ o # 0 => o \in 1 .. n /\ o \in on /\ \A i \in 1 .. n : i \in on => o <= i
    /\ n + 1 \in on <=> group = "block"
    /\ n + 2 \in on <=> group = "direct"
    /\ n + 3 \in on <=> group = "proxy"
    /\ n + 4 \in on <=> "block" \in named
    /\ n + 5 \in on <=> "direct" \in named
    /\ n + 6 \in on <=> "proxy" \in named
    /\ a = 0 => \A i \in 1 .. m : n + 6 + i \notin on
    /\ a # 0 => /\ a \in 1 .. m /\ n + 6 + a \in on
                /\ \A i \in 1 .. m : n + 6 + i \in on => a <= i

LEMMA FourParts ==
    ASSUME NEW n \in Nat, NEW m \in Nat, NEW j \in 1 .. n + 6 + m
    PROVE  \/ j \in 1 .. n \/ j \in {n + 1, n + 2, n + 3} \/ j \in {n + 4, n + 5, n + 6}
           \/ \E i \in 1 .. m : j = n + 6 + i
<1>1. CASE j > n + 6
    <2>1. j - (n + 6) \in 1 .. m /\ j = n + 6 + (j - (n + 6)) BY <1>1
    <2> QED BY <2>1
<1>2. CASE j <= n + 6 BY <1>2
<1> QED BY <1>1, <1>2

\* Which entry is the first: an override, the entry of the group, that of the set
\* the address is in, a rule about addresses, or none.
LEMMA FirstOfChain ==
    ASSUME NEW n \in Nat, NEW m \in Nat, NEW on, NEW o, NEW a, NEW group, NEW named,
           Settled(on, n, m, o, a, group, named)
    PROVE  /\ o # 0 => IsFirst(on, o)
           /\ o = 0 /\ group = "block" => IsFirst(on, n + 1)
           /\ o = 0 /\ group = "direct" => IsFirst(on, n + 2)
           /\ o = 0 /\ group = "proxy" => IsFirst(on, n + 3)
           /\ o = 0 /\ group = None /\ named = {"block"} => IsFirst(on, n + 4)
           /\ o = 0 /\ group = None /\ named = {"direct"} => IsFirst(on, n + 5)
           /\ o = 0 /\ group = None /\ named = {"proxy"} => IsFirst(on, n + 6)
           /\ o = 0 /\ group = None /\ named = {} /\ a # 0 => IsFirst(on, n + 6 + a)
           /\ o = 0 /\ group = None /\ named = {} /\ a = 0 => on = {}
<1>1. ASSUME NEW j \in on
      PROVE  /\ j \in Nat
             /\ \/ j \in 1 .. n \/ j \in {n + 1, n + 2, n + 3} \/ j \in {n + 4, n + 5, n + 6}
                \/ \E i \in 1 .. m : j = n + 6 + i
    <2>1. j \in 1 .. n + 6 + m BY DEF Settled
    <2> QED BY <2>1, FourParts
<1>2. o # 0 => IsFirst(on, o)
    <2> SUFFICES ASSUME o # 0, NEW j \in on PROVE o <= j BY DEF IsFirst, Settled
    <2>1. o \in 1 .. n /\ (j \in 1 .. n => o <= j) BY DEF Settled
    <2>2. CASE j \notin 1 .. n BY <1>1, <2>1, <2>2
    <2> QED BY <2>1, <2>2
<1>3. ASSUME o = 0, NEW j \in on PROVE j \notin 1 .. n BY <1>3 DEF Settled
<1>4. ASSUME o = 0, group \in {"block", "direct", "proxy"}
      PROVE  /\ group = "block" => IsFirst(on, n + 1)
             /\ group = "direct" => IsFirst(on, n + 2)
             /\ group = "proxy" => IsFirst(on, n + 3)
    <2>1. /\ n + 1 \in on <=> group = "block"
          /\ n + 2 \in on <=> group = "direct"
          /\ n + 3 \in on <=> group = "proxy"
        BY DEF Settled
    <2>2. ASSUME NEW j \in on
          PROVE  j \in Nat /\ (j \in {n + 1, n + 2, n + 3} \/ j >= n + 4)
        BY <1>1, <1>3, <1>4
    <2>3. ASSUME group = "block" PROVE IsFirst(on, n + 1)
        <3>1. \A j \in on : n + 1 <= j BY <2>2
        <3> QED BY <2>1, <2>3, <3>1 DEF IsFirst
    <2>4. ASSUME group = "direct" PROVE IsFirst(on, n + 2)
        <3>1. n + 1 \notin on BY <2>1, <2>4
        <3>2. \A j \in on : n + 2 <= j BY <2>2, <3>1
        <3> QED BY <2>1, <2>4, <3>2 DEF IsFirst
    <2>5. ASSUME group = "proxy" PROVE IsFirst(on, n + 3)
        <3>1. n + 1 \notin on /\ n + 2 \notin on BY <2>1, <2>5
        <3>2. \A j \in on : n + 3 <= j BY <2>2, <3>1
        <3> QED BY <2>1, <2>5, <3>2 DEF IsFirst
    <2> QED BY <2>3, <2>4, <2>5
<1>5. ASSUME o = 0, group = None, NEW j \in on
      PROVE  j \in {n + 4, n + 5, n + 6} \/ \E i \in 1 .. m : j = n + 6 + i
    <2>1. n + 1 \notin on /\ n + 2 \notin on /\ n + 3 \notin on
        BY <1>5 DEF Settled, None
    <2> QED BY <1>1, <1>3, <1>5, <2>1
<1>6. ASSUME o = 0, group = None
      PROVE  /\ named = {"block"} => IsFirst(on, n + 4)
             /\ named = {"direct"} => IsFirst(on, n + 5)
             /\ named = {"proxy"} => IsFirst(on, n + 6)
    <2>1. /\ n + 4 \in on <=> "block" \in named
          /\ n + 5 \in on <=> "direct" \in named
          /\ n + 6 \in on <=> "proxy" \in named
        BY DEF Settled
    <2>2. ASSUME NEW j \in on
          PROVE  j \in Nat /\ (j \in {n + 4, n + 5, n + 6} \/ j >= n + 7)
        BY <1>5, <1>6
    <2>3. ASSUME named = {"block"} PROVE IsFirst(on, n + 4)
        <3>1. \A j \in on : n + 4 <= j BY <2>2
        <3> QED BY <2>1, <2>3, <3>1 DEF IsFirst
    <2>4. ASSUME named = {"direct"} PROVE IsFirst(on, n + 5)
        <3>1. n + 4 \notin on BY <2>1, <2>4
        <3>2. \A j \in on : n + 5 <= j BY <2>2, <3>1
        <3> QED BY <2>1, <2>4, <3>2 DEF IsFirst
    <2>5. ASSUME named = {"proxy"} PROVE IsFirst(on, n + 6)
        <3>1. n + 4 \notin on /\ n + 5 \notin on BY <2>1, <2>5
        <3>2. \A j \in on : n + 6 <= j BY <2>2, <3>1
        <3> QED BY <2>1, <2>5, <3>2 DEF IsFirst
    <2> QED BY <2>3, <2>4, <2>5
<1>7. ASSUME o = 0, group = None, named = {}, NEW j \in on
      PROVE  \E i \in 1 .. m : j = n + 6 + i
    <2>1. n + 4 \notin on /\ n + 5 \notin on /\ n + 6 \notin on BY <1>7 DEF Settled
    <2> QED BY <1>5, <1>7, <2>1
<1>8. ASSUME o = 0, group = None, named = {}, a # 0 PROVE IsFirst(on, n + 6 + a)
    <2>1. a \in 1 .. m /\ n + 6 + a \in on
          /\ \A i \in 1 .. m : n + 6 + i \in on => a <= i
        BY <1>8 DEF Settled
    <2>2. ASSUME NEW j \in on PROVE n + 6 + a <= j
        <3>1. PICK i \in 1 .. m : j = n + 6 + i BY <1>7, <1>8
        <3>2. a <= i BY <2>1, <3>1
        <3> QED BY <2>1, <3>1, <3>2
    <2> QED BY <2>1, <2>2 DEF IsFirst
<1>9. ASSUME o = 0, group = None, named = {}, a = 0 PROVE on = {}
    <2>1. \A i \in 1 .. m : n + 6 + i \notin on BY <1>9 DEF Settled
    <2> QED BY <1>7, <1>9, <2>1
<1> QED BY <1>2, <1>4, <1>6, <1>8, <1>9

\* What the entries do.
Does(chain, s, n, m, o, a) ==
    /\ o # 0 => chain[o].action = s.overrides[o].action
    /\ chain[n + 1].action = "block" /\ chain[n + 2].action = "direct"
    /\ chain[n + 3].action = "proxy" /\ chain[n + 4].action = "block"
    /\ chain[n + 5].action = "direct" /\ chain[n + 6].action = "proxy"
    /\ a # 0 => chain[n + 6 + a].action = s.addresses[a].action

\* The entries that settle a packet of the chain, and what they do to it.
LEMMA SettledByChain ==
    ASSUME NEW s, NEW sets, NEW n \in Nat, NEW m \in Nat, NEW chain,
           Places(chain, s, sets, n, m),
           NEW address \in Addresses, NEW proto \in {"tcp", "quic"}, NEW group \in Groups,
           NEW packet, packet.to = address, packet.proto = proto, packet.group = group,
           NEW o, Heads(o, s.overrides, n, address),
           NEW a, Heads(a, s.addresses, m, address),
           NEW on, on = Settling(chain, packet), NEW named, named = Named(sets, address)
    PROVE  /\ Settled(on, n, m, o, a, group, named)
           /\ Does(chain, s, n, m, o, a)
<1>1. ASSUME NEW j, NEW to, NEW groups, NEW x, j \in 1 .. n + 6 + m,
             chain[j] = Entry(to, groups, x)
      PROVE  j \in on <=> address \in to /\ group \in groups
    <2>1. j \in DOMAIN chain BY <1>1 DEF Places
    <2>2. Settles(Entry(to, groups, x), packet) <=> address \in to /\ group \in groups
        BY DEF Settles, Entry
    <2> QED BY <1>1, <2>1, <2>2 DEF Settling
<1>2. \A i \in 1 .. n : i \in 1 .. n + 6 + m OBVIOUS
<1>3. \A i \in 1 .. m : n + 6 + i \in 1 .. n + 6 + m OBVIOUS
<1>4. /\ n + 1 \in 1 .. n + 6 + m /\ n + 2 \in 1 .. n + 6 + m
      /\ n + 3 \in 1 .. n + 6 + m /\ n + 4 \in 1 .. n + 6 + m
      /\ n + 5 \in 1 .. n + 6 + m /\ n + 6 \in 1 .. n + 6 + m
    OBVIOUS
<1>5. ASSUME NEW i \in 1 .. n PROVE i \in on <=> address \in s.overrides[i].network
    <2>1. chain[i] = Entry(s.overrides[i].network, Groups, s.overrides[i].action)
        BY DEF Places
    <2> QED BY <1>1, <1>2, <2>1
<1>6. ASSUME NEW i \in 1 .. m
      PROVE  n + 6 + i \in on <=> address \in s.addresses[i].network
    <2>1. chain[n + 6 + i] = Entry(s.addresses[i].network, Groups, s.addresses[i].action)
        BY DEF Places
    <2> QED BY <1>1, <1>3, <2>1
<1>7. n + 1 \in on <=> group = "block"
    <2>1. chain[n + 1] = Entry(Addresses, {"block"}, "block") BY DEF Places
    <2>2. n + 1 \in on <=> address \in Addresses /\ group \in {"block"}
        BY <1>1, <1>4, <2>1
    <2> QED BY <2>2
<1>8. n + 2 \in on <=> group = "direct"
    <2>1. chain[n + 2] = Entry(Addresses, {"direct"}, "direct") BY DEF Places
    <2>2. n + 2 \in on <=> address \in Addresses /\ group \in {"direct"}
        BY <1>1, <1>4, <2>1
    <2> QED BY <2>2
<1>9. n + 3 \in on <=> group = "proxy"
    <2>1. chain[n + 3] = Entry(Addresses, {"proxy"}, "proxy") BY DEF Places
    <2>2. n + 3 \in on <=> address \in Addresses /\ group \in {"proxy"}
        BY <1>1, <1>4, <2>1
    <2> QED BY <2>2
<1>10. n + 4 \in on <=> "block" \in named
    <2>1. chain[n + 4] = Entry(sets["block"], Groups, "block") BY DEF Places
    <2>2. n + 4 \in on <=> address \in sets["block"] BY <1>1, <1>4, <2>1
    <2> QED BY <2>2 DEF Action, Named
<1>11. n + 5 \in on <=> "direct" \in named
    <2>1. chain[n + 5] = Entry(sets["direct"], Groups, "direct") BY DEF Places
    <2>2. n + 5 \in on <=> address \in sets["direct"] BY <1>1, <1>4, <2>1
    <2> QED BY <2>2 DEF Action, Named
<1>12. n + 6 \in on <=> "proxy" \in named
    <2>1. chain[n + 6] = Entry(sets["proxy"], Groups, "proxy") BY DEF Places
    <2>2. n + 6 \in on <=> address \in sets["proxy"] BY <1>1, <1>4, <2>1
    <2> QED BY <2>2 DEF Action, Named
<1>13. on \subseteq 1 .. n + 6 + m BY DEF Places, Settling
<1>14. /\ o = 0 => \A i \in 1 .. n : i \notin on
       /\ o # 0 => o \in 1 .. n /\ o \in on /\ \A i \in 1 .. n : i \in on => o <= i
    BY <1>5 DEF Heads
<1>15. a = 0 => \A i \in 1 .. m : n + 6 + i \notin on BY <1>6 DEF Heads
<1>16. a # 0 => /\ a \in 1 .. m /\ n + 6 + a \in on
                /\ \A i \in 1 .. m : n + 6 + i \in on => a <= i
    BY <1>6 DEF Heads
<1>17. Settled(on, n, m, o, a, group, named)
    BY <1>7, <1>8, <1>9, <1>10, <1>11, <1>12, <1>13, <1>14, <1>15, <1>16 DEF Settled
<1>18. o # 0 => chain[o].action = s.overrides[o].action
    <2> SUFFICES ASSUME o # 0 PROVE chain[o].action = s.overrides[o].action OBVIOUS
    <2>1. o \in 1 .. n BY DEF Heads
    <2>2. chain[o] = Entry(s.overrides[o].network, Groups, s.overrides[o].action)
        BY <2>1 DEF Places
    <2> QED BY <2>2 DEF Entry
<1>19. a # 0 => chain[n + 6 + a].action = s.addresses[a].action
    <2> SUFFICES ASSUME a # 0 PROVE chain[n + 6 + a].action = s.addresses[a].action
        OBVIOUS
    <2>1. a \in 1 .. m BY DEF Heads
    <2>2. chain[n + 6 + a] = Entry(s.addresses[a].network, Groups, s.addresses[a].action)
        BY <2>1 DEF Places
    <2> QED BY <2>2 DEF Entry
<1>20. /\ chain[n + 1].action = "block" /\ chain[n + 2].action = "direct"
       /\ chain[n + 3].action = "proxy" /\ chain[n + 4].action = "block"
       /\ chain[n + 5].action = "direct" /\ chain[n + 6].action = "proxy"
    BY DEF Places, Entry
<1> QED BY <1>17, <1>18, <1>19, <1>20 DEF Does

\* The verdict on a packet, from what the first entry that settles it does.
LEMMA VerdictOfChain ==
    ASSUME NEW s \in Settings, NEW sets \in [Action -> SUBSET Addresses], NEW packet,
           packet.to \notin Passed \cup Virtual,
           NEW chain, chain = Chain(s, sets), NEW k \in Nat, DOMAIN chain = 1 .. k,
           NEW on, on = Settling(chain, packet)
    PROVE  /\ \A i \in on : IsFirst(on, i) =>
                Verdict(s, sets, packet) = Treat(chain[i].action, packet.proto)
           /\ on = {} => Verdict(s, sets, packet) = ByDefault(s.default, packet.proto)
<1>1. ASSUME NEW i \in on, IsFirst(on, i)
      PROVE  Verdict(s, sets, packet) = Treat(chain[i].action, packet.proto)
    <2>1. i \in 1 .. k /\ Settles(chain[i], packet)
          /\ \A j \in 1 .. k : Settles(chain[j], packet) => i <= j
        BY <1>1 DEF IsFirst, Settling
    <2> QED BY <2>1, VerdictOfFirst
<1>2. ASSUME on = {}
      PROVE  Verdict(s, sets, packet) = ByDefault(s.default, packet.proto)
    <2>1. \A j \in DOMAIN Chain(s, sets) : ~Settles(Chain(s, sets)[j], packet)
        BY <1>2 DEF Settling
    <2> QED BY <2>1, VerdictOfNone
<1> QED BY <1>1, <1>2

\* The address is in the set of the domain's action, if that is by a rule, and in
\* no other.
ByItself(s, sets, domain, address) ==
    \A x \in Action : (address \in sets[x]) <=>
        (Ruled(s, domain) /\ DomainDecision(s, domain).action = x)

\* The chain of the kernel does with a connection what the engine decides for
\* it: for all settings with one rule for each program, for a program with or
\* without a rule, and an address that is in no domain set but that of its
\* domain.  The sets of the kernel and the maps of the engine are filled by
\* different code (system.rs:198-330, routing.rs:118-209).
THEOREM ChainIsEngine ==
    ASSUME NEW s \in Settings, OneForEach(s.programs),
           NEW sets \in [Action -> SUBSET Addresses],
           NEW domain \in Seq(Labels) \ {<<>>}, NEW address \in Addresses \ (Passed \cup Virtual),
           NEW program \in Programs \cup {None}, NEW proto \in {"tcp", "quic"},
           ByItself(s, sets, domain, address),
           NEW flow, flow = [to |-> address, domain |-> domain, program |-> program],
           NEW packet, packet = [to |-> address, proto |-> proto, group |-> GroupOf(s, program)],
           proto = "quic" => Decide(s, flow).action = "proxy"
    PROVE  Verdict(s, sets, packet) = Treat(Decide(s, flow).action, proto)
<1>1. s.overrides \in Seq(AddressRule) /\ s.addresses \in Seq(AddressRule)
      /\ s.default \in Action
    BY DEF Settings
<1>2. PICK n \in Nat, m \in Nat : n = Len(s.overrides) /\ m = Len(s.addresses)
    BY <1>1
<1>3. PICK o, p, d, a :
            /\ o = FirstCovering(s.overrides, address)
            /\ p = FirstAbout(s.programs, program)
            /\ d = MatchDomain(s.domains, domain)
            /\ a = FirstCovering(s.addresses, address)
    OBVIOUS
<1> DEFINE action == Decide(s, flow).action
<1>4. action = IF o # 0 THEN s.overrides[o].action
               ELSE IF p # 0 THEN s.programs[p].action
               ELSE IF domain \in Unreal THEN "direct"
               ELSE IF d # 0 THEN s.domains[d].action
               ELSE IF a # 0 THEN s.addresses[a].action
               ELSE s.default
    BY <1>3 DEF Decide
<1> HIDE DEF action
<1>5. PICK group : group = GroupOf(s, program) OBVIOUS
<1>6. group \in Groups /\ (p # 0 => group = s.programs[p].action /\ group \in Action)
      /\ (p = 0 => group = None)
    BY <1>3, <1>5, GroupIsRule DEF Groups
<1>7. packet = [to |-> address, proto |-> proto, group |-> group] BY <1>5
<1>8. PICK chain : chain = Chain(s, sets) OBVIOUS
<1>9. Places(chain, s, sets, n, m) BY <1>2, <1>8, ChainPlaces
<1>10. PICK on : on = Settling(chain, packet) OBVIOUS
<1>11. PICK named : named = Named(sets, address) OBVIOUS
<1>12. Heads(o, s.overrides, n, address) BY <1>1, <1>2, <1>3, CoveringFirst
<1>13. Heads(a, s.addresses, m, address) BY <1>1, <1>2, <1>3, CoveringFirst
<1>14. named = IF domain \in Unreal THEN {"direct"}
               ELSE IF d # 0 THEN {s.domains[d].action} ELSE {}
    <2>1. DomainDecision(s, domain) =
              IF domain \in Unreal THEN [action |-> "direct", source |-> "override"]
              ELSE IF d # 0 THEN [action |-> s.domains[d].action, source |-> "domain"]
              ELSE [action |-> s.default, source |-> "default"]
        BY <1>3, DomainAlone
    <2>2. Ruled(s, domain) <=> domain \in Unreal \/ d # 0 BY <2>1 DEF Ruled
    <2>3. d # 0 /\ domain \notin Unreal => s.domains[d].action \in Action
        BY <1>3, DomainRuleFound
    <2>4. \A x \in Action : address \in sets[x] <=>
                \/ domain \in Unreal /\ x = "direct"
                \/ domain \notin Unreal /\ d # 0 /\ s.domains[d].action = x
        BY <2>1, <2>2 DEF ByItself
    <2>5. "direct" \in Action BY DEF Action
    <2> QED BY <1>11, <2>3, <2>4, <2>5 DEF Named
<1>15. Settled(on, n, m, o, a, group, named) /\ Does(chain, s, n, m, o, a)
    <2>1. group \in Groups BY <1>6
    <2>2. packet.to = address /\ packet.proto = proto /\ packet.group = group BY <1>7
    <2> QED BY <2>2, <1>9, <1>10, <1>11, <1>12, <1>13, <2>1, SettledByChain
<1>16. /\ o # 0 => IsFirst(on, o)
       /\ o = 0 /\ group = "block" => IsFirst(on, n + 1)
       /\ o = 0 /\ group = "direct" => IsFirst(on, n + 2)
       /\ o = 0 /\ group = "proxy" => IsFirst(on, n + 3)
       /\ o = 0 /\ group = None /\ named = {"block"} => IsFirst(on, n + 4)
       /\ o = 0 /\ group = None /\ named = {"direct"} => IsFirst(on, n + 5)
       /\ o = 0 /\ group = None /\ named = {"proxy"} => IsFirst(on, n + 6)
       /\ o = 0 /\ group = None /\ named = {} /\ a # 0 => IsFirst(on, n + 6 + a)
       /\ o = 0 /\ group = None /\ named = {} /\ a = 0 => on = {}
    BY <1>15, FirstOfChain
<1>17. /\ \A i \in on : IsFirst(on, i) =>
                Verdict(s, sets, packet) = Treat(chain[i].action, proto)
       /\ on = {} => Verdict(s, sets, packet) = ByDefault(s.default, proto)
    <2>1. PICK k \in Nat : DOMAIN chain = 1 .. k
        <3>1. n + 6 + m \in Nat OBVIOUS
        <3> QED BY <1>9, <3>1 DEF Places
    <2>2. packet.to \notin Passed \cup Virtual /\ packet.proto = proto BY <1>7
    <2> QED BY <1>8, <1>10, <2>1, <2>2, VerdictOfChain
<1>18. ASSUME NEW i, IsFirst(on, i), chain[i].action = action
       PROVE  Verdict(s, sets, packet) = Treat(action, proto)
    BY <1>17, <1>18 DEF IsFirst
<1>19. /\ o # 0 => chain[o].action = s.overrides[o].action
       /\ chain[n + 1].action = "block" /\ chain[n + 2].action = "direct"
       /\ chain[n + 3].action = "proxy" /\ chain[n + 4].action = "block"
       /\ chain[n + 5].action = "direct" /\ chain[n + 6].action = "proxy"
       /\ a # 0 => chain[n + 6 + a].action = s.addresses[a].action
    BY <1>15 DEF Does
<1>20. Verdict(s, sets, packet) = Treat(action, proto)
    <2>1. CASE o # 0 BY <1>4, <1>16, <1>18, <1>19, <2>1
    <2>2. CASE o = 0 /\ p # 0
        <3>1. action = group /\ group \in {"block", "direct", "proxy"}
            BY <1>4, <1>6, <2>2 DEF Action
        <3> QED BY <1>16, <1>18, <1>19, <2>2, <3>1
    <2>3. CASE o = 0 /\ p = 0 /\ (domain \in Unreal \/ d # 0)
        <3>1. named = {action} /\ action \in {"block", "direct", "proxy"}
            <4>1. d # 0 /\ domain \notin Unreal => s.domains[d].action \in Action
                BY <1>3, DomainRuleFound
            <4> QED BY <1>4, <1>14, <2>3, <4>1 DEF Action
        <3>2. group = None BY <1>6, <2>3
        <3> QED BY <1>16, <1>18, <1>19, <2>3, <3>1, <3>2
    <2>4. CASE o = 0 /\ p = 0 /\ domain \notin Unreal /\ d = 0
        <3>1. named = {} /\ group = None BY <1>6, <1>14, <2>4
        <3>2. CASE a # 0
            <4>1. action = s.addresses[a].action BY <1>4, <2>4, <3>2
            <4> QED BY <1>16, <1>18, <1>19, <2>4, <3>1, <3>2, <4>1
        <3>3. CASE a = 0
            <4>1. action = s.default /\ on = {} BY <1>4, <1>16, <2>4, <3>1, <3>3
            <4>2. ByDefault(s.default, proto) = Treat(action, proto)
                BY <4>1 DEF ByDefault, Treat, action
            <4> QED BY <1>17, <4>1, <4>2
        <3> QED BY <3>2, <3>3
    <2> QED BY <2>1, <2>2, <2>3, <2>4
<1> QED BY <1>20 DEF action

=============================================================================
