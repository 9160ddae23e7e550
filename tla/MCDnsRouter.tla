------------------------------ MODULE MCDnsRouter ------------------------------
(* The instance that TLC checks. *)
EXTENDS DnsRouter

MCUnreal == {<<"localhost">>}

Site == <<"site">>
Shop == <<"shop", "site">>
Other == <<"other">>

MCDomains == {Site, Shop, Other}
\* A network for content delivery serves Shop and Other from the same address.
MCResolves == [d \in MCDomains |->
    CASE d = Site -> {"origin"} [] d = Shop -> {"cdn"} [] OTHER -> {"cdn", "lan"}]

Domain(pattern, kind, action) == [pattern |-> pattern, kind |-> kind, action |-> action]
Net(network, action) == [network |-> network, action |-> action]

Travel == [
    overrides |-> <<Net({"lan"}, "block")>>,
    programs |-> <<[program |-> "browser", action |-> "direct"]>>,
    domains |-> <<Domain(<<>>, "suffix", "block"), Domain(Site, "suffix", "proxy"),
                  Domain(<<"shop">>, "keyword", "block")>>,
    addresses |-> <<Net({"origin"}, "block"), Net({"cdn"}, "direct")>>,
    default |-> "proxy", ipv6 |-> FALSE]

Home == [
    overrides |-> <<>>,
    programs |-> <<>>,
    domains |-> <<Domain(<<"shop">>, "keyword", "direct"), Domain(Site, "suffix", "block"),
                  Domain(Site, "domain", "proxy")>>,
    addresses |-> <<Net({"cdn"}, "proxy")>>,
    default |-> "direct", ipv6 |-> TRUE]

\* Home after a visit to the page of programs.
Quiet == [Home EXCEPT !.programs = <<[program |-> "player", action |-> "block"]>>]

MCConfigs == {Travel, Home, Quiet}

=============================================================================
