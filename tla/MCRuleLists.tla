------------------------------ MODULE MCRuleLists ------------------------------
(* The instance that TLC checks. *)
EXTENDS RuleLists

R(target, action) == [is |-> "rule", target |-> target, action |-> action]
B(target) == [is |-> "bypass", target |-> target]
S(set, action) == [is |-> "set", set |-> set, action |-> action]
F(action) == [is |-> "final", action |-> action]
Other == [is |-> "other"]

MCRows == <<"browser">>
\* The second source has nothing but rule sets, one more than are read.
MCContents == [x \in Urls \cup References |->
    CASE x = "home" -> <<B("shop"), S("trackers", "block"), R("shop", "block"), F("block")>>
      [] x = "work" -> <<S("trackers", "proxy"), S("shops", "block"), S("more", "direct"), Other>>
      [] x = "trackers" -> <<R("ads", "direct"), R("shop", "direct"), F("block")>>
      [] x = "shops" -> <<R("shop", "proxy"), R("shop", "direct"), S("more", "block")>>
      [] OTHER -> <<R("ads", "proxy")>>]

C(is, target, action) == [is |-> is, target |-> target, action |-> action]
MCBackups == {<<C("url", "ads", "block"), C("bypass", "shop", "block"), C("host", "ads", "proxy")>>}

MCQueries == {Rule, {rule \in Rule : rule.target = "ads"}}

Fresh == [custom |-> <<>>, imported |-> <<>>, programs |-> <<>>, default |-> "proxy",
          source |-> None]
Used == [Fresh EXCEPT
            !.custom = <<[target |-> "ads", action |-> "block"],
                         [target |-> "shop", action |-> "proxy"]>>,
            !.programs = <<[program |-> "browser", path |-> FALSE, action |-> "proxy"]>>]
MCStarts == {Fresh, Used}

=============================================================================
