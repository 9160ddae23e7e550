------------------------------- MODULE RuleLists -------------------------------
(***************************************************************************)
(* The rules of the configuration as the window keeps them: the user's own *)
(* list, the list imported from a source, the rules for programs and the   *)
(* default policy, with the pages that show them (app/rules.rs,            *)
(* ui/rules_view.rs, rule_manager.rs) and the importer (rule_importer.rs). *)
(*                                                                         *)
(* Handlers run one at a time on the thread of GTK.  An import runs on a   *)
(* thread of its own and reports through the channel of events.  A target  *)
(* is the key of a rule: pattern and kind for a domain, the network for    *)
(* addresses; the two lists the code keeps are treated alike and are one   *)
(* here.  What the file holds after a save is the matter of RuleSync; here *)
(* a save succeeds or fails, and the handlers that look do one or the      *)
(* other.                                                                  *)
(***************************************************************************)
EXTENDS Naturals, SequencesExt

CONSTANTS
    Targets,        \* what rules of the lists are about
    Rows,           \* the installed programs, in the order of their rows
    Urls,           \* sources of rules
    References,     \* rule sets that sources refer to
    Contents,       \* the lines of each source and rule set
    Backups,        \* what files of SwitchyOmega hold
    Queries,        \* the rules that a text in a search field matches
    Starts,         \* configurations the program starts with
    Importers,      \* bound: the threads that import
    RuleSetLimit,   \* 8: the rule sets of a source that are read
    Batch,          \* rows that are added to a page at a time
    MaxEdits,       \* bound: how often the user does something
    MaxPrograms     \* bound: the length of the list of programs

Action == {"proxy", "direct", "block"}
Rule == [target : Targets, action : Action]
Programs == Range(Rows)
\* A rule for a program names the file, or the path if the user typed one.
ProgramRule == [program : Programs, path : BOOLEAN, action : Action]
None == "none"
Config == [custom : Seq(Rule), imported : Seq(Rule), programs : Seq(ProgramRule),
           default : Action, source : Urls \cup {None}]

\* Lines of a source or a rule set: a rule, a domain of [General] that is
\* not to be proxied, a reference to a rule set, the policy for the rest,
\* something that is not supported.
Line == [is : {"rule"}, target : Targets, action : Action]
            \cup [is : {"bypass"}, target : Targets]
            \cup [is : {"set"}, set : References, action : Action]
            \cup [is : {"final"}, action : Action]
            \cup [is : {"other"}]
\* A condition of a backup, with what its pattern means.
Condition == [is : {"host", "address", "bypass", "url"}, target : Targets, action : Action]
                \cup [is : {"other"}]

ASSUME RowsAssumption ==
    Rows \in Seq(Programs) /\ \A i, j \in DOMAIN Rows : Rows[i] = Rows[j] => i = j
ASSUME ContentsAssumption == \A u \in Urls \cup References : Contents[u] \in Seq(Line)
ASSUME BackupsAssumption == \A b \in Backups : b \in Seq(Condition)
ASSUME QueriesAssumption == Queries \subseteq SUBSET Rule /\ Rule \in Queries
ASSUME StartsAssumption == Starts \subseteq Config
ASSUME LimitsAssumption ==
    /\ RuleSetLimit \in Nat /\ Batch \in Nat \ {0}
    /\ MaxEdits \in Nat /\ MaxPrograms \in Nat
ASSUME NoneAssumption == None \notin Urls

-----------------------------------------------------------------------------
(* Lists of rules. *)

At(list, target) == {i \in DOMAIN list : list[i].target = target}

\* What is in S of a list, in its order (retain and filter).
Keep(list, S) ==
    FoldLeft(LAMBDA kept, x : IF x \in S THEN Append(kept, x) ELSE kept, <<>>, list)

Without(list, target) == Keep(list, {rule \in Rule : rule.target # target})

\* What the dialog and the blacklist do with a rule.
Put(list, rule) == Append(Without(list, rule.target), rule)

\* Mutant: a rule is added although there is one for the target.
PushTwice(list, rule) == Append(list, rule)

\* push_domain_rule and push_ip_rule, and the keys of merge: the first wins.
Push(list, rule) == IF At(list, rule.target) = {} THEN Append(list, rule) ELSE list

Of(target, action) == [target |-> target, action |-> action]

\* What importing has found so far.
Result == [rules : Seq(Rule), sets : Seq([set : References, action : Action]),
           default : Action]

ParseLine(result, line) ==
    CASE line.is = "rule" ->
            [result EXCEPT !.rules = Push(@, Of(line.target, line.action))]
      [] line.is = "bypass" ->
            [result EXCEPT !.rules = Push(@, Of(line.target, "direct"))]
      [] line.is = "set" ->
            [result EXCEPT !.sets = Append(@, [set |-> line.set, action |-> line.action])]
      [] line.is = "final" -> [result EXCEPT !.default = line.action]
      [] OTHER -> result

Parse(lines) ==
    FoldLeft(ParseLine, [rules |-> <<>>, sets |-> <<>>, default |-> "direct"], lines)

\* parse_rule_set and merge: every rule of a set has the action that the
\* source gives to the set; lines of other kinds have no effect.
Merge(rules, reference) ==
    FoldLeft(LAMBDA list, line :
                IF line.is = "rule" THEN Push(list, Of(line.target, reference.action)) ELSE list,
             rules, Contents[reference.set])

\* The list of a backup; BypassCondition is always direct.
ParseBackup(conditions) ==
    FoldLeft(LAMBDA list, c :
                CASE c.is = "other" -> list
                  [] c.is = "bypass" -> Push(list, Of(c.target, "direct"))
                  [] OTHER -> Push(list, Of(c.target, c.action)),
             <<>>, conditions)

\* Merging a backup changes the rule that is there, and keeps its place.
Overlaid(list, rule) ==
    IF At(list, rule.target) = {} THEN Append(list, rule)
    ELSE [list EXCEPT ![CHOOSE i \in At(list, rule.target) :
                            \A j \in At(list, rule.target) : i <= j].action = rule.action]

Overlay(list, rules) == FoldLeft(Overlaid, list, rules)

-----------------------------------------------------------------------------
(* Rules for programs. *)

About(c, program) == {i \in DOMAIN c.programs : c.programs[i].program = program}

CurrentAction(c, program) ==
    IF About(c, program) = {} THEN "direct"
    ELSE c.programs[CHOOSE i \in About(c, program) :
                        \A j \in About(c, program) : i <= j].action

Blocked(c, program) == CurrentAction(c, program) = "block"

Cleared(c, program) ==
    [c EXCEPT !.programs = Keep(@, {rule \in ProgramRule : rule.program # program})]

With(c, program, path, action) ==
    [c EXCEPT !.programs = Append(@, [program |-> program, path |-> path, action |-> action])]

\* set_app_action, as the row of a program uses it.
Chosen(c, program, action) ==
    IF CurrentAction(c, program) = action THEN c
    ELSE With(Cleared(c, program), program, FALSE, action)

\* Mutant: the row is not put back to what it had selected.
RelabelledShort(c, program, selected, resets) ==
    IF resets THEN Chosen(c, program, "direct") ELSE c

\* A row that is given its labels anew selects the first, which the handler
\* may hear of, then what it had selected before.
Relabelled(c, program, selected, resets) ==
    LET first == IF resets THEN Chosen(c, program, "direct") ELSE c
    IN IF selected = "direct" THEN first ELSE Chosen(first, program, selected)

\* The rows of all programs, one after the other.
RelabelledRows(c, selected, resets) ==
    FoldLeft(LAMBDA d, p : Relabelled(d, p, selected[p], resets), c, Rows)

-----------------------------------------------------------------------------
(* The state. *)

VARIABLES
    config,     \* the configuration in memory
    view,       \* the pages of the two lists
    blacklist,  \* the page of what is blocked
    switches,   \* its switches for installed programs
    combos,     \* what the rows of programs have selected
    policyRow,  \* what the row of the default policy has selected
    stale,      \* history: a handler changed the lists and left the pages alone
    sensitive,  \* the buttons that import
    importer,   \* the threads that import
    events,     \* what they sent to the window
    edits       \* how often the user did something

pageVars == <<view, blacklist, switches, stale>>
rowVars == <<combos, policyRow>>
importVars == <<sensitive, importer, events>>
vars == <<config, pageVars, rowVars, importVars, edits>>

Lists == {"custom", "imported"}
Idle == [at |-> "idle"]
Importer == {Idle} \cup [at : {"source"}, url : Urls]
                \cup [at : {"sets"}, url : Urls, result : Result]
Event == [is : {"failed"}] \cup [is : {"imported"}, url : Urls, result : Result]

\* The shape of the state.
TypeOK ==
    /\ config \in Config
    /\ view \in [Lists -> [query : Queries, rows : Seq(Rule), loaded : Nat]]
    /\ blacklist \in [programs : Seq(Programs), targets : Seq(Targets)]
    /\ switches \in [Programs -> BOOLEAN]
    /\ combos \in [Programs -> Action]
    /\ policyRow \in Action
    /\ stale \in BOOLEAN /\ sensitive \in BOOLEAN
    /\ importer \in [Importers -> Importer]
    /\ events \in Seq(Event)
    /\ edits \in 0 .. MaxEdits

Least(m, n) == IF m < n THEN m ELSE n

Matching(rules, query) == Keep(rules, query)

\* refresh_rule_list: the rules that match, of which a batch is shown.
Page(rules, query) ==
    LET rows == Matching(rules, query)
    IN [query |-> query, rows |-> rows, loaded |-> Least(Batch, Len(rows))]

Pages(c) == [list \in Lists |-> Page(c[list], view[list].query)]

Blacklist(c) ==
    LET programs == Keep(c.programs, {rule \in ProgramRule : rule.action = "block"})
        rules == Keep(c.custom, {rule \in Rule : rule.action = "block"})
    IN [programs |-> [i \in DOMAIN programs |-> programs[i].program],
        targets |-> [i \in DOMAIN rules |-> rules[i].target]]

Switches(c) == [p \in Programs |-> Blocked(c, p)]

Init ==
    /\ config \in Starts
    /\ view = [list \in Lists |-> Page(config[list], Rule)]
    /\ blacklist = Blacklist(config)
    /\ switches = Switches(config)
    /\ combos = [p \in Programs |-> CurrentAction(config, p)]
    /\ policyRow = config.default
    /\ stale = FALSE
    /\ sensitive = TRUE
    /\ importer = [i \in Importers |-> Idle]
    /\ events = <<>>
    /\ edits = 0

RefreshBlocked(c) == blacklist' = Blacklist(c) /\ switches' = Switches(c)

RefreshRules(c) == view' = Pages(c) /\ RefreshBlocked(c) /\ stale' = FALSE

User == edits < MaxEdits /\ edits' = edits + 1

\* A handler that refreshes the pages if the configuration could be saved.
EditTo(c, saved) ==
    /\ config' = c
    /\ IF saved THEN RefreshRules(c)
       ELSE stale' = TRUE /\ UNCHANGED <<view, blacklist, switches>>
    /\ UNCHANGED <<rowVars, importVars>>

\* Mutant: the handler of the blacklist does not refresh the lists of rules.
BlockToShort(c) ==
    /\ config' = c /\ RefreshBlocked(c)
    /\ UNCHANGED <<view, stale, rowVars, importVars>>

\* A handler of the blacklist, which does not ask whether it could be saved.
BlockTo(c) ==
    /\ config' = c
    /\ RefreshRules(c)
    /\ UNCHANGED <<rowVars, importVars>>

-----------------------------------------------------------------------------
(* The user's own rules. *)

Loaded(list) == {view[list].rows[i] : i \in 1 .. view[list].loaded}

\* show_rule_dialog for a new rule, and from the buttons that add one.
AddRule(target, action, saved) ==
    /\ User
    /\ EditTo([config EXCEPT !.custom = Put(@, Of(target, action))], saved)

\* show_rule_dialog for a rule of the page, which may be gone by now.
EditRule(rule, target, action, saved) ==
    /\ User /\ rule \in Loaded("custom")
    /\ EditTo([config EXCEPT !.custom = Put(Without(@, rule.target), Of(target, action))], saved)

RemoveRule(rule, saved) ==
    /\ User /\ rule \in Loaded("custom")
    /\ EditTo([config EXCEPT !.custom = Without(@, rule.target)], saved)

ClearRules(saved) ==
    /\ User
    /\ EditTo([config EXCEPT !.custom = <<>>], saved)

\* A backup that has no rules is refused.
ReadBackup(backup, way, saved) ==
    LET rules == ParseBackup(backup)
    IN /\ User /\ rules # <<>>
       /\ EditTo([config EXCEPT !.custom =
                    IF way = "replace" THEN rules ELSE Overlay(@, rules)], saved)

\* The search fields refresh all pages.
Search(list, query) ==
    /\ User
    /\ view' = [l \in Lists |-> Page(config[l], IF l = list THEN query ELSE view[l].query)]
    /\ RefreshBlocked(config) /\ stale' = FALSE
    /\ UNCHANGED <<config, rowVars, importVars>>

\* append_rule_batch, from the button or from scrolling.
LoadMore(list) ==
    /\ view' = [view EXCEPT ![list].loaded = Least(@ + Batch, Len(view[list].rows))]
    /\ UNCHANGED <<config, blacklist, switches, stale, rowVars, importVars, edits>>

-----------------------------------------------------------------------------
(* The blacklist. *)

\* on_add_proc: the list is searched for a file of the name that was typed,
\* which a path never is.
AddProgram(program, path) ==
    /\ User /\ Len(config.programs) < MaxPrograms
    /\ BlockTo(With(IF path THEN config ELSE Cleared(config, program),
                    program, path, "block"))

DeleteProgram(program) ==
    /\ User /\ program \in Range(blacklist.programs)
    /\ BlockTo(Cleared(config, program))

\* on_add_target
AddTarget(target) ==
    /\ User
    /\ BlockTo([config EXCEPT !.custom = Put(@, Of(target, "block"))])

DeleteTarget(target) ==
    /\ User /\ target \in Range(blacklist.targets)
    /\ BlockTo([config EXCEPT !.custom = Without(@, target)])

\* The switch of an installed program; switching back what a refresh has set
\* comes here too, and does nothing.
ToggleSwitch(program) ==
    LET on == ~switches[program]
    IN /\ User
       /\ IF on = Blocked(config, program)
          THEN /\ switches' = [switches EXCEPT ![program] = on]
               /\ UNCHANGED <<config, view, blacklist, stale, rowVars, importVars>>
          ELSE BlockTo(IF on THEN With(Cleared(config, program), program, FALSE, "block")
                       ELSE Cleared(config, program))

-----------------------------------------------------------------------------
(* The rows of programs and of the default policy. *)

\* The user selects an action in the row of a program.
SelectAction(program, action) ==
    LET c == Chosen(config, program, action)
    IN /\ User /\ combos[program] # action
       /\ combos' = [combos EXCEPT ![program] = action]
       /\ config' = c
       /\ IF CurrentAction(config, program) = action
          THEN UNCHANGED <<blacklist, switches>>
          ELSE RefreshBlocked(c)
       /\ UNCHANGED <<view, stale, policyRow, importVars>>

SelectPolicy(policy) ==
    /\ User /\ policyRow # policy
    /\ policyRow' = policy
    /\ config' = [config EXCEPT !.default = policy]
    /\ UNCHANGED <<pageVars, combos, importVars>>

\* The same from the menu of the tray, which then sets the row.
SelectTrayPolicy(policy) ==
    /\ User /\ config.default # policy
    /\ config' = [config EXCEPT !.default = policy]
    /\ policyRow' = policy
    /\ UNCHANGED <<pageVars, combos, importVars>>

\* RulesView::refresh_labels.  External: whether a row tells its handler of
\* the selection that new labels bring.
ChangeLanguage(resets) ==
    LET c == RelabelledRows(config, combos, resets)
        heard == \E p \in Programs :
                    \/ resets /\ CurrentAction(config, p) # "direct"
                    \/ combos[p] # "direct" /\ combos[p] # CurrentAction(config, p)
    IN /\ User
       /\ config' = [c EXCEPT !.default =
                        IF resets \/ policyRow # "proxy" THEN policyRow ELSE @]
       /\ IF heard THEN RefreshBlocked(c) ELSE UNCHANGED <<blacklist, switches>>
       /\ UNCHANGED <<view, stale, rowVars, importVars>>

-----------------------------------------------------------------------------
(* Imports. *)

Begin(url) ==
    /\ \E i \in Importers :
        /\ importer[i] = Idle
        /\ importer' = [importer EXCEPT ![i] = [at |-> "source", url |-> url]]
    /\ sensitive' = FALSE
    /\ UNCHANGED <<config, pageVars, rowVars, events>>

\* The dialog asks for a source; the button that opens it may be insensitive.
AskImport(url) == User /\ sensitive /\ Begin(url)

\* Mutant: nobody looks whether there is a source.
UpdateSourceAny == User /\ Begin(config.source)

\* The button of the page presses the hidden one, sensitive or not.
UpdateSource == User /\ config.source # None /\ Begin(config.source)

\* The thread ends with an event.
Report(i, event) ==
    /\ importer' = [importer EXCEPT ![i] = Idle]
    /\ events' = Append(events, event)

Download(i, answered) ==
    LET url == importer[i].url
        result == Parse(Contents[url])
    IN /\ importer[i].at = "source"
       /\ IF answered
          THEN /\ importer' = [importer EXCEPT ![i] =
                    [at |-> "sets", url |-> url,
                     result |-> [result EXCEPT !.sets =
                                    SubSeq(@, 1, Least(RuleSetLimit, Len(@)))]]]
               /\ UNCHANGED events
          ELSE Report(i, [is |-> "failed"])
       /\ UNCHANGED <<config, pageVars, rowVars, sensitive, edits>>

\* A rule set that cannot be read is left out.
ReadRuleSet(i, answered) ==
    /\ importer[i].at = "sets" /\ importer[i].result.sets # <<>>
    /\ importer' = [importer EXCEPT
            ![i].result.rules = IF answered THEN Merge(@, Head(importer[i].result.sets)) ELSE @,
            ![i].result.sets = Tail(@)]
    /\ UNCHANGED <<config, pageVars, rowVars, sensitive, events, edits>>

EndImport(i) ==
    /\ importer[i].at = "sets" /\ importer[i].result.sets = <<>>
    /\ Report(i, IF importer[i].result.rules = <<>> THEN [is |-> "failed"]
                 ELSE [is |-> "imported", url |-> importer[i].url,
                       result |-> importer[i].result])
    /\ UNCHANGED <<config, pageVars, rowVars, sensitive, edits>>

TakeFailed ==
    /\ events # <<>> /\ Head(events).is = "failed"
    /\ events' = Tail(events)
    /\ sensitive' = TRUE
    /\ UNCHANGED <<config, pageVars, rowVars, importer, edits>>

\* Mutant: nobody makes the buttons sensitive when the rules cannot be saved.
TakeImportedStuck(saved) ==
    LET event == Head(events)
        c == [config EXCEPT !.imported = event.result.rules,
                            !.default = event.result.default, !.source = event.url]
    IN /\ events # <<>> /\ Head(events).is = "imported"
       /\ events' = Tail(events)
       /\ config' = c
       /\ IF saved
          THEN RefreshRules(c) /\ policyRow' = c.default /\ sensitive' = TRUE
          ELSE stale' = TRUE /\ UNCHANGED <<view, blacklist, switches, policyRow, sensitive>>
       /\ UNCHANGED <<combos, importer, edits>>

\* Mutant: the source is only noted once its rules are saved.
TakeImportedLate(saved) ==
    LET event == Head(events)
        c == [config EXCEPT !.imported = event.result.rules,
                            !.default = event.result.default,
                            !.source = IF saved THEN event.url ELSE @]
    IN /\ events # <<>> /\ Head(events).is = "imported"
       /\ events' = Tail(events)
       /\ config' = c
       /\ sensitive' = TRUE
       /\ IF saved THEN RefreshRules(c) /\ policyRow' = c.default
          ELSE stale' = TRUE /\ UNCHANGED <<view, blacklist, switches, policyRow>>
       /\ UNCHANGED <<combos, importer, edits>>

\* If it cannot be saved, the rules are in force in memory, and neither the
\* pages nor the row of the policy tell.
TakeImported(saved) ==
    LET event == Head(events)
        c == [config EXCEPT !.imported = event.result.rules,
                            !.default = event.result.default, !.source = event.url]
    IN /\ events # <<>> /\ Head(events).is = "imported"
       /\ events' = Tail(events)
       /\ config' = c
       /\ sensitive' = TRUE
       /\ IF saved THEN RefreshRules(c) /\ policyRow' = c.default
          ELSE stale' = TRUE /\ UNCHANGED <<view, blacklist, switches, policyRow>>
       /\ UNCHANGED <<combos, importer, edits>>

\* An error of the connection (Controller) makes the buttons sensitive too.
TakeError ==
    /\ sensitive' = TRUE
    /\ UNCHANGED <<config, pageVars, rowVars, importer, events, edits>>

\* The default policy of the source stays.
RemoveSource(saved) ==
    /\ User /\ config.source # None
    /\ EditTo([config EXCEPT !.imported = <<>>, !.source = None], saved)

-----------------------------------------------------------------------------

EditList ==
    \E saved \in BOOLEAN :
        \/ \E t \in Targets, a \in Action : AddRule(t, a, saved)
        \/ \E t \in Targets, a \in Action, rule \in Loaded("custom") :
                EditRule(rule, t, a, saved)
        \/ \E rule \in Loaded("custom") : RemoveRule(rule, saved)
        \/ ClearRules(saved)
        \/ \E b \in Backups, way \in {"replace", "merge"} : ReadBackup(b, way, saved)

EditBlacklist ==
    \/ \E p \in Programs : DeleteProgram(p) \/ ToggleSwitch(p)
    \/ \E p \in Programs, path \in BOOLEAN : AddProgram(p, path)
    \/ \E t \in Targets : AddTarget(t) \/ DeleteTarget(t)

SelectRow ==
    \/ \E p \in Programs, a \in Action : SelectAction(p, a)
    \/ \E a \in Action : SelectPolicy(a) \/ SelectTrayPolicy(a)
    \/ \E resets \in BOOLEAN : ChangeLanguage(resets)

Browse == \E list \in Lists : LoadMore(list) \/ \E q \in Queries : Search(list, q)

Ask ==
    \/ \E u \in Urls : AskImport(u)
    \/ UpdateSource
    \/ \E saved \in BOOLEAN : RemoveSource(saved)

Work(i) ==
    \/ \E answered \in BOOLEAN : Download(i, answered) \/ ReadRuleSet(i, answered)
    \/ EndImport(i)

Take == TakeFailed \/ \E saved \in BOOLEAN : TakeImported(saved)

Next ==
    \/ EditList \/ EditBlacklist \/ SelectRow \/ Browse
    \/ Ask \/ (\E i \in Importers : Work(i)) \/ Take \/ TakeError

Spec == Init /\ [][Next]_vars

\* curl has a limit of 120 s and a thread that imports has nothing else to
\* wait for; the timer of the window takes events for as long as it is open.
FairSpec == Spec /\ (\A i \in Importers : WF_vars(Work(i))) /\ WF_vars(Take)

-----------------------------------------------------------------------------
(* Properties. *)

\* No list has two rules for one target, and no program two rules by name.
OneRule(c) ==
    /\ \A list \in Lists : \A i, j \in DOMAIN c[list] :
            c[list][i].target = c[list][j].target => i = j
    /\ \A i, j \in DOMAIN c.programs :
            /\ c.programs[i].program = c.programs[j].program
            /\ ~c.programs[i].path /\ ~c.programs[j].path
            => i = j

\* Removing goes by target, and the first rule decides, so that a second one
\* would come back to life (rule_importer.rs:198-215, rules.rs:515-565).
OneRulePerTarget == OneRule(config)

\* What a source says of targets, in order, with its rule sets D.
Mentions(url, D) ==
    LET refs == Parse(Contents[url]).sets
        main == {i \in DOMAIN Contents[url] : Contents[url][i].is \in {"rule", "bypass"}}
    IN {[at |-> <<0, i>>, target |-> Contents[url][i].target,
         action |-> IF Contents[url][i].is = "rule" THEN Contents[url][i].action ELSE "direct"]
            : i \in main}
       \cup UNION {{[at |-> <<k, i>>, target |-> Contents[refs[k].set][i].target,
                     action |-> refs[k].action]
                        : i \in {j \in DOMAIN Contents[refs[k].set] :
                                    Contents[refs[k].set][j].is = "rule"}} : k \in D}

Before(x, y) == x[1] < y[1] \/ (x[1] = y[1] /\ x[2] < y[2])

\* Each target with the action of its first mention.
First(said) ==
    {Of(m.target, m.action) : m \in
        {m \in said : \A n \in said : n.target = m.target => ~Before(n.at, m.at)}}

\* How many of its rule sets are read.
Read(url) == Least(RuleSetLimit, Len(Parse(Contents[url]).sets))

SaidBy(url, rules) ==
    \E D \in SUBSET (1 .. Read(url)) : Range(rules) = First(Mentions(url, D))

\* No source, no rules.
FromSource(c) ==
    IF c.source = None THEN c.imported = <<>> ELSE SaidBy(c.source, c.imported)

\* The imported rules are those of the source that is shown, even when
\* imports overtake one another or cannot be saved: each target has the
\* action with which the source mentions it first, in its own lines, then in
\* those of its first rule sets that could be read (rule_manager.rs:127-137,
\* rule_importer.rs:52-69).
ImportedFromSource == FromSource(config)

\* A configuration that is read at the start is empty or was saved by an
\* earlier run (config.rs:296-311), which had it in memory; what sources say
\* is taken to be the same then.
ASSUME SavedAssumption == \A c \in Starts : OneRule(c) /\ FromSource(c)

\* The pages show the configuration: the switches always, the lists and the
\* blacklist from the first refresh after a change that could not be saved
\* (rules.rs:115-200, 774-963).
PagesFollow ==
    /\ switches = Switches(config)
    /\ ~stale =>
        /\ blacklist = Blacklist(config)
        /\ \A list \in Lists :
            view[list].rows = Matching(config[list], view[list].query)

\* A program stays blocked until the user unblocks it, in its row, with its
\* switch or in the blacklist, or the language changes while its row shows
\* something else (rules_view.rs:485-493).
BlockKept ==
    [][\A p \in Programs :
        Blocked(config, p) /\ ~Blocked(config', p) =>
            \/ DeleteProgram(p) \/ ToggleSwitch(p)
            \/ \E a \in Action : SelectAction(p, a)
            \/ combos[p] # "block" /\ \E resets \in BOOLEAN : ChangeLanguage(resets)]_vars

\* The buttons that import become sensitive again, however an import ends
\* (event_loop.rs:370-421, mod.rs:903).
ButtonsReturn == ~sensitive ~> sensitive

=============================================================================
