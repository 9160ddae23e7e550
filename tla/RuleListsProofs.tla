---------------------------- MODULE RuleListsProofs ----------------------------
(***************************************************************************)
(* What holds of the lists of rules for any sources, rule sets, backups,   *)
(* programs and lengths of lists: one rule for a target, imported rules    *)
(* that are those of the source that is shown, pages that follow, and      *)
(* programs that stay blocked.                                             *)
(*                                                                         *)
(* What the lists hold is computed by folds.  FoldLeft is a function on    *)
(* the sets of places of a list; that there is one, and that it goes from  *)
(* each beginning of the list to the next, is shown first, from the least  *)
(* element that every set of numbers has.  Induction over the places is    *)
(* about the set of those for which something holds.                       *)
(***************************************************************************)
EXTENDS RuleLists, FiniteSetTheorems, SequenceTheorems, WellFoundedInduction, TLAPS

-----------------------------------------------------------------------------
(* Induction over places, and folds. *)

\* A set of numbers that is not empty has a least element: of the intervals up
\* to its elements, which are finite, one contains no other.
LEMMA HasLeast ==
    ASSUME NEW S \in SUBSET Nat, S # {}
    PROVE  \E i \in S : \A j \in S : i <= j
<1> DEFINE T == {0 .. i : i \in S}
<1>1. T \subseteq FiniteSubsetsOf(Nat)
    <2> SUFFICES ASSUME NEW i \in S PROVE 0 .. i \in FiniteSubsetsOf(Nat) OBVIOUS
    <2>1. IsFiniteSet(0 .. i) BY FS_Interval
    <2> QED BY <2>1 DEF FiniteSubsetsOf
<1>2. T # {} OBVIOUS
<1>3. PICK x \in T : \A y \in T : <<y, x>> \notin StrictSubsetOrdering(Nat)
    BY <1>1, <1>2, FS_StrictSubsetOrderingWellFounded, WFMin
<1>4. PICK i \in S : x = 0 .. i OBVIOUS
<1>5. ASSUME NEW j \in S, j < i PROVE FALSE
    <2>1. 0 .. j \subseteq 0 .. i /\ 0 .. j # 0 .. i BY <1>5
    <2>2. <<0 .. j, 0 .. i>> \in StrictSubsetOrdering(Nat) BY <2>1 DEF StrictSubsetOrdering
    <2>3. 0 .. j \in T OBVIOUS
    <2> QED BY <1>3, <1>4, <2>2, <2>3
<1> QED BY <1>5

\* Induction over the places of a list, for a property that is given as the
\* set of those that have it.
LEMMA EveryPlace ==
    ASSUME NEW n \in Nat, NEW S, 0 \in S, \A k \in 1 .. n : k - 1 \in S => k \in S
    PROVE  \A k \in 0 .. n : k \in S
<1> DEFINE Rest == {k \in 0 .. n : k \notin S}
<1> SUFFICES ASSUME Rest # {} PROVE FALSE OBVIOUS
<1>1. PICK i \in Rest : \A j \in Rest : i <= j
    <2>1. Rest \in SUBSET Nat OBVIOUS
    <2> HIDE DEF Rest
    <2> QED BY <2>1, HasLeast
<1>2. i \in 0 .. n /\ i # 0 BY <1>1
<1>3. i \in 1 .. n /\ i - 1 \in 0 .. n /\ ~(i <= i - 1) BY <1>2
<1>4. i - 1 \notin Rest BY <1>1, <1>3
<1>5. i - 1 \in S BY <1>3, <1>4
<1> QED BY <1>1, <1>3, <1>5

\* The greatest of the first numbers.
LEMMA MaxIs ==
    ASSUME NEW s \in SUBSET Nat, NEW k \in s, \A j \in s : j <= k
    PROVE  Max(s) = k
<1>1. \A x \in s : (\A j \in s : x >= j) => x = k OBVIOUS
<1>2. \A j \in s : k >= j OBVIOUS
<1> QED BY <1>1, <1>2 DEF Max

\* A set of places without the last one.
Less(s) == s \ {Max(s)}

\* Taking the greatest away from the first k numbers leaves the first k - 1.
LEMMA UpToLess ==
    ASSUME NEW k \in Nat, k # 0
    PROVE  1 .. k # {} /\ Max(1 .. k) = k /\ Less(1 .. k) = 1 .. (k - 1)
<1>1. Max(1 .. k) = k BY MaxIs, 1 .. k \in SUBSET Nat, k \in 1 .. k
<1>2. (1 .. k) \ {k} = 1 .. (k - 1) OBVIOUS
<1> QED BY <1>1, <1>2 DEF Less

\* The greatest of some places is one of them.
LEMMA MaxPlace ==
    ASSUME NEW n \in Nat, NEW s \in SUBSET (1 .. n), s # {}
    PROVE  Max(s) \in 1 .. n
<1> DEFINE Over == {i \in 0 .. n : \A j \in s : j <= i}
<1>1. Over \in SUBSET Nat /\ n \in Over OBVIOUS
<1>2. PICK k \in Over : \A i \in Over : k <= i
    <2> HIDE DEF Over
    <2> QED BY <1>1, HasLeast
<1>3. k \in s
    <2> SUFFICES ASSUME k \notin s PROVE FALSE OBVIOUS
    <2>1. \A j \in s : j < k BY <1>2
    <2>2. PICK j \in s : TRUE OBVIOUS
    <2>3. k - 1 \in 0 .. n /\ \A i \in s : i <= k - 1 BY <1>2, <2>1, <2>2
    <2>4. k - 1 \in Over BY <2>3
    <2> QED BY <1>2, <2>4
<1>4. Max(s) = k
    <2>1. s \in SUBSET Nat /\ \A j \in s : j <= k BY <1>2
    <2> QED BY <1>3, <2>1, MaxIs
<1> QED BY <1>3, <1>4

\* A function on the sets of places that makes the steps F from b.
Folds(it, n, V, b, F) ==
    /\ it \in [SUBSET (1 .. n) -> V]
    /\ \A s \in SUBSET (1 .. n) : it[s] = IF s = {} THEN b ELSE F[<<Max(s), it[Less(s)]>>]

\* What a fold recurs on is there: FoldLeft chooses a function on the sets of
\* places, and there is one if F, which makes a step, stays within V.
LEMMA FoldExists ==
    ASSUME NEW n \in Nat, NEW V, NEW b \in V, NEW F \in [(1 .. n) \X V -> V]
    PROVE  \E it : Folds(it, n, V, b, F)
<1> DEFINE Good(k, it) ==
              /\ it \in [SUBSET (1 .. k) -> V]
              /\ \A s \in SUBSET (1 .. k) :
                    it[s] = IF s = {} THEN b ELSE F[<<Max(s), it[Less(s)]>>]
           S == {k \in 0 .. n : \E it : Good(k, it)}
<1>1. 0 \in S
    <2> DEFINE it == [s \in SUBSET (1 .. 0) |-> b]
    <2>1. 1 .. 0 = {} OBVIOUS
    <2>2. it \in [SUBSET (1 .. 0) -> V] OBVIOUS
    <2>3. \A s \in SUBSET (1 .. 0) : s = {} /\ it[s] = b BY <2>1
    <2>4. Good(0, it) BY <2>2, <2>3
    <2>5. \E f : Good(0, f)
        <3> HIDE DEF Good, it
        <3> QED BY <2>4
    <2> HIDE DEF Good
    <2> QED BY <2>5
<1>2. ASSUME NEW k \in 1 .. n, k - 1 \in S PROVE k \in S
    <2>1. PICK low : Good(k - 1, low) BY <1>2
    <2> DEFINE it == [s \in SUBSET (1 .. k) |->
                        IF k \in s THEN F[<<k, low[s \ {k}]>>] ELSE low[s]]
    <2>2. \A s \in SUBSET (1 .. k) : s \ {k} \in SUBSET (1 .. (k - 1)) OBVIOUS
    <2>3. \A s \in SUBSET (1 .. k) : k \notin s => s \in SUBSET (1 .. (k - 1)) OBVIOUS
    <2>4. \A s \in SUBSET (1 .. (k - 1)) : low[s] \in V BY <2>1
    <2>5. it \in [SUBSET (1 .. k) -> V]
        <3> SUFFICES ASSUME NEW s \in SUBSET (1 .. k)
                     PROVE  (IF k \in s THEN F[<<k, low[s \ {k}]>>] ELSE low[s]) \in V
            OBVIOUS
        <3>1. CASE k \in s
            <4>1. <<k, low[s \ {k}]>> \in (1 .. n) \X V BY <2>2, <2>4
            <4> QED BY <3>1, <4>1
        <3>2. CASE k \notin s BY <3>2, <2>3, <2>4
        <3> QED BY <3>1, <3>2
    <2>6. \A s \in SUBSET (1 .. (k - 1)) : it[s] = low[s] /\ s \in SUBSET (1 .. k) OBVIOUS
    <2>7. ASSUME NEW s \in SUBSET (1 .. k)
          PROVE  it[s] = IF s = {} THEN b ELSE F[<<Max(s), it[Less(s)]>>]
        <3>1. CASE k \in s
            <4>1. Max(s) = k BY <3>1, MaxIs
            <4>2. it[s] = F[<<k, low[s \ {k}]>>] BY <3>1
            <4>3. Less(s) = s \ {k} BY <4>1 DEF Less
            <4>4. it[Less(s)] = low[s \ {k}] BY <4>3, <2>2, <2>6
            <4> HIDE DEF it
            <4> QED BY <3>1, <4>1, <4>2, <4>4
        <3>2. CASE k \notin s
            <4>1. s \in SUBSET (1 .. (k - 1)) BY <3>2, <2>3
            <4>2. it[s] = low[s] BY <4>1, <2>6
            <4>3. low[s] = IF s = {} THEN b ELSE F[<<Max(s), low[Less(s)]>>] BY <2>1, <4>1
            <4>4. Less(s) \in SUBSET (1 .. (k - 1)) BY <4>1 DEF Less
            <4>5. it[Less(s)] = low[Less(s)] BY <4>4, <2>6
            <4> HIDE DEF it
            <4> QED BY <4>2, <4>3, <4>5
        <3> QED BY <3>1, <3>2
    <2> HIDE DEF it
    <2>8. Good(k, it) BY <2>5, <2>7
    <2>9. \E f : Good(k, f)
        <3> HIDE DEF Good
        <3> QED BY <2>8
    <2> HIDE DEF Good
    <2> QED BY <2>9
<1>3. n \in S
    <2> HIDE DEF S
    <2>1. n \in 0 .. n OBVIOUS
    <2> QED BY <1>1, <1>2, <2>1, EveryPlace
<1> QED BY <1>3 DEF Folds

\* On places that are not empty, such a function makes a step from V.
LEMMA FoldsWithin ==
    ASSUME NEW n \in Nat, NEW V, NEW b, NEW F, NEW it, Folds(it, n, V, b, F),
           NEW s \in SUBSET (1 .. n), s # {}
    PROVE  /\ Max(s) \in 1 .. n /\ it[Less(s)] \in V
           /\ it[s] = F[<<Max(s), it[Less(s)]>>]
<1>1. Max(s) \in 1 .. n BY MaxPlace
<1>2. Less(s) \in SUBSET (1 .. n) BY DEF Less
<1> QED BY <1>1, <1>2 DEF Folds

\* The results for each beginning of a list of n places, up to what it has
\* for them all.
Runs(run, it, n, V, b, F) ==
    /\ run[n] = it[1 .. n]
    /\ run \in [0 .. n -> V]
    /\ run[0] = b
    /\ \A k \in 1 .. n : run[k] = F[<<k, run[k - 1]>>]

\* It makes the steps F from b as long as it stays within V.
Unrolls(it, n, V, b, F) ==
    /\ it[{}] = b
    /\ \A s \in SUBSET (1 .. n) :
            s # {} /\ it[Less(s)] \in V => it[s] = F[<<Max(s), it[Less(s)]>>]

\* Whatever makes the steps F from b on sets of places gives the results for
\* beginnings; that they stay within V is found on the way.
LEMMA FoldRuns ==
    ASSUME NEW n \in Nat, NEW V, NEW b \in V, NEW F \in [(1 .. n) \X V -> V],
           NEW it, Unrolls(it, n, V, b, F)
    PROVE  \E run : Runs(run, it, n, V, b, F)
<1> DEFINE run == [k \in 0 .. n |-> it[1 .. k]]
           Typed == {k \in 0 .. n : it[1 .. k] \in V}
<1>1. ASSUME NEW k \in 1 .. n, it[1 .. (k - 1)] \in V
      PROVE  it[1 .. k] = F[<<k, it[1 .. (k - 1)]>>] /\ it[1 .. k] \in V
    <2>1. 1 .. k \in SUBSET (1 .. n) /\ k \in Nat /\ k # 0 OBVIOUS
    <2>2. it[1 .. k] = F[<<k, it[1 .. (k - 1)]>>] BY <1>1, <2>1, UpToLess DEF Unrolls
    <2>3. <<k, it[1 .. (k - 1)]>> \in (1 .. n) \X V BY <1>1
    <2> QED BY <2>2, <2>3
<1>2. 1 .. 0 = {} /\ 0 \in 0 .. n /\ n \in 0 .. n OBVIOUS
<1>3. 0 \in Typed BY <1>2 DEF Unrolls
<1>4. ASSUME NEW k \in 1 .. n, k - 1 \in Typed PROVE k \in Typed
    <2>1. k \in 0 .. n /\ it[1 .. (k - 1)] \in V BY <1>4
    <2> QED BY <1>1, <2>1
<1>5. \A k \in 0 .. n : k \in Typed
    <2> HIDE DEF Typed
    <2> QED BY <1>3, <1>4, EveryPlace
<1>6. run \in [0 .. n -> V] BY <1>5
<1>7. run[0] = b /\ run[n] = it[1 .. n] BY <1>2 DEF Unrolls
<1>8. ASSUME NEW k \in 1 .. n PROVE run[k] = F[<<k, run[k - 1]>>]
    <2>1. k \in 0 .. n /\ k - 1 \in 0 .. n OBVIOUS
    <2>2. it[1 .. (k - 1)] \in V BY <1>5, <2>1
    <2> QED BY <1>1, <2>1, <2>2
<1> HIDE DEF run
<1> QED BY <1>6, <1>7, <1>8 DEF Runs

-----------------------------------------------------------------------------
(* The folds of the module, one step at a time. *)

\* What adding a rule to a list, and reading one line, leave.
LEMMA PushType ==
    ASSUME NEW list \in Seq(Rule), NEW t \in Targets, NEW a \in Action
    PROVE  Of(t, a) \in Rule /\ Push(list, Of(t, a)) \in Seq(Rule)
<1>1. Of(t, a) \in Rule BY DEF Of, Rule
<1> QED BY <1>1 DEF Push

\* What a line has, by what it is.
LEMMA LineTarget ==
    ASSUME NEW line \in Line
    PROVE  /\ line.is \in {"rule", "bypass", "set", "final", "other"}
           /\ line.is = "rule" => line.target \in Targets /\ line.action \in Action
           /\ line.is = "bypass" => line.target \in Targets
           /\ line.is = "set" => line.set \in References /\ line.action \in Action
           /\ line.is = "final" => line.action \in Action
BY DEF Line

\* A condition that is supported has a target and an action.
LEMMA ConditionTarget ==
    ASSUME NEW c \in Condition
    PROVE  c.is # "other" => c.target \in Targets /\ c.action \in Action
BY DEF Condition

\* Reading a line leaves a result of the same shape.
LEMMA ParseLineType ==
    ASSUME NEW result \in Result, NEW line \in Line
    PROVE  ParseLine(result, line) \in Result
<1>1. "direct" \in Action BY DEF Action
<1>2. /\ result.rules \in Seq(Rule) /\ result.default \in Action
      /\ result.sets \in Seq([set : References, action : Action])
    BY DEF Result
<1>3. CASE line.is = "rule"
    <2>1. Push(result.rules, Of(line.target, line.action)) \in Seq(Rule)
        BY <1>2, <1>3, LineTarget, PushType
    <2> QED BY <1>3, <2>1 DEF ParseLine, Result
<1>4. CASE line.is = "bypass"
    <2>1. Push(result.rules, Of(line.target, "direct")) \in Seq(Rule)
        BY <1>1, <1>2, <1>4, LineTarget, PushType
    <2> QED BY <1>4, <2>1 DEF ParseLine, Result
<1>5. CASE line.is = "set"
    <2>1. [set |-> line.set, action |-> line.action] \in [set : References, action : Action]
        BY <1>5, LineTarget
    <2>2. Append(result.sets, [set |-> line.set, action |-> line.action])
            \in Seq([set : References, action : Action])
        BY <1>2, <2>1
    <2> QED BY <1>5, <2>2 DEF ParseLine, Result
<1>6. CASE line.is = "final" BY <1>6, LineTarget DEF ParseLine, Result
<1>7. CASE line.is = "other" BY <1>7 DEF ParseLine, Result
<1> QED BY <1>3, <1>4, <1>5, <1>6, <1>7, LineTarget

Both(T, S) == T \cap S

\* What Keep has kept of each beginning of a list.
Keeping(run, T, S, list) ==
    /\ run \in [0 .. Len(list) -> Seq(Both(T, S))]
    /\ run[0] = <<>>
    /\ \A k \in 1 .. Len(list) :
            run[k] = IF list[k] \in S THEN Append(run[k - 1], list[k]) ELSE run[k - 1]
    /\ Keep(list, S) = run[Len(list)]

\* Keep goes through a list place by place.
LEMMA KeepSteps ==
    ASSUME NEW T, NEW S, NEW list \in Seq(T)
    PROVE  \E run : Keeping(run, T, S, list)
<1> DEFINE input == list
           n == Len(input)
           V == Seq(Both(T, S))
           b == <<>>
           Op(v, x) == IF x \in S THEN Append(v, x) ELSE v
           F == [p \in (1 .. n) \X V |-> Op(p[2], input[p[1]])]
           Is(f) == f = [s \in SUBSET (DOMAIN input) |->
                            IF s = {} THEN b ELSE Op(f[Less(s)], input[Max(s)])]
           it == CHOOSE f : Is(f)
<1>1. n \in Nat /\ DOMAIN input = 1 .. n /\ \A k \in 1 .. n : input[k] \in T OBVIOUS
<1>2. Keep(list, S) = it[DOMAIN input] BY DEF Keep, Less, FoldLeft, MapThenFoldSet
<1>3. b \in V OBVIOUS
<1>4. ASSUME NEW x \in T, NEW v \in V PROVE Op(v, x) \in V
    BY <1>4 DEF Both
<1> HIDE DEF V, b, input, n, Op
<1>5. F \in [(1 .. n) \X V -> V] BY <1>1, <1>4
<1>6. \A k \in 1 .. n, v \in V : F[<<k, v>>] = Op(v, input[k]) OBVIOUS
<1>7. \E f : Is(f)
    <2> HIDE DEF F
    <2>1. PICK f : Folds(f, n, V, b, F) BY <1>1, <1>3, <1>5, FoldExists
    <2>2. f = [s \in SUBSET (1 .. n) |-> f[s]] /\ f[{}] = b BY <2>1 DEF Folds
    <2>3. ASSUME NEW s \in SUBSET (1 .. n), s # {}
          PROVE  f[s] = Op(f[Less(s)], input[Max(s)])
        <3>1. /\ Max(s) \in 1 .. n /\ f[Less(s)] \in V
              /\ f[s] = F[<<Max(s), f[Less(s)]>>]
            BY <1>1, <2>1, <2>3, FoldsWithin
        <3> QED BY <1>6, <3>1
    <2>4. Is(f) BY <1>1, <2>2, <2>3
    <2> QED BY <2>4
<1>8. Is(it) BY <1>7
<1>9. Unrolls(it, n, V, b, F)
    <2> HIDE DEF it, F
    <2> QED BY <1>1, <1>6, <1>8, MaxPlace DEF Unrolls
<1>10. PICK run : Runs(run, it, n, V, b, F)
    <2> HIDE DEF F, it
    <2> QED BY <1>1, <1>3, <1>5, <1>9, FoldRuns
<1> HIDE DEF F, it
<1>11. run \in [0 .. n -> V] /\ run[0] = b /\ Keep(list, S) = run[n]
    BY <1>1, <1>2, <1>10 DEF Runs
<1>12. ASSUME NEW k \in 1 .. n PROVE run[k] = Op(run[k - 1], input[k])
    <2>1. k - 1 \in 0 .. n /\ run[k] = F[<<k, run[k - 1]>>] BY <1>1, <1>10 DEF Runs
    <2> QED BY <1>6, <1>11, <2>1
<1>13. Keeping(run, T, S, list) BY <1>11, <1>12 DEF Keeping, V, b, input, n, Op
<1> QED BY <1>13

-----------------------------------------------------------------------------
(* What is kept of a list. *)

\* Nothing that R relates occurs at two places.
Apart(list, R) == \A i, j \in DOMAIN list : <<list[i], list[j]>> \in R => i = j

\* What is related to nothing of a list can be appended.
LEMMA AppendApart ==
    ASSUME NEW T, NEW R, NEW list \in Seq(T), NEW x \in T, Apart(list, R),
           \A i \in DOMAIN list : <<list[i], x>> \notin R /\ <<x, list[i]>> \notin R
    PROVE  Apart(Append(list, x), R)
<1> DEFINE n == Len(list)
<1>1. n \in Nat /\ DOMAIN list = 1 .. n /\ DOMAIN Append(list, x) = 1 .. (n + 1)
    OBVIOUS
<1>2. \A i \in 1 .. n : Append(list, x)[i] = list[i] OBVIOUS
<1>3. Append(list, x)[n + 1] = x OBVIOUS
<1>4. \A i \in 1 .. (n + 1) : i \in 1 .. n \/ i = n + 1 BY <1>1
<1> HIDE DEF n
<1> QED BY <1>1, <1>2, <1>3, <1>4 DEF Apart

Kept(kept, T, S, list) ==
    /\ kept \in Seq(T) /\ kept \in Seq(Both(T, S))
    /\ \A i \in DOMAIN kept : kept[i] \in S /\ \E j \in DOMAIN list : kept[i] = list[j]
    /\ \A R : Apart(list, R) => Apart(kept, R)

\* What is kept was there, and is apart if it was.
LEMMA KeepFrom ==
    ASSUME NEW T, NEW S, NEW list \in Seq(T)
    PROVE  Kept(Keep(list, S), T, S, list)
<1> DEFINE n == Len(list)
<1>0. PICK run : Keeping(run, T, S, list) BY KeepSteps
<1>1. /\ run \in [0 .. n -> Seq(Both(T, S))] /\ run[0] = <<>> /\ Keep(list, S) = run[n]
      /\ \A k \in 1 .. n :
            run[k] = IF list[k] \in S THEN Append(run[k - 1], list[k]) ELSE run[k - 1]
    BY <1>0 DEF Keeping
<1>2. n \in Nat /\ DOMAIN list = 1 .. n /\ \A k \in 1 .. n : list[k] \in T OBVIOUS
<1> DEFINE Comes(k) == \A i \in DOMAIN run[k] : \E j \in 1 .. k : run[k][i] = list[j]
           Goes(k) == \A R : Apart(list, R) => Apart(run[k], R)
           Good == {k \in 0 .. n : Comes(k) /\ Goes(k)}
<1>3. 0 \in Good
    <2>1. Comes(0) BY <1>1
    <2>2. Goes(0) BY <1>1 DEF Apart
    <2> HIDE DEF Comes, Goes
    <2> QED BY <1>2, <2>1, <2>2
<1>4. ASSUME NEW k \in 1 .. n, k - 1 \in Good PROVE k \in Good
    <2>1. Comes(k - 1) /\ Goes(k - 1) /\ k - 1 \in 0 .. n BY <1>4
    <2>2. k \in 0 .. n /\ list[k] \in T /\ run[k - 1] \in Seq(T)
        <3>1. k \in 0 .. n /\ list[k] \in T /\ run[k - 1] \in Seq(Both(T, S)) BY <1>1, <1>2, <2>1
        <3> QED BY <3>1 DEF Both
    <2>3. CASE list[k] \notin S
        <3>1. run[k] = run[k - 1] BY <1>1, <2>3
        <3>2. Comes(k) BY <1>2, <2>1, <3>1
        <3>3. Goes(k) BY <2>1, <3>1
        <3> HIDE DEF Comes, Goes
        <3> QED BY <2>2, <3>2, <3>3
    <2>4. CASE list[k] \in S
        <3> DEFINE old == run[k - 1]
        <3>1. run[k] = Append(old, list[k]) BY <1>1, <2>4
        <3>2. old \in Seq(T) /\ DOMAIN old = 1 .. Len(old) /\ Len(old) \in Nat
              /\ DOMAIN Append(old, list[k]) = 1 .. (Len(old) + 1)
              /\ Append(old, list[k])[Len(old) + 1] = list[k]
              /\ \A i \in DOMAIN old : Append(old, list[k])[i] = old[i]
            BY <2>2
        <3>3. Comes(k)
            <4> SUFFICES ASSUME NEW i \in DOMAIN run[k]
                         PROVE  \E j \in 1 .. k : run[k][i] = list[j]
                OBVIOUS
            <4>1. i \in DOMAIN old \/ i = Len(old) + 1 BY <3>1, <3>2
            <4>2. CASE i \in DOMAIN old
                <5>1. PICK j \in 1 .. (k - 1) : old[i] = list[j] BY <2>1, <4>2
                <5>2. j \in 1 .. k BY <1>2
                <5> QED BY <3>1, <3>2, <4>2, <5>1, <5>2
            <4>3. CASE i = Len(old) + 1 BY <3>1, <3>2, <4>3
            <4> QED BY <4>1, <4>2, <4>3
        <3>4. Goes(k)
            <4> SUFFICES ASSUME NEW R, Apart(list, R) PROVE Apart(run[k], R) OBVIOUS
            <4>1. Apart(old, R) BY <2>1
            <4>2. ASSUME NEW i \in DOMAIN old
                  PROVE  <<old[i], list[k]>> \notin R /\ <<list[k], old[i]>> \notin R
                <5>1. PICK j \in 1 .. (k - 1) : old[i] = list[j] BY <2>1
                <5>2. j \in 1 .. n /\ j # k BY <1>2
                <5> QED BY <1>2, <5>1, <5>2 DEF Apart
            <4>3. list[k] \in T /\ old \in Seq(T) BY <2>2, <3>2
            <4>4. Apart(Append(old, list[k]), R)
                <5> HIDE DEF old
                <5> QED BY <4>1, <4>2, <4>3, AppendApart
            <4> QED BY <3>1, <4>4
        <3> HIDE DEF Comes, Goes
        <3> QED BY <2>2, <3>3, <3>4
    <2> QED BY <2>3, <2>4
<1>5. n \in Good
    <2> HIDE DEF Good, n
    <2>1. n \in 0 .. n BY <1>2
    <2> QED BY <1>2, <1>3, <1>4, <2>1, EveryPlace
<1>6. Comes(n) /\ Goes(n) BY <1>5
<1>7. run[n] \in Seq(Both(T, S)) BY <1>1, <1>2
<1>8. run[n] \in Seq(T) /\ \A i \in DOMAIN run[n] : run[n][i] \in S BY <1>7 DEF Both
<1> HIDE DEF n
<1> QED BY <1>1, <1>2, <1>6, <1>7, <1>8 DEF Kept

\* The first of a list that is in P.
Foremost(list, P, x) ==
    \E i \in DOMAIN list :
        list[i] = x /\ x \in P /\ \A j \in DOMAIN list : list[j] \in P => i <= j

Lacks(list, P) == \A i \in DOMAIN list : list[i] \notin P

\* A list that does not lack P has a first one that is in P.
LEMMA LacksOrHas ==
    ASSUME NEW T, NEW P, NEW list \in Seq(T), ~Lacks(list, P)
    PROVE  \E x : Foremost(list, P, x)
<1> DEFINE S == {i \in DOMAIN list : list[i] \in P}
<1>1. S # {} /\ S \in SUBSET Nat BY DEF Lacks
<1>2. PICK i \in S : \A j \in S : i <= j
    <2> HIDE DEF S
    <2> QED BY <1>1, HasLeast
<1> QED BY <1>2 DEF Foremost

\* Appending changes the first that is in P only if there was none.
LEMMA AppendForemost ==
    ASSUME NEW T, NEW P, NEW list \in Seq(T), NEW x \in T
    PROVE  /\ \A y : Foremost(list, P, y) => Foremost(Append(list, x), P, y)
           /\ Lacks(list, P) /\ x \in P => Foremost(Append(list, x), P, x)
           /\ Lacks(list, P) /\ x \notin P => Lacks(Append(list, x), P)
<1> DEFINE n == Len(list)
           new == Append(list, x)
<1>1. n \in Nat /\ DOMAIN list = 1 .. n /\ DOMAIN new = 1 .. (n + 1)
    OBVIOUS
<1>2. \A i \in 1 .. n : new[i] = list[i] OBVIOUS
<1>3. new[n + 1] = x OBVIOUS
<1>4. \A i \in 1 .. (n + 1) : i \in 1 .. n \/ i = n + 1 BY <1>1
<1>5. \A i \in 1 .. n : i \in 1 .. (n + 1) /\ i <= n + 1 BY <1>1
<1>6. n + 1 \in 1 .. (n + 1) /\ n + 1 <= n + 1 BY <1>1
<1> HIDE DEF n, new
<1>7. ASSUME NEW y, Foremost(list, P, y) PROVE Foremost(new, P, y)
    <2>1. PICK i \in 1 .. n : list[i] = y /\ y \in P /\ \A j \in 1 .. n : list[j] \in P => i <= j
        BY <1>1, <1>7 DEF Foremost
    <2>2. \A j \in 1 .. (n + 1) : new[j] \in P => i <= j BY <1>2, <1>4, <1>5, <2>1
    <2>3. i \in 1 .. (n + 1) /\ new[i] = y BY <1>2, <1>5, <2>1
    <2> QED BY <1>1, <2>1, <2>2, <2>3 DEF Foremost
<1>8. ASSUME Lacks(list, P), x \in P PROVE Foremost(new, P, x)
    <2>1. \A j \in 1 .. (n + 1) : new[j] \in P => n + 1 <= j
        BY <1>1, <1>2, <1>4, <1>6, <1>8 DEF Lacks
    <2> QED BY <1>1, <1>3, <1>6, <1>8, <2>1 DEF Foremost
<1>9. ASSUME Lacks(list, P), x \notin P PROVE Lacks(new, P)
    BY <1>1, <1>2, <1>3, <1>4, <1>9 DEF Lacks
<1> QED BY <1>7, <1>8, <1>9 DEF new

\* Keeping all that is in P keeps the first that is in P.
LEMMA KeepForemost ==
    ASSUME NEW T, NEW S, NEW P, NEW list \in Seq(T), \A x \in T : x \in P => x \in S
    PROVE  /\ \A x : Foremost(list, P, x) => Foremost(Keep(list, S), P, x)
           /\ Lacks(list, P) => Lacks(Keep(list, S), P)
<1>1. ASSUME Lacks(list, P) PROVE Lacks(Keep(list, S), P)
    <2>1. Kept(Keep(list, S), T, S, list) BY KeepFrom
    <2> QED BY <1>1, <2>1 DEF Lacks, Kept
<1>2. ASSUME NEW x, Foremost(list, P, x) PROVE Foremost(Keep(list, S), P, x)
    <2> DEFINE n == Len(list)
    <2>0. PICK run : Keeping(run, T, S, list) BY KeepSteps
    <2>1. /\ run \in [0 .. n -> Seq(Both(T, S))] /\ run[0] = <<>> /\ Keep(list, S) = run[n]
          /\ \A k \in 1 .. n :
                run[k] = IF list[k] \in S THEN Append(run[k - 1], list[k]) ELSE run[k - 1]
        BY <2>0 DEF Keeping
    <2>2. n \in Nat /\ DOMAIN list = 1 .. n /\ \A k \in 1 .. n : list[k] \in T OBVIOUS
    <2>3. PICK i \in 1 .. n : list[i] = x /\ x \in P /\ \A j \in 1 .. n : list[j] \in P => i <= j
        BY <1>2, <2>2 DEF Foremost
    <2> DEFINE Good == {k \in 0 .. n : IF k < i THEN Lacks(run[k], P) ELSE Foremost(run[k], P, x)}
    <2>4. 0 \in Good
        <3>1. Lacks(run[0], P) BY <2>1 DEF Lacks
        <3> QED BY <2>2, <2>3, <3>1
    <2>5. ASSUME NEW k \in 1 .. n, k - 1 \in Good PROVE k \in Good
        <3>1. k \in 0 .. n /\ k - 1 \in 0 .. n /\ k \in Nat /\ list[k] \in T BY <2>2
        <3>2. run[k - 1] \in Seq(T)
            <4>1. run[k - 1] \in Seq(Both(T, S)) BY <2>1, <3>1
            <4> QED BY <4>1 DEF Both
        <3>3. i \in Nat BY <2>2
        <3>4. CASE k < i
            <4>1. list[k] \notin P /\ k - 1 < i BY <2>3, <3>1, <3>3, <3>4
            <4>2. Lacks(run[k - 1], P) BY <2>5, <4>1
            <4>3. Lacks(run[k], P) BY <2>1, <3>1, <3>2, <4>1, <4>2, AppendForemost
            <4> QED BY <3>1, <3>4, <4>3
        <3>5. CASE k = i
            <4>1. k - 1 < i /\ ~(k < i) BY <3>1, <3>3, <3>5
            <4>2. Lacks(run[k - 1], P) BY <2>5, <4>1
            <4>3. list[k] = x /\ list[k] \in S BY <2>3, <3>1, <3>5
            <4>4. run[k] = Append(run[k - 1], x) BY <2>1, <4>3
            <4>5. Foremost(run[k], P, x) BY <2>3, <3>1, <3>2, <4>2, <4>3, <4>4, AppendForemost
            <4> QED BY <3>1, <4>1, <4>5
        <3>6. CASE k > i
            <4>1. ~(k - 1 < i) /\ ~(k < i) BY <3>1, <3>3, <3>6
            <4>2. Foremost(run[k - 1], P, x) BY <2>5, <4>1
            <4>3. Foremost(Append(run[k - 1], list[k]), P, x) BY <3>1, <3>2, <4>2, AppendForemost
            <4>4. run[k] = Append(run[k - 1], list[k]) \/ run[k] = run[k - 1] BY <2>1
            <4>5. Foremost(run[k], P, x) BY <4>2, <4>3, <4>4
            <4> QED BY <3>1, <4>1, <4>5
        <3> QED BY <3>1, <3>3, <3>4, <3>5, <3>6
    <2>6. n \in Good
        <3> HIDE DEF Good, n
        <3>1. n \in 0 .. n BY <2>2
        <3> QED BY <2>2, <2>4, <2>5, <3>1, EveryPlace
    <2>7. ~(n < i) BY <2>2
    <2> QED BY <2>1, <2>6, <2>7
<1> QED BY <1>1, <1>2

\* What is parsed of each beginning of a source.
Parsing(run, lines) ==
    /\ run \in [0 .. Len(lines) -> Result]
    /\ run[0] = [rules |-> <<>>, sets |-> <<>>, default |-> "direct"]
    /\ \A k \in 1 .. Len(lines) : run[k] = ParseLine(run[k - 1], lines[k])
    /\ Parse(lines) = run[Len(lines)]

\* Parse goes through the lines of a source one by one.
LEMMA ParseSteps ==
    ASSUME NEW lines \in Seq(Line)
    PROVE  \E run : Parsing(run, lines)
<1> DEFINE input == lines
           n == Len(input)
           V == Result
           b == [rules |-> <<>>, sets |-> <<>>, default |-> "direct"]
           Op(v, x) == ParseLine(v, x)
           F == [p \in (1 .. n) \X V |-> Op(p[2], input[p[1]])]
           Is(f) == f = [s \in SUBSET (DOMAIN input) |->
                            IF s = {} THEN b ELSE Op(f[Less(s)], input[Max(s)])]
           it == CHOOSE f : Is(f)
<1>1. n \in Nat /\ DOMAIN input = 1 .. n /\ \A k \in 1 .. n : input[k] \in Line OBVIOUS
<1>2. Parse(lines) = it[DOMAIN input] BY DEF Parse, Less, FoldLeft, MapThenFoldSet
<1>3. b \in V BY DEF Result, Action
<1>4. ASSUME NEW x \in Line, NEW v \in V PROVE Op(v, x) \in V
    BY <1>4, ParseLineType
<1> HIDE DEF V, b, input, n, Op
<1>5. F \in [(1 .. n) \X V -> V] BY <1>1, <1>4
<1>6. \A k \in 1 .. n, v \in V : F[<<k, v>>] = Op(v, input[k]) OBVIOUS
<1>7. \E f : Is(f)
    <2> HIDE DEF F
    <2>1. PICK f : Folds(f, n, V, b, F) BY <1>1, <1>3, <1>5, FoldExists
    <2>2. f = [s \in SUBSET (1 .. n) |-> f[s]] /\ f[{}] = b BY <2>1 DEF Folds
    <2>3. ASSUME NEW s \in SUBSET (1 .. n), s # {}
          PROVE  f[s] = Op(f[Less(s)], input[Max(s)])
        <3>1. /\ Max(s) \in 1 .. n /\ f[Less(s)] \in V
              /\ f[s] = F[<<Max(s), f[Less(s)]>>]
            BY <1>1, <2>1, <2>3, FoldsWithin
        <3> QED BY <1>6, <3>1
    <2>4. Is(f) BY <1>1, <2>2, <2>3
    <2> QED BY <2>4
<1>8. Is(it) BY <1>7
<1>9. Unrolls(it, n, V, b, F)
    <2> HIDE DEF it, F
    <2> QED BY <1>1, <1>6, <1>8, MaxPlace DEF Unrolls
<1>10. PICK run : Runs(run, it, n, V, b, F)
    <2> HIDE DEF F, it
    <2> QED BY <1>1, <1>3, <1>5, <1>9, FoldRuns
<1> HIDE DEF F, it
<1>11. run \in [0 .. n -> V] /\ run[0] = b /\ Parse(lines) = run[n]
    BY <1>1, <1>2, <1>10 DEF Runs
<1>12. ASSUME NEW k \in 1 .. n PROVE run[k] = Op(run[k - 1], input[k])
    <2>1. k - 1 \in 0 .. n /\ run[k] = F[<<k, run[k - 1]>>] BY <1>1, <1>10 DEF Runs
    <2> QED BY <1>6, <1>11, <2>1
<1>13. Parsing(run, lines) BY <1>11, <1>12 DEF Parsing, V, b, input, n, Op
<1> QED BY <1>13

\* What is merged of each beginning of a rule set.
Merging(run, rules, reference) ==
    /\ run \in [0 .. Len(Contents[reference.set]) -> Seq(Rule)]
    /\ run[0] = rules
    /\ \A k \in 1 .. Len(Contents[reference.set]) :
            run[k] = IF Contents[reference.set][k].is = "rule"
                     THEN Push(run[k - 1],
                               Of(Contents[reference.set][k].target, reference.action))
                     ELSE run[k - 1]
    /\ Merge(rules, reference) = run[Len(Contents[reference.set])]

\* Merge goes through the lines of a rule set one by one.
LEMMA MergeSteps ==
    ASSUME NEW rules \in Seq(Rule), NEW reference,
           Contents[reference.set] \in Seq(Line), reference.action \in Action
    PROVE  \E run : Merging(run, rules, reference)
<1> DEFINE input == Contents[reference.set]
           n == Len(input)
           V == Seq(Rule)
           b == rules
           Op(v, x) == IF x.is = "rule" THEN Push(v, Of(x.target, reference.action)) ELSE v
           F == [p \in (1 .. n) \X V |-> Op(p[2], input[p[1]])]
           Is(f) == f = [s \in SUBSET (DOMAIN input) |->
                            IF s = {} THEN b ELSE Op(f[Less(s)], input[Max(s)])]
           it == CHOOSE f : Is(f)
<1>1. n \in Nat /\ DOMAIN input = 1 .. n /\ \A k \in 1 .. n : input[k] \in Line OBVIOUS
<1>2. Merge(rules, reference) = it[DOMAIN input] BY DEF Merge, Less, FoldLeft, MapThenFoldSet
<1>3. b \in V OBVIOUS
<1>4. ASSUME NEW x \in Line, NEW v \in V PROVE Op(v, x) \in V
    BY <1>4, LineTarget, PushType
<1> HIDE DEF V, b, input, n, Op
<1>5. F \in [(1 .. n) \X V -> V] BY <1>1, <1>4
<1>6. \A k \in 1 .. n, v \in V : F[<<k, v>>] = Op(v, input[k]) OBVIOUS
<1>7. \E f : Is(f)
    <2> HIDE DEF F
    <2>1. PICK f : Folds(f, n, V, b, F) BY <1>1, <1>3, <1>5, FoldExists
    <2>2. f = [s \in SUBSET (1 .. n) |-> f[s]] /\ f[{}] = b BY <2>1 DEF Folds
    <2>3. ASSUME NEW s \in SUBSET (1 .. n), s # {}
          PROVE  f[s] = Op(f[Less(s)], input[Max(s)])
        <3>1. /\ Max(s) \in 1 .. n /\ f[Less(s)] \in V
              /\ f[s] = F[<<Max(s), f[Less(s)]>>]
            BY <1>1, <2>1, <2>3, FoldsWithin
        <3> QED BY <1>6, <3>1
    <2>4. Is(f) BY <1>1, <2>2, <2>3
    <2> QED BY <2>4
<1>8. Is(it) BY <1>7
<1>9. Unrolls(it, n, V, b, F)
    <2> HIDE DEF it, F
    <2> QED BY <1>1, <1>6, <1>8, MaxPlace DEF Unrolls
<1>10. PICK run : Runs(run, it, n, V, b, F)
    <2> HIDE DEF F, it
    <2> QED BY <1>1, <1>3, <1>5, <1>9, FoldRuns
<1> HIDE DEF F, it
<1>11. run \in [0 .. n -> V] /\ run[0] = b /\ Merge(rules, reference) = run[n]
    BY <1>1, <1>2, <1>10 DEF Runs
<1>12. ASSUME NEW k \in 1 .. n PROVE run[k] = Op(run[k - 1], input[k])
    <2>1. k - 1 \in 0 .. n /\ run[k] = F[<<k, run[k - 1]>>] BY <1>1, <1>10 DEF Runs
    <2> QED BY <1>6, <1>11, <2>1
<1>13. Merging(run, rules, reference) BY <1>11, <1>12 DEF Merging, V, b, input, n, Op
<1> QED BY <1>13

\* What is parsed of each beginning of a backup.
ReadingBackup(run, conditions) ==
    /\ run \in [0 .. Len(conditions) -> Seq(Rule)]
    /\ run[0] = <<>>
    /\ \A k \in 1 .. Len(conditions) : run[k] =
            (CASE conditions[k].is = "other" -> run[k - 1]
               [] conditions[k].is = "bypass" ->
                    Push(run[k - 1], Of(conditions[k].target, "direct"))
               [] OTHER -> Push(run[k - 1], Of(conditions[k].target, conditions[k].action)))
    /\ ParseBackup(conditions) = run[Len(conditions)]

\* ParseBackup goes through the conditions one by one.
LEMMA BackupSteps ==
    ASSUME NEW conditions \in Seq(Condition)
    PROVE  \E run : ReadingBackup(run, conditions)
<1> DEFINE input == conditions
           n == Len(input)
           V == Seq(Rule)
           b == <<>>
           Op(v, x) == CASE x.is = "other" -> v
                         [] x.is = "bypass" -> Push(v, Of(x.target, "direct"))
                         [] OTHER -> Push(v, Of(x.target, x.action))
           F == [p \in (1 .. n) \X V |-> Op(p[2], input[p[1]])]
           Is(f) == f = [s \in SUBSET (DOMAIN input) |->
                            IF s = {} THEN b ELSE Op(f[Less(s)], input[Max(s)])]
           it == CHOOSE f : Is(f)
<1>1. n \in Nat /\ DOMAIN input = 1 .. n /\ \A k \in 1 .. n : input[k] \in Condition OBVIOUS
<1>2. ParseBackup(conditions) = it[DOMAIN input]
    BY DEF ParseBackup, Less, FoldLeft, MapThenFoldSet
<1>3. b \in V OBVIOUS
<1>4. ASSUME NEW x \in Condition, NEW v \in V PROVE Op(v, x) \in V
    BY <1>4, ConditionTarget, PushType DEF Action
<1> HIDE DEF V, b, input, n, Op
<1>5. F \in [(1 .. n) \X V -> V] BY <1>1, <1>4
<1>6. \A k \in 1 .. n, v \in V : F[<<k, v>>] = Op(v, input[k]) OBVIOUS
<1>7. \E f : Is(f)
    <2> HIDE DEF F
    <2>1. PICK f : Folds(f, n, V, b, F) BY <1>1, <1>3, <1>5, FoldExists
    <2>2. f = [s \in SUBSET (1 .. n) |-> f[s]] /\ f[{}] = b BY <2>1 DEF Folds
    <2>3. ASSUME NEW s \in SUBSET (1 .. n), s # {}
          PROVE  f[s] = Op(f[Less(s)], input[Max(s)])
        <3>1. /\ Max(s) \in 1 .. n /\ f[Less(s)] \in V
              /\ f[s] = F[<<Max(s), f[Less(s)]>>]
            BY <1>1, <2>1, <2>3, FoldsWithin
        <3> QED BY <1>6, <3>1
    <2>4. Is(f) BY <1>1, <2>2, <2>3
    <2> QED BY <2>4
<1>8. Is(it) BY <1>7
<1>9. Unrolls(it, n, V, b, F)
    <2> HIDE DEF it, F
    <2> QED BY <1>1, <1>6, <1>8, MaxPlace DEF Unrolls
<1>10. PICK run : Runs(run, it, n, V, b, F)
    <2> HIDE DEF F, it
    <2> QED BY <1>1, <1>3, <1>5, <1>9, FoldRuns
<1> HIDE DEF F, it
<1>11. run \in [0 .. n -> V] /\ run[0] = b /\ ParseBackup(conditions) = run[n]
    BY <1>1, <1>2, <1>10 DEF Runs
<1>12. ASSUME NEW k \in 1 .. n PROVE run[k] = Op(run[k - 1], input[k])
    <2>1. k - 1 \in 0 .. n /\ run[k] = F[<<k, run[k - 1]>>] BY <1>1, <1>10 DEF Runs
    <2> QED BY <1>6, <1>11, <2>1
<1>13. ReadingBackup(run, conditions) BY <1>11, <1>12 DEF ReadingBackup, V, b, input, n, Op
<1> QED BY <1>13

-----------------------------------------------------------------------------
(* Rules for programs. *)

For(program) == {rule \in ProgramRule : rule.program = program}

\* The parts of a configuration.
LEMMA ConfigFields ==
    ASSUME NEW c \in Config
    PROVE  /\ c.custom \in Seq(Rule) /\ c.imported \in Seq(Rule)
           /\ c.programs \in Seq(ProgramRule)
           /\ c.default \in Action /\ c.source \in Urls \cup {None}
BY DEF Config

\* The first rule about a program decides, and without one it goes directly.
LEMMA ActionIs ==
    ASSUME NEW c, c.programs \in Seq(ProgramRule), NEW p
    PROVE  /\ \A x : Foremost(c.programs, For(p), x) => CurrentAction(c, p) = x.action
           /\ Lacks(c.programs, For(p)) => CurrentAction(c, p) = "direct"
           /\ Lacks(c.programs, For(p)) <=> About(c, p) = {}
<1> DEFINE list == c.programs
<1>1. \A i \in DOMAIN list : list[i] \in For(p) <=> list[i].program = p BY DEF For
<1>2. About(c, p) = {i \in DOMAIN list : list[i] \in For(p)} BY <1>1 DEF About
<1>3. Lacks(list, For(p)) <=> About(c, p) = {} BY <1>2 DEF Lacks
<1>4. ASSUME NEW x, Foremost(list, For(p), x) PROVE CurrentAction(c, p) = x.action
    <2>1. PICK i \in About(c, p) : list[i] = x /\ \A j \in About(c, p) : i <= j
        BY <1>2, <1>4 DEF Foremost
    <2>2. About(c, p) \in SUBSET Nat BY <1>2
    <2>3. (CHOOSE j \in About(c, p) : \A k \in About(c, p) : j <= k) = i BY <2>1, <2>2
    <2> QED BY <2>1, <2>3 DEF CurrentAction
<1>5. Lacks(list, For(p)) => CurrentAction(c, p) = "direct" BY <1>3 DEF CurrentAction
<1> QED BY <1>3, <1>4, <1>5

\* What is decided for a program is an action.
LEMMA ActionType ==
    ASSUME NEW c, c.programs \in Seq(ProgramRule), NEW p
    PROVE  CurrentAction(c, p) \in Action
<1>1. CASE Lacks(c.programs, For(p)) BY <1>1, ActionIs DEF Action
<1>2. CASE ~Lacks(c.programs, For(p))
    <2>1. PICK x : Foremost(c.programs, For(p), x) BY <1>2, LacksOrHas
    <2>2. x \in ProgramRule BY <2>1 DEF Foremost
    <2> QED BY <2>1, <2>2, ActionIs DEF ProgramRule
<1> QED BY <1>1, <1>2

\* Nothing but the rules for programs is different.
SameRest(c, d) ==
    /\ d \in Config /\ d.custom = c.custom /\ d.imported = c.imported
    /\ d.default = c.default /\ d.source = c.source

\* Two rules for a program that both go by its name.
SameName ==
    {pair \in ProgramRule \X ProgramRule :
        pair[1].program = pair[2].program /\ ~pair[1].path /\ ~pair[2].path}

\* Clearing removes the rules for a program and nothing else.
LEMMA ClearedRules ==
    ASSUME NEW c \in Config, NEW p
    PROVE  /\ SameRest(c, Cleared(c, p))
           /\ Lacks(Cleared(c, p).programs, For(p))
           /\ Apart(c.programs, SameName) => Apart(Cleared(c, p).programs, SameName)
           /\ \A q : q # p => CurrentAction(Cleared(c, p), q) = CurrentAction(c, q)
<1> DEFINE S == {rule \in ProgramRule : rule.program # p}
           kept == Keep(c.programs, S)
<1>1. c.programs \in Seq(ProgramRule) BY ConfigFields
<1>2. Kept(kept, ProgramRule, S, c.programs)
    <2> HIDE DEF S
    <2> QED BY <1>1, KeepFrom
<1>3. kept \in Seq(ProgramRule) BY <1>2 DEF Kept
<1> HIDE DEF kept
<1>4. Cleared(c, p) = [c EXCEPT !.programs = kept] BY DEF Cleared, kept
<1>5. SameRest(c, Cleared(c, p)) /\ Cleared(c, p).programs = kept
    BY <1>3, <1>4 DEF SameRest, Config
<1>6. Lacks(kept, For(p)) BY <1>2 DEF Lacks, For, Kept
<1>7. Apart(c.programs, SameName) => Apart(kept, SameName) BY <1>2 DEF Kept
<1>8. ASSUME NEW q, q # p PROVE CurrentAction(Cleared(c, p), q) = CurrentAction(c, q)
    <2>1. \A x \in ProgramRule : x \in For(q) => x \in S BY <1>8 DEF For
    <2>2. /\ \A x : Foremost(c.programs, For(q), x) => Foremost(kept, For(q), x)
          /\ Lacks(c.programs, For(q)) => Lacks(kept, For(q))
        <3> HIDE DEF S
        <3> QED BY <1>1, <2>1, KeepForemost DEF kept
    <2>3. CASE Lacks(c.programs, For(q)) BY <1>1, <1>3, <1>5, <2>2, <2>3, ActionIs
    <2>4. CASE ~Lacks(c.programs, For(q))
        <3>1. PICK x : Foremost(c.programs, For(q), x) BY <1>1, <2>4, LacksOrHas
        <3>2. CurrentAction(c, q) = x.action BY <1>1, <3>1, ActionIs
        <3>3. Foremost(Cleared(c, p).programs, For(q), x) BY <1>5, <2>2, <3>1
        <3>4. CurrentAction(Cleared(c, p), q) = x.action BY <1>3, <1>5, <3>3, ActionIs
        <3> QED BY <3>2, <3>4
    <2> QED BY <2>3, <2>4
<1> QED BY <1>5, <1>6, <1>7, <1>8

\* A rule that is added decides if there was none for its program.
LEMMA WithRules ==
    ASSUME NEW c \in Config, NEW p \in Programs, NEW path \in BOOLEAN, NEW a \in Action
    PROVE  /\ SameRest(c, With(c, p, path, a))
           /\ \/ path /\ Apart(c.programs, SameName)
              \/ Lacks(c.programs, For(p)) /\ Apart(c.programs, SameName)
              => Apart(With(c, p, path, a).programs, SameName)
           /\ Lacks(c.programs, For(p)) => CurrentAction(With(c, p, path, a), p) = a
           /\ ~Lacks(c.programs, For(p)) =>
                CurrentAction(With(c, p, path, a), p) = CurrentAction(c, p)
           /\ \A q : q # p => CurrentAction(With(c, p, path, a), q) = CurrentAction(c, q)
<1> DEFINE rule == [program |-> p, path |-> path, action |-> a]
           new == Append(c.programs, rule)
           d == With(c, p, path, a)
<1>1. c.programs \in Seq(ProgramRule) BY ConfigFields
<1>2. rule \in ProgramRule BY DEF ProgramRule
<1>3. rule.program = p /\ rule.action = a /\ rule.path = path OBVIOUS
<1> HIDE DEF rule
<1>4. new \in Seq(ProgramRule) BY <1>1, <1>2
<1>5. d = [c EXCEPT !.programs = new] BY DEF With, rule
<1>6. SameRest(c, d) /\ d.programs = new
    <2> HIDE DEF d, new
    <2> QED BY <1>4, <1>5 DEF SameRest, Config
<1> HIDE DEF d
<1>7. ASSUME path \/ Lacks(c.programs, For(p)), Apart(c.programs, SameName)
      PROVE  Apart(new, SameName)
    <2>1. ASSUME NEW i \in DOMAIN c.programs
          PROVE  <<c.programs[i], rule>> \notin SameName /\ <<rule, c.programs[i]>> \notin SameName
        <3>1. c.programs[i] \in ProgramRule BY <1>1
        <3>2. CASE path BY <1>3, <3>2 DEF SameName
        <3>3. CASE Lacks(c.programs, For(p))
            <4>1. c.programs[i].program # p BY <3>1, <3>3 DEF Lacks, For
            <4> QED BY <1>3, <4>1 DEF SameName
        <3> QED BY <1>7, <3>2, <3>3
    <2> QED BY <1>1, <1>2, <1>7, <2>1, AppendApart
<1>8. rule \in For(p) /\ \A q : q # p => rule \notin For(q) BY <1>2, <1>3 DEF For
<1>9. ASSUME Lacks(c.programs, For(p)) PROVE CurrentAction(d, p) = a
    <2>1. Foremost(new, For(p), rule) BY <1>1, <1>2, <1>8, <1>9, AppendForemost
    <2>2. CurrentAction(d, p) = rule.action BY <1>4, <1>6, <2>1, ActionIs
    <2> QED BY <1>3, <2>2
<1>10. ASSUME NEW q, ~Lacks(c.programs, For(q)) PROVE CurrentAction(d, q) = CurrentAction(c, q)
    <2>1. PICK x : Foremost(c.programs, For(q), x) BY <1>1, <1>10, LacksOrHas
    <2>2. CurrentAction(c, q) = x.action BY <1>1, <2>1, ActionIs
    <2>3. Foremost(new, For(q), x) BY <1>1, <1>2, <2>1, AppendForemost
    <2>4. CurrentAction(d, q) = x.action BY <1>4, <1>6, <2>3, ActionIs
    <2> QED BY <2>2, <2>4
<1>11. ASSUME NEW q, q # p, Lacks(c.programs, For(q))
       PROVE  CurrentAction(d, q) = CurrentAction(c, q)
    <2>1. rule \notin For(q) BY <1>8, <1>11
    <2>2. Lacks(new, For(q)) BY <1>1, <1>2, <1>11, <2>1, AppendForemost
    <2> QED BY <1>1, <1>4, <1>6, <1>11, <2>2, ActionIs
<1> QED BY <1>6, <1>7, <1>9, <1>10, <1>11 DEF d

\* What selecting an action for a program leaves.
SelectedFor(c, p, a, d) ==
    /\ SameRest(c, d)
    /\ Apart(c.programs, SameName) => Apart(d.programs, SameName)
    /\ CurrentAction(d, p) = a
    /\ \A q : q # p => CurrentAction(d, q) = CurrentAction(c, q)

\* Selecting decides for the program, and for no other.
LEMMA ChosenRules ==
    ASSUME NEW c \in Config, NEW p \in Programs, NEW a \in Action
    PROVE  /\ SelectedFor(c, p, a, Chosen(c, p, a))
           /\ SelectedFor(c, p, a, With(Cleared(c, p), p, FALSE, a))
           /\ CurrentAction(c, p) = a => Chosen(c, p, a) = c
<1> DEFINE b == Cleared(c, p)
           d == With(b, p, FALSE, a)
<1>1. SameRest(c, b) /\ Lacks(b.programs, For(p))
      /\ (Apart(c.programs, SameName) => Apart(b.programs, SameName))
      /\ \A q : q # p => CurrentAction(b, q) = CurrentAction(c, q)
    BY ClearedRules
<1>2. b \in Config BY <1>1 DEF SameRest
<1> HIDE DEF b
<1>3. SameRest(b, d) /\ CurrentAction(d, p) = a
      /\ (Apart(b.programs, SameName) => Apart(d.programs, SameName))
      /\ \A q : q # p => CurrentAction(d, q) = CurrentAction(b, q)
    BY <1>1, <1>2, WithRules, FALSE \in BOOLEAN
<1> HIDE DEF d
<1>4. SelectedFor(c, p, a, d) BY <1>1, <1>3 DEF SelectedFor, SameRest
<1>5. CASE CurrentAction(c, p) = a
    <2>1. Chosen(c, p, a) = c BY <1>5 DEF Chosen
    <2>2. SelectedFor(c, p, a, c) BY <1>5 DEF SelectedFor, SameRest
    <2> QED BY <1>4, <2>1, <2>2 DEF b, d
<1>6. CASE CurrentAction(c, p) # a
    <2>1. Chosen(c, p, a) = d BY <1>6 DEF Chosen, b, d
    <2> QED BY <1>4, <1>6, <2>1 DEF b, d
<1> QED BY <1>5, <1>6

\* A row that is given new labels ends with what it had selected, unless that
\* is to go directly and nobody hears of its selection.
RelabelledTo(c, p, selected, d) ==
    /\ SameRest(c, d)
    /\ Apart(c.programs, SameName) => Apart(d.programs, SameName)
    /\ selected # "direct" => CurrentAction(d, p) = selected
    /\ \A q : q # p => CurrentAction(d, q) = CurrentAction(c, q)

\* A row with new labels, and when nothing comes of them.
LEMMA RelabelledRules ==
    ASSUME NEW c \in Config, NEW p \in Programs, NEW selected \in Action, NEW resets \in BOOLEAN
    PROVE  /\ RelabelledTo(c, p, selected, Relabelled(c, p, selected, resets))
           /\ (resets => CurrentAction(c, p) = "direct")
              /\ (selected # "direct" => CurrentAction(c, p) = selected)
              => Relabelled(c, p, selected, resets) = c
<1> DEFINE first == IF resets THEN Chosen(c, p, "direct") ELSE c
           d == IF selected = "direct" THEN first ELSE Chosen(first, p, selected)
<1>0. "direct" \in Action BY DEF Action
<1>1. Relabelled(c, p, selected, resets) = d BY DEF Relabelled
<1>2. RelabelledTo(c, p, "direct", first)
    <2>1. SelectedFor(c, p, "direct", Chosen(c, p, "direct")) BY <1>0, ChosenRules
    <2>2. RelabelledTo(c, p, "direct", c) BY DEF RelabelledTo, SameRest
    <2> QED BY <2>1, <2>2 DEF RelabelledTo, SelectedFor
<1>3. first \in Config BY <1>2 DEF RelabelledTo, SameRest
<1>4. (resets => CurrentAction(c, p) = "direct") => first = c BY <1>0, ChosenRules
<1> HIDE DEF first
<1>5. SelectedFor(first, p, selected, Chosen(first, p, selected)) BY <1>3, ChosenRules
<1>6. RelabelledTo(c, p, selected, d)
    BY <1>2, <1>5 DEF RelabelledTo, SelectedFor, SameRest
<1>7. CurrentAction(c, p) = selected => Chosen(c, p, selected) = c BY ChosenRules
<1> QED BY <1>1, <1>4, <1>6, <1>7

\* New labels leave a configuration.
LEMMA RelabelledConfig ==
    ASSUME NEW c \in Config, NEW p \in Programs, NEW selected \in Action, NEW resets \in BOOLEAN
    PROVE  Relabelled(c, p, selected, resets) \in Config
BY RelabelledRules DEF RelabelledTo, SameRest

-----------------------------------------------------------------------------
(* Lists with one rule for a target. *)

SameTarget == {pair \in Rule \X Rule : pair[1].target = pair[2].target}

\* Push keeps a list to one rule for a target.
LEMMA PushApart ==
    ASSUME NEW list \in Seq(Rule), NEW t \in Targets, NEW a \in Action, Apart(list, SameTarget)
    PROVE  Apart(Push(list, Of(t, a)), SameTarget)
<1> DEFINE rule == Of(t, a)
<1>1. rule \in Rule /\ rule.target = t BY DEF Of, Rule
<1> HIDE DEF rule
<1>2. CASE At(list, rule.target) = {}
    <2>1. ASSUME NEW i \in DOMAIN list
          PROVE  <<list[i], rule>> \notin SameTarget /\ <<rule, list[i]>> \notin SameTarget
        BY <1>2 DEF At, SameTarget
    <2>2. Apart(Append(list, rule), SameTarget) BY <1>1, <2>1, AppendApart
    <2> QED BY <1>2, <2>2 DEF Push, rule
<1>3. CASE At(list, rule.target) # {} BY <1>3 DEF Push, rule
<1> QED BY <1>2, <1>3

\* Removing the rules for a target removes them all.
LEMMA WithoutRules ==
    ASSUME NEW list \in Seq(Rule), NEW t
    PROVE  /\ Without(list, t) \in Seq(Rule)
           /\ \A i \in DOMAIN Without(list, t) : Without(list, t)[i].target # t
           /\ Apart(list, SameTarget) => Apart(Without(list, t), SameTarget)
<1> DEFINE S == {rule \in Rule : rule.target # t}
           kept == Keep(list, S)
<1>1. Kept(kept, Rule, S, list)
    <2> HIDE DEF S
    <2> QED BY KeepFrom
<1>2. Without(list, t) = kept BY DEF Without
<1> HIDE DEF kept
<1> QED BY <1>1, <1>2 DEF Kept

\* Put leaves one rule for its target.
LEMMA PutRules ==
    ASSUME NEW list \in Seq(Rule), NEW t \in Targets, NEW a \in Action
    PROVE  /\ Put(list, Of(t, a)) \in Seq(Rule)
           /\ Apart(list, SameTarget) => Apart(Put(list, Of(t, a)), SameTarget)
<1> DEFINE rule == Of(t, a)
           rest == Without(list, t)
<1>1. rule \in Rule /\ rule.target = t BY DEF Of, Rule
<1> HIDE DEF rule
<1>2. Put(list, rule) = Append(rest, rule) BY <1>1 DEF Put
<1>3. /\ rest \in Seq(Rule) /\ \A i \in DOMAIN rest : rest[i].target # t
      /\ Apart(list, SameTarget) => Apart(rest, SameTarget)
    BY WithoutRules
<1> HIDE DEF rest
<1>4. ASSUME Apart(list, SameTarget) PROVE Apart(Append(rest, rule), SameTarget)
    <2>1. ASSUME NEW i \in DOMAIN rest
          PROVE  <<rest[i], rule>> \notin SameTarget /\ <<rule, rest[i]>> \notin SameTarget
        BY <1>1, <1>3 DEF SameTarget
    <2> QED BY <1>1, <1>3, <1>4, <2>1, AppendApart
<1> QED BY <1>1, <1>2, <1>3, <1>4 DEF rule

\* What is overlaid has its place already, or gets a new one.
LEMMA OverlaidRules ==
    ASSUME NEW list \in Seq(Rule), NEW rule \in Rule
    PROVE  /\ Overlaid(list, rule) \in Seq(Rule)
           /\ Apart(list, SameTarget) => Apart(Overlaid(list, rule), SameTarget)
<1>1. rule.target \in Targets /\ rule.action \in Action /\ rule = Of(rule.target, rule.action)
    BY DEF Rule, Of
<1>2. CASE At(list, rule.target) = {}
    <2>1. Overlaid(list, rule) = Append(list, rule) BY <1>2 DEF Overlaid
    <2>2. Overlaid(list, rule) = Push(list, Of(rule.target, rule.action))
        BY <1>1, <1>2, <2>1 DEF Push
    <2>3. Apart(list, SameTarget) => Apart(Push(list, Of(rule.target, rule.action)), SameTarget)
        BY <1>1, PushApart
    <2>4. Overlaid(list, rule) \in Seq(Rule) BY <2>1
    <2>5. Apart(list, SameTarget) => Apart(Overlaid(list, rule), SameTarget) BY <2>2, <2>3
    <2> QED BY <2>4, <2>5
<1>3. CASE At(list, rule.target) # {}
    <2> DEFINE k == CHOOSE i \in At(list, rule.target) : \A j \in At(list, rule.target) : i <= j
    <2>1. At(list, rule.target) \in SUBSET Nat BY DEF At
    <2>2. \E i \in At(list, rule.target) : \A j \in At(list, rule.target) : i <= j
        BY <1>3, <2>1, HasLeast
    <2>3. k \in DOMAIN list BY <2>2 DEF At
    <2>4. Overlaid(list, rule) = [list EXCEPT ![k].action = rule.action] BY <1>3 DEF Overlaid
    <2> HIDE DEF k
    <2> DEFINE new == [list EXCEPT ![k].action = rule.action]
               n == Len(list)
    <2>5. n \in Nat /\ DOMAIN list = 1 .. n /\ \A i \in 1 .. n : list[i] \in Rule OBVIOUS
    <2>6. /\ DOMAIN new = 1 .. n
          /\ \A i \in 1 .. n :
                new[i] = IF i = k THEN [list[k] EXCEPT !.action = rule.action] ELSE list[i]
        BY <2>5
    <2>7. \A i \in 1 .. n : new[i] \in Rule /\ new[i].target = list[i].target
        BY <1>1, <2>3, <2>5, <2>6 DEF Rule
    <2>8. new \in Seq(Rule)
        <3>1. new \in [1 .. n -> Rule]
            <4>1. new = [i \in 1 .. n |-> new[i]] BY <2>5
            <4> HIDE DEF new
            <4> QED BY <2>7, <4>1
        <3> HIDE DEF new, n
        <3> QED BY <2>5, <3>1
    <2>9. Apart(list, SameTarget) => Apart(new, SameTarget)
        <3> HIDE DEF new
        <3> QED BY <2>5, <2>6, <2>7 DEF Apart, SameTarget
    <2> QED BY <2>4, <2>8, <2>9
<1> QED BY <1>2, <1>3

\* What is overlaid is a list of rules.
LEMMA OverlaidType ==
    ASSUME NEW list \in Seq(Rule), NEW rule \in Rule
    PROVE  Overlaid(list, rule) \in Seq(Rule)
BY OverlaidRules

\* What each beginning of a backup leaves of a list.
Overlaying(run, list, rules) ==
    /\ run \in [0 .. Len(rules) -> Seq(Rule)]
    /\ run[0] = list
    /\ \A k \in 1 .. Len(rules) : run[k] = Overlaid(run[k - 1], rules[k])
    /\ Overlay(list, rules) = run[Len(rules)]

\* Overlay goes through the rules of the backup one by one.
LEMMA OverlaySteps ==
    ASSUME NEW list \in Seq(Rule), NEW rules \in Seq(Rule)
    PROVE  \E run : Overlaying(run, list, rules)
<1> DEFINE input == rules
           n == Len(input)
           V == Seq(Rule)
           b == list
           Op(v, x) == Overlaid(v, x)
           F == [p \in (1 .. n) \X V |-> Op(p[2], input[p[1]])]
           Is(f) == f = [s \in SUBSET (DOMAIN input) |->
                            IF s = {} THEN b ELSE Op(f[Less(s)], input[Max(s)])]
           it == CHOOSE f : Is(f)
<1>1. n \in Nat /\ DOMAIN input = 1 .. n /\ \A k \in 1 .. n : input[k] \in Rule OBVIOUS
<1>2. Overlay(list, rules) = it[DOMAIN input] BY DEF Overlay, Less, FoldLeft, MapThenFoldSet
<1>3. b \in V OBVIOUS
<1>4. ASSUME NEW x \in Rule, NEW v \in V PROVE Op(v, x) \in V
    BY <1>4, OverlaidType
<1> HIDE DEF V, b, input, n, Op
<1>5. F \in [(1 .. n) \X V -> V] BY <1>1, <1>4
<1>6. \A k \in 1 .. n, v \in V : F[<<k, v>>] = Op(v, input[k]) OBVIOUS
<1>7. \E f : Is(f)
    <2> HIDE DEF F
    <2>1. PICK f : Folds(f, n, V, b, F) BY <1>1, <1>3, <1>5, FoldExists
    <2>2. f = [s \in SUBSET (1 .. n) |-> f[s]] /\ f[{}] = b BY <2>1 DEF Folds
    <2>3. ASSUME NEW s \in SUBSET (1 .. n), s # {}
          PROVE  f[s] = Op(f[Less(s)], input[Max(s)])
        <3>1. /\ Max(s) \in 1 .. n /\ f[Less(s)] \in V
              /\ f[s] = F[<<Max(s), f[Less(s)]>>]
            BY <1>1, <2>1, <2>3, FoldsWithin
        <3> QED BY <1>6, <3>1
    <2>4. Is(f) BY <1>1, <2>2, <2>3
    <2> QED BY <2>4
<1>8. Is(it) BY <1>7
<1>9. Unrolls(it, n, V, b, F)
    <2> HIDE DEF it, F
    <2> QED BY <1>1, <1>6, <1>8, MaxPlace DEF Unrolls
<1>10. PICK run : Runs(run, it, n, V, b, F)
    <2> HIDE DEF F, it
    <2> QED BY <1>1, <1>3, <1>5, <1>9, FoldRuns
<1> HIDE DEF F, it
<1>11. run \in [0 .. n -> V] /\ run[0] = b /\ Overlay(list, rules) = run[n]
    BY <1>1, <1>2, <1>10 DEF Runs
<1>12. ASSUME NEW k \in 1 .. n PROVE run[k] = Op(run[k - 1], input[k])
    <2>1. k - 1 \in 0 .. n /\ run[k] = F[<<k, run[k - 1]>>] BY <1>1, <1>10 DEF Runs
    <2> QED BY <1>6, <1>11, <2>1
<1>13. Overlaying(run, list, rules) BY <1>11, <1>12 DEF Overlaying, V, b, input, n, Op
<1> QED BY <1>13

\* What the first rows leave of the configuration.
Relabelling(run, c, selected, resets) ==
    /\ run \in [0 .. Len(Rows) -> Config]
    /\ run[0] = c
    /\ \A k \in 1 .. Len(Rows) :
            run[k] = Relabelled(run[k - 1], Rows[k], selected[Rows[k]], resets)
    /\ RelabelledRows(c, selected, resets) = run[Len(Rows)]

\* The rows get their labels one by one.
LEMMA RowSteps ==
    ASSUME NEW c \in Config, NEW selected \in [Programs -> Action], NEW resets \in BOOLEAN
    PROVE  \E run : Relabelling(run, c, selected, resets)
<1> DEFINE input == Rows
           n == Len(input)
           V == Config
           b == c
           Op(v, x) == Relabelled(v, x, selected[x], resets)
           F == [p \in (1 .. n) \X V |-> Op(p[2], input[p[1]])]
           Is(f) == f = [s \in SUBSET (DOMAIN input) |->
                            IF s = {} THEN b ELSE Op(f[Less(s)], input[Max(s)])]
           it == CHOOSE f : Is(f)
<1>1. n \in Nat /\ DOMAIN input = 1 .. n /\ \A k \in 1 .. n : input[k] \in Programs
    BY RowsAssumption
<1>2. RelabelledRows(c, selected, resets) = it[DOMAIN input]
    BY DEF RelabelledRows, Less, FoldLeft, MapThenFoldSet
<1>3. b \in V OBVIOUS
<1>4. ASSUME NEW x \in Programs, NEW v \in V PROVE Op(v, x) \in V
    BY <1>4, RelabelledConfig
<1> HIDE DEF V, b, input, n, Op
<1>5. F \in [(1 .. n) \X V -> V] BY <1>1, <1>4
<1>6. \A k \in 1 .. n, v \in V : F[<<k, v>>] = Op(v, input[k]) OBVIOUS
<1>7. \E f : Is(f)
    <2> HIDE DEF F
    <2>1. PICK f : Folds(f, n, V, b, F) BY <1>1, <1>3, <1>5, FoldExists
    <2>2. f = [s \in SUBSET (1 .. n) |-> f[s]] /\ f[{}] = b BY <2>1 DEF Folds
    <2>3. ASSUME NEW s \in SUBSET (1 .. n), s # {}
          PROVE  f[s] = Op(f[Less(s)], input[Max(s)])
        <3>1. /\ Max(s) \in 1 .. n /\ f[Less(s)] \in V
              /\ f[s] = F[<<Max(s), f[Less(s)]>>]
            BY <1>1, <2>1, <2>3, FoldsWithin
        <3> QED BY <1>6, <3>1
    <2>4. Is(f) BY <1>1, <2>2, <2>3
    <2> QED BY <2>4
<1>8. Is(it) BY <1>7
<1>9. Unrolls(it, n, V, b, F)
    <2> HIDE DEF it, F
    <2> QED BY <1>1, <1>6, <1>8, MaxPlace DEF Unrolls
<1>10. PICK run : Runs(run, it, n, V, b, F)
    <2> HIDE DEF F, it
    <2> QED BY <1>1, <1>3, <1>5, <1>9, FoldRuns
<1> HIDE DEF F, it
<1>11. run \in [0 .. n -> V] /\ run[0] = b /\ RelabelledRows(c, selected, resets) = run[n]
    BY <1>1, <1>2, <1>10 DEF Runs
<1>12. ASSUME NEW k \in 1 .. n PROVE run[k] = Op(run[k - 1], input[k])
    <2>1. k - 1 \in 0 .. n /\ run[k] = F[<<k, run[k - 1]>>] BY <1>1, <1>10 DEF Runs
    <2> QED BY <1>6, <1>11, <2>1
<1>13. Relabelling(run, c, selected, resets) BY <1>11, <1>12 DEF Relabelling, V, b, input, n, Op
<1> QED BY <1>13

\* A backup that is merged keeps one rule for a target.
LEMMA OverlayRules ==
    ASSUME NEW list \in Seq(Rule), NEW rules \in Seq(Rule)
    PROVE  /\ Overlay(list, rules) \in Seq(Rule)
           /\ Apart(list, SameTarget) => Apart(Overlay(list, rules), SameTarget)
<1> DEFINE n == Len(rules)
<1>1. PICK run : Overlaying(run, list, rules) BY OverlaySteps
<1>2. /\ run \in [0 .. n -> Seq(Rule)] /\ run[0] = list /\ Overlay(list, rules) = run[n]
      /\ \A k \in 1 .. n : run[k] = Overlaid(run[k - 1], rules[k])
    BY <1>1 DEF Overlaying
<1>3. n \in Nat /\ \A k \in 1 .. n : rules[k] \in Rule OBVIOUS
<1> DEFINE Good == {k \in 0 .. n : Apart(list, SameTarget) => Apart(run[k], SameTarget)}
<1>4. 0 \in Good BY <1>2, <1>3
<1>5. ASSUME NEW k \in 1 .. n, k - 1 \in Good PROVE k \in Good
    <2>1. k \in 0 .. n /\ k - 1 \in 0 .. n /\ rules[k] \in Rule BY <1>3
    <2>2. run[k - 1] \in Seq(Rule) BY <1>2, <2>1
    <2>3. Apart(run[k - 1], SameTarget) => Apart(Overlaid(run[k - 1], rules[k]), SameTarget)
        BY <2>1, <2>2, OverlaidRules
    <2> QED BY <1>2, <1>5, <2>1, <2>3
<1>6. n \in Good
    <2> HIDE DEF Good, n
    <2>1. n \in 0 .. n BY <1>3
    <2> QED BY <1>3, <1>4, <1>5, <2>1, EveryPlace
<1> QED BY <1>2, <1>3, <1>6

\* So does one that replaces the list, whatever the file holds.
LEMMA BackupRules ==
    ASSUME NEW conditions \in Seq(Condition)
    PROVE  ParseBackup(conditions) \in Seq(Rule) /\ Apart(ParseBackup(conditions), SameTarget)
<1> DEFINE n == Len(conditions)
<1>1. PICK run : ReadingBackup(run, conditions) BY BackupSteps
<1>2. /\ run \in [0 .. n -> Seq(Rule)] /\ run[0] = <<>> /\ ParseBackup(conditions) = run[n]
      /\ \A k \in 1 .. n : \/ run[k] = run[k - 1]
                           \/ \E a \in Action : /\ conditions[k].target \in Targets
                                                /\ run[k] = Push(run[k - 1], Of(conditions[k].target, a))
    <2>1. /\ run \in [0 .. n -> Seq(Rule)] /\ run[0] = <<>> /\ ParseBackup(conditions) = run[n]
          /\ \A k \in 1 .. n : run[k] =
                (CASE conditions[k].is = "other" -> run[k - 1]
                   [] conditions[k].is = "bypass" -> Push(run[k - 1], Of(conditions[k].target, "direct"))
                   [] OTHER -> Push(run[k - 1], Of(conditions[k].target, conditions[k].action)))
        BY <1>1 DEF ReadingBackup
    <2>2. \A k \in 1 .. n : conditions[k].is # "other" =>
                conditions[k].target \in Targets /\ conditions[k].action \in Action
        BY ConditionTarget
    <2>3. "direct" \in Action BY DEF Action
    <2> HIDE DEF n
    <2> QED BY <2>1, <2>2, <2>3
<1>3. n \in Nat OBVIOUS
<1> DEFINE Good == {k \in 0 .. n : Apart(run[k], SameTarget)}
<1>4. 0 \in Good BY <1>2, <1>3 DEF Apart
<1>5. ASSUME NEW k \in 1 .. n, k - 1 \in Good PROVE k \in Good
    <2>1. k \in 0 .. n /\ k - 1 \in 0 .. n BY <1>3
    <2>2. run[k - 1] \in Seq(Rule) BY <1>2, <2>1
    <2>3. CASE run[k] = run[k - 1] BY <1>5, <2>1, <2>3
    <2>4. CASE \E a \in Action : /\ conditions[k].target \in Targets
                                 /\ run[k] = Push(run[k - 1], Of(conditions[k].target, a))
        <3>1. Apart(run[k], SameTarget) BY <1>5, <2>2, <2>4, PushApart
        <3> QED BY <2>1, <3>1
    <2> QED BY <1>2, <2>3, <2>4
<1>6. n \in Good
    <2> HIDE DEF Good, n
    <2>1. n \in 0 .. n BY <1>3
    <2> QED BY <1>3, <1>4, <1>5, <2>1, EveryPlace
<1> QED BY <1>2, <1>3, <1>6

\* The rows: those that show an action other than to go directly have it in
\* the end, and if none of them is heard nothing changes.
Unheard(c, selected, resets) ==
    \A p \in Programs :
        /\ resets => CurrentAction(c, p) = "direct"
        /\ selected[p] # "direct" => CurrentAction(c, p) = selected[p]

\* By induction over the rows.
LEMMA RowsRules ==
    ASSUME NEW c \in Config, NEW selected \in [Programs -> Action], NEW resets \in BOOLEAN
    PROVE  /\ SameRest(c, RelabelledRows(c, selected, resets))
           /\ Apart(c.programs, SameName) =>
                Apart(RelabelledRows(c, selected, resets).programs, SameName)
           /\ \A p \in Programs : selected[p] # "direct" =>
                CurrentAction(RelabelledRows(c, selected, resets), p) = selected[p]
           /\ Unheard(c, selected, resets) => RelabelledRows(c, selected, resets) = c
<1> DEFINE n == Len(Rows)
<1>1. PICK run : Relabelling(run, c, selected, resets) BY RowSteps
<1>2. /\ run \in [0 .. n -> Config] /\ run[0] = c /\ RelabelledRows(c, selected, resets) = run[n]
      /\ \A k \in 1 .. n : run[k] = Relabelled(run[k - 1], Rows[k], selected[Rows[k]], resets)
    BY <1>1 DEF Relabelling
<1>3. /\ n \in Nat /\ \A k \in 1 .. n : Rows[k] \in Programs
      /\ \A i, j \in 1 .. n : Rows[i] = Rows[j] => i = j
    BY RowsAssumption
<1> DEFINE Rest(k) == SameRest(c, run[k])
           Once(k) == Apart(c.programs, SameName) => Apart(run[k].programs, SameName)
           Shown(k) == \A i \in 1 .. k : selected[Rows[i]] # "direct" =>
                            CurrentAction(run[k], Rows[i]) = selected[Rows[i]]
           Still(k) == Unheard(c, selected, resets) => run[k] = c
           Good == {k \in 0 .. n : Rest(k) /\ Once(k) /\ Shown(k) /\ Still(k)}
<1>4. 0 \in Good
    <2>1. Rest(0) /\ Once(0) /\ Still(0) BY <1>2 DEF SameRest
    <2>2. Shown(0) OBVIOUS
    <2> HIDE DEF Rest, Once, Shown, Still
    <2> QED BY <1>3, <2>1, <2>2
<1>5. ASSUME NEW k \in 1 .. n, k - 1 \in Good PROVE k \in Good
    <2>1. Rest(k - 1) /\ Once(k - 1) /\ Shown(k - 1) /\ Still(k - 1) /\ k - 1 \in 0 .. n BY <1>5
    <2>2. /\ k \in 0 .. n /\ Rows[k] \in Programs
          /\ selected[Rows[k]] \in Action /\ run[k - 1] \in Config
        BY <1>2, <1>3, <2>1
    <2> DEFINE b == run[k - 1]
               p == Rows[k]
    <2>3. run[k] = Relabelled(b, p, selected[p], resets) BY <1>2
    <2>4. RelabelledTo(b, p, selected[p], run[k])
          /\ ((resets => CurrentAction(b, p) = "direct")
              /\ (selected[p] # "direct" => CurrentAction(b, p) = selected[p]) => run[k] = b)
        <3> HIDE DEF b, p
        <3> QED BY <2>2, <2>3, RelabelledRules DEF b, p
    <2>5. Rest(k) BY <2>1, <2>4 DEF RelabelledTo, SameRest
    <2>6. Once(k) BY <2>1, <2>4 DEF RelabelledTo
    <2>7. Shown(k)
        <3> SUFFICES ASSUME NEW i \in 1 .. k, selected[Rows[i]] # "direct"
                     PROVE  CurrentAction(run[k], Rows[i]) = selected[Rows[i]]
            OBVIOUS
        <3>1. CASE i = k BY <2>4, <3>1 DEF RelabelledTo
        <3>2. CASE i # k
            <4>1. i \in 1 .. (k - 1) /\ i \in 1 .. n BY <1>3, <3>2
            <4>2. Rows[i] # p BY <1>3, <3>2, <4>1
            <4>3. CurrentAction(b, Rows[i]) = selected[Rows[i]] BY <2>1, <4>1
            <4> QED BY <2>4, <4>2, <4>3 DEF RelabelledTo
        <3> QED BY <3>1, <3>2
    <2>8. Still(k) BY <2>1, <2>2, <2>4 DEF Unheard
    <2> HIDE DEF Rest, Once, Shown, Still
    <2> QED BY <2>2, <2>5, <2>6, <2>7, <2>8
<1>6. n \in Good
    <2> HIDE DEF Good, n
    <2>1. n \in 0 .. n BY <1>3
    <2> QED BY <1>3, <1>4, <1>5, <2>1, EveryPlace
<1>7. \A p \in Programs : \E i \in 1 .. n : p = Rows[i]
    BY <1>3, RowsAssumption DEF Programs, Range
<1>8. Rest(n) /\ Once(n) /\ Shown(n) /\ Still(n) BY <1>6
<1> HIDE DEF n
<1> QED BY <1>2, <1>7, <1>8

-----------------------------------------------------------------------------
(* What sources say. *)

\* m is the first mention of its target.
Leads(said, m) == m \in said /\ \A n \in said : n.target = m.target => ~Before(n.at, m.at)

\* The rules of a list are those of the first mentions.
Tells(list, said) ==
    /\ \A m \in said :
            m.at \in Nat \X Nat /\ \E f \in said : Leads(said, f) /\ f.target = m.target
    /\ Range(list) = First(said)
    /\ Apart(list, SameTarget)

\* What is said first of targets, as rules.
LEMMA FirstLeads ==
    ASSUME NEW said
    PROVE  /\ \A m : Leads(said, m) => Of(m.target, m.action) \in First(said)
           /\ \A x \in First(said) : \E m : Leads(said, m) /\ x = Of(m.target, m.action)
BY DEF First, Leads

\* A rule that is pushed for a later mention.
LEMMA PushTells ==
    ASSUME NEW list \in Seq(Rule), NEW said, Tells(list, said),
           NEW m, m.target \in Targets, m.action \in Action, m.at \in Nat \X Nat,
           \A n \in said : Before(n.at, m.at)
    PROVE  Tells(Push(list, Of(m.target, m.action)), said \cup {m})
<1> DEFINE rule == Of(m.target, m.action)
           more == said \cup {m}
           new == Push(list, rule)
<1>1. rule \in Rule /\ rule.target = m.target BY DEF Of, Rule
<1>2. \A n \in more : n \in said \/ n = m OBVIOUS
<1>3. \A n \in said : n \in more /\ ~Before(m.at, n.at) /\ n.at \in Nat \X Nat
    <2> SUFFICES ASSUME NEW n \in said PROVE ~Before(m.at, n.at) /\ n.at \in Nat \X Nat OBVIOUS
    <2>1. Before(n.at, m.at) /\ n.at \in Nat \X Nat BY DEF Tells
    <2>2. n.at[1] \in Nat /\ n.at[2] \in Nat /\ m.at[1] \in Nat /\ m.at[2] \in Nat BY <2>1
    <2> QED BY <2>1, <2>2 DEF Before
<1>4. ~Before(m.at, m.at)
    <2>1. m.at[1] \in Nat /\ m.at[2] \in Nat OBVIOUS
    <2> QED BY <2>1 DEF Before
<1>5. m \in more OBVIOUS
<1> HIDE DEF rule, more
<1>6. \A f : Leads(said, f) => Leads(more, f) BY <1>2, <1>3 DEF Leads
<1>7. \A f : Leads(more, f) /\ f # m => Leads(said, f) BY <1>2, <1>3 DEF Leads
<1>8. Apart(new, SameTarget)
    <2>1. Apart(list, SameTarget) BY DEF Tells
    <2> QED BY <2>1, PushApart DEF rule
<1>9. CASE At(list, m.target) = {}
    <2>1. \A n \in said : n.target # m.target
        <3> SUFFICES ASSUME NEW n \in said, n.target = m.target PROVE FALSE OBVIOUS
        <3>1. PICK f : Leads(said, f) /\ f.target = n.target BY DEF Tells
        <3>2. Of(f.target, f.action) \in Range(list) BY <3>1, FirstLeads DEF Tells
        <3>3. PICK i \in DOMAIN list : list[i] = Of(f.target, f.action) BY <3>2 DEF Range
        <3>4. i \in At(list, m.target) BY <3>1, <3>3 DEF At, Of
        <3> QED BY <1>9, <3>4
    <2>2. Leads(more, m) BY <1>2, <1>4, <1>5, <2>1 DEF Leads
    <2>3. new = Append(list, rule) BY <1>1, <1>9 DEF Push
    <2>4. Range(new) = Range(list) \cup {rule}
        <3>1. \A i \in 1 .. Len(list) : new[i] = list[i] BY <2>3
        <3>2. Len(list) \in Nat /\ DOMAIN list = 1 .. Len(list)
              /\ DOMAIN new = 1 .. (Len(list) + 1) /\ new[Len(list) + 1] = rule
            BY <2>3
        <3>3. \A i \in 1 .. (Len(list) + 1) : i \in 1 .. Len(list) \/ i = Len(list) + 1 BY <3>2
        <3>4. ASSUME NEW x \in Range(new) PROVE x \in Range(list) \cup {rule}
            BY <3>1, <3>2, <3>3 DEF Range
        <3>5. ASSUME NEW x \in Range(list) PROVE x \in Range(new)
            <4>1. PICK i \in 1 .. Len(list) : x = list[i] BY <3>2 DEF Range
            <4>2. i \in DOMAIN new BY <3>2
            <4> QED BY <3>1, <4>1, <4>2 DEF Range
        <3>6. rule \in Range(new)
            <4>1. Len(list) + 1 \in DOMAIN new BY <3>2
            <4> QED BY <3>2, <4>1 DEF Range
        <3> QED BY <3>4, <3>5, <3>6
    <2>5. First(more) = First(said) \cup {rule}
        <3>1. ASSUME NEW x \in First(more) PROVE x \in First(said) \cup {rule}
            <4>1. PICK f : Leads(more, f) /\ x = Of(f.target, f.action) BY FirstLeads
            <4>2. CASE f = m BY <4>1, <4>2 DEF rule
            <4>3. CASE f # m BY <1>7, <4>1, <4>3, FirstLeads
            <4> QED BY <4>2, <4>3
        <3>2. ASSUME NEW x \in First(said) PROVE x \in First(more)
            <4>1. PICK f : Leads(said, f) /\ x = Of(f.target, f.action) BY FirstLeads
            <4> QED BY <1>6, <4>1, FirstLeads
        <3>3. rule \in First(more) BY <2>2, FirstLeads DEF rule
        <3> QED BY <3>1, <3>2, <3>3
    <2>6. Range(new) = First(more) BY <2>4, <2>5 DEF Tells
    <2>7. \A n \in more :
            n.at \in Nat \X Nat /\ \E f \in more : Leads(more, f) /\ f.target = n.target
        <3>1. m \in more /\ m.at \in Nat \X Nat BY <1>5
        <3>2. ASSUME NEW n \in said
              PROVE  n.at \in Nat \X Nat /\ \E f \in more : Leads(more, f) /\ f.target = n.target
            <4>1. PICK f \in said : Leads(said, f) /\ f.target = n.target BY DEF Tells
            <4>2. Leads(more, f) /\ f \in more BY <1>6, <4>1 DEF Leads
            <4> QED BY <1>3, <4>1, <4>2
        <3> QED BY <1>2, <2>2, <3>1, <3>2
    <2> QED BY <1>8, <2>6, <2>7 DEF Tells, rule, more
<1>10. CASE At(list, m.target) # {}
    <2>1. PICK i \in DOMAIN list : list[i].target = m.target BY <1>10 DEF At
    <2>2. list[i] \in First(said) BY DEF Tells, Range
    <2>3. PICK f : Leads(said, f) /\ list[i] = Of(f.target, f.action) BY <2>2, FirstLeads
    <2>4. f \in said /\ f.target = m.target BY <2>1, <2>3 DEF Of, Leads
    <2>5. ~Leads(more, m) BY <1>3, <2>4 DEF Leads
    <2>6. new = list BY <1>1, <1>10 DEF Push
    <2>7. First(more) = First(said)
        <3>1. ASSUME NEW x \in First(more) PROVE x \in First(said)
            <4>1. PICK g : Leads(more, g) /\ x = Of(g.target, g.action) BY FirstLeads
            <4> QED BY <1>7, <2>5, <4>1, FirstLeads
        <3>2. ASSUME NEW x \in First(said) PROVE x \in First(more)
            <4>1. PICK g : Leads(said, g) /\ x = Of(g.target, g.action) BY FirstLeads
            <4> QED BY <1>6, <4>1, FirstLeads
        <3> QED BY <3>1, <3>2
    <2>8. Leads(more, f) BY <1>6, <2>3
    <2>9. \A n \in more :
            n.at \in Nat \X Nat /\ \E g \in more : Leads(more, g) /\ g.target = n.target
        <3>1. m \in more /\ m.at \in Nat \X Nat BY <1>5
        <3>2. ASSUME NEW n \in said
              PROVE  n.at \in Nat \X Nat /\ \E g \in more : Leads(more, g) /\ g.target = n.target
            <4>1. PICK g \in said : Leads(said, g) /\ g.target = n.target BY DEF Tells
            <4>2. Leads(more, g) /\ g \in more BY <1>6, <4>1 DEF Leads
            <4> QED BY <1>3, <4>1, <4>2
        <3>3. f \in more BY <2>8 DEF Leads
        <3> QED BY <1>2, <2>4, <2>8, <3>1, <3>2, <3>3
    <2> QED BY <1>8, <2>6, <2>7, <2>9 DEF Tells, rule, more
<1> QED BY <1>9, <1>10

\* What the first k lines of a source, and of its rule set number s, say.
OwnSaid(lines, k) ==
    {[at |-> <<0, i>>, target |-> lines[i].target,
      action |-> IF lines[i].is = "rule" THEN lines[i].action ELSE "direct"]
        : i \in {j \in 1 .. k : lines[j].is \in {"rule", "bypass"}}}

SetSaid(lines, action, s, k) ==
    {[at |-> <<s, i>>, target |-> lines[i].target, action |-> action]
        : i \in {j \in 1 .. k : lines[j].is = "rule"}}

\* By induction over its lines: the rules of a source are those that its own
\* lines mention first.
LEMMA ParseTells ==
    ASSUME NEW lines \in Seq(Line)
    PROVE  /\ Parse(lines) \in Result
           /\ Tells(Parse(lines).rules, OwnSaid(lines, Len(lines)))
<1> DEFINE n == Len(lines)
<1>1. PICK run : Parsing(run, lines) BY ParseSteps
<1>2. /\ run \in [0 .. n -> Result] /\ Parse(lines) = run[n]
      /\ run[0] = [rules |-> <<>>, sets |-> <<>>, default |-> "direct"]
      /\ \A k \in 1 .. n : run[k] = ParseLine(run[k - 1], lines[k])
    BY <1>1 DEF Parsing
<1>3. n \in Nat /\ \A k \in 1 .. n : lines[k] \in Line OBVIOUS
<1> DEFINE Good == {k \in 0 .. n : Tells(run[k].rules, OwnSaid(lines, k))}
<1>4. 0 \in Good
    <2>1. OwnSaid(lines, 0) = {} BY DEF OwnSaid
    <2>2. First({}) = {} BY DEF First
    <2>3. Tells(<<>>, {}) BY <2>2 DEF Tells, Apart, Range
    <2>4. run[0].rules = <<>> BY <1>2
    <2>5. 0 \in 0 .. n BY <1>3
    <2> HIDE DEF n
    <2> QED BY <2>1, <2>3, <2>4, <2>5
<1>5. ASSUME NEW k \in 1 .. n, k - 1 \in Good PROVE k \in Good
    <2> DEFINE old == run[k - 1]
               line == lines[k]
               said == OwnSaid(lines, k - 1)
               a == IF line.is = "rule" THEN line.action ELSE "direct"
               m == [at |-> <<0, k>>, target |-> line.target, action |-> a]
    <2>1. k \in 0 .. n /\ k - 1 \in 0 .. n /\ k \in Nat /\ line \in Line BY <1>3
    <2>2. old \in Result /\ run[k] = ParseLine(old, line) BY <1>2, <2>1
    <2>3. old.rules \in Seq(Rule) BY <2>2 DEF Result
    <2>4. Tells(old.rules, said) BY <1>5
    <2>5. \A j \in 1 .. k : j \in 1 .. (k - 1) \/ j = k BY <2>1
    <2>6. \A j \in 1 .. (k - 1) : j \in 1 .. k /\ j < k /\ j \in Nat BY <2>1
    <2>7. CASE line.is \in {"rule", "bypass"}
        <3>1. line.target \in Targets /\ a \in Action BY <2>1, <2>7, LineTarget DEF Action
        <3>2. run[k].rules = Push(old.rules, Of(line.target, a))
            <4> HIDE DEF old, line
            <4> QED BY <2>2, <2>7 DEF ParseLine, Result
        <3>3. OwnSaid(lines, k) = said \cup {m}
            <4>1. ASSUME NEW x \in OwnSaid(lines, k) PROVE x \in said \cup {m}
                <5>1. PICK j \in 1 .. k : /\ lines[j].is \in {"rule", "bypass"}
                            /\ x = [at |-> <<0, j>>, target |-> lines[j].target,
                                    action |-> IF lines[j].is = "rule" THEN lines[j].action
                                               ELSE "direct"]
                    BY <4>1 DEF OwnSaid
                <5>2. CASE j = k BY <5>1, <5>2
                <5>3. CASE j \in 1 .. (k - 1) BY <5>1, <5>3 DEF OwnSaid
                <5> QED BY <2>5, <5>2, <5>3
            <4>2. said \subseteq OwnSaid(lines, k) BY <2>6 DEF OwnSaid
            <4>3. m \in OwnSaid(lines, k)
                <5>1. k \in 1 .. k BY <2>1
                <5> QED BY <2>7, <5>1 DEF OwnSaid
            <4> QED BY <4>1, <4>2, <4>3
        <3>4. \A x \in said : Before(x.at, m.at)
            <4> SUFFICES ASSUME NEW x \in said PROVE Before(x.at, m.at) OBVIOUS
            <4>1. PICK j \in 1 .. (k - 1) : x.at = <<0, j>> BY DEF OwnSaid
            <4>2. j < k BY <2>6
            <4>3. x.at[1] = 0 /\ x.at[2] = j /\ m.at[1] = 0 /\ m.at[2] = k BY <4>1
            <4> QED BY <4>2, <4>3 DEF Before
        <3>5. m.target = line.target /\ m.action = a /\ m.at \in Nat \X Nat BY <2>1
        <3> HIDE DEF m, a, said, old, line
        <3>6. Tells(Push(old.rules, Of(line.target, a)), said \cup {m})
            BY <2>3, <2>4, <3>1, <3>4, <3>5, PushTells
        <3> QED BY <2>1, <3>2, <3>3, <3>6
    <2>8. CASE line.is \notin {"rule", "bypass"}
        <3>1. run[k].rules = old.rules
            <4>1. line.is \in {"set", "final", "other"} BY <2>1, <2>8, LineTarget
            <4> HIDE DEF old, line
            <4> QED BY <2>2, <4>1 DEF ParseLine, Result
        <3>2. OwnSaid(lines, k) = said
            <4>1. {j \in 1 .. k : lines[j].is \in {"rule", "bypass"}}
                    = {j \in 1 .. (k - 1) : lines[j].is \in {"rule", "bypass"}}
                BY <2>5, <2>6, <2>8
            <4> QED BY <4>1 DEF OwnSaid
        <3> QED BY <2>1, <2>4, <3>1, <3>2
    <2> QED BY <2>7, <2>8
<1>6. n \in Good
    <2> HIDE DEF Good, n
    <2>1. n \in 0 .. n BY <1>3
    <2> QED BY <1>3, <1>4, <1>5, <2>1, EveryPlace
<1>7. n \in 0 .. n BY <1>3
<1> QED BY <1>2, <1>6, <1>7

\* By induction over its lines: what a rule set says comes after all that was
\* said before.
LEMMA MergeTells ==
    ASSUME NEW rules \in Seq(Rule), NEW said, Tells(rules, said), NEW s \in Nat,
           \A m \in said : m.at[1] < s,
           NEW ref, ref.set \in References, ref.action \in Action
    PROVE  LET lines == Contents[ref.set]
           IN /\ Merge(rules, ref) \in Seq(Rule)
              /\ Tells(Merge(rules, ref), said \cup SetSaid(lines, ref.action, s, Len(lines)))
<1> DEFINE lines == Contents[ref.set]
           n == Len(lines)
           All(k) == said \cup SetSaid(lines, ref.action, s, k)
<1>0. lines \in Seq(Line) BY ContentsAssumption
<1>1. PICK run : Merging(run, rules, ref) BY <1>0, MergeSteps
<1>2. /\ run \in [0 .. n -> Seq(Rule)] /\ run[0] = rules /\ Merge(rules, ref) = run[n]
      /\ \A k \in 1 .. n : run[k] =
            IF lines[k].is = "rule" THEN Push(run[k - 1], Of(lines[k].target, ref.action))
            ELSE run[k - 1]
    BY <1>1 DEF Merging
<1>3. n \in Nat /\ \A k \in 1 .. n : lines[k] \in Line BY <1>0
<1> HIDE DEF lines
<1> DEFINE Good == {k \in 0 .. n : Tells(run[k], All(k))}
<1>4. 0 \in Good
    <2>1. All(0) = said BY DEF SetSaid
    <2>2. Tells(run[0], All(0)) BY <1>2, <2>1
    <2>3. 0 \in 0 .. n BY <1>3
    <2> HIDE DEF All, n
    <2> QED BY <2>2, <2>3
<1>5. ASSUME NEW k \in 1 .. n, k - 1 \in Good PROVE k \in Good
    <2> DEFINE old == run[k - 1]
               line == lines[k]
               m == [at |-> <<s, k>>, target |-> line.target, action |-> ref.action]
               before == All(k - 1)
    <2>1. k \in 0 .. n /\ k - 1 \in 0 .. n /\ k \in Nat /\ line \in Line BY <1>3
    <2>2. old \in Seq(Rule) BY <1>2, <2>1
    <2>3. Tells(old, before) BY <1>5
    <2>4. \A j \in 1 .. k : j \in 1 .. (k - 1) \/ j = k BY <2>1
    <2>5. \A j \in 1 .. (k - 1) : j \in 1 .. k /\ j < k /\ j \in Nat BY <2>1
    <2>6. CASE line.is = "rule"
        <3>1. line.target \in Targets BY <2>1, <2>6, LineTarget
        <3>2. run[k] = Push(old, Of(line.target, ref.action)) BY <1>2, <2>6
        <3>3. All(k) = before \cup {m}
            <4>1. ASSUME NEW x \in SetSaid(lines, ref.action, s, k) PROVE x \in before \cup {m}
                <5>1. PICK j \in 1 .. k : /\ lines[j].is = "rule"
                            /\ x = [at |-> <<s, j>>, target |-> lines[j].target,
                                    action |-> ref.action]
                    BY <4>1 DEF SetSaid
                <5>2. CASE j = k BY <5>1, <5>2
                <5>3. CASE j \in 1 .. (k - 1) BY <5>1, <5>3 DEF SetSaid
                <5> QED BY <2>4, <5>2, <5>3
            <4>2. before \subseteq All(k) BY <2>5 DEF SetSaid
            <4>3. m \in All(k)
                <5>1. k \in 1 .. k BY <2>1
                <5> QED BY <2>6, <5>1 DEF SetSaid
            <4> QED BY <4>1, <4>2, <4>3
        <3>4. \A x \in before : Before(x.at, m.at)
            <4> SUFFICES ASSUME NEW x \in before PROVE Before(x.at, m.at) OBVIOUS
            <4>1. m.at[1] = s /\ m.at[2] = k OBVIOUS
            <4>2. CASE x \in said BY <4>1, <4>2 DEF Before
            <4>3. CASE x \in SetSaid(lines, ref.action, s, k - 1)
                <5>1. PICK j \in 1 .. (k - 1) : x.at = <<s, j>> BY <4>3 DEF SetSaid
                <5>2. j < k /\ x.at[1] = s /\ x.at[2] = j BY <2>5, <5>1
                <5> QED BY <4>1, <5>2 DEF Before
            <4> QED BY <4>2, <4>3
        <3>5. m.target = line.target /\ m.action = ref.action /\ m.at \in Nat \X Nat BY <2>1
        <3> HIDE DEF m, before, old, line
        <3>6. Tells(Push(old, Of(line.target, ref.action)), before \cup {m})
            BY <2>2, <2>3, <3>1, <3>4, <3>5, PushTells
        <3> QED BY <2>1, <3>2, <3>3, <3>6
    <2>7. CASE line.is # "rule"
        <3>1. run[k] = old BY <1>2, <2>7
        <3>2. {j \in 1 .. k : lines[j].is = "rule"} = {j \in 1 .. (k - 1) : lines[j].is = "rule"}
            BY <2>4, <2>5, <2>7
        <3>3. All(k) = before BY <3>2 DEF SetSaid
        <3> QED BY <2>1, <2>3, <3>1, <3>3
    <2> QED BY <2>6, <2>7
<1>6. n \in Good
    <2> HIDE DEF Good, n
    <2>1. n \in 0 .. n BY <1>3
    <2> QED BY <1>3, <1>4, <1>5, <2>1, EveryPlace
<1>7. n \in 0 .. n BY <1>3
<1> QED BY <1>2, <1>6, <1>7 DEF lines

Refs(url) == Parse(Contents[url]).sets

\* The rule sets of a source, of which the first are read.
LEMMA SourceType ==
    ASSUME NEW url \in Urls
    PROVE  /\ Contents[url] \in Seq(Line) /\ Parse(Contents[url]) \in Result
           /\ Refs(url) \in Seq([set : References, action : Action])
           /\ \A k \in 1 .. Len(Refs(url)) :
                Refs(url)[k].set \in References /\ Refs(url)[k].action \in Action
           /\ Len(Refs(url)) \in Nat /\ DOMAIN Refs(url) = 1 .. Len(Refs(url))
           /\ Read(url) \in Nat /\ Read(url) <= Len(Refs(url))
           /\ Read(url) = Least(RuleSetLimit, Len(Refs(url)))
<1>1. Contents[url] \in Seq(Line) BY ContentsAssumption
<1>2. Parse(Contents[url]) \in Result BY <1>1, ParseTells
<1>3. Refs(url) \in Seq([set : References, action : Action]) BY <1>2 DEF Refs, Result
<1>4. Len(Refs(url)) \in Nat /\ DOMAIN Refs(url) = 1 .. Len(Refs(url)) BY <1>3
<1>5. Read(url) = Least(RuleSetLimit, Len(Refs(url))) BY DEF Read, Refs
<1>6. Read(url) \in Nat /\ Read(url) <= Len(Refs(url)) BY <1>4, <1>5, LimitsAssumption DEF Least
<1>7. \A k \in 1 .. Len(Refs(url)) :
        Refs(url)[k].set \in References /\ Refs(url)[k].action \in Action
    <2> DEFINE Set == [set : References, action : Action]
    <2>1. \A x \in Set : x.set \in References /\ x.action \in Action OBVIOUS
    <2>2. Refs(url) \in Seq(Set) BY <1>3
    <2> HIDE DEF Set
    <2>3. \A k \in 1 .. Len(Refs(url)) : Refs(url)[k] \in Set BY <2>2
    <2> QED BY <2>1, <2>3
<1> QED BY <1>1, <1>2, <1>3, <1>4, <1>5, <1>6, <1>7

\* What rule set k of a source says.
Adds(url, k) ==
    SetSaid(Contents[Refs(url)[k].set], Refs(url)[k].action, k, Len(Contents[Refs(url)[k].set]))

\* What rule set k says beyond its source and the earlier sets.
LEMMA MoreMentions ==
    ASSUME NEW url \in Urls
    PROVE  /\ Mentions(url, {}) = OwnSaid(Contents[url], Len(Contents[url]))
           /\ \A k \in 1 .. Len(Refs(url)) : \A D \in SUBSET (1 .. (k - 1)) :
                Mentions(url, D \cup {k}) = Mentions(url, D) \cup Adds(url, k)
           /\ \A k \in Nat : \A D \in SUBSET (1 .. k) : \A m \in Mentions(url, D) : m.at[1] < k + 1
<1> DEFINE src == Contents[url]
           own == OwnSaid(src, Len(src))
           refs == Refs(url)
           set(k) == Contents[refs[k].set]
           says(k) == {[at |-> <<k, i>>, target |-> set(k)[i].target, action |-> refs[k].action]
                        : i \in {j \in DOMAIN set(k) : set(k)[j].is = "rule"}}
<1>1. src \in Seq(Line) /\ DOMAIN src = 1 .. Len(src)
    <2>1. src \in Seq(Line) BY SourceType
    <2> QED BY <2>1
<1>2. \A D : Mentions(url, D) = own \cup UNION {says(k) : k \in D}
    BY <1>1 DEF Mentions, OwnSaid, Refs
<1>3. \A k \in 1 .. Len(refs) : says(k) = Adds(url, k)
    <2> SUFFICES ASSUME NEW k \in 1 .. Len(refs)
                 PROVE  says(k) = Adds(url, k)
        OBVIOUS
    <2>2. refs[k].set \in References BY SourceType
    <2>3. set(k) \in Seq(Line) BY <2>2, ContentsAssumption
    <2>4. DOMAIN set(k) = 1 .. Len(set(k)) BY <2>3
    <2> QED BY <2>4 DEF Adds, SetSaid
<1>4. \A m \in own : m.at[1] = 0 BY DEF OwnSaid
<1>5. \A k : \A m \in says(k) : m.at[1] = k OBVIOUS
<1> HIDE DEF says, set, own, refs, src
<1>6. Mentions(url, {}) = own BY <1>2
<1>7. \A k \in 1 .. Len(refs) : \A D \in SUBSET (1 .. (k - 1)) :
        Mentions(url, D \cup {k}) = Mentions(url, D) \cup says(k)
    BY <1>2
<1>8. ASSUME NEW k \in Nat, NEW D \in SUBSET (1 .. k), NEW m \in Mentions(url, D)
      PROVE  m.at[1] < k + 1
    <2>1. CASE m \in own BY <1>4, <2>1
    <2>2. CASE \E d \in D : m \in says(d)
        <3>1. PICK d \in D : m.at[1] = d BY <1>5, <2>2
        <3>2. d \in 1 .. k OBVIOUS
        <3> QED BY <3>1, <3>2
    <2> QED BY <1>2, <2>1, <2>2
<1> QED BY <1>3, <1>6, <1>7, <1>8 DEF own, src, refs, set

\* After k rule sets: what is left to read, and what the list says.
Remaining(url, sets, k) ==
    /\ Len(sets) = Read(url) - k
    /\ \A i \in 1 .. (Read(url) - k) : sets[i] = Refs(url)[k + i]

Gathered(url, rules, k) == \E D \in SUBSET (1 .. k) : Tells(rules, Mentions(url, D))

\* One more rule set, whether it could be read or not.
LEMMA GatheredMore ==
    ASSUME NEW url \in Urls, NEW rules \in Seq(Rule), NEW k \in Nat, k < Read(url),
           Gathered(url, rules, k)
    PROVE  /\ Gathered(url, rules, k + 1)
           /\ Gathered(url, Merge(rules, Refs(url)[k + 1]), k + 1)
           /\ Merge(rules, Refs(url)[k + 1]) \in Seq(Rule)
<1> DEFINE ref == Refs(url)[k + 1]
           lines == Contents[ref.set]
<1>1. PICK D \in SUBSET (1 .. k) : Tells(rules, Mentions(url, D)) BY DEF Gathered
<1>2. k + 1 \in 1 .. Len(Refs(url)) /\ (k + 1) - 1 = k /\ k + 1 \in Nat
    <2>1. Read(url) \in Nat /\ Read(url) <= Len(Refs(url)) /\ Len(Refs(url)) \in Nat BY SourceType
    <2> QED BY <2>1
<1>3. ref.set \in References /\ ref.action \in Action BY <1>2, SourceType
<1>4. \A m \in Mentions(url, D) : m.at[1] < k + 1 BY MoreMentions
<1> HIDE DEF ref
<1>5. Merge(rules, ref) \in Seq(Rule)
      /\ Tells(Merge(rules, ref),
               Mentions(url, D) \cup SetSaid(lines, ref.action, k + 1, Len(lines)))
    BY <1>1, <1>2, <1>3, <1>4, MergeTells
<1>6. D \in SUBSET (1 .. ((k + 1) - 1)) BY <1>2
<1>7. Mentions(url, D \cup {k + 1}) =
        Mentions(url, D) \cup SetSaid(lines, ref.action, k + 1, Len(lines))
    BY <1>2, <1>6, MoreMentions DEF Adds, ref
<1>8. D \in SUBSET (1 .. (k + 1)) /\ D \cup {k + 1} \in SUBSET (1 .. (k + 1)) OBVIOUS
<1>9. Tells(Merge(rules, ref), Mentions(url, D \cup {k + 1})) BY <1>5, <1>7
<1> QED BY <1>1, <1>5, <1>8, <1>9 DEF Gathered, ref

\* Rules of all sets that are read are what the source says.
LEMMA GatheredSaid ==
    ASSUME NEW url, NEW rules, Gathered(url, rules, Read(url))
    PROVE  SaidBy(url, rules) /\ Apart(rules, SameTarget)
BY DEF Gathered, SaidBy, Tells

\* Before the first rule set, the rules are those of the source itself.
LEMMA GatheredFirst ==
    ASSUME NEW url \in Urls
    PROVE  Gathered(url, Parse(Contents[url]).rules, 0)
<1>1. Tells(Parse(Contents[url]).rules, Mentions(url, {}))
    BY SourceType, ParseTells, MoreMentions
<1>2. {} \in SUBSET (1 .. 0) OBVIOUS
<1> QED BY <1>1, <1>2 DEF Gathered

\* The first rule sets, as many as are read.
LEMMA LimitSets ==
    ASSUME NEW url \in Urls
    PROVE  LET sets == SubSeq(Refs(url), 1, Least(RuleSetLimit, Len(Refs(url))))
           IN Remaining(url, sets, 0) /\ sets \in Seq([set : References, action : Action])
<1> DEFINE refs == Refs(url)
           r == Read(url)
           sets == SubSeq(refs, 1, r)
<1>1. /\ refs \in Seq([set : References, action : Action]) /\ Len(refs) \in Nat
      /\ r \in Nat /\ r <= Len(refs) /\ r = Least(RuleSetLimit, Len(refs))
    BY SourceType
<1> HIDE DEF r, refs
<1>2. Len(sets) = r /\ \A i \in 1 .. r : sets[i] = refs[i]
    BY <1>1
<1>3. sets \in Seq([set : References, action : Action])
    <2> DEFINE Set == [set : References, action : Action]
    <2>1. refs \in Seq(Set) BY <1>1
    <2> HIDE DEF Set
    <2>2. \A i \in 1 .. r : refs[i] \in Set BY <1>1, <2>1
    <2>3. SubSeq(refs, 1, r) \in Seq(Set) BY <1>1, <2>2, SubSeqProperties
    <2> QED BY <2>3 DEF Set
<1>4. r - 0 = r /\ \A i \in 1 .. r : 0 + i = i BY <1>1
<1> HIDE DEF sets
<1>5. Remaining(url, sets, 0) BY <1>2, <1>4 DEF Remaining, r, refs
<1> QED BY <1>1, <1>3, <1>5 DEF sets, refs

\* One rule set is done.
LEMMA TailSets ==
    ASSUME NEW url \in Urls, NEW k \in 0 .. Read(url),
           NEW sets \in Seq([set : References, action : Action]),
           Remaining(url, sets, k), sets # <<>>
    PROVE  /\ k + 1 \in 0 .. Read(url) /\ k < Read(url) /\ k \in Nat
           /\ Head(sets) = Refs(url)[k + 1]
           /\ Remaining(url, Tail(sets), k + 1)
           /\ Tail(sets) \in Seq([set : References, action : Action])
<1> DEFINE r == Read(url)
           refs == Refs(url)
<1>1. r \in Nat /\ k \in 0 .. r BY SourceType
<1>2. Len(sets) = r - k /\ \A i \in 1 .. (r - k) : sets[i] = refs[k + i] BY DEF Remaining
<1> HIDE DEF r, refs
<1>3. Len(sets) # 0 /\ Len(sets) \in Nat OBVIOUS
<1>4. k + 1 \in 0 .. r /\ k < r /\ k \in Nat BY <1>1, <1>2, <1>3
<1>5. Head(sets) = refs[k + 1]
    <2>1. 1 \in 1 .. (r - k) BY <1>1, <1>4
    <2>2. Head(sets) = sets[1] BY <1>3
    <2> QED BY <1>2, <2>1, <2>2
<1>6. Tail(sets) \in Seq([set : References, action : Action]) OBVIOUS
<1>7. Len(Tail(sets)) = r - (k + 1) BY <1>1, <1>2, <1>3
<1>8. ASSUME NEW i \in 1 .. (r - (k + 1)) PROVE Tail(sets)[i] = refs[(k + 1) + i]
    <2>1. i + 1 \in 1 .. (r - k) /\ k + (i + 1) = (k + 1) + i /\ i \in 1 .. (Len(sets) - 1)
        BY <1>1, <1>2, <1>4
    <2>2. Tail(sets)[i] = sets[i + 1] BY <1>3, <2>1
    <2> QED BY <1>2, <2>1, <2>2
<1> QED BY <1>4, <1>5, <1>6, <1>7, <1>8 DEF Remaining, r, refs

\* A thread that reads rule sets has the rules of its source with those of
\* the sets that it could read.
Found ==
    \A i \in Importers : importer[i].at = "sets" =>
        \E k \in 0 .. Read(importer[i].url) :
            /\ Remaining(importer[i].url, importer[i].result.sets, k)
            /\ Gathered(importer[i].url, importer[i].result.rules, k)

\* So has what it reports.
Told ==
    \A i \in DOMAIN events : events[i].is = "imported" =>
        Gathered(events[i].url, events[i].result.rules, Read(events[i].url))

Inv == TypeOK /\ OneRulePerTarget /\ ImportedFromSource /\ PagesFollow /\ Found /\ Told

\* A configuration that may be in memory.
Sound(c) == c \in Config /\ OneRule(c) /\ FromSource(c)

\* OneRule in terms of lists that are apart.
LEMMA OneRuleApart ==
    ASSUME NEW c \in Config
    PROVE  OneRule(c) <=>
             /\ Apart(c.custom, SameTarget) /\ Apart(c.imported, SameTarget)
             /\ Apart(c.programs, SameName)
<1>1. /\ c.custom \in Seq(Rule) /\ c.imported \in Seq(Rule) /\ c.programs \in Seq(ProgramRule)
      /\ c["custom"] = c.custom /\ c["imported"] = c.imported
    BY ConfigFields
<1> DEFINE Once(list) == \A i, j \in DOMAIN list : list[i].target = list[j].target => i = j
           Named == \A i, j \in DOMAIN c.programs :
                        /\ c.programs[i].program = c.programs[j].program
                        /\ ~c.programs[i].path /\ ~c.programs[j].path
                        => i = j
<1>2. ASSUME NEW list \in Seq(Rule) PROVE Once(list) <=> Apart(list, SameTarget)
    <2>1. \A i \in DOMAIN list : list[i] \in Rule OBVIOUS
    <2>2. \A i, j \in DOMAIN list :
            <<list[i], list[j]>> \in SameTarget <=> list[i].target = list[j].target
        BY <2>1 DEF SameTarget
    <2> QED BY <2>2 DEF Apart
<1>3. Named <=> Apart(c.programs, SameName)
    <2>1. \A i \in DOMAIN c.programs : c.programs[i] \in ProgramRule BY <1>1
    <2>2. \A i, j \in DOMAIN c.programs :
            <<c.programs[i], c.programs[j]>> \in SameName <=>
                /\ c.programs[i].program = c.programs[j].program
                /\ ~c.programs[i].path /\ ~c.programs[j].path
        BY <2>1 DEF SameName
    <2> QED BY <2>2 DEF Apart
<1>4. OneRule(c) <=> Once(c["custom"]) /\ Once(c["imported"]) /\ Named BY DEF OneRule, Lists
<1> HIDE DEF Once, Named
<1> QED BY <1>1, <1>2, <1>3, <1>4

\* Changes that leave what was imported.
LEMMA SoundEdit ==
    ASSUME NEW c, Sound(c), NEW d \in Config, d.imported = c.imported, d.source = c.source,
           Apart(c.custom, SameTarget) => Apart(d.custom, SameTarget),
           Apart(c.programs, SameName) => Apart(d.programs, SameName)
    PROVE  Sound(d)
<1>1. c \in Config /\ OneRule(c) /\ FromSource(c) BY DEF Sound
<1>2. OneRule(d) BY <1>1, OneRuleApart
<1>3. FromSource(d) BY <1>1 DEF FromSource
<1> QED BY <1>2, <1>3 DEF Sound

\* A new list of the user's own rules.
LEMMA CustomEdit ==
    ASSUME NEW c, Sound(c), NEW rules \in Seq(Rule),
           Apart(c.custom, SameTarget) => Apart(rules, SameTarget)
    PROVE  Sound([c EXCEPT !.custom = rules]) /\ [c EXCEPT !.custom = rules].programs = c.programs
<1> DEFINE d == [c EXCEPT !.custom = rules]
<1>1. c \in Config BY DEF Sound
<1>2. /\ d \in Config /\ d.imported = c.imported /\ d.source = c.source
      /\ d.programs = c.programs /\ d.custom = rules
    BY <1>1 DEF Config
<1> HIDE DEF d
<1>3. Sound(d) BY <1>2, SoundEdit
<1> QED BY <1>2, <1>3 DEF d

-----------------------------------------------------------------------------
(* The pages. *)

ViewType == [query : Queries, rows : Seq(Rule), loaded : Nat]

\* A page shows what its query matches.
LEMMA PageType ==
    ASSUME NEW rules \in Seq(Rule), NEW query \in Queries
    PROVE  /\ Page(rules, query) \in ViewType
           /\ Page(rules, query).rows = Matching(rules, query)
           /\ Page(rules, query).query = query
<1> DEFINE rows == Matching(rules, query)
<1>1. rows \in Seq(Rule)
    <2>1. Kept(Keep(rules, query), Rule, query, rules) BY KeepFrom
    <2> QED BY <2>1 DEF Kept, Matching
<1> HIDE DEF rows
<1>2. Least(Batch, Len(rows)) \in Nat
    <2>1. Len(rows) \in Nat /\ Batch \in Nat BY <1>1, LimitsAssumption
    <2> QED BY <2>1 DEF Least
<1>3. Page(rules, query) = [query |-> query, rows |-> rows, loaded |-> Least(Batch, Len(rows))]
    BY DEF Page, rows
<1> QED BY <1>1, <1>2, <1>3 DEF ViewType, rows

\* The shape of the blacklist and of its switches.
LEMMA BlockedType ==
    ASSUME NEW c \in Config
    PROVE  /\ Blacklist(c) \in [programs : Seq(Programs), targets : Seq(Targets)]
           /\ Switches(c) \in [Programs -> BOOLEAN]
<1> DEFINE S == {rule \in ProgramRule : rule.action = "block"}
           R == {rule \in Rule : rule.action = "block"}
           programs == Keep(c.programs, S)
           rules == Keep(c.custom, R)
           names == [i \in DOMAIN programs |-> programs[i].program]
           targets == [i \in DOMAIN rules |-> rules[i].target]
<1>1. c.programs \in Seq(ProgramRule) /\ c.custom \in Seq(Rule) BY ConfigFields
<1>2. Blacklist(c) = [programs |-> names, targets |-> targets] BY DEF Blacklist
<1> HIDE DEF S, R
<1>3. programs \in Seq(ProgramRule) /\ rules \in Seq(Rule)
    <2>1. Kept(programs, ProgramRule, S, c.programs) BY <1>1, KeepFrom
    <2>2. Kept(rules, Rule, R, c.custom) BY <1>1, KeepFrom
    <2> QED BY <2>1, <2>2 DEF Kept
<1> HIDE DEF programs, rules
<1>4. names \in Seq(Programs)
    <2>1. \A i \in DOMAIN programs : programs[i].program \in Programs
        <3>1. \A rule \in ProgramRule : rule.program \in Programs BY DEF ProgramRule
        <3>2. \A i \in DOMAIN programs : programs[i] \in ProgramRule BY <1>3
        <3> QED BY <3>1, <3>2
    <2>2. DOMAIN programs = 1 .. Len(programs) /\ Len(programs) \in Nat BY <1>3
    <2> QED BY <2>1, <2>2
<1>5. targets \in Seq(Targets)
    <2>1. \A i \in DOMAIN rules : rules[i].target \in Targets
        <3>1. \A rule \in Rule : rule.target \in Targets BY DEF Rule
        <3>2. \A i \in DOMAIN rules : rules[i] \in Rule BY <1>3
        <3> QED BY <3>1, <3>2
    <2>2. DOMAIN rules = 1 .. Len(rules) /\ Len(rules) \in Nat BY <1>3
    <2> QED BY <2>1, <2>2
<1> HIDE DEF names, targets
<1>6. Blacklist(c) \in [programs : Seq(Programs), targets : Seq(Targets)] BY <1>2, <1>4, <1>5
<1>7. Switches(c) \in [Programs -> BOOLEAN] BY DEF Switches, Blocked
<1> QED BY <1>6, <1>7

\* The switches show the rules for programs, the blacklist the user's too.
LEMMA SameBlocked ==
    ASSUME NEW c, NEW d, d.programs = c.programs
    PROVE  /\ \A p : CurrentAction(d, p) = CurrentAction(c, p)
           /\ Switches(d) = Switches(c)
           /\ d.custom = c.custom => Blacklist(d) = Blacklist(c)
<1>1. \A p : CurrentAction(d, p) = CurrentAction(c, p) BY DEF CurrentAction, About
<1>2. Switches(d) = Switches(c) BY <1>1 DEF Switches, Blocked
<1>3. d.custom = c.custom => Blacklist(d) = Blacklist(c) BY DEF Blacklist
<1> QED BY <1>1, <1>2, <1>3

\* A refresh leaves pages of the shape they had, and all of them follow.
LEMMA Refreshed ==
    ASSUME TypeOK, NEW c \in Config, RefreshRules(c), config' = c
    PROVE  /\ view' \in [Lists -> ViewType]
           /\ blacklist' \in [programs : Seq(Programs), targets : Seq(Targets)]
           /\ switches' \in [Programs -> BOOLEAN] /\ stale' \in BOOLEAN
           /\ PagesFollow'
<1>1. view' = Pages(c) /\ blacklist' = Blacklist(c) /\ switches' = Switches(c) /\ stale' = FALSE
    BY DEF RefreshRules, RefreshBlocked
<1>2. \A list \in Lists : c[list] \in Seq(Rule) BY ConfigFields DEF Lists
<1>3. \A list \in Lists : view[list].query \in Queries BY DEF TypeOK
<1>4. \A list \in Lists :
        /\ Page(c[list], view[list].query) \in ViewType
        /\ Page(c[list], view[list].query).rows = Matching(c[list], view[list].query)
        /\ Page(c[list], view[list].query).query = view[list].query
    BY <1>2, <1>3, PageType
<1>5. view' = [list \in Lists |-> Page(c[list], view[list].query)] BY <1>1 DEF Pages
<1>6. view' \in [Lists -> ViewType] BY <1>4, <1>5
<1>7. \A list \in Lists : view'[list].rows = Matching(c[list], view'[list].query)
    BY <1>4, <1>5
<1>8. PagesFollow' BY <1>1, <1>7 DEF PagesFollow
<1> QED BY <1>1, <1>6, <1>8, BlockedType

\* The parts of the invariant that steps need.
LEMMA Parts ==
    ASSUME Inv
    PROVE  /\ TypeOK /\ Sound(config) /\ PagesFollow /\ Found /\ Told
           /\ config \in Config /\ view \in [Lists -> ViewType]
           /\ switches = Switches(config)
BY DEF Inv, TypeOK, Sound, OneRulePerTarget, ImportedFromSource, ViewType, PagesFollow

\* The bound on what the user does.
LEMMA UserEdits ==
    ASSUME TypeOK, User
    PROVE  edits' \in 0 .. MaxEdits
BY LimitsAssumption DEF TypeOK, User

\* A step that leaves the imports keeps what is known of them.
LEMMA SameImports ==
    ASSUME Inv, UNCHANGED importVars
    PROVE  /\ Found' /\ Told'
           /\ sensitive' \in BOOLEAN /\ importer' \in [Importers -> Importer]
           /\ events' \in Seq(Event)
<1>1. sensitive' = sensitive /\ importer' = importer /\ events' = events BY DEF importVars
<1>2. Found' BY <1>1, Parts DEF Found
<1>3. Told' BY <1>1, Parts DEF Told
<1> QED BY <1>1, <1>2, <1>3 DEF Inv, TypeOK

\* A step of the user or of the tray, which leaves the imports.
LEMMA Assemble ==
    ASSUME Inv, Sound(config'), UNCHANGED importVars, edits' \in 0 .. MaxEdits,
           view' \in [Lists -> ViewType],
           blacklist' \in [programs : Seq(Programs), targets : Seq(Targets)],
           switches' \in [Programs -> BOOLEAN], stale' \in BOOLEAN, PagesFollow',
           combos' \in [Programs -> Action], policyRow' \in Action
    PROVE  Inv'
<1>1. config' \in Config /\ OneRulePerTarget' /\ ImportedFromSource'
    BY DEF Sound, OneRulePerTarget, ImportedFromSource
<1>2. TypeOK' BY <1>1, SameImports DEF TypeOK, ViewType
<1> QED BY <1>1, <1>2, SameImports DEF Inv

\* A handler that asks whether the configuration could be saved.
LEMMA EditToInv ==
    ASSUME Inv, User, NEW c, Sound(c), c.programs = config.programs,
           NEW saved \in BOOLEAN, EditTo(c, saved)
    PROVE  Inv'
<1>1. config' = c /\ UNCHANGED rowVars /\ UNCHANGED importVars BY DEF EditTo
<1>2. combos' \in [Programs -> Action] /\ policyRow' \in Action
    BY <1>1 DEF Inv, TypeOK, rowVars
<1>3. edits' \in 0 .. MaxEdits BY UserEdits DEF Inv
<1>4. c \in Config BY DEF Sound
<1>5. CASE saved
    <2>1. RefreshRules(c) BY <1>5 DEF EditTo
    <2> QED BY <1>1, <1>2, <1>3, <1>4, <2>1, Assemble, Refreshed, Parts
<1>6. CASE ~saved
    <2>1. stale' = TRUE /\ view' = view /\ blacklist' = blacklist /\ switches' = switches
        BY <1>6 DEF EditTo
    <2>2. Switches(c) = Switches(config) BY SameBlocked
    <2>3. PagesFollow' BY <1>1, <2>1, <2>2 DEF Inv, PagesFollow
    <2>4. /\ view' \in [Lists -> ViewType] /\ switches' \in [Programs -> BOOLEAN]
          /\ blacklist' \in [programs : Seq(Programs), targets : Seq(Targets)]
          /\ stale' \in BOOLEAN
        BY <2>1, Parts DEF TypeOK
    <2> QED BY <1>1, <1>2, <1>3, <2>3, <2>4, Assemble
<1> QED BY <1>5, <1>6

\* A handler that does not.
LEMMA BlockToInv ==
    ASSUME Inv, User, NEW c, Sound(c), BlockTo(c)
    PROVE  Inv'
<1>1. config' = c /\ RefreshRules(c) /\ UNCHANGED rowVars /\ UNCHANGED importVars
    BY DEF BlockTo
<1>2. combos' \in [Programs -> Action] /\ policyRow' \in Action
    BY <1>1 DEF Inv, TypeOK, rowVars
<1>3. edits' \in 0 .. MaxEdits BY UserEdits DEF Inv
<1>4. c \in Config BY DEF Sound
<1> QED BY <1>1, <1>2, <1>3, <1>4, Assemble, Refreshed, Parts

-----------------------------------------------------------------------------
(* The steps. *)

\* The handlers of the user's own rules.
LEMMA EditListInv ==
    ASSUME Inv, EditList
    PROVE  Inv'
<1>1. Sound(config) /\ config.custom \in Seq(Rule) BY Parts, ConfigFields
<1>2. PICK saved \in BOOLEAN :
        \/ \E t \in Targets, a \in Action : AddRule(t, a, saved)
        \/ \E t \in Targets, a \in Action, rule \in Loaded("custom") :
                EditRule(rule, t, a, saved)
        \/ \E rule \in Loaded("custom") : RemoveRule(rule, saved)
        \/ ClearRules(saved)
        \/ \E b \in Backups, way \in {"replace", "merge"} : ReadBackup(b, way, saved)
    BY DEF EditList
\* It is enough to know the list that is left.
<1>3. ASSUME NEW rules \in Seq(Rule), User, EditTo([config EXCEPT !.custom = rules], saved),
             Apart(config.custom, SameTarget) => Apart(rules, SameTarget)
      PROVE  Inv'
    BY <1>1, <1>3, CustomEdit, EditToInv
<1>4. ASSUME NEW t \in Targets, NEW a \in Action, AddRule(t, a, saved) PROVE Inv'
    <2> DEFINE rules == Put(config.custom, Of(t, a))
    <2>1. User /\ EditTo([config EXCEPT !.custom = rules], saved) BY <1>4 DEF AddRule
    <2>2. rules \in Seq(Rule) /\ (Apart(config.custom, SameTarget) => Apart(rules, SameTarget))
        BY <1>1, PutRules
    <2> HIDE DEF rules
    <2> QED BY <1>3, <2>1, <2>2
<1>5. ASSUME NEW t \in Targets, NEW a \in Action, NEW rule \in Loaded("custom"),
             EditRule(rule, t, a, saved)
      PROVE  Inv'
    <2> DEFINE rest == Without(config.custom, rule.target)
               rules == Put(rest, Of(t, a))
    <2>1. User /\ EditTo([config EXCEPT !.custom = rules], saved) BY <1>5 DEF EditRule
    <2>2. rest \in Seq(Rule) /\ (Apart(config.custom, SameTarget) => Apart(rest, SameTarget))
        BY <1>1, WithoutRules
    <2> HIDE DEF rest
    <2>3. rules \in Seq(Rule) /\ (Apart(rest, SameTarget) => Apart(rules, SameTarget))
        BY <2>2, PutRules
    <2> HIDE DEF rules
    <2> QED BY <1>3, <2>1, <2>2, <2>3
<1>6. ASSUME NEW rule \in Loaded("custom"), RemoveRule(rule, saved) PROVE Inv'
    <2> DEFINE rules == Without(config.custom, rule.target)
    <2>1. User /\ EditTo([config EXCEPT !.custom = rules], saved) BY <1>6 DEF RemoveRule
    <2>2. rules \in Seq(Rule) /\ (Apart(config.custom, SameTarget) => Apart(rules, SameTarget))
        BY <1>1, WithoutRules
    <2> HIDE DEF rules
    <2> QED BY <1>3, <2>1, <2>2
<1>7. ASSUME ClearRules(saved) PROVE Inv'
    <2>1. User /\ EditTo([config EXCEPT !.custom = <<>>], saved) BY <1>7 DEF ClearRules
    <2>2. <<>> \in Seq(Rule) /\ Apart(<<>>, SameTarget) BY DEF Apart
    <2> QED BY <1>3, <2>1, <2>2
<1>8. ASSUME NEW b \in Backups, NEW way \in {"replace", "merge"}, ReadBackup(b, way, saved)
      PROVE  Inv'
    <2> DEFINE read == ParseBackup(b)
               rules == IF way = "replace" THEN read ELSE Overlay(config.custom, read)
    <2>1. User /\ EditTo([config EXCEPT !.custom = rules], saved) BY <1>8 DEF ReadBackup
    <2>2. read \in Seq(Rule) /\ Apart(read, SameTarget) BY BackupsAssumption, BackupRules
    <2> HIDE DEF read
    <2>3. rules \in Seq(Rule) /\ (Apart(config.custom, SameTarget) => Apart(rules, SameTarget))
        BY <1>1, <2>2, OverlayRules
    <2> HIDE DEF rules
    <2> QED BY <1>3, <2>1, <2>2, <2>3
<1> QED BY <1>2, <1>4, <1>5, <1>6, <1>7, <1>8

\* Rules for a program that are put in place of, or after, those there are.
LEMMA ProgramEdit ==
    ASSUME NEW c, Sound(c), NEW p \in Programs
    PROVE  /\ Sound(Cleared(c, p))
           /\ \A path \in BOOLEAN, a \in Action :
                Sound(With(IF path THEN c ELSE Cleared(c, p), p, path, a))
<1>1. c \in Config BY DEF Sound
<1>2. /\ SameRest(c, Cleared(c, p)) /\ Lacks(Cleared(c, p).programs, For(p))
      /\ Apart(c.programs, SameName) => Apart(Cleared(c, p).programs, SameName)
    BY <1>1, ClearedRules
<1>3. Sound(Cleared(c, p)) BY <1>1, <1>2, SoundEdit DEF SameRest
<1>4. ASSUME NEW path \in BOOLEAN, NEW a \in Action
      PROVE  Sound(With(IF path THEN c ELSE Cleared(c, p), p, path, a))
    <2> DEFINE b == IF path THEN c ELSE Cleared(c, p)
               d == With(b, p, path, a)
    <2>1. Sound(b) /\ b \in Config /\ (path \/ Lacks(b.programs, For(p)))
        BY <1>1, <1>2, <1>3 DEF Sound
    <2> HIDE DEF b
    <2>2. /\ SameRest(b, d)
          /\ Apart(b.programs, SameName) => Apart(d.programs, SameName)
        BY <2>1, WithRules
    <2> HIDE DEF d
    <2>3. Sound(d) BY <2>1, <2>2, SoundEdit DEF SameRest
    <2> QED BY <2>3 DEF b, d
<1> QED BY <1>3, <1>4

\* The handlers of the blacklist.
LEMMA EditBlacklistInv ==
    ASSUME Inv, EditBlacklist
    PROVE  Inv'
<1>1. Sound(config) /\ config.custom \in Seq(Rule) /\ switches = Switches(config)
    BY Parts, ConfigFields
<1>2. "block" \in Action BY DEF Action
<1>3. ASSUME NEW p \in Programs, DeleteProgram(p) PROVE Inv'
    <2>1. User /\ BlockTo(Cleared(config, p)) BY <1>3 DEF DeleteProgram
    <2>2. Sound(Cleared(config, p)) BY <1>1, ProgramEdit
    <2> QED BY <2>1, <2>2, BlockToInv
<1>4. ASSUME NEW p \in Programs, NEW path \in BOOLEAN, AddProgram(p, path) PROVE Inv'
    <2> DEFINE c == With(IF path THEN config ELSE Cleared(config, p), p, path, "block")
    <2>1. User /\ BlockTo(c) BY <1>4 DEF AddProgram
    <2>2. Sound(c) BY <1>1, <1>2, ProgramEdit
    <2> HIDE DEF c
    <2> QED BY <2>1, <2>2, BlockToInv
<1>5. ASSUME NEW p \in Programs, ToggleSwitch(p) PROVE Inv'
    <2> DEFINE on == ~switches[p]
    <2>1. switches[p] = Blocked(config, p) BY <1>1 DEF Switches
    <2>2. User /\ ~(on = Blocked(config, p)) BY <1>5, <2>1 DEF ToggleSwitch
    <2>3. CASE on
        <3> DEFINE c == With(Cleared(config, p), p, FALSE, "block")
        <3>1. BlockTo(c) BY <1>5, <2>2, <2>3 DEF ToggleSwitch
        <3>2. Sound(c) BY <1>1, <1>2, ProgramEdit, FALSE \in BOOLEAN
        <3> HIDE DEF c
        <3> QED BY <2>2, <3>1, <3>2, BlockToInv
    <2>4. CASE ~on
        <3>1. BlockTo(Cleared(config, p)) BY <1>5, <2>2, <2>4 DEF ToggleSwitch
        <3>2. Sound(Cleared(config, p)) BY <1>1, ProgramEdit
        <3> QED BY <2>2, <3>1, <3>2, BlockToInv
    <2> QED BY <2>3, <2>4
<1>6. ASSUME NEW rules \in Seq(Rule), User, BlockTo([config EXCEPT !.custom = rules]),
             Apart(config.custom, SameTarget) => Apart(rules, SameTarget)
      PROVE  Inv'
    BY <1>1, <1>6, CustomEdit, BlockToInv
<1>7. ASSUME NEW t \in Targets, AddTarget(t) PROVE Inv'
    <2> DEFINE rules == Put(config.custom, Of(t, "block"))
    <2>1. User /\ BlockTo([config EXCEPT !.custom = rules]) BY <1>7 DEF AddTarget
    <2>2. rules \in Seq(Rule) /\ (Apart(config.custom, SameTarget) => Apart(rules, SameTarget))
        BY <1>1, <1>2, PutRules
    <2> HIDE DEF rules
    <2> QED BY <1>6, <2>1, <2>2
<1>8. ASSUME NEW t \in Targets, DeleteTarget(t) PROVE Inv'
    <2> DEFINE rules == Without(config.custom, t)
    <2>1. User /\ BlockTo([config EXCEPT !.custom = rules]) BY <1>8 DEF DeleteTarget
    <2>2. rules \in Seq(Rule) /\ (Apart(config.custom, SameTarget) => Apart(rules, SameTarget))
        BY <1>1, WithoutRules
    <2> HIDE DEF rules
    <2> QED BY <1>6, <2>1, <2>2
<1> QED BY <1>3, <1>4, <1>5, <1>7, <1>8 DEF EditBlacklist

\* The rows of programs may tell the pages of what is blocked, or have nothing
\* to tell.
LEMMA RowStep ==
    ASSUME Inv, config' \in Config, config'.custom = config.custom,
           config'.imported = config.imported, config'.source = config.source,
           Apart(config.programs, SameName) => Apart(config'.programs, SameName),
           UNCHANGED <<view, stale>>,
           \/ RefreshBlocked(config')
           \/ config'.programs = config.programs /\ UNCHANGED <<blacklist, switches>>,
           UNCHANGED importVars, edits' \in 0 .. MaxEdits,
           combos' \in [Programs -> Action], policyRow' \in Action
    PROVE  Inv'
<1>1. Sound(config') BY Parts, SoundEdit
<1>2. config'["custom"] = config["custom"] /\ config'["imported"] = config["imported"] OBVIOUS
<1>3. \A list \in Lists : config'[list] = config[list] BY <1>2 DEF Lists
<1>4. /\ switches' = Switches(config')
      /\ blacklist = Blacklist(config) => blacklist' = Blacklist(config')
    <2>1. CASE RefreshBlocked(config') BY <2>1 DEF RefreshBlocked
    <2>2. CASE config'.programs = config.programs /\ UNCHANGED <<blacklist, switches>>
        <3>1. Switches(config') = Switches(config) /\ Blacklist(config') = Blacklist(config)
            BY <2>2, SameBlocked
        <3> QED BY <2>2, <3>1, Parts
    <2> QED BY <2>1, <2>2
<1>5. PagesFollow' BY <1>3, <1>4, Parts DEF PagesFollow
<1>6. switches' \in [Programs -> BOOLEAN] BY <1>4, BlockedType
<1>7. blacklist' \in [programs : Seq(Programs), targets : Seq(Targets)]
    BY BlockedType DEF Inv, TypeOK, RefreshBlocked
<1>8. view' \in [Lists -> ViewType] /\ stale' \in BOOLEAN BY Parts DEF TypeOK
<1> QED BY <1>1, <1>5, <1>6, <1>7, <1>8, Assemble

\* Another default policy changes nothing else.
LEMMA PolicyConfig ==
    ASSUME NEW c \in Config, NEW policy \in Action
    PROVE  LET d == [c EXCEPT !.default = policy]
           IN /\ d \in Config /\ d.custom = c.custom /\ d.imported = c.imported
              /\ d.source = c.source /\ d.programs = c.programs
BY DEF Config

\* The rows of programs and of the default policy.
LEMMA SelectRowInv ==
    ASSUME Inv, SelectRow
    PROVE  Inv'
<1>1. config \in Config /\ combos \in [Programs -> Action] /\ policyRow \in Action
    BY Parts DEF TypeOK
<1>2. ASSUME NEW p \in Programs, NEW a \in Action, SelectAction(p, a) PROVE Inv'
    <2> DEFINE c == Chosen(config, p, a)
    <2>1. SelectedFor(config, p, a, c) /\ (CurrentAction(config, p) = a => c = config)
        BY <1>1, ChosenRules
    <2>2. /\ User /\ combos' = [combos EXCEPT ![p] = a] /\ config' = c
          /\ UNCHANGED <<view, stale, policyRow>> /\ UNCHANGED importVars
          /\ \/ RefreshBlocked(c)
             \/ CurrentAction(config, p) = a /\ UNCHANGED <<blacklist, switches>>
        BY <1>2 DEF SelectAction
    <2> HIDE DEF c
    <2>3. combos' \in [Programs -> Action] /\ policyRow' \in Action BY <1>1, <2>2
    <2>4. edits' \in 0 .. MaxEdits BY <2>2, UserEdits, Parts
    <2>5. \/ RefreshBlocked(config')
          \/ config'.programs = config.programs /\ UNCHANGED <<blacklist, switches>>
        BY <2>1, <2>2
    <2>6. /\ config' \in Config /\ config'.custom = config.custom
          /\ config'.imported = config.imported /\ config'.source = config.source
          /\ Apart(config.programs, SameName) => Apart(config'.programs, SameName)
        BY <2>1, <2>2 DEF SelectedFor, SameRest
    <2> QED BY <2>2, <2>3, <2>4, <2>5, <2>6, RowStep
<1>3. ASSUME NEW policy \in Action, SelectPolicy(policy) \/ SelectTrayPolicy(policy) PROVE Inv'
    <2>1. /\ User /\ policyRow' = policy /\ config' = [config EXCEPT !.default = policy]
          /\ UNCHANGED pageVars /\ UNCHANGED combos /\ UNCHANGED importVars
        BY <1>3 DEF SelectPolicy, SelectTrayPolicy
    <2>2. /\ config' \in Config /\ config'.custom = config.custom
          /\ config'.imported = config.imported /\ config'.source = config.source
          /\ config'.programs = config.programs
        BY <1>1, <2>1, PolicyConfig
    <2>3. UNCHANGED <<view, stale>> /\ UNCHANGED <<blacklist, switches>> BY <2>1 DEF pageVars
    <2>4. edits' \in 0 .. MaxEdits BY <2>1, UserEdits, Parts
    <2>5. combos' \in [Programs -> Action] /\ policyRow' \in Action BY <1>1, <2>1
    <2> QED BY <2>1, <2>2, <2>3, <2>4, <2>5, RowStep
<1>4. ASSUME NEW resets \in BOOLEAN, ChangeLanguage(resets) PROVE Inv'
    <2> DEFINE c == RelabelledRows(config, combos, resets)
               policy == IF resets \/ policyRow # "proxy" THEN policyRow ELSE c.default
               heard == \E p \in Programs :
                    \/ resets /\ CurrentAction(config, p) # "direct"
                    \/ combos[p] # "direct" /\ combos[p] # CurrentAction(config, p)
    <2>1. /\ SameRest(config, c)
          /\ Apart(config.programs, SameName) => Apart(c.programs, SameName)
          /\ Unheard(config, combos, resets) => c = config
        BY <1>1, RowsRules
    <2>2. ~heard => Unheard(config, combos, resets) BY DEF Unheard
    <2>3. /\ User /\ config' = [c EXCEPT !.default = policy]
          /\ IF heard THEN RefreshBlocked(c) ELSE UNCHANGED <<blacklist, switches>>
          /\ UNCHANGED <<view, stale>> /\ UNCHANGED rowVars /\ UNCHANGED importVars
        BY <1>4 DEF ChangeLanguage
    <2> HIDE DEF c, heard
    <2>4. c \in Config /\ policy \in Action BY <1>1, <2>1 DEF SameRest, Config
    <2> HIDE DEF policy
    <2>5. /\ config' \in Config /\ config'.custom = c.custom
          /\ config'.imported = c.imported /\ config'.source = c.source
          /\ config'.programs = c.programs
        BY <2>3, <2>4, PolicyConfig
    <2>6. /\ config'.custom = config.custom
          /\ config'.imported = config.imported /\ config'.source = config.source
          /\ Apart(config.programs, SameName) => Apart(config'.programs, SameName)
        BY <2>1, <2>5 DEF SameRest
    <2>7. \/ RefreshBlocked(config')
          \/ config'.programs = config.programs /\ UNCHANGED <<blacklist, switches>>
        <3>1. CASE heard
            <4>1. Switches(config') = Switches(c) /\ Blacklist(config') = Blacklist(c)
                BY <2>5, SameBlocked
            <4> QED BY <2>3, <3>1, <4>1 DEF RefreshBlocked
        <3>2. CASE ~heard BY <2>1, <2>2, <2>3, <2>5, <3>2
        <3> QED BY <3>1, <3>2
    <2>8. combos' \in [Programs -> Action] /\ policyRow' \in Action BY <1>1, <2>3 DEF rowVars
    <2>9. edits' \in 0 .. MaxEdits BY <2>3, UserEdits, Parts
    <2> QED BY <2>3, <2>5, <2>6, <2>7, <2>8, <2>9, RowStep
<1> QED BY <1>2, <1>3, <1>4 DEF SelectRow

\* Searching and loading more rows.
LEMMA BrowseInv ==
    ASSUME Inv, Browse
    PROVE  Inv'
<1>1. /\ Sound(config) /\ config \in Config /\ view \in [Lists -> ViewType]
      /\ combos \in [Programs -> Action] /\ policyRow \in Action
      /\ blacklist \in [programs : Seq(Programs), targets : Seq(Targets)]
      /\ switches \in [Programs -> BOOLEAN] /\ stale \in BOOLEAN /\ edits \in 0 .. MaxEdits
      /\ PagesFollow
    BY Parts DEF TypeOK
<1>2. ASSUME NEW list \in Lists, LoadMore(list) PROVE Inv'
    <2> DEFINE more == Least(view[list].loaded + Batch, Len(view[list].rows))
    <2>1. /\ view' = [view EXCEPT ![list].loaded = more]
          /\ config' = config /\ blacklist' = blacklist /\ switches' = switches
          /\ stale' = stale /\ UNCHANGED rowVars /\ UNCHANGED importVars /\ edits' = edits
        BY <1>2 DEF LoadMore
    <2>2. more \in Nat
        <3>1. view[list].loaded \in Nat /\ Len(view[list].rows) \in Nat /\ Batch \in Nat
            BY <1>1, LimitsAssumption DEF ViewType
        <3> QED BY <3>1 DEF Least
    <2> HIDE DEF more
    <2>3. \A l \in Lists : /\ view'[l] \in ViewType
                           /\ view'[l].rows = view[l].rows /\ view'[l].query = view[l].query
        BY <1>1, <2>1, <2>2 DEF ViewType
    <2>4. view' \in [Lists -> ViewType]
        <3>1. view' = [l \in Lists |-> view'[l]] BY <1>1, <2>1
        <3> QED BY <2>3, <3>1
    <2>5. PagesFollow' BY <1>1, <2>1, <2>3 DEF PagesFollow
    <2>6. combos' \in [Programs -> Action] /\ policyRow' \in Action BY <1>1, <2>1 DEF rowVars
    <2> QED BY <1>1, <2>1, <2>4, <2>5, <2>6, Assemble
<1>3. ASSUME NEW list \in Lists, NEW query \in Queries, Search(list, query) PROVE Inv'
    <2> DEFINE asked(l) == IF l = list THEN query ELSE view[l].query
    <2>1. /\ view' = [l \in Lists |-> Page(config[l], asked(l))]
          /\ User /\ RefreshBlocked(config) /\ stale' = FALSE
          /\ config' = config /\ UNCHANGED rowVars /\ UNCHANGED importVars
        BY <1>3 DEF Search
    <2>2. \A l \in Lists : config[l] \in Seq(Rule) /\ asked(l) \in Queries
        BY <1>1, ConfigFields DEF Lists, ViewType
    <2>3. \A l \in Lists : /\ view'[l] \in ViewType
                           /\ view'[l].rows = Matching(config[l], view'[l].query)
        <3> HIDE DEF asked
        <3> QED BY <2>1, <2>2, PageType
    <2>4. view' \in [Lists -> ViewType]
        <3>1. view' = [l \in Lists |-> view'[l]] BY <2>1
        <3> QED BY <2>3, <3>1
    <2>5. switches' = Switches(config) /\ blacklist' = Blacklist(config) BY <2>1 DEF RefreshBlocked
    <2>6. PagesFollow' BY <2>1, <2>3, <2>5 DEF PagesFollow
    <2>7. combos' \in [Programs -> Action] /\ policyRow' \in Action BY <1>1, <2>1 DEF rowVars
    <2>8. edits' \in 0 .. MaxEdits BY <2>1, UserEdits, Parts
    <2>9. /\ switches' \in [Programs -> BOOLEAN] /\ stale' \in BOOLEAN
          /\ blacklist' \in [programs : Seq(Programs), targets : Seq(Targets)]
        BY <1>1, <2>1, <2>5, BlockedType
    <2> QED BY <1>1, <2>1, <2>4, <2>6, <2>7, <2>8, <2>9, Assemble
<1> QED BY <1>2, <1>3 DEF Browse

\* What a thread has, by where it is.
LEMMA ImporterShapes ==
    ASSUME NEW x \in Importer
    PROVE  /\ x.at = "source" => x.url \in Urls
           /\ x.at = "sets" => /\ x.url \in Urls /\ x.result \in Result
                               /\ x = [at |-> "sets", url |-> x.url, result |-> x.result]
BY DEF Importer, Idle

\* What a thread has found, and the thread, when both parts of it change.
Changed(result, rules, sets) == [result EXCEPT !.rules = rules, !.sets = sets]

After(x, rules, sets) == [[x EXCEPT !.result.rules = rules] EXCEPT !.result.sets = sets]

\* Reading a rule set changes two parts of what a thread has found.
LEMMA TwoChanges ==
    ASSUME NEW url, NEW result \in Result, NEW rules, NEW sets, NEW x,
           x = [at |-> "sets", url |-> url, result |-> result]
    PROVE  After(x, rules, sets) =
             [at |-> "sets", url |-> url, result |-> Changed(result, rules, sets)]
<1> DEFINE half == [result EXCEPT !.rules = rules]
           both == [half EXCEPT !.sets = sets]
           y == [x EXCEPT !.result.rules = rules]
<1>3. both = Changed(result, rules, sets) BY DEF Changed
<1>4. y = [at |-> "sets", url |-> url, result |-> half] OBVIOUS
<1>5. After(x, rules, sets) = [y EXCEPT !.result.sets = sets] BY DEF After
<1> HIDE DEF half, y
<1>6. [y EXCEPT !.result.sets = sets] = [at |-> "sets", url |-> url, result |-> both] BY <1>4
<1> HIDE DEF both
<1> QED BY <1>3, <1>5, <1>6

\* Adding an event, or taking the first, leaves the others.
LEMMA EventSteps ==
    ASSUME NEW list \in Seq(Event), NEW S
    PROVE  /\ \A e \in Event : (\A i \in DOMAIN list : list[i] \in S) /\ e \in S =>
                /\ Append(list, e) \in Seq(Event)
                /\ \A i \in DOMAIN Append(list, e) : Append(list, e)[i] \in S
           /\ list # <<>> /\ (\A i \in DOMAIN list : list[i] \in S) =>
                /\ Head(list) \in S /\ Head(list) \in Event /\ Tail(list) \in Seq(Event)
                /\ \A i \in DOMAIN Tail(list) : Tail(list)[i] \in S
<1> DEFINE n == Len(list)
<1>1. n \in Nat /\ DOMAIN list = 1 .. n OBVIOUS
<1>2. ASSUME NEW e \in Event, \A i \in 1 .. n : list[i] \in S, e \in S
      PROVE  /\ Append(list, e) \in Seq(Event)
             /\ \A i \in DOMAIN Append(list, e) : Append(list, e)[i] \in S
    <2>1. /\ Append(list, e) \in Seq(Event) /\ DOMAIN Append(list, e) = 1 .. (n + 1)
          /\ Append(list, e)[n + 1] = e /\ \A i \in 1 .. n : Append(list, e)[i] = list[i]
        OBVIOUS
    <2>2. \A i \in 1 .. (n + 1) : i \in 1 .. n \/ i = n + 1 BY <1>1
    <2> QED BY <1>2, <2>1, <2>2
<1>3. ASSUME list # <<>>, \A i \in 1 .. n : list[i] \in S
      PROVE  /\ Head(list) \in S /\ Head(list) \in Event /\ Tail(list) \in Seq(Event)
             /\ \A i \in DOMAIN Tail(list) : Tail(list)[i] \in S
    <2>1. /\ Head(list) \in Event /\ Tail(list) \in Seq(Event) /\ Len(Tail(list)) = n - 1
          /\ \A i \in 1 .. Len(Tail(list)) : Tail(list)[i] = list[i + 1]
        BY <1>3, HeadTailProperties
    <2>2. n # 0 BY <1>3
    <2>3. Head(list) = list[1] BY <1>3
    <2>4. 1 \in 1 .. n /\ \A i \in 1 .. (n - 1) : i + 1 \in 1 .. n BY <1>1, <2>2
    <2>5. DOMAIN Tail(list) = 1 .. Len(Tail(list)) BY <2>1
    <2> QED BY <1>3, <2>1, <2>3, <2>4, <2>5
<1> QED BY <1>1, <1>2, <1>3

\* Events that tell of rules that were gathered.
Truthful == {e \in Event : e.is = "imported" => Gathered(e.url, e.result.rules, Read(e.url))}

\* Told in terms of the events.
LEMMA ToldTruth ==
    ASSUME events \in Seq(Event)
    PROVE  Told <=> \A i \in DOMAIN events : events[i] \in Truthful
<1>1. \A i \in DOMAIN events : events[i] \in Event OBVIOUS
<1> QED BY <1>1 DEF Told, Truthful

\* A step of an import, which leaves the configuration and its pages.
LEMMA ImportStep ==
    ASSUME Inv, UNCHANGED config, UNCHANGED pageVars, UNCHANGED rowVars,
           edits' \in 0 .. MaxEdits, sensitive' \in BOOLEAN,
           importer' \in [Importers -> Importer], events' \in Seq(Event), Found', Told'
    PROVE  Inv'
<1>1. /\ view' = view /\ blacklist' = blacklist /\ switches' = switches /\ stale' = stale
      /\ combos' = combos /\ policyRow' = policyRow
    BY DEF pageVars, rowVars
<1>2. TypeOK' BY <1>1 DEF Inv, TypeOK
<1>3. PagesFollow' BY <1>1 DEF Inv, PagesFollow
<1>4. OneRulePerTarget' /\ ImportedFromSource'
    BY DEF Inv, OneRulePerTarget, ImportedFromSource
<1> QED BY <1>2, <1>3, <1>4 DEF Inv

\* One thread goes on, and what it has then is as it should be.
Fine(x) ==
    x.at = "sets" =>
        \E k \in 0 .. Read(x.url) :
            Remaining(x.url, x.result.sets, k) /\ Gathered(x.url, x.result.rules, k)

\* The other threads are as they were.
LEMMA OneImporter ==
    ASSUME Inv, NEW i \in Importers, NEW x \in Importer, Fine(x),
           importer' = [importer EXCEPT ![i] = x]
    PROVE  importer' \in [Importers -> Importer] /\ Found'
<1>1. importer \in [Importers -> Importer] /\ \A j \in Importers : Fine(importer[j])
    BY Parts DEF TypeOK, Found, Fine
<1>2. importer' \in [Importers -> Importer] BY <1>1
<1>3. \A j \in Importers : importer'[j] = IF j = i THEN x ELSE importer[j] BY <1>1
<1>4. \A j \in Importers : Fine(importer'[j]) BY <1>1, <1>3
<1> QED BY <1>2, <1>4 DEF Found, Fine

\* A step that leaves the events.
LEMMA SameEvents ==
    ASSUME Inv, events' = events
    PROVE  events' \in Seq(Event) /\ Told'
BY Parts DEF TypeOK, Told

\* A thread ends, and what it tells is true.
LEMMA ReportInv ==
    ASSUME Inv, NEW i \in Importers, NEW e \in Truthful, Report(i, e)
    PROVE  /\ importer' \in [Importers -> Importer] /\ Found'
           /\ events' \in Seq(Event) /\ Told'
<1>1. importer' = [importer EXCEPT ![i] = Idle] /\ events' = Append(events, e) BY DEF Report
<1>2. Idle \in Importer /\ Fine(Idle) BY DEF Importer, Idle, Fine
<1>3. events \in Seq(Event) /\ \A j \in DOMAIN events : events[j] \in Truthful
    BY Parts, ToldTruth DEF TypeOK
<1>4. e \in Event BY DEF Truthful
<1>5. events' \in Seq(Event) /\ \A j \in DOMAIN events' : events'[j] \in Truthful
    BY <1>1, <1>3, <1>4, EventSteps
<1>6. Told' BY <1>5 DEF Told, Truthful
<1> QED BY <1>1, <1>2, <1>5, <1>6, OneImporter

\* A thread begins.
LEMMA BeginInv ==
    ASSUME Inv, NEW url \in Urls, User, Begin(url)
    PROVE  Inv'
<1>1. PICK i \in Importers : importer' = [importer EXCEPT ![i] = [at |-> "source", url |-> url]]
    BY DEF Begin
<1>2. [at |-> "source", url |-> url] \in Importer /\ Fine([at |-> "source", url |-> url])
    BY DEF Importer, Fine
<1>3. /\ sensitive' = FALSE /\ UNCHANGED config /\ UNCHANGED pageVars /\ UNCHANGED rowVars
      /\ events' = events
    BY DEF Begin
<1>4. edits' \in 0 .. MaxEdits BY UserEdits, Parts
<1> QED BY <1>1, <1>2, <1>3, <1>4, OneImporter, SameEvents, ImportStep

\* The buttons of the imports.
LEMMA AskInv ==
    ASSUME Inv, Ask
    PROVE  Inv'
<1>1. Sound(config) /\ config \in Config /\ config.source \in Urls \cup {None}
      /\ config.imported \in Seq(Rule)
    BY Parts, ConfigFields
<1>2. ASSUME NEW url \in Urls, AskImport(url) PROVE Inv' BY <1>2, BeginInv DEF AskImport
<1>3. ASSUME UpdateSource PROVE Inv' BY <1>1, <1>3, BeginInv DEF UpdateSource
<1>4. ASSUME NEW saved \in BOOLEAN, RemoveSource(saved) PROVE Inv'
    <2> DEFINE c == [config EXCEPT !.imported = <<>>, !.source = None]
    <2>1. User /\ EditTo(c, saved) BY <1>4 DEF RemoveSource
    <2>2. /\ c \in Config /\ c.custom = config.custom /\ c.programs = config.programs
          /\ c.imported = <<>> /\ c.source = None
        <3>1. <<>> \in Seq(Rule) OBVIOUS
        <3> QED BY <1>1, <3>1 DEF Config
    <2> HIDE DEF c
    <2>3. Apart(c.imported, SameTarget) BY <2>2 DEF Apart
    <2>4. OneRule(c) BY <1>1, <2>2, <2>3, OneRuleApart DEF Sound
    <2>5. FromSource(c) BY <2>2 DEF FromSource
    <2>6. Sound(c) BY <2>2, <2>4, <2>5 DEF Sound
    <2> QED BY <2>1, <2>2, <2>6, EditToInv
<1> QED BY <1>2, <1>3, <1>4 DEF Ask

\* The steps of a thread.
LEMMA WorkInv ==
    ASSUME Inv, NEW i \in Importers, Work(i)
    PROVE  Inv'
<1> DEFINE x == importer[i]
<1>1. x \in Importer /\ importer \in [Importers -> Importer] /\ edits \in 0 .. MaxEdits
      /\ sensitive \in BOOLEAN
    BY Parts DEF TypeOK
<1>2. [is |-> "failed"] \in Truthful BY DEF Truthful, Event
<1>3. ASSUME NEW answered \in BOOLEAN, Download(i, answered) PROVE Inv'
    <2> DEFINE url == x.url
               parsed == Parse(Contents[url])
               sets == SubSeq(parsed.sets, 1, Least(RuleSetLimit, Len(parsed.sets)))
               y == [at |-> "sets", url |-> url, result |-> [parsed EXCEPT !.sets = sets]]
    <2>1. url \in Urls BY <1>1, <1>3, ImporterShapes DEF Download
    <2>2. /\ UNCHANGED config /\ UNCHANGED pageVars /\ UNCHANGED rowVars
          /\ sensitive' = sensitive /\ edits' = edits
        BY <1>3 DEF Download
    <2>3. CASE answered
        <3>1. importer' = [importer EXCEPT ![i] = y] /\ events' = events
            BY <1>3, <2>3 DEF Download
        <3> HIDE DEF url
        <3>2. parsed \in Result BY <2>1, SourceType
        <3>3. /\ Remaining(url, sets, 0) /\ sets \in Seq([set : References, action : Action])
            BY <2>1, LimitSets DEF Refs
        <3>4. Gathered(url, parsed.rules, 0) BY <2>1, GatheredFirst
        <3>5. 0 \in 0 .. Read(url)
            <4>1. Read(url) \in Nat BY <2>1, SourceType
            <4> QED BY <4>1
        <3> HIDE DEF sets, parsed
        <3>6. /\ [parsed EXCEPT !.sets = sets] \in Result
              /\ [parsed EXCEPT !.sets = sets].sets = sets
              /\ [parsed EXCEPT !.sets = sets].rules = parsed.rules
            BY <3>2, <3>3 DEF Result
        <3> DEFINE result == [parsed EXCEPT !.sets = sets]
        <3>7. y \in Importer
            <4> HIDE DEF result
            <4>1. [at |-> "sets", url |-> url, result |-> result] \in Importer
                BY <2>1, <3>6 DEF Importer, result
            <4> QED BY <4>1 DEF result
        <3>8. y.url = url /\ y.result.sets = sets /\ y.result.rules = parsed.rules BY <3>6
        <3> HIDE DEF y, result
        <3>9. Fine(y) BY <3>3, <3>4, <3>5, <3>8 DEF Fine
        <3> QED BY <1>1, <2>2, <3>1, <3>7, <3>9, OneImporter, SameEvents, ImportStep
    <2>4. CASE ~answered
        <3>1. Report(i, [is |-> "failed"]) BY <1>3, <2>4 DEF Download
        <3> QED BY <1>1, <1>2, <2>2, <3>1, ReportInv, ImportStep
    <2> QED BY <2>3, <2>4
<1>4. ASSUME NEW answered \in BOOLEAN, ReadRuleSet(i, answered) PROVE Inv'
    <2> DEFINE url == x.url
               result == x.result
               sets == result.sets
               rules == IF answered THEN Merge(result.rules, Head(sets)) ELSE result.rules
               next == Changed(result, rules, Tail(sets))
               y == [at |-> "sets", url |-> url, result |-> next]
    <2>1. /\ x.at = "sets" /\ sets # <<>> /\ UNCHANGED config /\ UNCHANGED pageVars
          /\ UNCHANGED rowVars /\ sensitive' = sensitive /\ events' = events /\ edits' = edits
        BY <1>4 DEF ReadRuleSet
    <2>2. /\ url \in Urls /\ result \in Result
          /\ x = [at |-> "sets", url |-> url, result |-> result]
        BY <1>1, <2>1, ImporterShapes
    <2>3. importer' = [importer EXCEPT ![i] = y]
        <3>1. importer' = [importer EXCEPT ![i].result.rules = rules, ![i].result.sets = Tail(sets)]
            BY <1>4 DEF ReadRuleSet
        <3> HIDE DEF rules, sets
        <3>2. importer' = [importer EXCEPT ![i] = After(x, rules, Tail(sets))]
            BY <1>1, <3>1 DEF After
        <3> HIDE DEF x, url, result
        <3>3. After(x, rules, Tail(sets)) = y BY <2>2, TwoChanges
        <3> QED BY <3>2, <3>3
    <2>4. PICK k \in 0 .. Read(url) : Remaining(url, sets, k) /\ Gathered(url, result.rules, k)
        BY <2>1, Parts DEF Found
    <2> HIDE DEF url, result
    <2>5. /\ result.rules \in Seq(Rule) /\ sets \in Seq([set : References, action : Action])
        BY <2>2 DEF Result
    <2> HIDE DEF sets
    <2>6. /\ k + 1 \in 0 .. Read(url) /\ k < Read(url) /\ k \in Nat
          /\ Head(sets) = Refs(url)[k + 1] /\ Remaining(url, Tail(sets), k + 1)
          /\ Tail(sets) \in Seq([set : References, action : Action])
        BY <2>1, <2>2, <2>4, <2>5, TailSets
    <2>7. /\ Gathered(url, result.rules, k + 1)
          /\ Gathered(url, Merge(result.rules, Refs(url)[k + 1]), k + 1)
          /\ Merge(result.rules, Refs(url)[k + 1]) \in Seq(Rule)
        BY <2>2, <2>4, <2>5, <2>6, GatheredMore
    <2>8. rules \in Seq(Rule) /\ Gathered(url, rules, k + 1) BY <2>5, <2>6, <2>7
    <2> HIDE DEF rules
    <2>9. next \in Result /\ next.rules = rules /\ next.sets = Tail(sets)
        BY <2>2, <2>6, <2>8 DEF Result, Changed
    <2> HIDE DEF next
    <2>10. y \in Importer BY <2>2, <2>9 DEF Importer
    <2>11. y.url = url /\ y.result = next OBVIOUS
    <2> HIDE DEF y
    <2>12. Fine(y) BY <2>6, <2>8, <2>9, <2>11 DEF Fine
    <2> QED BY <1>1, <2>1, <2>3, <2>10, <2>12, OneImporter, SameEvents, ImportStep
<1>5. ASSUME EndImport(i) PROVE Inv'
    <2> DEFINE e == IF x.result.rules = <<>> THEN [is |-> "failed"]
                    ELSE [is |-> "imported", url |-> x.url, result |-> x.result]
    <2>1. /\ x.at = "sets" /\ x.result.sets = <<>> /\ Report(i, e)
          /\ UNCHANGED config /\ UNCHANGED pageVars /\ UNCHANGED rowVars
          /\ sensitive' = sensitive /\ edits' = edits
        BY <1>5 DEF EndImport
    <2>2. x.url \in Urls /\ x.result \in Result BY <1>1, <2>1, ImporterShapes
    <2>3. PICK k \in 0 .. Read(x.url) :
            Remaining(x.url, x.result.sets, k) /\ Gathered(x.url, x.result.rules, k)
        BY <2>1, Parts DEF Found
    <2>4. k = Read(x.url)
        <3>1. Len(x.result.sets) = 0 BY <2>1
        <3>2. Read(x.url) \in Nat BY <2>2, SourceType
        <3>3. Read(x.url) - k = 0 BY <2>3, <3>1 DEF Remaining
        <3> QED BY <3>2, <3>3
    <2>5. Gathered(x.url, x.result.rules, Read(x.url)) BY <2>3, <2>4
    <2>6. e \in Truthful
        <3>1. CASE x.result.rules = <<>> BY <1>2, <3>1
        <3>2. CASE x.result.rules # <<>>
            <4>1. e = [is |-> "imported", url |-> x.url, result |-> x.result] BY <3>2
            <4> HIDE DEF x
            <4>2. [is |-> "imported", url |-> x.url, result |-> x.result] \in Truthful
                BY <2>2, <2>5 DEF Truthful, Event
            <4> QED BY <4>1, <4>2
        <3> QED BY <3>1, <3>2
    <2> HIDE DEF e
    <2> QED BY <1>1, <2>1, <2>6, ReportInv, ImportStep
<1> QED BY <1>3, <1>4, <1>5 DEF Work

\* The window takes the first event.
LEMMA FirstEvent ==
    ASSUME Inv, events # <<>>, events' = Tail(events)
    PROVE  /\ Head(events) \in Event /\ Head(events) \in Truthful
           /\ events' \in Seq(Event) /\ Told'
<1>1. events \in Seq(Event) /\ \A j \in DOMAIN events : events[j] \in Truthful
    BY Parts, ToldTruth DEF TypeOK
<1>2. /\ Head(events) \in Event /\ Head(events) \in Truthful
      /\ Tail(events) \in Seq(Event)
      /\ \A j \in DOMAIN Tail(events) : Tail(events)[j] \in Truthful
    BY <1>1, EventSteps
<1>3. Told' BY <1>2 DEF Told, Truthful
<1> QED BY <1>2, <1>3

\* The window takes an event.
LEMMA TakeInv ==
    ASSUME Inv, Take
    PROVE  Inv'
<1>1. /\ config \in Config /\ Sound(config) /\ edits \in 0 .. MaxEdits
      /\ importer \in [Importers -> Importer] /\ Found
      /\ combos \in [Programs -> Action] /\ policyRow \in Action
    BY Parts DEF TypeOK
<1>2. ASSUME TakeFailed PROVE Inv'
    <2>1. /\ events # <<>> /\ events' = Tail(events) /\ sensitive' = TRUE /\ UNCHANGED config
          /\ UNCHANGED pageVars /\ UNCHANGED rowVars /\ importer' = importer /\ edits' = edits
        BY <1>2 DEF TakeFailed
    <2>2. Found' BY <1>1, <2>1 DEF Found
    <2> QED BY <1>1, <2>1, <2>2, FirstEvent, ImportStep
<1>3. ASSUME NEW saved \in BOOLEAN, TakeImported(saved) PROVE Inv'
    <2> DEFINE e == Head(events)
               c == [config EXCEPT !.imported = e.result.rules, !.default = e.result.default,
                                   !.source = e.url]
    <2>1. /\ events # <<>> /\ e.is = "imported" /\ events' = Tail(events) /\ config' = c
          /\ sensitive' = TRUE /\ combos' = combos /\ importer' = importer /\ edits' = edits
          /\ IF saved THEN RefreshRules(c) /\ policyRow' = c.default
             ELSE /\ stale' = TRUE /\ view' = view /\ blacklist' = blacklist
                  /\ switches' = switches /\ policyRow' = policyRow
        BY <1>3 DEF TakeImported
    <2>2. e \in Event /\ e \in Truthful /\ events' \in Seq(Event) /\ Told' BY <2>1, FirstEvent
    <2>3. e.url \in Urls /\ e.result \in Result /\ Gathered(e.url, e.result.rules, Read(e.url))
        BY <2>1, <2>2 DEF Truthful, Event
    <2> HIDE DEF e
    <2>4. e.result.rules \in Seq(Rule) /\ e.result.default \in Action BY <2>3 DEF Result
    <2>5. /\ c \in Config /\ c.custom = config.custom /\ c.programs = config.programs
          /\ c.imported = e.result.rules /\ c.source = e.url /\ c.default = e.result.default
        BY <1>1, <2>3, <2>4 DEF Config
    <2> HIDE DEF c
    <2>6. SaidBy(e.url, e.result.rules) /\ Apart(e.result.rules, SameTarget) BY <2>3, GatheredSaid
    <2>7. OneRule(c) BY <1>1, <2>5, <2>6, OneRuleApart DEF Sound
    <2>8. FromSource(c) BY <2>3, <2>5, <2>6, NoneAssumption DEF FromSource
    <2>9. OneRulePerTarget' /\ ImportedFromSource'
        BY <2>1, <2>7, <2>8 DEF OneRulePerTarget, ImportedFromSource
    <2>10. Found' BY <1>1, <2>1 DEF Found
    <2>11. /\ view' \in [Lists -> ViewType]
           /\ blacklist' \in [programs : Seq(Programs), targets : Seq(Targets)]
           /\ switches' \in [Programs -> BOOLEAN] /\ stale' \in BOOLEAN /\ PagesFollow'
           /\ policyRow' \in Action
        <3>1. CASE saved
            <4>1. policyRow' \in Action BY <2>1, <2>4, <2>5, <3>1
            <4>2. RefreshRules(c) /\ config' = c BY <2>1, <3>1
            <4> QED BY <2>5, <4>1, <4>2, Parts, Refreshed
        <3>2. CASE ~saved
            <4>1. Switches(c) = Switches(config) BY <2>5, SameBlocked
            <4>2. PagesFollow' BY <2>1, <3>2, <4>1, Parts DEF PagesFollow
            <4> QED BY <1>1, <2>1, <3>2, <4>2, Parts DEF TypeOK
        <3> QED BY <3>1, <3>2
    <2>12. TypeOK' BY <1>1, <2>1, <2>2, <2>5, <2>11 DEF TypeOK, ViewType
    <2> QED BY <2>2, <2>9, <2>10, <2>11, <2>12 DEF Inv
<1> QED BY <1>2, <1>3 DEF Take

\* An error of the connection.
LEMMA TakeErrorInv ==
    ASSUME Inv, TakeError
    PROVE  Inv'
<1>1. /\ sensitive' = TRUE /\ UNCHANGED config /\ UNCHANGED pageVars /\ UNCHANGED rowVars
      /\ importer' = importer /\ events' = events /\ edits' = edits
    BY DEF TakeError
<1>2. importer' \in [Importers -> Importer] /\ Found' /\ edits' \in 0 .. MaxEdits
    BY <1>1, Parts DEF TypeOK, Found
<1> QED BY <1>1, <1>2, SameEvents, ImportStep

\* The invariant holds of the initial states.
LEMMA InitInv == Init => Inv
<1> SUFFICES ASSUME Init PROVE Inv OBVIOUS
<1>1. config \in Config /\ OneRule(config) /\ FromSource(config)
    BY StartsAssumption, SavedAssumption DEF Init
<1>2. view = [list \in Lists |-> Page(config[list], Rule)] BY DEF Init
<1>3. \A list \in Lists : config[list] \in Seq(Rule) BY <1>1, ConfigFields DEF Lists
<1>4. Rule \in Queries BY QueriesAssumption
<1>5. \A list \in Lists : /\ view[list] \in ViewType
                          /\ view[list].rows = Matching(config[list], view[list].query)
    BY <1>2, <1>3, <1>4, PageType
<1>6. view \in [Lists -> ViewType]
    <2>1. view = [list \in Lists |-> view[list]] BY <1>2
    <2> QED BY <1>5, <2>1
<1>7. PagesFollow BY <1>5 DEF Init, PagesFollow
<1>8. combos \in [Programs -> Action]
    <2>1. \A p \in Programs : CurrentAction(config, p) \in Action BY <1>1, ConfigFields, ActionType
    <2> QED BY <2>1 DEF Init
<1>9. TypeOK
    <2>1. importer \in [Importers -> Importer] BY DEF Init, Importer
    <2>2. /\ policyRow \in Action /\ stale \in BOOLEAN /\ sensitive \in BOOLEAN
          /\ events \in Seq(Event) /\ edits \in 0 .. MaxEdits
        <3>1. policyRow \in Action BY <1>1, ConfigFields DEF Init
        <3>2. events = <<>> /\ edits = 0 /\ stale = FALSE /\ sensitive = TRUE BY DEF Init
        <3>3. <<>> \in Seq(Event) /\ 0 \in 0 .. MaxEdits BY LimitsAssumption
        <3> QED BY <3>1, <3>2, <3>3
    <2>3. /\ blacklist \in [programs : Seq(Programs), targets : Seq(Targets)]
          /\ switches \in [Programs -> BOOLEAN]
        BY <1>1, BlockedType DEF Init
    <2> QED BY <1>1, <1>6, <1>8, <2>1, <2>2, <2>3 DEF TypeOK, ViewType
<1>10. Found /\ Told BY DEF Init, Found, Told, Idle
<1> QED BY <1>1, <1>7, <1>9, <1>10 DEF Inv, OneRulePerTarget, ImportedFromSource

\* Every step keeps it.
LEMMA StepInv == Inv /\ [Next]_vars => Inv'
<1> SUFFICES ASSUME Inv, [Next]_vars PROVE Inv' OBVIOUS
<1>1. CASE EditList BY <1>1, EditListInv
<1>2. CASE EditBlacklist BY <1>2, EditBlacklistInv
<1>3. CASE SelectRow BY <1>3, SelectRowInv
<1>4. CASE Browse BY <1>4, BrowseInv
<1>5. CASE Ask BY <1>5, AskInv
<1>6. CASE \E i \in Importers : Work(i) BY <1>6, WorkInv
<1>7. CASE Take BY <1>7, TakeInv
<1>8. CASE TakeError BY <1>8, TakeErrorInv
<1>9. CASE UNCHANGED vars
    <2>1. /\ UNCHANGED config /\ UNCHANGED pageVars /\ UNCHANGED rowVars
          /\ sensitive' = sensitive /\ importer' = importer /\ events' = events /\ edits' = edits
        BY <1>9 DEF vars, pageVars, rowVars, importVars
    <2>2. importer' \in [Importers -> Importer] /\ Found' /\ edits' \in 0 .. MaxEdits
          /\ sensitive' \in BOOLEAN
        BY <2>1, Parts DEF TypeOK, Found
    <2> QED BY <2>1, <2>2, SameEvents, ImportStep
<1> QED BY <1>1, <1>2, <1>3, <1>4, <1>5, <1>6, <1>7, <1>8, <1>9 DEF Next

\* The invariant holds in every state.
THEOREM Invariant == Spec => []Inv
<1>1. Init => Inv BY InitInv
<1>2. Inv /\ [Next]_vars => Inv' BY StepInv
<1> QED BY <1>1, <1>2, PTL DEF Spec

\* For any sources, rows, targets and starts, the state keeps its shape: among
\* others, every page has rules to show for what it has loaded, and only a source
\* that there is gets updated (rules.rs:352-371).
THEOREM TypeCorrect == Spec => []TypeOK
BY Invariant, PTL DEF Inv

\* Whatever the user, the backups and the sources do, no list has two rules for
\* one target, and no program two rules by name (rule_importer.rs:198-215,
\* rules.rs:515-565).
THEOREM OnePerTarget == Spec => []OneRulePerTarget
BY Invariant, PTL DEF Inv

\* The imported rules are what the source that is shown says, each target with
\* the action of its first mention, however imports overtake one another, fail in
\* part or cannot be saved (rule_manager.rs:127-137, rule_importer.rs:52-69).
THEOREM ImportedSound == Spec => []ImportedFromSource
BY Invariant, PTL DEF Inv

\* The switches show the configuration always, the lists and the blacklist from
\* the first refresh after a change that could not be saved
\* (rules.rs:115-200, 774-963).
THEOREM PagesCorrect == Spec => []PagesFollow
BY Invariant, PTL DEF Inv

\* The steps that may unblock program p.
MayUnblock(p) ==
    \/ DeleteProgram(p) \/ ToggleSwitch(p)
    \/ \E a \in Action : SelectAction(p, a)
    \/ combos[p] # "block" /\ \E resets \in BOOLEAN : ChangeLanguage(resets)

\* Changes of other fields leave the rules for programs.
LEMMA OtherFields ==
    ASSUME NEW c \in Config
    PROVE  /\ \A x : [c EXCEPT !.custom = x].programs = c.programs
           /\ \A x : [c EXCEPT !.default = x].programs = c.programs
           /\ \A x, y, z :
                [c EXCEPT !.imported = x, !.default = y, !.source = z].programs = c.programs
           /\ \A x, y : [c EXCEPT !.imported = x, !.source = y].programs = c.programs
BY DEF Config

\* Most steps do not touch the rules for programs.
LEMMA OtherSteps ==
    ASSUME Inv,
           \/ EditList \/ Browse \/ Ask \/ (\E i \in Importers : Work(i)) \/ Take \/ TakeError
           \/ \E t \in Targets : AddTarget(t) \/ DeleteTarget(t)
           \/ \E a \in Action : SelectPolicy(a) \/ SelectTrayPolicy(a)
           \/ UNCHANGED vars
    PROVE  config'.programs = config.programs
<1>1. config \in Config BY Parts
<1>2. CASE EditList
    <2>1. \E x : config' = [config EXCEPT !.custom = x]
        BY <1>2 DEF EditList, AddRule, EditRule, RemoveRule, ClearRules, ReadBackup, EditTo
    <2> QED BY <1>1, <2>1, OtherFields
<1>3. CASE Browse BY <1>3 DEF Browse, LoadMore, Search
<1>4. CASE Ask
    <2>1. CASE \E u \in Urls : AskImport(u) BY <2>1 DEF AskImport, Begin
    <2>2. CASE UpdateSource BY <2>2 DEF UpdateSource, Begin
    <2>3. CASE \E saved \in BOOLEAN : RemoveSource(saved)
        <3>1. config' = [config EXCEPT !.imported = <<>>, !.source = None]
            BY <2>3 DEF RemoveSource, EditTo
        <3> QED BY <1>1, <3>1, OtherFields
    <2> QED BY <1>4, <2>1, <2>2, <2>3 DEF Ask
<1>5. CASE \E i \in Importers : Work(i)
    BY <1>5 DEF Work, Download, ReadRuleSet, EndImport
<1>6. CASE Take
    <2>1. CASE TakeFailed BY <2>1 DEF TakeFailed
    <2>2. CASE \E saved \in BOOLEAN : TakeImported(saved)
        <3>1. \E x, y, z : config' = [config EXCEPT !.imported = x, !.default = y, !.source = z]
            BY <2>2 DEF TakeImported
        <3> QED BY <1>1, <3>1, OtherFields
    <2> QED BY <1>6, <2>1, <2>2 DEF Take
<1>7. CASE TakeError BY <1>7 DEF TakeError
<1>8. CASE \E t \in Targets : AddTarget(t) \/ DeleteTarget(t)
    <2>1. \E x : config' = [config EXCEPT !.custom = x]
        BY <1>8 DEF AddTarget, DeleteTarget, BlockTo
    <2> QED BY <1>1, <2>1, OtherFields
<1>9. CASE \E a \in Action : SelectPolicy(a) \/ SelectTrayPolicy(a)
    <2>1. \E x : config' = [config EXCEPT !.default = x]
        BY <1>9 DEF SelectPolicy, SelectTrayPolicy
    <2> QED BY <1>1, <2>1, OtherFields
<1>10. CASE UNCHANGED vars BY <1>10 DEF vars
<1> QED BY <1>2, <1>3, <1>4, <1>5, <1>6, <1>7, <1>8, <1>9, <1>10

\* A program that is blocked has a rule.
LEMMA BlockedHas ==
    ASSUME NEW c \in Config, NEW p, Blocked(c, p)
    PROVE  ~Lacks(c.programs, For(p))
<1>1. CurrentAction(c, p) = "block" BY DEF Blocked
<1> QED BY <1>1, ConfigFields, ActionIs

\* The rules for program q change.
LEMMA ProgramStep ==
    ASSUME Inv, NEW p \in Programs, NEW q \in Programs, Blocked(config, p), ~MayUnblock(p),
           \/ DeleteProgram(q) \/ ToggleSwitch(q)
           \/ \E path \in BOOLEAN : AddProgram(q, path)
           \/ \E a \in Action : SelectAction(q, a)
    PROVE  Blocked(config', p)
<1>1. config \in Config /\ CurrentAction(config, p) = "block" BY Parts DEF Blocked
<1>2. "block" \in Action /\ FALSE \in BOOLEAN BY DEF Action
<1> DEFINE c == Cleared(config, q)
<1>3. c \in Config /\ Lacks(c.programs, For(q))
      /\ (q # p => CurrentAction(c, p) = CurrentAction(config, p))
    BY <1>1, ClearedRules DEF SameRest
<1> HIDE DEF c
<1>4. /\ CurrentAction(With(c, q, FALSE, "block"), q) = "block"
      /\ q # p => CurrentAction(With(c, q, FALSE, "block"), p) = CurrentAction(c, p)
    <2> DEFINE d == With(c, q, FALSE, "block")
    <2>1. Lacks(c.programs, For(q)) => CurrentAction(d, q) = "block" BY <1>2, <1>3, WithRules
    <2>2. \A r : r # q => CurrentAction(d, r) = CurrentAction(c, r) BY <1>2, <1>3, WithRules
    <2> HIDE DEF d
    <2>3. q # p => CurrentAction(d, p) = CurrentAction(c, p) BY <2>2
    <2> QED BY <1>3, <2>1, <2>3 DEF d
<1>5. CASE DeleteProgram(q)
    <2>1. q # p BY <1>5 DEF MayUnblock
    <2>2. config' = c BY <1>5 DEF DeleteProgram, BlockTo, c
    <2> QED BY <1>1, <1>3, <2>1, <2>2 DEF Blocked
<1>6. CASE ToggleSwitch(q)
    <2>1. q # p BY <1>6 DEF MayUnblock
    <2>2. config' \in {config, c, With(c, q, FALSE, "block")}
        BY <1>6 DEF ToggleSwitch, BlockTo, c
    <2> QED BY <1>1, <1>3, <1>4, <2>1, <2>2 DEF Blocked
<1>7. CASE \E path \in BOOLEAN : AddProgram(q, path)
    <2>1. config' \in {With(config, q, TRUE, "block"), With(c, q, FALSE, "block")}
        BY <1>7 DEF AddProgram, BlockTo, c
    <2>2. CASE config' = With(config, q, TRUE, "block")
        <3>1. CurrentAction(config', p) = CurrentAction(config, p)
            <4>1. q = p => ~Lacks(config.programs, For(q)) BY <1>1, BlockedHas
            <4>2. TRUE \in BOOLEAN OBVIOUS
            <4>3. /\ ~Lacks(config.programs, For(q)) =>
                        CurrentAction(With(config, q, TRUE, "block"), q) = CurrentAction(config, q)
                  /\ \A r : r # q => CurrentAction(With(config, q, TRUE, "block"), r)
                                        = CurrentAction(config, r)
                BY <1>1, <1>2, <4>2, WithRules
            <4> QED BY <2>2, <4>1, <4>3
        <3> QED BY <1>1, <3>1 DEF Blocked
    <2>3. CASE config' = With(c, q, FALSE, "block")
        <3>1. CASE q = p BY <1>4, <2>3, <3>1 DEF Blocked
        <3>2. CASE q # p BY <1>1, <1>3, <1>4, <2>3, <3>2 DEF Blocked
        <3> QED BY <3>1, <3>2
    <2> QED BY <2>1, <2>2, <2>3
<1>8. CASE \E a \in Action : SelectAction(q, a)
    <2>1. PICK a \in Action : config' = Chosen(config, q, a) BY <1>8 DEF SelectAction
    <2>2. q # p BY <1>8 DEF MayUnblock
    <2>3. CurrentAction(config', p) = CurrentAction(config, p)
        <3>1. SelectedFor(config, q, a, Chosen(config, q, a)) BY <1>1, ChosenRules
        <3>2. \A r : r # q => CurrentAction(config', r) = CurrentAction(config, r)
            BY <2>1, <3>1 DEF SelectedFor
        <3> QED BY <2>2, <3>2
    <2> QED BY <1>1, <2>3 DEF Blocked
<1> QED BY <1>5, <1>6, <1>7, <1>8

\* A row that shows that its program is blocked keeps it so in every language.
LEMMA LanguageStep ==
    ASSUME Inv, NEW p \in Programs, Blocked(config, p), ~MayUnblock(p),
           NEW resets \in BOOLEAN, ChangeLanguage(resets)
    PROVE  Blocked(config', p)
<1> DEFINE c == RelabelledRows(config, combos, resets)
<1>1. combos[p] = "block" BY DEF MayUnblock
<1>2. config \in Config /\ combos \in [Programs -> Action] BY Parts DEF TypeOK
<1>3. c \in Config /\ CurrentAction(c, p) = "block"
    <2>1. combos[p] # "direct" BY <1>1
    <2> QED BY <1>1, <1>2, <2>1, RowsRules DEF SameRest
<1>4. \E x : config' = [c EXCEPT !.default = x] BY DEF ChangeLanguage
<1> HIDE DEF c
<1>5. config'.programs = c.programs BY <1>3, <1>4, OtherFields
<1>6. CurrentAction(config', p) = CurrentAction(c, p) BY <1>5, SameBlocked
<1> QED BY <1>3, <1>6 DEF Blocked

\* A step that unblocks a program is one of those that may.
LEMMA BlockStep ==
    ASSUME Inv, [Next]_vars, NEW p \in Programs, Blocked(config, p), ~Blocked(config', p)
    PROVE  MayUnblock(p)
<1> SUFFICES ASSUME ~MayUnblock(p) PROVE FALSE OBVIOUS
<1>1. ASSUME config'.programs = config.programs PROVE FALSE
    <2>1. CurrentAction(config', p) = CurrentAction(config, p) BY <1>1, SameBlocked
    <2> QED BY <2>1 DEF Blocked
<1>2. CASE EditBlacklist BY <1>1, <1>2, OtherSteps, ProgramStep DEF EditBlacklist
<1>3. CASE SelectRow
    <2>1. CASE \E q \in Programs, a \in Action : SelectAction(q, a) BY <2>1, ProgramStep
    <2>2. CASE \E a \in Action : SelectPolicy(a) \/ SelectTrayPolicy(a)
        BY <1>1, <2>2, OtherSteps
    <2>3. CASE \E resets \in BOOLEAN : ChangeLanguage(resets) BY <2>3, LanguageStep
    <2> QED BY <1>3, <2>1, <2>2, <2>3 DEF SelectRow
<1>4. CASE \/ EditList \/ Browse \/ Ask \/ (\E i \in Importers : Work(i)) \/ Take \/ TakeError
           \/ UNCHANGED vars
    BY <1>1, <1>4, OtherSteps
<1> QED BY <1>2, <1>3, <1>4 DEF Next

\* No step unblocks a program but those of the user that are about it, and a
\* change of the language while its row shows something else
\* (rules_view.rs:485-493).
THEOREM BlockStays == Spec => BlockKept
<1>1. Init => Inv BY InitInv
<1>2. Inv /\ [Next]_vars => Inv' BY StepInv
<1>3. Inv /\ [Next]_vars =>
        [\A p \in Programs : Blocked(config, p) /\ ~Blocked(config', p) =>
            \/ DeleteProgram(p) \/ ToggleSwitch(p)
            \/ \E a \in Action : SelectAction(p, a)
            \/ combos[p] # "block" /\ \E resets \in BOOLEAN : ChangeLanguage(resets)]_vars
    BY BlockStep DEF MayUnblock
<1> QED BY <1>1, <1>2, <1>3, PTL DEF Spec, BlockKept

=============================================================================
