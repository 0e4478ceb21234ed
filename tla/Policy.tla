-------------------------------- MODULE Policy ------------------------------
(***************************************************************************)
(* Naming policy (internal/planner/planner.go and internal/config/         *)
(* validate.go): the naming section is validated and compiled, then every  *)
(* record of the snapshot is evaluated (overrides, variables, rules), and  *)
(* what competes for a name is ranked for collision resolution, which is   *)
(* module Planner.                                                         *)
(*                                                                         *)
(* A CEL program is what it answers for a record: `answer`.  Compilation   *)
(* fixes its type, so that a condition yields "yes" or "no", a name or a   *)
(* variable a string, a rank a comparable value; or the evaluation fails.  *)
(***************************************************************************)
EXTENDS Integers, Sequences, FiniteSets

CONSTANTS
  N,            \* records are 1 .. N
  Policies,     \* the naming sections considered, as they are read
  Names,        \* names that policy may give, the empty one among them
  Strings,      \* values of variables
  RankValues,   \* a set of integers
  Identities,   \* source, namespace and ID of a device, ordered: integers
  Platform,     \* the platform of a record's device
  Length,       \* the length of a name
  Matching,     \* names that match constraints.pattern
  MaxLength     \* constraints.max_length

Records == 1 .. N
Error == "error"
Reply == {"yes", "no", Error}
Absent == "absent"     \* an optional field that is not there
Empty == ""            \* the empty string: a status or a name not set

\* Naming sections as they are read, before anything is validated.
Override == [exclude : {Absent, "true", "false"}, name : Names]
VariableCase == [value : Strings \cup {Absent}, expression : BOOLEAN]
Naming ==
  [overrides : Seq(Override),
   variables : Seq(Seq(VariableCase)),
   rules : Seq([reads : Nat, asks : BOOLEAN]),
   ranks : Seq([kind : STRING, order : STRING]),
   preserve : BOOLEAN]

ASSUME PolicyAssumption ==
  /\ N \in Nat \ {0}
  /\ Policies \subseteq Naming
  /\ Empty \in Names
  /\ Error \notin Names \cup Strings /\ Absent \notin Strings
  /\ Identities \subseteq Int /\ RankValues \subseteq Int
  /\ Matching \subseteq Names
  /\ Length \in [Names -> Nat]

VARIABLES
  policy,     \* the naming section
  answer,     \* what the programs answer for each record
  identity, current,    \* each record's identity and current name
  stage,      \* config, admit, overrides, variables, rules, ranks, done; rejected, refused
  rec,        \* the record that is evaluated
  at, nth,    \* the override, rule or variable it is at, and the variable's case
  found,      \* the values the variable's cases have given
  variables,      \* input.Variables: the values of variables, Absent without one
  item        \* the plan item of each record

inputs == <<policy, answer, identity, current>>
walk == <<at, nth, found, variables>>
vars == <<inputs, stage, rec, walk, item>>

Blank == [status |-> Empty, name |-> Empty, candidate |-> FALSE, fixed |-> FALSE, ranks |-> <<>>]

Cases(p) == UNION {{v} \X (DOMAIN p.variables[v]) : v \in DOMAIN p.variables}

\* All answers the programs of policy p can give for one record; a rank's is
\* <<value>>, or <<>> if it fails.
Answers(p) ==
  [override : [DOMAIN p.overrides -> Reply],
   when : [Cases(p) -> Reply],
   value : [Cases(p) -> Strings \cup {Error}],
   rule : [DOMAIN p.rules -> Reply],
   name : [DOMAIN p.rules -> Names \cup {Error}],
   rank : [DOMAIN p.ranks -> {<<v>> : v \in RankValues} \cup {<<>>}]]

\* Before anything is validated.
Start ==
  /\ stage = "config"
  /\ rec = 1 /\ at = 1 /\ nth = 1 /\ found = {}
  /\ variables = [v \in DOMAIN policy.variables |-> Absent]
  /\ item = [r \in Records |-> Blank]

Init ==
  /\ policy \in Policies
  /\ answer \in [Records -> Answers(policy)]
  /\ identity \in [Records -> Identities]
  /\ current \in [Records -> Names]
  /\ Start

-----------------------------------------------------------------------------
(* Validation (validateNaming).  Names, patterns and programs that do not  *)
(* compile are rejected likewise and are left out.                         *)

OverrideOK(o) == IF o.exclude = Absent THEN o.name # Empty ELSE o.name = Empty /\ o.exclude = "true"

\* Fault: a case may have neither a value nor an expression.
CaseNotBoth(c) == c.value = Absent \/ ~c.expression

CaseOK(c) == (c.value = Absent) = c.expression

RankOK(r) == r.kind \in {"int", "string", "timestamp"} /\ r.order \in {"ascending", "descending"}

Accepted ==
  /\ \A i \in DOMAIN policy.overrides : OverrideOK(policy.overrides[i])
  /\ \A v \in DOMAIN policy.variables :
       /\ policy.variables[v] # <<>>
       /\ \A c \in DOMAIN policy.variables[v] : CaseOK(policy.variables[v][c])
  /\ policy.rules # <<>>
  /\ \A i \in DOMAIN policy.ranks : RankOK(policy.ranks[i])

Validate ==
  /\ stage = "config"
  /\ stage' = IF Accepted THEN "admit" ELSE "rejected"
  /\ UNCHANGED <<inputs, rec, walk, item>>

-----------------------------------------------------------------------------
(* Plan takes the records one by one.                                      *)

\* Fault: devices are told apart by nothing.
SeenNever(r) == FALSE

Seen(r) == \E q \in 1 .. r - 1 : identity[q] = identity[r]

\* A record whose identity was seen before ends the plan.
Refuse ==
  /\ stage = "admit"
  /\ Seen(rec)
  /\ stage' = "refused"
  /\ UNCHANGED <<inputs, rec, walk, item>>

Admit ==
  /\ stage = "admit"
  /\ ~Seen(rec)
  /\ stage' = "overrides"
  /\ at' = 1 /\ nth' = 1 /\ found' = {}
  /\ variables' = [v \in DOMAIN policy.variables |-> Absent]
  /\ UNCHANGED <<inputs, rec, item>>

\* evaluate returns it; the next record, or with all of them the ranks, follow.
Returns(it) ==
  /\ item' = [item EXCEPT ![rec] = it]
  /\ stage' = IF rec = N THEN "ranks" ELSE "admit"
  /\ rec' = IF rec = N THEN 1 ELSE rec + 1
  /\ UNCHANGED <<inputs, walk>>

Ends(status) == Returns([Blank EXCEPT !.status = status])

Shortest(a, b) == IF a <= b THEN a ELSE b

\* maximumLength: some platforms allow less than the configuration.
Maximum(platform) ==
  IF platform = "windows" THEN Shortest(MaxLength, 15)
  ELSE IF platform \in {"ios", "macos"} THEN Shortest(MaxLength, 63) ELSE MaxLength

ValidName(r, n) == n # Empty /\ Length[n] <= Maximum(Platform[r]) /\ n \in Matching

\* The record competes for the name, unless the name is not valid.
Wants(n, fixed) ==
  Returns([status |-> IF ValidName(rec, n) THEN Empty ELSE "invalid", name |-> n,
           candidate |-> ValidName(rec, n), fixed |-> fixed, ranks |-> <<>>])

GoesOn ==
  /\ at' = at + 1
  /\ UNCHANGED <<inputs, stage, rec, item, nth, found, variables>>

Moves(to) ==
  /\ stage' = to
  /\ at' = 1 /\ nth' = 1 /\ found' = {}
  /\ UNCHANGED <<inputs, rec, item, variables>>

-----------------------------------------------------------------------------
(* Overrides: the first that matches decides, and so does one that fails.  *)

AtOverride(reply) ==
  /\ stage = "overrides" /\ at \in DOMAIN policy.overrides
  /\ answer[rec].override[at] = reply

\* Fault: an override that fails is passed over.
OverrideFailsOn == AtOverride(Error) /\ GoesOn

OverrideFails == AtOverride(Error) /\ Ends("invalid")

OverrideMisses == AtOverride("no") /\ GoesOn

OverrideExcludes ==
  /\ AtOverride("yes")
  /\ policy.overrides[at].exclude # Absent
  /\ Ends("excluded")

OverrideNames ==
  /\ AtOverride("yes")
  /\ policy.overrides[at].exclude = Absent
  /\ Wants(policy.overrides[at].name, TRUE)

NoOverride ==
  /\ stage = "overrides" /\ at \notin DOMAIN policy.overrides
  /\ Moves("variables")

-----------------------------------------------------------------------------
(* Variables, in order of their names: all cases of one, then the next.    *)

AtCase(reply) ==
  /\ stage = "variables" /\ at \in DOMAIN policy.variables
  /\ nth \in DOMAIN policy.variables[at]
  /\ answer[rec].when[<<at, nth>>] = reply

Case == policy.variables[at][nth]

CaseFails ==
  /\ \/ AtCase(Error)
     \/ AtCase("yes") /\ Case.expression /\ answer[rec].value[<<at, nth>>] = Error
  /\ Ends("invalid")

CaseMisses ==
  /\ AtCase("no")
  /\ nth' = nth + 1
  /\ UNCHANGED <<inputs, stage, rec, at, found, variables, item>>

CaseGives ==
  /\ AtCase("yes")
  /\ Case.value # Absent \/ (Case.expression /\ answer[rec].value[<<at, nth>>] # Error)
  /\ found' = found \cup {IF Case.value # Absent THEN Case.value ELSE answer[rec].value[<<at, nth>>]}
  /\ nth' = nth + 1
  /\ UNCHANGED <<inputs, stage, rec, at, variables, item>>

AllCases ==
  /\ stage = "variables" /\ at \in DOMAIN policy.variables
  /\ nth \notin DOMAIN policy.variables[at]

VariableConflicts ==
  /\ AllCases
  /\ Cardinality(found) > 1
  /\ Ends("unresolved")

VariableResolves ==
  /\ AllCases
  /\ ~(Cardinality(found) > 1)
  /\ variables' = [variables EXCEPT ![at] = IF found = {} THEN Absent ELSE CHOOSE s \in found : TRUE]
  /\ at' = at + 1 /\ nth' = 1 /\ found' = {}
  /\ UNCHANGED <<inputs, stage, rec, item>>

AllVariables ==
  /\ stage = "variables" /\ at \notin DOMAIN policy.variables
  /\ Moves("rules")

-----------------------------------------------------------------------------
(* Rules: the first that matches gives the name.                           *)

\* A rule that reads a variable without a value fails, unless it asks before.
RuleReply(r, i, value) ==
  LET rule == policy.rules[i] IN
  IF rule.reads # 0 /\ value[rule.reads] = Absent
  THEN IF rule.asks THEN "no" ELSE Error
  ELSE answer[r].rule[i]

AtRule(reply) ==
  /\ stage = "rules" /\ at \in DOMAIN policy.rules
  /\ RuleReply(rec, at, variables) = reply

RuleFails ==
  /\ AtRule(Error) \/ (AtRule("yes") /\ answer[rec].name[at] = Error)
  /\ Ends("invalid")

RuleMisses == AtRule("no") /\ GoesOn

RuleNames ==
  /\ AtRule("yes")
  /\ answer[rec].name[at] # Error
  /\ Wants(answer[rec].name[at], FALSE)

NoRule ==
  /\ stage = "rules" /\ at \notin DOMAIN policy.rules
  /\ Ends("unmanaged")

-----------------------------------------------------------------------------
(* evaluateRanks: the records that compete, once all are evaluated.        *)

RankErrors(r) == {i \in DOMAIN policy.ranks : answer[r].rank[i] = <<>>}

\* How many of n come before the first failure.
Faultless(n, failures) ==
  CHOOSE m \in 0 .. n : failures \cap (1 .. m) = {} /\ (m = n \/ m + 1 \in failures)

RanksOf(r) ==
  [i \in 1 .. Faultless(Len(policy.ranks), RankErrors(r)) |-> answer[r].rank[i][1]]

Ranked(r) ==
  [status |-> IF RankErrors(r) = {} THEN Empty ELSE "invalid", name |-> item[r].name,
   candidate |-> RankErrors(r) = {}, fixed |-> item[r].fixed, ranks |-> RanksOf(r)]

Rank ==
  /\ stage = "ranks"
  /\ item' = IF item[rec].candidate THEN [item EXCEPT ![rec] = Ranked(rec)] ELSE item
  /\ stage' = IF rec = N THEN "done" ELSE "ranks"
  /\ rec' = IF rec = N THEN 1 ELSE rec + 1
  /\ UNCHANGED <<inputs, walk>>

Next ==
  \/ Validate \/ Refuse \/ Admit
  \/ OverrideFails \/ OverrideMisses \/ OverrideExcludes \/ OverrideNames \/ NoOverride
  \/ CaseFails \/ CaseMisses \/ CaseGives
  \/ VariableConflicts \/ VariableResolves \/ AllVariables
  \/ RuleFails \/ RuleMisses \/ RuleNames \/ NoRule
  \/ Rank

Spec == Init /\ [][Next]_vars

-----------------------------------------------------------------------------
(* compareCandidates, which Planner takes as the order of its devices.     *)

Candidates == {r \in Records : item[r].candidate}

\* Records that compete with each other: foldName is left to Planner.
Compete(r, s) == {r, s} \subseteq Candidates /\ item[r].name = item[s].name

\* The first rank that tells the two apart.
Decisive(r, s) ==
  {i \in DOMAIN item[r].ranks :
     /\ item[r].ranks[i] # item[s].ranks[i]
     /\ \A j \in 1 .. i - 1 : item[r].ranks[j] = item[s].ranks[j]}

Holds(r) == current[r] = item[r].name

Before(r, s) ==
  IF policy.preserve /\ Holds(r) # Holds(s) THEN Holds(r)
  ELSE IF Decisive(r, s) # {}
  THEN \A i \in Decisive(r, s) :
         IF policy.ranks[i].order = "descending"
         THEN item[r].ranks[i] > item[s].ranks[i]
         ELSE item[r].ranks[i] < item[s].ranks[i]
  ELSE identity[r] < identity[s]

-----------------------------------------------------------------------------
(* Properties.                                                             *)

First(S) == {i \in S : \A j \in S : i <= j}

Only(S) == CHOOSE x \in S : TRUE

\* The override that decides: the first that does not say no, if there is one.
Deciding(r) == First({i \in DOMAIN policy.overrides : answer[r].override[i] # "no"})

\* What a case of variable v gives record r: a string, or Error.
Gives(r, v, c) ==
  IF answer[r].when[<<v, c>>] = Error THEN Error
  ELSE IF policy.variables[v][c].expression THEN answer[r].value[<<v, c>>]
  ELSE policy.variables[v][c].value

Given(r, v) ==
  {Gives(r, v, c) : c \in {d \in DOMAIN policy.variables[v] : answer[r].when[<<v, d>>] # "no"}}

\* The first variable that fails or is given several values.
Troubled(r) ==
  First({v \in DOMAIN policy.variables : Error \in Given(r, v) \/ Cardinality(Given(r, v)) > 1})

Value(r) ==
  [v \in DOMAIN policy.variables |-> IF Given(r, v) = {} THEN Absent ELSE Only(Given(r, v))]

\* The rule that applies.
Applying(r) == First({i \in DOMAIN policy.rules : RuleReply(r, i, Value(r)) # "no"})

Named(r, n) ==
  IF n # Error /\ ValidName(r, n) /\ RankErrors(r) = {} THEN <<Empty, n>> ELSE <<"invalid", Empty>>

\* The status and, with a valid one, the name a policy means record r to have.
Meaning(r) ==
  IF Deciding(r) # {}
  THEN LET o == Only(Deciding(r)) IN
       IF answer[r].override[o] = Error THEN <<"invalid", Empty>>
       ELSE IF policy.overrides[o].exclude # Absent THEN <<"excluded", Empty>>
       ELSE Named(r, policy.overrides[o].name)
  ELSE IF Troubled(r) # {}
  THEN IF Error \in Given(r, Only(Troubled(r))) THEN <<"invalid", Empty>> ELSE <<"unresolved", Empty>>
  ELSE IF Applying(r) = {} THEN <<"unmanaged", Empty>>
  ELSE IF RuleReply(r, Only(Applying(r)), Value(r)) = Error THEN <<"invalid", Empty>>
  ELSE Named(r, answer[r].name[Only(Applying(r))])

(* What is handed to collision resolution is what the policy means, taken  *)
(* as a whole: the first override that does not say no decides, whatever   *)
(* else would fail; the first variable in trouble does before any rule; of *)
(* several names none is given; a failing program costs its own device its *)
(* name and no other.                                                      *)
EvaluationMeets ==
  stage = "done" => \A r \in Records :
    <<item[r].status, IF item[r].candidate THEN item[r].name ELSE Empty>> = Meaning(r)

(* An accepted configuration never makes the planner panic: a case that    *)
(* matches has a value or a compiled expression (planner.go:196), and      *)
(* ranks that are compared are of one length (planner.go:319) and of a     *)
(* comparable kind (planner.go:453).                                       *)
NothingPanics ==
  /\ AtCase("yes") => Case.value # Absent \/ Case.expression
  /\ stage = "done" => \A r, s \in Candidates :
       /\ Len(item[r].ranks) = Len(item[s].ranks)
       /\ \A i \in DOMAIN item[r].ranks : policy.ranks[i].kind # "bool"

(* Records that compete are strictly and totally ordered, whatever their   *)
(* ranks: the plan does not depend on the order sources list devices in,   *)
(* nor on the sorting algorithm (planner_test.go:98).                      *)
StrictlyOrdered ==
  stage = "done" => \A r, s, t \in Records :
    /\ Compete(r, s) /\ r # s => Before(r, s) # Before(s, r)
    /\ Compete(r, s) /\ Compete(s, t) /\ Before(r, s) /\ Before(s, t) => Before(r, t)

=============================================================================
