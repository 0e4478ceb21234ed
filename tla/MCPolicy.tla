------------------------------ MODULE MCPolicy ------------------------------
(* Policy instantiated for TLC: policies that exercise the overrides, the  *)
(* variables or the ranks, and ones that validation has to reject.  Ranks  *)
(* matter between records; anything else is one record's own affair, so    *)
(* that the programs answer freely for the first only.                     *)
EXTENDS Policy

Exclude == [exclude |-> "true", name |-> ""]
Fix(n) == [exclude |-> Absent, name |-> n]
Literal(s) == [value |-> s, expression |-> FALSE]
Computed == [value |-> Absent, expression |-> TRUE]
Plain == [reads |-> 0, asks |-> FALSE]
Ascending(k) == [kind |-> k, order |-> "ascending"]
Descending(k) == [kind |-> k, order |-> "descending"]

P0 == [overrides |-> <<>>, variables |-> <<>>, rules |-> <<Plain>>, ranks |-> <<>>,
       preserve |-> FALSE]
PRanks(p) == [P0 EXCEPT !.ranks = <<Ascending("int"), Descending("timestamp")>>, !.preserve = p]
POverrides == [P0 EXCEPT !.overrides = <<Exclude, Fix("long")>>, !.ranks = <<Ascending("string")>>]
PVariables == [P0 EXCEPT !.variables = << <<Literal("s"), Computed>>, <<Computed>> >>,
                         !.rules = <<[reads |-> 1, asks |-> TRUE], [reads |-> 2, asks |-> FALSE]>>]

Malformed ==
  {[P0 EXCEPT !.overrides = <<[exclude |-> "false", name |-> ""]>>],
   [P0 EXCEPT !.overrides = <<Fix("")>>],
   [P0 EXCEPT !.variables = << <<[value |-> Absent, expression |-> FALSE]>> >>],
   [P0 EXCEPT !.variables = << <<[value |-> "s", expression |-> TRUE]>> >>],
   [P0 EXCEPT !.variables = << <<>> >>],
   [P0 EXCEPT !.rules = <<>>],
   [P0 EXCEPT !.ranks = <<Ascending("bool")>>],
   [P0 EXCEPT !.ranks = <<[kind |-> "int", order |-> "up"]>>]}

MCPolicies == {PRanks(TRUE), PRanks(FALSE), POverrides, PVariables} \cup Malformed

MCPlatform == <<"windows", "macos", "macos">>
MCLength == [n \in {"", "a", "long", "no-match"} |->
               IF n = "" THEN 0 ELSE IF n = "long" THEN 20 ELSE 8]

\* Every program says yes, but for overrides, and every name is "a".
Easy(p) ==
  [override |-> [i \in DOMAIN p.overrides |-> "no"], when |-> [c \in Cases(p) |-> "yes"],
   value |-> [c \in Cases(p) |-> "s"], rule |-> [i \in DOMAIN p.rules |-> "yes"],
   name |-> [i \in DOMAIN p.rules |-> "a"], rank |-> [i \in DOMAIN p.ranks |-> <<1>>]]

\* Two of the variables' policy are not asked all: a literal, a second name.
Varied(p) ==
  {a \in Answers(p) : p = PVariables => a.value[<<1, 1>>] = "s" /\ a.name[2] \in {"a", Error}}

MCInputs ==
  \/ /\ policy \in {PRanks(TRUE), PRanks(FALSE)}
     /\ answer \in [Records -> {[Easy(policy) EXCEPT !.rank = <<v, w>>] :
                                  v \in {<<1>>, <<2>>, <<>>}, w \in {<<1>>, <<2>>}}]
     /\ identity \in {<<1, 2, 3>>, <<3, 1, 2>>, <<1, 2, 1>>}
     /\ current \in [Records -> {"", "a"}]
  \/ /\ policy \in {POverrides, PVariables} \cup Malformed
     /\ answer \in IF policy \in Malformed THEN {[r \in Records |-> Easy(policy)]}
                   ELSE {[r \in Records |-> IF r = 1 THEN a ELSE Easy(policy)] : a \in Varied(policy)}
     /\ identity = <<1, 2, 3>>
     /\ current = <<"", "", "">>

MCInit == MCInputs /\ Start

MCSpec == MCInit /\ [][Next]_vars

=============================================================================
