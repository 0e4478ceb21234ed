---------------------------- MODULE PolicyProofs ----------------------------
(***************************************************************************)
(* Theorems about Policy, for any number of records, any naming sections   *)
(* and any answers of their programs: the evaluation, step by step, comes  *)
(* to what the policy means, never panics, and orders what competes.       *)
(***************************************************************************)
EXTENDS Policy, FiniteSetTheorems, SequenceTheorems, WellFoundedInduction, TLAPS

Item ==
  [status : {Empty, "invalid", "excluded", "unresolved", "unmanaged"}, name : Names,
   candidate : BOOLEAN, fixed : BOOLEAN, ranks : Seq(Int)]

TypeOK ==
  /\ policy \in Policies
  /\ answer \in [Records -> Answers(policy)]
  /\ identity \in [Records -> Identities] /\ current \in [Records -> Names]
  /\ stage \in {"config", "admit", "overrides", "variables", "rules", "ranks", "done",
                "rejected", "refused"}
  /\ rec \in Records
  /\ at \in Nat \ {0} /\ nth \in Nat \ {0}
  /\ found \in SUBSET Strings
  /\ variables \in [DOMAIN policy.variables -> Strings \cup {Absent}]
  /\ item \in [Records -> Item]

Validated == stage \notin {"config", "rejected"} => Accepted

Evaluating == stage \in {"overrides", "variables", "rules"}

Evaluated(q) == stage \in {"ranks", "done"} \/ q < rec

IsRanked(q) == stage = "done" \/ (stage = "ranks" /\ q < rec)

\* Records that were let in have identities of their own.
Distinct ==
  /\ \A p, q \in Records : Evaluated(p) /\ Evaluated(q) /\ p # q => identity[p] # identity[q]
  /\ Evaluating => \A q \in Records : q < rec => identity[q] # identity[rec]

Silent(r, i) == answer[r].override[i] = "no"

Untroubled(r, v) == Error \notin Given(r, v) /\ ~(Cardinality(Given(r, v)) > 1)

\* What the cases of variable v before the n-th give record r.
GivenBefore(r, v, n) ==
  {Gives(r, v, c) :
     c \in {d \in DOMAIN policy.variables[v] : d < n /\ answer[r].when[<<v, d>>] # "no"}}

\* Where the walk is, it has found what it left behind undecided.
Walked ==
  /\ stage = "overrides" => \A i \in DOMAIN policy.overrides : i < at => Silent(rec, i)
  /\ stage \in {"variables", "rules"} => \A i \in DOMAIN policy.overrides : Silent(rec, i)
  /\ stage = "variables" =>
       /\ \A v \in DOMAIN policy.variables :
            v < at => Untroubled(rec, v) /\ variables[v] = Value(rec)[v]
       /\ at \in DOMAIN policy.variables => found = GivenBefore(rec, at, nth)
  /\ stage = "rules" =>
       /\ \A v \in DOMAIN policy.variables : Untroubled(rec, v)
       /\ variables = Value(rec)
       /\ \A i \in DOMAIN policy.rules : i < at => RuleReply(rec, i, Value(rec)) = "no"

\* What a record's item means, as far as ranks do not come into it.
Draft(q, it) ==
  Meaning(q) = IF it.candidate /\ RankErrors(q) = {} THEN <<Empty, it.name>>
               ELSE IF it.candidate THEN <<"invalid", Empty>> ELSE <<it.status, Empty>>

Meant ==
  \A q \in Records :
    /\ Evaluated(q) => Draft(q, item[q]) /\ (item[q].candidate => item[q].status = Empty)
    /\ IsRanked(q) /\ item[q].candidate => RankErrors(q) = {} /\ item[q].ranks = RanksOf(q)

IInv == TypeOK /\ Validated /\ Distinct /\ Walked /\ Meant

-----------------------------------------------------------------------------
(* Lemmas about the operators of the model.                                *)

\* A set of natural numbers has a least element.
LEMMA LeastNatural ==
  ASSUME NEW T \in SUBSET Nat, T # {}
  PROVE  \E x \in T : \A y \in T : x <= y
<1> DEFINE Less == {p \in Nat \X Nat : p[1] < p[2]}
<1>1. Less = OpToRel(<, Nat)
  BY DEF OpToRel
<1>2. IsWellFoundedOn(Less, Nat)
  BY <1>1, NatLessThanWellFounded
<1>3. \E x \in T : \A y \in T : <<y, x>> \notin Less
  <2> HIDE DEF Less
  <2> QED BY <1>2, WFMin, Zenon
<1>4. \A x, y \in Nat : <<y, x>> \notin Less => x <= y
  OBVIOUS
<1>5. QED
  BY <1>3, <1>4

\* The first of a set that nothing in it precedes.
LEMMA FirstOf ==
  ASSUME NEW S \in SUBSET Int, NEW i \in S, \A j \in S : i <= j
  PROVE  First(S) # {} /\ Only(First(S)) = i
<1>1. \A x \in S : x <= i => x = i
  OBVIOUS
<1>2. \A x : x \in First(S) <=> x = i
  BY <1>1 DEF First
<1>3. First(S) = {i}
  BY <1>2
<1>4. QED
  BY <1>3 DEF Only

LEMMA FirstOfNone == First({}) = {}
BY DEF First

LEMMA Numbered == N \in Nat \ {0}
BY PolicyAssumption, Zenon

\* The parts of a naming section.
LEMMA Shape ==
  ASSUME TypeOK
  PROVE  /\ DOMAIN policy.overrides = 1 .. Len(policy.overrides) /\ Len(policy.overrides) \in Nat
         /\ DOMAIN policy.rules = 1 .. Len(policy.rules) /\ Len(policy.rules) \in Nat
         /\ DOMAIN policy.ranks = 1 .. Len(policy.ranks) /\ Len(policy.ranks) \in Nat
         /\ DOMAIN policy.variables = 1 .. Len(policy.variables) /\ Len(policy.variables) \in Nat
         /\ \A v \in DOMAIN policy.variables :
              /\ DOMAIN policy.variables[v] = 1 .. Len(policy.variables[v])
              /\ Len(policy.variables[v]) \in Nat
              /\ \A c \in DOMAIN policy.variables[v] :
                   /\ policy.variables[v][c] \in VariableCase
                   /\ <<v, c>> \in Cases(policy)
         /\ \A i \in DOMAIN policy.overrides : policy.overrides[i].name \in Names
         /\ policy.preserve \in BOOLEAN
<1>1. policy \in Naming
  BY PolicyAssumption DEF TypeOK
<1>2. /\ policy.overrides \in Seq(Override)
      /\ policy.variables \in Seq(Seq(VariableCase))
      /\ policy.rules \in Seq([reads : Nat, asks : BOOLEAN])
      /\ policy.ranks \in Seq([kind : STRING, order : STRING])
      /\ policy.preserve \in BOOLEAN
  BY <1>1 DEF Naming
<1>3. ASSUME NEW v \in DOMAIN policy.variables
      PROVE  /\ DOMAIN policy.variables[v] = 1 .. Len(policy.variables[v])
             /\ Len(policy.variables[v]) \in Nat
             /\ \A c \in DOMAIN policy.variables[v] :
                  /\ policy.variables[v][c] \in VariableCase
                  /\ <<v, c>> \in Cases(policy)
  <2>1. policy.variables[v] \in Seq(VariableCase)
    BY <1>2
  <2>2. \A c \in DOMAIN policy.variables[v] : <<v, c>> \in {v} \X DOMAIN policy.variables[v]
    OBVIOUS
  <2>3. \A c \in DOMAIN policy.variables[v] : <<v, c>> \in Cases(policy)
    BY <2>2 DEF Cases
  <2>4. \A c \in DOMAIN policy.variables[v] : policy.variables[v][c] \in VariableCase
    BY <2>1
  <2>5. QED
    BY <2>1, <2>3, <2>4
<1>4. \A i \in DOMAIN policy.overrides : policy.overrides[i].name \in Names
  <2>1. \A i \in DOMAIN policy.overrides : policy.overrides[i] \in Override
    BY <1>2
  <2>2. QED
    BY <2>1 DEF Override
<1>5. QED
  BY <1>2, <1>3, <1>4

\* What the programs can answer for a record.
LEMMA Answered ==
  ASSUME TypeOK, NEW r \in Records
  PROVE  /\ answer[r].override \in [DOMAIN policy.overrides -> Reply]
         /\ answer[r].when \in [Cases(policy) -> Reply]
         /\ answer[r].value \in [Cases(policy) -> Strings \cup {Error}]
         /\ answer[r].rule \in [DOMAIN policy.rules -> Reply]
         /\ answer[r].name \in [DOMAIN policy.rules -> Names \cup {Error}]
         /\ answer[r].rank \in [DOMAIN policy.ranks -> {<<v>> : v \in RankValues} \cup {<<>>}]
<1>1. answer[r] \in Answers(policy)
  BY DEF TypeOK
<1>2. QED
  BY <1>1 DEF Answers

\* A step that leaves the inputs leaves what they mean.
LEMMA MeaningKept ==
  ASSUME UNCHANGED <<policy, answer>>
  PROVE  /\ Accepted' = Accepted
         /\ \A r, v, c : Gives(r, v, c)' = Gives(r, v, c)
         /\ \A r, v : Given(r, v)' = Given(r, v) /\ Untroubled(r, v)' = Untroubled(r, v)
         /\ \A r, v, n : GivenBefore(r, v, n)' = GivenBefore(r, v, n)
         /\ \A r : Value(r)' = Value(r) /\ RankErrors(r)' = RankErrors(r)
         /\ \A r, i, f : RuleReply(r, i, f)' = RuleReply(r, i, f)
         /\ \A r : Meaning(r)' = Meaning(r)
<1>1. policy' = policy /\ answer' = answer
  OBVIOUS
<1>2. Accepted' = Accepted
  BY <1>1 DEF Accepted
<1>3. \A r, v, c : Gives(r, v, c)' = Gives(r, v, c)
  BY <1>1 DEF Gives
<1>4. \A r, v : Given(r, v)' = Given(r, v)
  BY <1>1, <1>3 DEF Given
<1>5. \A r, v : Untroubled(r, v)' = Untroubled(r, v)
  BY <1>4 DEF Untroubled
<1>6. \A r, v, n : GivenBefore(r, v, n)' = GivenBefore(r, v, n)
  BY <1>1, <1>3 DEF GivenBefore
<1>7. \A r : Value(r)' = Value(r) /\ RankErrors(r)' = RankErrors(r)
  BY <1>1, <1>4 DEF Value, RankErrors
<1>8. \A r, i, f : RuleReply(r, i, f)' = RuleReply(r, i, f)
  BY <1>1 DEF RuleReply
<1>9. ASSUME NEW r PROVE Meaning(r)' = Meaning(r)
  <2>1. Deciding(r)' = Deciding(r)
    BY <1>1 DEF Deciding
  <2>2. Troubled(r)' = Troubled(r)
    BY <1>1, <1>4 DEF Troubled
  <2>3. Applying(r)' = Applying(r)
    BY <1>1, <1>7, <1>8 DEF Applying
  <2>4. \A n : Named(r, n)' = Named(r, n)
    BY <1>7 DEF Named
  <2>5. QED
    BY <1>1, <1>4, <1>7, <1>8, <2>1, <2>2, <2>3, <2>4 DEF Meaning
<1>10. QED
  BY <1>2, <1>3, <1>4, <1>5, <1>6, <1>7, <1>8, <1>9

-----------------------------------------------------------------------------
(* What the walk has found when it ends is what the policy means.          *)

LEMMA OverrideDecides ==
  ASSUME TypeOK, NEW r \in Records, NEW o \in DOMAIN policy.overrides, ~Silent(r, o),
         \A i \in DOMAIN policy.overrides : i < o => Silent(r, i)
  PROVE  Meaning(r) = IF answer[r].override[o] = Error THEN <<"invalid", Empty>>
                      ELSE IF policy.overrides[o].exclude # Absent THEN <<"excluded", Empty>>
                      ELSE Named(r, policy.overrides[o].name)
<1> DEFINE S == {i \in DOMAIN policy.overrides : answer[r].override[i] # "no"}
<1>1. S \in SUBSET Int /\ o \in S /\ \A j \in S : o <= j
  BY Shape DEF Silent
<1>2. Deciding(r) # {} /\ Only(Deciding(r)) = o
  <2> HIDE DEF S
  <2>1. First(S) # {} /\ Only(First(S)) = o
    BY <1>1, FirstOf
  <2>2. QED
    BY <2>1 DEF S, Deciding
<1>3. QED
  BY <1>2 DEF Meaning

LEMMA Undecided ==
  ASSUME NEW r \in Records, \A i \in DOMAIN policy.overrides : Silent(r, i)
  PROVE  Deciding(r) = {}
<1>1. {i \in DOMAIN policy.overrides : answer[r].override[i] # "no"} = {}
  BY DEF Silent
<1>2. QED
  BY <1>1, FirstOfNone DEF Deciding

LEMMA TroubleDecides ==
  ASSUME TypeOK, NEW r \in Records, NEW v \in DOMAIN policy.variables, ~Untroubled(r, v),
         \A i \in DOMAIN policy.overrides : Silent(r, i),
         \A w \in DOMAIN policy.variables : w < v => Untroubled(r, w)
  PROVE  Meaning(r) = IF Error \in Given(r, v) THEN <<"invalid", Empty>> ELSE <<"unresolved", Empty>>
<1> DEFINE S == {w \in DOMAIN policy.variables :
                   Error \in Given(r, w) \/ Cardinality(Given(r, w)) > 1}
<1>1. S \in SUBSET Int /\ v \in S /\ \A j \in S : v <= j
  BY Shape DEF Untroubled
<1>2. Troubled(r) # {} /\ Only(Troubled(r)) = v
  <2> HIDE DEF S
  <2>1. First(S) # {} /\ Only(First(S)) = v
    BY <1>1, FirstOf
  <2>2. QED
    BY <2>1 DEF S, Troubled
<1>3. QED
  BY <1>2, Undecided DEF Meaning

LEMMA Carefree ==
  ASSUME NEW r \in Records, \A v \in DOMAIN policy.variables : Untroubled(r, v)
  PROVE  Troubled(r) = {}
<1>1. {v \in DOMAIN policy.variables :
         Error \in Given(r, v) \/ Cardinality(Given(r, v)) > 1} = {}
  BY DEF Untroubled
<1>2. QED
  BY <1>1, FirstOfNone DEF Troubled

LEMMA RuleDecides ==
  ASSUME TypeOK, NEW r \in Records, NEW i \in DOMAIN policy.rules,
         \A o \in DOMAIN policy.overrides : Silent(r, o),
         \A v \in DOMAIN policy.variables : Untroubled(r, v),
         \A j \in DOMAIN policy.rules : j < i => RuleReply(r, j, Value(r)) = "no",
         RuleReply(r, i, Value(r)) # "no"
  PROVE  Meaning(r) = IF RuleReply(r, i, Value(r)) = Error THEN <<"invalid", Empty>>
                      ELSE Named(r, answer[r].name[i])
<1> DEFINE S == {j \in DOMAIN policy.rules : RuleReply(r, j, Value(r)) # "no"}
<1>1. S \in SUBSET Int /\ i \in S /\ \A j \in S : i <= j
  BY Shape
<1>2. Applying(r) # {} /\ Only(Applying(r)) = i
  <2> HIDE DEF S
  <2>1. First(S) # {} /\ Only(First(S)) = i
    BY <1>1, FirstOf
  <2>2. QED
    BY <2>1 DEF S, Applying
<1>3. QED
  BY <1>2, Undecided, Carefree DEF Meaning

LEMMA NothingDecides ==
  ASSUME NEW r \in Records,
         \A o \in DOMAIN policy.overrides : Silent(r, o),
         \A v \in DOMAIN policy.variables : Untroubled(r, v),
         \A j \in DOMAIN policy.rules : RuleReply(r, j, Value(r)) = "no"
  PROVE  Meaning(r) = <<"unmanaged", Empty>>
<1>1. {j \in DOMAIN policy.rules : RuleReply(r, j, Value(r)) # "no"} = {}
  OBVIOUS
<1>2. Applying(r) = {}
  BY <1>1, FirstOfNone DEF Applying
<1>3. QED
  BY <1>2, Undecided, Carefree DEF Meaning

\* Of an accepted policy's cases, one that matches gives a string or fails.
LEMMA CaseMeans ==
  ASSUME TypeOK, Accepted, NEW r \in Records, NEW v \in DOMAIN policy.variables,
         NEW c \in DOMAIN policy.variables[v], answer[r].when[<<v, c>>] = "yes"
  PROVE  LET case == policy.variables[v][c] IN
         /\ (case.value = Absent) = case.expression
         /\ Gives(r, v, c) = IF case.value # Absent THEN case.value ELSE answer[r].value[<<v, c>>]
         /\ Gives(r, v, c) # Error => Gives(r, v, c) \in Strings
<1> DEFINE case == policy.variables[v][c]
<1>1. case \in VariableCase /\ <<v, c>> \in Cases(policy)
  BY Shape
<1>2. (case.value = Absent) = case.expression
  BY DEF Accepted, CaseOK
<1>3. case.value \in Strings \cup {Absent} /\ case.expression \in BOOLEAN
  BY <1>1 DEF VariableCase
<1>4. answer[r].value[<<v, c>>] \in Strings \cup {Error}
  BY <1>1, Answered
<1>5. Gives(r, v, c) = IF case.value # Absent THEN case.value ELSE answer[r].value[<<v, c>>]
  BY <1>2, <1>3 DEF Gives, Error
<1>6. QED
  BY <1>2, <1>3, <1>4, <1>5

\* What the cases give, case by case.
LEMMA GivenBeforeFirst ==
  ASSUME TypeOK, NEW r, NEW v \in DOMAIN policy.variables PROVE GivenBefore(r, v, 1) = {}
<1>1. \A d \in DOMAIN policy.variables[v] : ~(d < 1)
  BY Shape
<1>2. QED
  BY <1>1 DEF GivenBefore

LEMMA GivenBeforeNext ==
  ASSUME TypeOK, NEW r, NEW v \in DOMAIN policy.variables, NEW c \in DOMAIN policy.variables[v]
  PROVE  GivenBefore(r, v, c + 1) =
           IF answer[r].when[<<v, c>>] = "no" THEN GivenBefore(r, v, c)
           ELSE GivenBefore(r, v, c) \cup {Gives(r, v, c)}
<1>1. \A d \in DOMAIN policy.variables[v] : d < c + 1 <=> d < c \/ d = c
  BY Shape
<1>2. \A d \in DOMAIN policy.variables[v] : d = c => ~(d < c)
  BY Shape
<1>3. QED
  BY <1>1, <1>2 DEF GivenBefore

LEMMA GivenBeforeLast ==
  ASSUME TypeOK, NEW r, NEW v \in DOMAIN policy.variables, NEW n \in Nat \ {0},
         n \notin DOMAIN policy.variables[v]
  PROVE  GivenBefore(r, v, n) = Given(r, v)
<1>1. \A d \in DOMAIN policy.variables[v] : d < n
  BY Shape
<1>2. QED
  BY <1>1 DEF GivenBefore, Given

LEMMA GivenOne ==
  ASSUME NEW r, NEW v, NEW c \in DOMAIN policy.variables[v], answer[r].when[<<v, c>>] # "no"
  PROVE  Gives(r, v, c) \in Given(r, v)
BY DEF Given

-----------------------------------------------------------------------------
(* Every step preserves the invariant.                                     *)

LEMMA InitHolds == Init => IInv
<1> SUFFICES ASSUME Init PROVE IInv
  OBVIOUS
<1> USE DEF Init, Start
<1>1. Blank \in Item
  <2>1. <<>> \in Seq(Int) /\ Empty \in Names
    BY EmptySeq, PolicyAssumption
  <2>2. QED
    BY <2>1 DEF Blank, Item
<1>2. 1 \in Records /\ \A q \in Records : ~(q < 1)
  BY Numbered DEF Records
<1>3. TypeOK
  BY <1>1, <1>2 DEF TypeOK
<1>4. Validated /\ Distinct /\ Walked /\ Meant
  BY <1>2 DEF Validated, Distinct, Walked, Meant, Evaluating, Evaluated, IsRanked
<1>5. QED
  BY <1>3, <1>4 DEF IInv

\* A record's evaluation ends with an item that means what the policy does.
LEMMA ReturnsHolds ==
  ASSUME IInv, Evaluating, NEW it \in Item, Returns(it),
         Draft(rec, it), it.candidate => it.status = Empty
  PROVE  IInv'
<1> USE DEF IInv
<1>a. /\ item' = [item EXCEPT ![rec] = it]
      /\ UNCHANGED <<policy, answer, identity, current, at, nth, found, variables>>
  BY DEF Returns, inputs, walk
<1>b. stage' = (IF rec = N THEN "ranks" ELSE "admit") /\ rec' = (IF rec = N THEN 1 ELSE rec + 1)
  BY DEF Returns
<1>1. rec \in Records
  BY DEF TypeOK
<1>2. TypeOK'
  <2>1. rec' \in Records
    BY <1>b, <1>1, Numbered DEF Records
  <2>2. item' \in [Records -> Item]
    BY <1>a DEF TypeOK
  <2>3. QED
    BY <1>a, <1>b, <2>1, <2>2 DEF TypeOK
<1>3. stage' \in {"admit", "ranks"}
  BY <1>b
<1>4. Validated'
  BY <1>a, MeaningKept DEF Validated, Evaluating
<1>5. \A q \in Records : Evaluated(q)' => q < rec \/ q = rec
  BY <1>b, <1>1, Numbered DEF Records, Evaluated
<1>6. Distinct'
  <2>1. \A q \in Records : q < rec => identity[q] # identity[rec]
    BY DEF Distinct
  <2>2. \A p, q \in Records : p < rec /\ q < rec /\ p # q => identity[p] # identity[q]
    BY DEF Distinct, Evaluated
  <2>3. QED
    BY <1>a, <1>3, <1>5, <2>1, <2>2 DEF Distinct, Evaluating
<1>7. Walked'
  BY <1>3 DEF Walked
<1>8. Meant'
  <2>1. \A q : Meaning(q)' = Meaning(q) /\ RankErrors(q)' = RankErrors(q)
    BY <1>a, MeaningKept
  <2>2. \A q \in Records : ~IsRanked(q)'
    BY <1>b, Numbered DEF Records, IsRanked
  <2>3. ASSUME NEW q \in Records, q = rec
        PROVE  Draft(q, item[q])' /\ (item'[q].candidate => item'[q].status = Empty)
    <3>1. item'[q] = it
      BY <1>a, <2>3 DEF TypeOK
    <3>2. QED
      BY <2>1, <2>3, <3>1 DEF Draft
  <2>4. ASSUME NEW q \in Records, q < rec
        PROVE  Draft(q, item[q])' /\ (item'[q].candidate => item'[q].status = Empty)
    <3>1. q # rec
      BY <1>1, <2>4, Numbered DEF Records
    <3>2. item'[q] = item[q]
      BY <1>a, <3>1 DEF TypeOK
    <3>3. Draft(q, item[q]) /\ (item[q].candidate => item[q].status = Empty)
      BY <2>4 DEF Meant, Evaluated
    <3>4. QED
      BY <2>1, <3>2, <3>3 DEF Draft
  <2>5. QED
    BY <1>5, <2>2, <2>3, <2>4 DEF Meant
<1>9. QED
  BY <1>2, <1>4, <1>6, <1>7, <1>8

LEMMA EndsHolds ==
  ASSUME IInv, Evaluating, NEW status \in {"invalid", "excluded", "unresolved", "unmanaged"},
         Ends(status), Meaning(rec) = <<status, Empty>>
  PROVE  IInv'
<1> DEFINE it == [Blank EXCEPT !.status = status]
<1>1. Blank.candidate = FALSE /\ Blank \in Item
  <2>1. <<>> \in Seq(Int) /\ Empty \in Names
    BY EmptySeq, PolicyAssumption
  <2>2. QED
    BY <2>1 DEF Blank, Item
<1>2. it \in Item /\ it.status = status /\ it.candidate = FALSE
  BY <1>1 DEF Item
<1>3. Returns(it)
  BY DEF Ends
<1> HIDE DEF it
<1>4. Draft(rec, it)
  BY <1>2 DEF Draft
<1>5. QED
  BY <1>2, <1>3, <1>4, ReturnsHolds

LEMMA WantsHolds ==
  ASSUME IInv, Evaluating, NEW n \in Names, NEW fixed \in BOOLEAN,
         Wants(n, fixed), Meaning(rec) = Named(rec, n)
  PROVE  IInv'
<1> DEFINE it == [status |-> IF ValidName(rec, n) THEN Empty ELSE "invalid", name |-> n,
                  candidate |-> ValidName(rec, n), fixed |-> fixed, ranks |-> <<>>]
<1>1. ValidName(rec, n) \in BOOLEAN
  BY DEF ValidName
<1>2. it \in Item
  BY <1>1, EmptySeq DEF Item
<1>3. Returns(it)
  BY DEF Wants
<1>4. it.candidate => it.status = Empty
  OBVIOUS
<1>5. Draft(rec, it)
  <2>1. n # Error
    BY PolicyAssumption
  <2>2. QED
    BY <1>1, <2>1 DEF Draft, Named
<1> HIDE DEF it
<1>6. QED
  BY <1>2, <1>3, <1>4, <1>5, ReturnsHolds

\* Validation, and letting a record in.
LEMMA AdmissionHolds ==
  ASSUME IInv, Validate \/ Refuse \/ Admit PROVE IInv'
<1> USE DEF IInv
<1>1. /\ UNCHANGED <<inputs, policy, answer, identity, current, rec, item>>
      /\ stage \in {"config", "admit"} /\ stage' \in {"admit", "rejected", "refused", "overrides"}
  BY DEF Validate, Refuse, Admit, inputs
<1>2. TypeOK'
  BY DEF TypeOK, Validate, Refuse, Admit, inputs, walk
<1>3. Validated'
  BY <1>1, MeaningKept DEF Validated, Validate, Refuse, Admit
<1>4. \A q : Meaning(q)' = Meaning(q) /\ RankErrors(q)' = RankErrors(q)
  BY <1>1, MeaningKept
<1>5. \A q \in Records : Draft(q, item[q])' = Draft(q, item[q])
  BY <1>1, <1>4 DEF Draft
<1>6. \A q \in Records : Evaluated(q)' = Evaluated(q) /\ ~IsRanked(q)'
  BY <1>1 DEF Evaluated, IsRanked
<1>7. Distinct'
  <2>1. ASSUME Evaluating', NEW q \in Records, q < rec PROVE identity[q] # identity[rec]
    <3>1. Admit /\ ~Seen(rec)
      BY <1>1, <2>1 DEF Evaluating, Validate, Refuse, Admit
    <3>2. q \in 1 .. rec - 1
      BY <2>1, Numbered DEF Records, TypeOK
    <3>3. QED
      BY <3>1, <3>2 DEF Seen
  <2>2. QED
    BY <1>1, <1>6, <2>1 DEF Distinct
<1>8. Walked'
  <2>1. stage' = "overrides" => at' = 1
    BY DEF Validate, Refuse, Admit
  <2>2. \A i \in DOMAIN policy.overrides : ~(i < 1)
    BY Shape
  <2>3. QED
    BY <1>1, <2>1, <2>2 DEF Walked
<1>9. Meant'
  BY <1>1, <1>5, <1>6 DEF Meant
<1>10. QED
  BY <1>2, <1>3, <1>7, <1>8, <1>9

\* A step of the walk changes what it has found, and nothing else.
LEMMA WalkHolds ==
  ASSUME IInv, Evaluating, Evaluating', UNCHANGED <<inputs, rec, item>>, TypeOK', Walked'
  PROVE  IInv'
<1> USE DEF IInv
<1>1. UNCHANGED <<policy, answer, identity, current, rec, item>>
  BY DEF inputs
<1>2. Validated'
  BY <1>1, MeaningKept DEF Validated, Evaluating
<1>3. \A q \in Records : Evaluated(q)' = Evaluated(q) /\ ~IsRanked(q)'
  BY <1>1 DEF Evaluated, IsRanked, Evaluating
<1>4. Distinct'
  BY <1>1, <1>3 DEF Distinct
<1>5. \A q : Meaning(q)' = Meaning(q) /\ RankErrors(q)' = RankErrors(q)
  BY <1>1, MeaningKept
<1>6. \A q \in Records : Draft(q, item[q])' = Draft(q, item[q])
  BY <1>1, <1>5 DEF Draft
<1>7. Meant'
  BY <1>1, <1>3, <1>6 DEF Meant
<1>8. QED
  BY <1>2, <1>4, <1>7

LEMMA OverrideHolds ==
  ASSUME IInv, OverrideFails \/ OverrideExcludes \/ OverrideNames PROVE IInv'
<1> USE DEF IInv
<1>1. PICK reply \in {Error, "yes"} : AtOverride(reply)
  BY DEF OverrideFails, OverrideExcludes, OverrideNames
<1>2. /\ stage = "overrides" /\ Evaluating /\ rec \in Records
      /\ at \in DOMAIN policy.overrides /\ answer[rec].override[at] = reply
  BY <1>1 DEF AtOverride, Evaluating, TypeOK
<1>3. Meaning(rec) = IF answer[rec].override[at] = Error THEN <<"invalid", Empty>>
                     ELSE IF policy.overrides[at].exclude # Absent THEN <<"excluded", Empty>>
                     ELSE Named(rec, policy.overrides[at].name)
  BY <1>2, OverrideDecides DEF Silent, Walked, Error
<1>4. CASE OverrideFails
  BY <1>2, <1>3, <1>4, EndsHolds DEF OverrideFails, AtOverride
<1>5. CASE OverrideExcludes
  BY <1>2, <1>3, <1>5, EndsHolds DEF OverrideExcludes, AtOverride, Error
<1>6. CASE OverrideNames
  <2>1. policy.overrides[at].name \in Names
    BY <1>2, Shape
  <2>2. QED
    BY <1>2, <1>3, <1>6, <2>1, WantsHolds DEF OverrideNames, AtOverride, Error
<1>7. QED
  BY <1>4, <1>5, <1>6

LEMMA OverridePassHolds ==
  ASSUME IInv, OverrideMisses \/ NoOverride PROVE IInv'
<1> USE DEF IInv
<1>1. CASE OverrideMisses
  <2> USE <1>1 DEF OverrideMisses, AtOverride, GoesOn
  <2>1. UNCHANGED <<policy, answer, identity, current, stage, rec, item, nth, found, variables>>
    BY DEF inputs
  <2>2. TypeOK'
    BY <2>1 DEF TypeOK
  <2>3. \A i \in DOMAIN policy.overrides : i < at + 1 => i < at \/ i = at
    BY Shape DEF TypeOK
  <2>4. Walked'
    BY <2>1, <2>3 DEF Walked, Silent
  <2>5. QED
    BY <2>1, <2>2, <2>4, WalkHolds DEF Evaluating, inputs
<1>2. CASE NoOverride
  <2> USE <1>2 DEF NoOverride, Moves
  <2>1. UNCHANGED <<policy, answer, identity, current, rec, item, variables>>
    BY DEF inputs
  <2>2. TypeOK'
    BY <2>1 DEF TypeOK
  <2>3. \A i \in DOMAIN policy.overrides : i < at
    BY Shape DEF TypeOK
  <2>4. \A v \in DOMAIN policy.variables : ~(v < 1)
    BY Shape
  <2>5. 1 \in DOMAIN policy.variables => GivenBefore(rec, 1, 1) = {}
    BY GivenBeforeFirst
  <2>6. 1 \in DOMAIN policy.variables => GivenBefore(rec, 1, 1)' = {}
    BY <2>1, <2>5, MeaningKept
  <2>7. Walked'
    BY <2>1, <2>3, <2>4, <2>6 DEF Walked, Silent
  <2>8. QED
    BY <2>1, <2>2, <2>7, WalkHolds DEF Evaluating, inputs
<1>3. QED
  BY <1>1, <1>2

\* A variable fails, or has several values.
LEMMA VariableHolds ==
  ASSUME IInv, CaseFails \/ VariableConflicts PROVE IInv'
<1> USE DEF IInv
<1>1. /\ stage = "variables" /\ Evaluating /\ rec \in Records /\ at \in DOMAIN policy.variables
      /\ Accepted /\ nth \in Nat \ {0} /\ found \in SUBSET Strings
  BY DEF CaseFails, VariableConflicts, AtCase, AllCases, Evaluating, Validated, TypeOK
<1>2. /\ \A i \in DOMAIN policy.overrides : Silent(rec, i)
      /\ \A v \in DOMAIN policy.variables : v < at => Untroubled(rec, v)
      /\ found = GivenBefore(rec, at, nth)
  BY <1>1 DEF Walked
<1>3. CASE CaseFails
  <2>1. nth \in DOMAIN policy.variables[at] /\ answer[rec].when[<<at, nth>>] # "no"
    BY <1>3 DEF CaseFails, AtCase, Error
  <2>2. Gives(rec, at, nth) = Error
    BY <1>3 DEF CaseFails, AtCase, Gives, Case
  <2>3. Error \in Given(rec, at)
    BY <2>1, <2>2, GivenOne
  <2>4. Meaning(rec) = <<"invalid", Empty>>
    BY <1>1, <1>2, <2>3, TroubleDecides DEF Untroubled
  <2>5. QED
    BY <1>1, <1>3, <2>4, EndsHolds DEF CaseFails
<1>4. CASE VariableConflicts
  <2>1. found = Given(rec, at)
    BY <1>1, <1>2, <1>4, GivenBeforeLast DEF VariableConflicts, AllCases
  <2>2. Error \notin Given(rec, at)
    BY <1>1, <2>1, PolicyAssumption
  <2>3. Meaning(rec) = <<"unresolved", Empty>>
    BY <1>1, <1>2, <1>4, <2>1, <2>2, TroubleDecides DEF Untroubled, VariableConflicts
  <2>4. QED
    BY <1>1, <1>4, <2>3, EndsHolds DEF VariableConflicts
<1>5. QED
  BY <1>3, <1>4

LEMMA CaseHolds ==
  ASSUME IInv, CaseMisses \/ CaseGives PROVE IInv'
<1> USE DEF IInv
<1>1. /\ stage = "variables" /\ Evaluating /\ rec \in Records /\ at \in DOMAIN policy.variables
      /\ nth \in DOMAIN policy.variables[at] /\ nth \in Nat \ {0}
      /\ Accepted /\ found \in SUBSET Strings
      /\ UNCHANGED <<policy, answer, identity, current, stage, rec, at, variables, item>>
      /\ nth' = nth + 1
  BY DEF CaseMisses, CaseGives, AtCase, Evaluating, Validated, TypeOK, inputs
<1>2. found = GivenBefore(rec, at, nth)
  BY <1>1 DEF Walked
<1>3. found' = GivenBefore(rec, at, nth + 1) /\ found' \in SUBSET Strings
  <2>1. CASE CaseMisses
    <3>1. answer[rec].when[<<at, nth>>] = "no" /\ found' = found
      BY <2>1 DEF CaseMisses, AtCase
    <3>2. GivenBefore(rec, at, nth + 1) = found
      BY <1>1, <1>2, <3>1, GivenBeforeNext
    <3>3. QED
      BY <1>1, <3>1, <3>2
  <2>2. CASE CaseGives
    <3>1. answer[rec].when[<<at, nth>>] = "yes"
      BY <2>2 DEF CaseGives, AtCase
    <3>2. /\ (Case.value = Absent) = Case.expression
          /\ Gives(rec, at, nth) = IF Case.value # Absent THEN Case.value
                                   ELSE answer[rec].value[<<at, nth>>]
          /\ Gives(rec, at, nth) # Error => Gives(rec, at, nth) \in Strings
      BY <1>1, <3>1, CaseMeans DEF Case
    <3>3. Case.value # Absent \/ answer[rec].value[<<at, nth>>] # Error
      BY <2>2 DEF CaseGives
    <3>4. <<at, nth>> \in Cases(policy) /\ Case \in VariableCase
      BY <1>1, Shape DEF Case
    <3>5. Case.value # Absent => Case.value # Error
      BY <3>4, PolicyAssumption DEF VariableCase
    <3>6. Gives(rec, at, nth) \in Strings
      BY <3>2, <3>3, <3>5
    <3>7. found' = found \cup {Gives(rec, at, nth)}
      BY <2>2, <3>2 DEF CaseGives
    <3>8. GivenBefore(rec, at, nth + 1) = found \cup {Gives(rec, at, nth)}
      BY <1>1, <1>2, <3>1, GivenBeforeNext
    <3>9. QED
      BY <1>1, <3>6, <3>7, <3>8
  <2>3. QED
    BY <2>1, <2>2
<1>4. TypeOK'
  BY <1>1, <1>3 DEF TypeOK
<1>5. Walked'
  <2>1. \A i : Silent(rec, i)' = Silent(rec, i)
    BY <1>1 DEF Silent
  <2>2. \A v : Untroubled(rec, v)' = Untroubled(rec, v) /\ Value(rec)' = Value(rec)
    BY <1>1, MeaningKept
  <2>3. found' = GivenBefore(rec, at, nth)'
    BY <1>1, <1>3, MeaningKept
  <2>4. QED
    BY <1>1, <2>1, <2>2, <2>3 DEF Walked
<1>6. QED
  BY <1>1, <1>4, <1>5, WalkHolds DEF Evaluating, inputs

\* A variable has at most one value, and the next one is up.
LEMMA VariablePassHolds ==
  ASSUME IInv, VariableResolves \/ AllVariables PROVE IInv'
<1> USE DEF IInv
<1>1. /\ stage = "variables" /\ Evaluating /\ rec \in Records
      /\ at \in Nat \ {0} /\ nth \in Nat \ {0} /\ found \in SUBSET Strings
      /\ UNCHANGED <<policy, answer, identity, current, rec, item>>
      /\ \A i \in DOMAIN policy.overrides : Silent(rec, i)
      /\ \A v \in DOMAIN policy.variables :
           v < at => Untroubled(rec, v) /\ variables[v] = Value(rec)[v]
  BY DEF VariableResolves, AllVariables, Moves, AllCases, Evaluating, TypeOK, Walked, inputs
<1>2. \A i : Silent(rec, i)' = Silent(rec, i)
  BY <1>1 DEF Silent
<1>3. /\ \A v : Untroubled(rec, v)' = Untroubled(rec, v)
      /\ Value(rec)' = Value(rec)
      /\ \A i, f : RuleReply(rec, i, f)' = RuleReply(rec, i, f)
      /\ \A v : GivenBefore(rec, v, 1)' = GivenBefore(rec, v, 1)
  BY <1>1, MeaningKept
<1>4. CASE VariableResolves
  <2>1. /\ at \in DOMAIN policy.variables /\ nth \notin DOMAIN policy.variables[at]
        /\ stage' = stage /\ ~(Cardinality(found) > 1)
        /\ at' = at + 1 /\ nth' = 1 /\ found' = {}
        /\ variables' =
             [variables EXCEPT ![at] = IF found = {} THEN Absent ELSE CHOOSE s \in found : TRUE]
    BY <1>1, <1>4 DEF VariableResolves, AllCases
  <2>2. found = Given(rec, at)
    BY <1>1, <2>1, GivenBeforeLast DEF Walked
  <2>3. Untroubled(rec, at)
    BY <1>1, <2>1, <2>2, PolicyAssumption DEF Untroubled
  <2>4. (IF found = {} THEN Absent ELSE CHOOSE s \in found : TRUE) = Value(rec)[at]
    BY <2>1, <2>2 DEF Value, Only
  <2>5. (IF found = {} THEN Absent ELSE CHOOSE s \in found : TRUE) \in Strings \cup {Absent}
    BY <1>1
  <2>6. variables' = [variables EXCEPT ![at] = Value(rec)[at]] /\ Value(rec)[at] \in Strings \cup {Absent}
    BY <2>1, <2>4, <2>5
  <2>7. TypeOK'
    BY <1>1, <2>1, <2>6 DEF TypeOK
  <2>8. \A v \in DOMAIN policy.variables : v < at + 1 => v < at \/ v = at
    BY <1>1, Shape
  <2>9. \A v \in DOMAIN policy.variables :
          v < at + 1 => Untroubled(rec, v) /\ variables'[v] = Value(rec)[v]
    <3>1. \A v \in DOMAIN policy.variables : v # at => variables'[v] = variables[v]
      BY <2>6 DEF TypeOK
    <3>2. variables'[at] = Value(rec)[at]
      BY <2>1, <2>6 DEF TypeOK
    <3>3. \A v \in DOMAIN policy.variables : v < at => v # at
      BY <1>1, Shape
    <3>4. QED
      BY <1>1, <2>3, <2>8, <3>1, <3>2, <3>3
  <2>10. at + 1 \in DOMAIN policy.variables => GivenBefore(rec, at + 1, 1) = {}
    BY GivenBeforeFirst
  <2>11. Walked'
    BY <1>1, <1>2, <1>3, <2>1, <2>9, <2>10 DEF Walked
  <2>12. QED
    BY <1>1, <2>1, <2>7, <2>11, WalkHolds DEF Evaluating, inputs
<1>5. CASE AllVariables
  <2>1. /\ at \notin DOMAIN policy.variables /\ stage' = "rules"
        /\ at' = 1 /\ nth' = 1 /\ found' = {} /\ variables' = variables
    BY <1>5 DEF AllVariables, Moves
  <2>2. TypeOK'
    BY <1>1, <2>1 DEF TypeOK
  <2>3. \A v \in DOMAIN policy.variables : v < at
    BY <1>1, <2>1, Shape
  <2>4. variables = Value(rec)
    <3>1. DOMAIN variables = DOMAIN policy.variables /\ variables = [v \in DOMAIN variables |-> variables[v]]
      BY DEF TypeOK
    <3>2. Value(rec) = [v \in DOMAIN policy.variables |-> Value(rec)[v]]
      BY DEF Value
    <3>3. QED
      BY <1>1, <2>3, <3>1, <3>2
  <2>5. \A i \in DOMAIN policy.rules : ~(i < 1)
    BY Shape
  <2>6. Walked'
    BY <1>1, <1>2, <1>3, <2>1, <2>3, <2>4, <2>5 DEF Walked
  <2>7. QED
    BY <1>1, <2>1, <2>2, <2>6, WalkHolds DEF Evaluating, inputs
<1>6. QED
  BY <1>4, <1>5

LEMMA RuleHolds ==
  ASSUME IInv, RuleFails \/ RuleNames \/ NoRule PROVE IInv'
<1> USE DEF IInv
<1>1. /\ stage = "rules" /\ Evaluating /\ rec \in Records /\ at \in Nat \ {0}
      /\ \A o \in DOMAIN policy.overrides : Silent(rec, o)
      /\ \A v \in DOMAIN policy.variables : Untroubled(rec, v)
      /\ variables = Value(rec)
      /\ \A i \in DOMAIN policy.rules : i < at => RuleReply(rec, i, Value(rec)) = "no"
  BY DEF RuleFails, RuleNames, NoRule, AtRule, Evaluating, TypeOK, Walked
<1>2. CASE RuleFails \/ RuleNames
  <2>1. /\ at \in DOMAIN policy.rules /\ RuleReply(rec, at, Value(rec)) # "no"
        /\ RuleFails => RuleReply(rec, at, Value(rec)) = Error \/ answer[rec].name[at] = Error
        /\ RuleNames => RuleReply(rec, at, Value(rec)) # Error
    BY <1>1, <1>2 DEF RuleFails, RuleNames, AtRule, Error
  <2>2. Meaning(rec) = IF RuleReply(rec, at, Value(rec)) = Error THEN <<"invalid", Empty>>
                       ELSE Named(rec, answer[rec].name[at])
    BY <1>1, <2>1, RuleDecides
  <2>3. CASE RuleFails
    BY <1>1, <2>1, <2>2, <2>3, EndsHolds DEF RuleFails, Named
  <2>4. CASE RuleNames
    <3>1. answer[rec].name[at] \in Names
      BY <1>1, <2>1, <2>4, Answered DEF RuleNames
    <3>2. QED
      BY <1>1, <2>1, <2>2, <2>4, <3>1, WantsHolds DEF RuleNames
  <2>5. QED
    BY <1>2, <2>3, <2>4
<1>3. CASE NoRule
  <2>1. \A i \in DOMAIN policy.rules : i < at
    BY <1>1, <1>3, Shape DEF NoRule
  <2>2. Meaning(rec) = <<"unmanaged", Empty>>
    BY <1>1, <2>1, NothingDecides
  <2>3. QED
    BY <1>1, <1>3, <2>2, EndsHolds DEF NoRule
<1>4. QED
  BY <1>2, <1>3

LEMMA RulePassHolds ==
  ASSUME IInv, RuleMisses PROVE IInv'
<1> USE DEF IInv
<1>1. /\ stage = "rules" /\ at \in DOMAIN policy.rules /\ at \in Nat \ {0}
      /\ UNCHANGED <<policy, answer, identity, current, stage, rec, item, nth, found, variables>>
      /\ at' = at + 1 /\ RuleReply(rec, at, variables) = "no"
  BY DEF RuleMisses, AtRule, GoesOn, TypeOK, inputs
<1>2. TypeOK'
  BY <1>1 DEF TypeOK
<1>3. \A i \in DOMAIN policy.rules : i < at + 1 => i < at \/ i = at
  BY <1>1, Shape
<1>4. \A i : Silent(rec, i)' = Silent(rec, i)
  BY <1>1 DEF Silent
<1>5. /\ \A v : Untroubled(rec, v)' = Untroubled(rec, v)
      /\ Value(rec)' = Value(rec)
      /\ \A i, f : RuleReply(rec, i, f)' = RuleReply(rec, i, f)
  BY <1>1, MeaningKept
<1>6. Walked'
  BY <1>1, <1>3, <1>4, <1>5 DEF Walked
<1>7. QED
  BY <1>1, <1>2, <1>6, WalkHolds DEF Evaluating, inputs

-----------------------------------------------------------------------------
(* Ranks.                                                                  *)

\* The values before the first failure, all of them without one.
LEMMA RanksTyped ==
  ASSUME TypeOK, NEW r \in Records
  PROVE  /\ RanksOf(r) \in Seq(Int)
         /\ RankErrors(r) = {} => Len(RanksOf(r)) = Len(policy.ranks)
<1> DEFINE L == Len(policy.ranks)
           Good(m) == RankErrors(r) \cap (1 .. m) = {} /\ (m = L \/ m + 1 \in RankErrors(r))
           n == Faultless(L, RankErrors(r))
<1>1. DOMAIN policy.ranks = 1 .. L /\ L \in Nat /\ RankErrors(r) \in SUBSET (1 .. L)
  BY Shape DEF RankErrors
<1>2. n \in 0 .. L /\ Good(n)
  <2>1. \E m \in 0 .. L : Good(m)
    <3>1. CASE RankErrors(r) = {}
      BY <1>1, <3>1
    <3>2. CASE RankErrors(r) # {}
      <4>1. RankErrors(r) \in SUBSET Nat
        BY <1>1
      <4>2. PICK e \in RankErrors(r) : \A f \in RankErrors(r) : e <= f
        BY <3>2, <4>1, LeastNatural
      <4>3. e - 1 \in 0 .. L /\ e - 1 + 1 = e
        BY <1>1
      <4>4. RankErrors(r) \cap (1 .. (e - 1)) = {}
        BY <1>1, <4>2
      <4>5. QED
        BY <4>3, <4>4
    <3>3. QED
      BY <3>1, <3>2
  <2>2. n = CHOOSE m \in 0 .. L : Good(m)
    BY DEF Faultless
  <2> HIDE DEF Good, n
  <2>3. QED
    BY <2>1, <2>2
<1>3. RanksOf(r) = [i \in 1 .. n |-> answer[r].rank[i][1]]
  BY DEF RanksOf
<1> HIDE DEF n
<1>4. ASSUME NEW i \in 1 .. n PROVE answer[r].rank[i][1] \in Int
  <2>1. i \in DOMAIN policy.ranks /\ i \notin RankErrors(r)
    BY <1>1, <1>2
  <2>2. answer[r].rank[i] \in {<<v>> : v \in RankValues}
    BY <2>1, Answered DEF RankErrors
  <2>3. PICK v \in RankValues : answer[r].rank[i] = <<v>>
    BY <2>2
  <2>4. QED
    BY <2>3, PolicyAssumption
<1>5. n \in Nat
  BY <1>1, <1>2
<1>6. RanksOf(r) \in Seq(Int) /\ Len(RanksOf(r)) = n
  BY <1>3, <1>4, <1>5
<1>7. RankErrors(r) = {} => n = L
  BY <1>2
<1>8. QED
  BY <1>6, <1>7

LEMMA RankHolds ==
  ASSUME IInv, Rank PROVE IInv'
<1> USE DEF IInv
<1>1. /\ stage = "ranks" /\ rec \in Records /\ stage' \in {"ranks", "done"}
      /\ UNCHANGED <<policy, answer, identity, current, at, nth, found, variables>>
  BY DEF Rank, TypeOK, inputs, walk
<1>2. stage' = (IF rec = N THEN "done" ELSE "ranks") /\ rec' = (IF rec = N THEN 1 ELSE rec + 1)
  BY DEF Rank
<1>3. item' = IF item[rec].candidate THEN [item EXCEPT ![rec] = Ranked(rec)] ELSE item
  BY DEF Rank
<1>4. Ranked(rec) \in Item
  <2>1. item[rec] \in Item
    BY <1>1 DEF TypeOK
  <2>2. item[rec].name \in Names /\ item[rec].fixed \in BOOLEAN
    BY <2>1 DEF Item
  <2>3. QED
    BY <1>1, <2>2, RanksTyped DEF Ranked, Item
<1>5. TypeOK'
  <2>1. rec' \in Records
    BY <1>1, <1>2, Numbered DEF Records
  <2>2. item' \in [Records -> Item]
    BY <1>1, <1>3, <1>4 DEF TypeOK
  <2>3. QED
    BY <1>1, <2>1, <2>2 DEF TypeOK
<1>6. Validated'
  BY <1>1, MeaningKept DEF Validated
<1>7. Distinct'
  BY <1>1 DEF Distinct, Evaluated, Evaluating
<1>8. Walked'
  BY <1>1 DEF Walked
<1>9. Meant'
  <2>1. /\ \A q : Meaning(q)' = Meaning(q) /\ RankErrors(q)' = RankErrors(q)
        /\ \A q : RanksOf(q)' = RanksOf(q)
    <3>1. policy' = policy /\ answer' = answer
      BY <1>1
    <3>2. \A q : Meaning(q)' = Meaning(q) /\ RankErrors(q)' = RankErrors(q)
      BY <3>1, MeaningKept
    <3>3. QED
      BY <3>1, <3>2 DEF RanksOf
  <2>2. \A q \in Records : IsRanked(q)' => IsRanked(q) \/ q = rec
    BY <1>1, <1>2, Numbered DEF Records, IsRanked
  <2>3. \A q \in Records :
          Draft(q, item[q]) /\ (item[q].candidate => item[q].status = Empty)
    BY <1>1 DEF Meant, Evaluated
  <2>4. ASSUME NEW q \in Records, q # rec \/ ~item[rec].candidate, IsRanked(q)' => IsRanked(q) \/ q = rec
        PROVE  /\ Draft(q, item[q])' /\ (item'[q].candidate => item'[q].status = Empty)
               /\ IsRanked(q)' /\ item'[q].candidate =>
                    RankErrors(q)' = {} /\ item'[q].ranks = RanksOf(q)'
    <3>1. item'[q] = item[q]
      BY <1>3, <2>4 DEF TypeOK
    <3>2. QED
      BY <2>1, <2>3, <2>4, <3>1 DEF Draft, Meant
  <2>5. ASSUME item[rec].candidate
        PROVE  /\ Draft(rec, item[rec])
               /\ LET it == Ranked(rec) IN
                  /\ Draft(rec, it) /\ (it.candidate => it.status = Empty)
                  /\ it.candidate => RankErrors(rec) = {} /\ it.ranks = RanksOf(rec)
    BY <1>1, <2>3, <2>5 DEF Draft, Ranked
  <2>6. ASSUME NEW q \in Records, q = rec, item[rec].candidate
        PROVE  /\ Draft(q, item[q])' /\ (item'[q].candidate => item'[q].status = Empty)
               /\ item'[q].candidate => RankErrors(q)' = {} /\ item'[q].ranks = RanksOf(q)'
    <3>1. item'[q] = Ranked(rec)
      BY <1>3, <2>6 DEF TypeOK
    <3>2. QED
      BY <2>1, <2>5, <2>6, <3>1 DEF Draft
  <2>7. QED
    BY <2>2, <2>4, <2>6 DEF Meant
<1>10. QED
  BY <1>5, <1>6, <1>7, <1>8, <1>9

-----------------------------------------------------------------------------
(* The order of what competes.                                             *)

Comparable(r) ==
  /\ DOMAIN item[r].ranks = DOMAIN policy.ranks
  /\ \A i \in DOMAIN policy.ranks : item[r].ranks[i] \in Int
  /\ identity[r] \in Int

\* The order by ranks and then identity.
ByRank(r, s) ==
  IF Decisive(r, s) # {}
  THEN \A i \in Decisive(r, s) :
         IF policy.ranks[i].order = "descending"
         THEN item[r].ranks[i] > item[s].ranks[i]
         ELSE item[r].ranks[i] < item[s].ranks[i]
  ELSE identity[r] < identity[s]

\* One rank tells two records apart, or all their ranks are the same.
LEMMA OneDecides ==
  ASSUME TypeOK, NEW r, NEW s, Comparable(r), Comparable(s)
  PROVE  \/ \E i \in DOMAIN policy.ranks :
              /\ Decisive(r, s) = {i} /\ item[r].ranks[i] # item[s].ranks[i]
              /\ \A j \in DOMAIN policy.ranks : j < i => item[r].ranks[j] = item[s].ranks[j]
         \/ /\ Decisive(r, s) = {}
            /\ \A j \in DOMAIN policy.ranks : item[r].ranks[j] = item[s].ranks[j]
<1> DEFINE T == {j \in DOMAIN policy.ranks : item[r].ranks[j] # item[s].ranks[j]}
<1>1. DOMAIN policy.ranks = 1 .. Len(policy.ranks) /\ Len(policy.ranks) \in Nat
  BY Shape
<1>2. \A i : i \in Decisive(r, s) <=> i \in T /\ \A j \in 1 .. i - 1 : item[r].ranks[j] = item[s].ranks[j]
  BY DEF Decisive, Comparable
<1>3. \A i \in DOMAIN policy.ranks :
        /\ \A j \in 1 .. i - 1 : j \in DOMAIN policy.ranks /\ j < i
        /\ \A j \in DOMAIN policy.ranks : j < i => j \in 1 .. i - 1
  BY <1>1
<1>4. CASE T = {}
  BY <1>2, <1>4
<1>5. CASE T # {}
  <2>1. PICK i \in T : \A j \in T : i <= j
    <3>1. T \in SUBSET Nat
      BY <1>1
    <3> HIDE DEF T
    <3>2. QED
      BY <1>5, <3>1, LeastNatural
  <2>2. \A j \in T : i <= j /\ j \in Int /\ i \in Int
    BY <1>1, <2>1
  <2>3. \A j \in DOMAIN policy.ranks : j < i => item[r].ranks[j] = item[s].ranks[j]
    BY <1>1, <2>2
  <2>4. i \in Decisive(r, s)
    BY <1>2, <1>3, <2>1, <2>3
  <2>5. \A k \in Decisive(r, s) : k = i
    <3>1. ASSUME NEW k \in Decisive(r, s) PROVE k = i
      <4>1. k \in T /\ i <= k
        BY <1>2, <2>2
      <4>2. ~(i < k)
        BY <1>2, <1>3, <2>1, <4>1
      <4>3. QED
        BY <2>2, <4>1, <4>2
    <3>2. QED
      BY <3>1
  <2>6. Decisive(r, s) = {i}
    BY <2>4, <2>5
  <2>7. QED
    BY <2>1, <2>3, <2>6
<1>6. QED
  BY <1>4, <1>5

LEMMA DecisiveSymmetric ==
  ASSUME NEW r, NEW s, Comparable(r), Comparable(s) PROVE Decisive(r, s) = Decisive(s, r)
BY DEF Decisive, Comparable

LEMMA ByRankTotal ==
  ASSUME TypeOK, NEW r, NEW s, Comparable(r), Comparable(s), identity[r] # identity[s]
  PROVE  ByRank(r, s) <=> ~ByRank(s, r)
<1>1. CASE \E i \in DOMAIN policy.ranks :
             Decisive(r, s) = {i} /\ item[r].ranks[i] # item[s].ranks[i]
  <2>1. PICK i \in DOMAIN policy.ranks :
          Decisive(r, s) = {i} /\ item[r].ranks[i] # item[s].ranks[i]
    BY <1>1
  <2>2. Decisive(s, r) = {i}
    BY <2>1, DecisiveSymmetric
  <2>3. item[r].ranks[i] \in Int /\ item[s].ranks[i] \in Int
    BY DEF Comparable
  <2>4. QED
    BY <2>1, <2>2, <2>3 DEF ByRank
<1>2. CASE Decisive(r, s) = {}
  <2>1. Decisive(s, r) = {}
    BY <1>2, DecisiveSymmetric
  <2>2. QED
    BY <1>2, <2>1 DEF ByRank, Comparable
<1>3. QED
  BY <1>1, <1>2, OneDecides

LEMMA ByRankTransitive ==
  ASSUME TypeOK, NEW r, NEW s, NEW t, Comparable(r), Comparable(s), Comparable(t),
         ByRank(r, s), ByRank(s, t)
  PROVE  ByRank(r, t)
<1> DEFINE D == DOMAIN policy.ranks
           R(i) == item[r].ranks[i]
           S(i) == item[s].ranks[i]
           T(i) == item[t].ranks[i]
           Less(x, y, i) == IF policy.ranks[i].order = "descending" THEN x > y ELSE x < y
<1>1. \A i \in D : R(i) \in Int /\ S(i) \in Int /\ T(i) \in Int /\ i \in Int
  BY Shape DEF Comparable
<1>2. \/ \E i \in D : Decisive(r, s) = {i} /\ Less(R(i), S(i), i) /\ \A j \in D : j < i => R(j) = S(j)
      \/ Decisive(r, s) = {} /\ identity[r] < identity[s] /\ \A j \in D : R(j) = S(j)
  BY OneDecides DEF ByRank
<1>3. \/ \E i \in D : Decisive(s, t) = {i} /\ Less(S(i), T(i), i) /\ \A j \in D : j < i => S(j) = T(j)
      \/ Decisive(s, t) = {} /\ identity[s] < identity[t] /\ \A j \in D : S(j) = T(j)
  BY OneDecides DEF ByRank
<1>4. \/ \E i \in D : Decisive(r, t) = {i} /\ R(i) # T(i) /\ \A j \in D : j < i => R(j) = T(j)
      \/ Decisive(r, t) = {} /\ \A j \in D : R(j) = T(j)
  BY OneDecides
<1>5. CASE \E i \in D : Less(R(i), T(i), i) /\ \A j \in D : j < i => R(j) = T(j)
  <2>1. PICK i \in D : Less(R(i), T(i), i) /\ \A j \in D : j < i => R(j) = T(j)
    BY <1>5
  <2>2. R(i) # T(i)
    BY <1>1, <2>1
  <2>3. PICK k \in D : Decisive(r, t) = {k} /\ R(k) # T(k) /\ \A j \in D : j < k => R(j) = T(j)
    BY <1>4, <2>2
  <2>4. k = i
    BY <1>1, <2>1, <2>2, <2>3
  <2>5. QED
    BY <2>1, <2>3, <2>4 DEF ByRank
<1>6. CASE \A j \in D : R(j) = S(j) /\ S(j) = T(j)
  <2>1. Decisive(r, t) = {}
    BY <1>4, <1>6
  <2>2. identity[r] < identity[s] /\ identity[s] < identity[t]
    BY <1>1, <1>2, <1>3, <1>6
  <2>3. QED
    BY <2>1, <2>2 DEF ByRank, Comparable
<1>7. ASSUME NEW i \in D, Less(R(i), S(i), i), \A j \in D : j < i => R(j) = S(j)
      PROVE  ByRank(r, t)
  <2>1. CASE \A j \in D : S(j) = T(j)
    BY <1>5, <1>7, <2>1
  <2>2. CASE \E k \in D : Less(S(k), T(k), k) /\ \A j \in D : j < k => S(j) = T(j)
    <3>1. PICK k \in D : Less(S(k), T(k), k) /\ \A j \in D : j < k => S(j) = T(j)
      BY <2>2
    <3>2. CASE i < k
      <4>1. S(i) = T(i) /\ \A j \in D : j < i => j < k
        BY <1>1, <3>1, <3>2
      <4>2. QED
        BY <1>5, <1>7, <3>1, <4>1
    <3>3. CASE k < i
      <4>1. R(k) = S(k) /\ \A j \in D : j < k => j < i
        BY <1>1, <1>7, <3>3
      <4>2. QED
        BY <1>5, <1>7, <3>1, <4>1
    <3>4. CASE k = i
      <4>1. Less(R(i), T(i), i)
        BY <1>1, <1>7, <3>1, <3>4
      <4>2. QED
        BY <1>5, <1>7, <3>1, <3>4, <4>1
    <3>5. QED
      BY <1>1, <3>2, <3>3, <3>4
  <2>3. QED
    BY <1>3, <2>1, <2>2
<1>8. CASE \A j \in D : R(j) = S(j)
  BY <1>3, <1>5, <1>6, <1>8
<1>9. QED
  BY <1>2, <1>7, <1>8

\* When all ranks are evaluated, what competes can be compared.
LEMMA CandidatesComparable ==
  ASSUME IInv, stage = "done", NEW r \in Candidates
  PROVE  Comparable(r) /\ Len(item[r].ranks) = Len(policy.ranks)
<1> USE DEF IInv
<1>1. r \in Records /\ item[r].candidate
  BY DEF Candidates
<1>2. item[r].ranks = RanksOf(r) /\ RankErrors(r) = {}
  BY <1>1 DEF Meant, IsRanked
<1>3. RanksOf(r) \in Seq(Int) /\ Len(RanksOf(r)) = Len(policy.ranks)
  BY <1>1, <1>2, RanksTyped
<1>4. DOMAIN policy.ranks = 1 .. Len(policy.ranks)
  BY Shape
<1>5. DOMAIN RanksOf(r) = DOMAIN policy.ranks
  BY <1>3, <1>4
<1>6. \A i \in DOMAIN RanksOf(r) : RanksOf(r)[i] \in Int
  BY <1>3
<1>7. identity[r] \in Int
  BY <1>1, PolicyAssumption DEF TypeOK
<1>8. QED
  BY <1>2, <1>3, <1>5, <1>6, <1>7 DEF Comparable

LEMMA StutterHolds == IInv /\ UNCHANGED vars => IInv'
<1> SUFFICES ASSUME IInv, UNCHANGED vars PROVE IInv'
  OBVIOUS
<1> USE DEF IInv
<1>1. UNCHANGED <<policy, answer, identity, current, stage, rec, at, nth, found, variables, item>>
  BY DEF vars, inputs, walk
<1>2. TypeOK' /\ Distinct'
  BY <1>1 DEF TypeOK, Distinct, Evaluated, Evaluating
<1>3. Validated'
  BY <1>1, MeaningKept DEF Validated
<1>4. /\ \A i : Silent(rec, i)' = Silent(rec, i)
      /\ \A v : Untroubled(rec, v)' = Untroubled(rec, v)
      /\ \A v, n : GivenBefore(rec, v, n)' = GivenBefore(rec, v, n)
      /\ Value(rec)' = Value(rec)
      /\ \A i, f : RuleReply(rec, i, f)' = RuleReply(rec, i, f)
  BY <1>1, MeaningKept DEF Silent
<1>5. Walked'
  BY <1>1, <1>4 DEF Walked
<1>6. /\ \A q : Meaning(q)' = Meaning(q) /\ RankErrors(q)' = RankErrors(q)
      /\ \A q : RanksOf(q)' = RanksOf(q)
  <2>1. policy' = policy /\ answer' = answer
    BY <1>1
  <2>2. \A q : Meaning(q)' = Meaning(q) /\ RankErrors(q)' = RankErrors(q)
    BY <2>1, MeaningKept
  <2>3. QED
    BY <2>1, <2>2 DEF RanksOf
<1>7. Meant'
  BY <1>1, <1>6 DEF Meant, Draft, Evaluated, IsRanked
<1>8. QED
  BY <1>2, <1>3, <1>5, <1>7

LEMMA NextHolds == IInv /\ [Next]_vars => IInv'
BY AdmissionHolds, OverrideHolds, OverridePassHolds, VariableHolds, CaseHolds, VariablePassHolds,
   RuleHolds, RulePassHolds, RankHolds, StutterHolds DEF Next

-----------------------------------------------------------------------------
(* The theorems.                                                           *)

(* The walk through overrides, variables and rules keeps the invariant     *)
(* that what it left behind is undecided, and that what it has finished is *)
(* what the policy means (planner.go:62 to 228).                           *)
THEOREM Inductive == Spec => []IInv
BY InitHolds, NextHolds, PTL DEF Spec

(* Every variable keeps its type: only strings are collected for a         *)
(* variable, and only integers are ranks (planner.go:22 to 28).            *)
THEOREM TypeCorrect == Spec => []TypeOK
BY Inductive, PTL DEF IInv

(* What is handed to collision resolution is what the policy, whatever it  *)
(* is and whatever its programs answer, means for each record              *)
(* (planner.go:98 to 228).                                                 *)
THEOREM EvaluationMeetsMeaning == Spec => []EvaluationMeets
<1>1. IInv => EvaluationMeets
  <2> SUFFICES ASSUME IInv, stage = "done", NEW r \in Records
               PROVE  <<item[r].status, IF item[r].candidate THEN item[r].name ELSE Empty>>
                        = Meaning(r)
    BY DEF EvaluationMeets
  <2>1. /\ Draft(r, item[r]) /\ (item[r].candidate => item[r].status = Empty)
        /\ item[r].candidate => RankErrors(r) = {}
    BY DEF IInv, Meant, Evaluated, IsRanked
  <2>2. QED
    BY <2>1 DEF Draft
<1>2. QED
  BY <1>1, Inductive, PTL

(* No accepted policy makes the planner panic, neither on a case without a *)
(* value nor on ranks that cannot be compared (planner.go:196, 319, 453).  *)
THEOREM NeverPanics == Spec => []NothingPanics
<1>1. IInv => NothingPanics
  <2> SUFFICES ASSUME IInv PROVE NothingPanics
    OBVIOUS
  <2>1. AtCase("yes") => Case.value # Absent \/ Case.expression
    <3>1. SUFFICES ASSUME AtCase("yes") PROVE Case.value # Absent \/ Case.expression
      OBVIOUS
    <3>2. Accepted
      BY <3>1 DEF IInv, Validated, AtCase
    <3>3. CaseOK(policy.variables[at][nth])
      BY <3>1, <3>2 DEF Accepted, AtCase
    <3>4. QED
      BY <3>3 DEF CaseOK, Case
  <2>2. ASSUME stage = "done", NEW r \in Candidates, NEW s \in Candidates
        PROVE  /\ Len(item[r].ranks) = Len(item[s].ranks)
               /\ \A i \in DOMAIN item[r].ranks : policy.ranks[i].kind # "bool"
    <3>1. /\ Len(item[r].ranks) = Len(item[s].ranks)
          /\ DOMAIN item[r].ranks = DOMAIN policy.ranks
      BY <2>2, CandidatesComparable DEF Comparable
    <3>2. \A i \in DOMAIN policy.ranks : policy.ranks[i].kind # "bool"
      BY <2>2 DEF IInv, Validated, Accepted, RankOK
    <3>3. QED
      BY <3>1, <3>2
  <2>3. QED
    BY <2>1, <2>2 DEF NothingPanics
<1>2. QED
  BY <1>1, Inductive, PTL

(* Competitors are strictly and totally ordered, for any number of records *)
(* and of ranks: by the existing name, the first rank that differs and     *)
(* identity (planner.go:307).                                              *)
THEOREM CompetitorsOrdered == Spec => []StrictlyOrdered
<1>1. IInv => StrictlyOrdered
  <2> SUFFICES ASSUME IInv, stage = "done", NEW r \in Records, NEW s \in Records, NEW t \in Records
               PROVE  /\ Compete(r, s) /\ r # s => Before(r, s) # Before(s, r)
                      /\ Compete(r, s) /\ Compete(s, t) /\ Before(r, s) /\ Before(s, t) => Before(r, t)
    BY DEF StrictlyOrdered
  <2>1. TypeOK
    BY DEF IInv
  <2>2. ASSUME Compete(r, s), r # s PROVE Before(r, s) # Before(s, r)
    <3>1. Comparable(r) /\ Comparable(s)
      BY <2>2, CandidatesComparable DEF Compete
    <3>2. identity[r] # identity[s]
      BY <2>2 DEF IInv, Distinct, Evaluated
    <3>3. ByRank(r, s) <=> ~ByRank(s, r)
      BY <2>1, <3>1, <3>2, ByRankTotal
    <3>4. /\ Before(r, s) <=> IF policy.preserve /\ Holds(r) # Holds(s) THEN Holds(r) ELSE ByRank(r, s)
          /\ Before(s, r) <=> IF policy.preserve /\ Holds(s) # Holds(r) THEN Holds(s) ELSE ByRank(s, r)
      BY DEF Before, ByRank
    <3>5. Before(r, s) <=> ~Before(s, r)
      BY <3>3, <3>4 DEF Holds
    <3>6. QED
      BY <3>5
  <2>3. ASSUME Compete(r, s), Compete(s, t), Before(r, s), Before(s, t) PROVE Before(r, t)
    <3>1. Comparable(r) /\ Comparable(s) /\ Comparable(t)
      BY <2>3, CandidatesComparable DEF Compete
    <3>2. /\ IF policy.preserve /\ Holds(r) # Holds(s) THEN Holds(r) ELSE ByRank(r, s)
          /\ IF policy.preserve /\ Holds(s) # Holds(t) THEN Holds(s) ELSE ByRank(s, t)
      BY <2>3 DEF Before, ByRank
    <3>3. Before(r, t) <=> IF policy.preserve /\ Holds(r) # Holds(t) THEN Holds(r) ELSE ByRank(r, t)
      BY DEF Before, ByRank
    <3>4. ByRank(r, s) /\ ByRank(s, t) => ByRank(r, t)
      BY <2>1, <3>1, ByRankTransitive
    <3>5. QED
      BY <3>2, <3>3, <3>4 DEF Holds
  <2>4. QED
    BY <2>2, <2>3
<1>2. QED
  BY <1>1, Inductive, PTL

=============================================================================
