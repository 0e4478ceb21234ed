------------------------------ MODULE JamfProofs ----------------------------
(***************************************************************************)
(* Theorems about the Jamf provider.                                       *)
(*                                                                         *)
(* About JamfClient, for any number of concurrent requests, any token      *)
(* lifetime and any number of tokens: one fetch at a time, a token that    *)
(* still works is kept, an expired one is not handed out, and a request    *)
(* sent twice has its effect at most once.                                 *)
(*                                                                         *)
(* About JamfPages, for any ids, page size and changes: the records of a   *)
(* listing are different devices, and a device that was there all along is *)
(* missed only for a device deleted in front of it.                        *)
(***************************************************************************)
EXTENDS JamfClient, JamfPages, FiniteSetTheorems, TLAPS

Fetching(c) == pc[c] \in {"fetch", "granted"}
Trying(c) == pc[c] \in {"token", "fetch", "granted", "send"}

\* The mutex is held by the one caller that fetches.
Exclusion == \A c \in Callers : Fetching(c) <=> mutex = c

\* Only tokens the server issued go around.
Known ==
  /\ accessToken <= issued
  /\ \A c \in Callers : token[c] <= issued /\ \A t \in rejected[c] : t <= issued
  /\ \A c \in Callers : pc[c] \in {"send", "unauthorized"} => token[c] # NoToken

\* A token that is still on its way is one nobody has seen.
Fresh ==
  \A c \in Callers : pc[c] = "granted" =>
    /\ issued # NoToken /\ issued # accessToken
    /\ \A d \in Callers : issued # token[d] /\ issued \notin rejected[d]

\* The cache counts a lifetime from the response: at most Timeout too late.
Timely ==
  /\ accessToken # NoToken => tokenExpiresAt <= expiry[accessToken] + Timeout
  /\ \A c \in Callers : Fetching(c) => fetchStarted <= now /\ now <= fetchStarted + Timeout
  /\ \A c \in Callers : pc[c] = "granted" => fetchStarted + Life <= expiry[issued]

\* A refused token stays unacceptable.
Refusals ==
  \A c \in Callers : pc[c] = "unauthorized" => ~Accepts(token[c])

\* What a request was refused with, before and after its second attempt.
AttemptsOf(c) ==
  /\ attempt[c] = 0 /\ Trying(c) => rejected[c] = {}
  /\ attempt[c] = 0 /\ pc[c] = "unauthorized" => rejected[c] = {token[c]}
  /\ attempt[c] = 1 /\ Trying(c) =>
       \E t \in Tokens : /\ rejected[c] = {t} /\ accessToken # t
                         /\ pc[c] = "send" => token[c] # t
  /\ attempt[c] = 1 /\ pc[c] = "unauthorized" =>
       \E t \in Tokens : t # token[c] /\ rejected[c] = {t, token[c]}

Attempts == \A c \in Callers : AttemptsOf(c)

Effects == \A c \in Callers :
  /\ performed[c] <= 1
  /\ Trying(c) \/ pc[c] = "unauthorized" => performed[c] = 0

IInv ==
  TypeOK /\ Exclusion /\ Known /\ Fresh /\ Timely /\ Refusals /\ Attempts /\ Effects /\ FetchNeeded

LEMMA InitHolds == Init => IInv
BY ClientAssumption
   DEF Init, IInv, TypeOK, Exclusion, Known, Fresh, Timely, Refusals, Attempts, AttemptsOf, Effects,
       FetchNeeded, Fetching, Trying, Tokens, NoToken, Nobody, Steps

\* What was said of a caller's attempts stands while nobody touches them, and
\* the cache is not given the token it was refused.
LEMMA AttemptsKept ==
  ASSUME NEW d \in Callers, AttemptsOf(d), pc'[d] = pc[d], attempt'[d] = attempt[d],
         token'[d] = token[d], rejected'[d] = rejected[d],
         accessToken' = accessToken \/ accessToken' \notin rejected[d]
  PROVE  AttemptsOf(d)'
BY DEF AttemptsOf, Trying

\* A caller sets out on its second attempt, not with the token it was refused.
LEMMA SecondAttempt ==
  ASSUME NEW c \in Callers, NEW t \in Tokens, attempt'[c] = 1, pc'[c] = "token",
         rejected'[c] = {t}, accessToken' # t
  PROVE  AttemptsOf(c)'
BY DEF AttemptsOf, Trying

-----------------------------------------------------------------------------
(* One lemma per action: it preserves every conjunct of the invariant.     *)

LEMMA RequestHolds ==
  ASSUME IInv, NEW c \in Callers, Request(c) PROVE IInv'
<1> USE ClientAssumption DEF IInv, TypeOK, Request, Steps, Tokens, NoToken, Nobody,
          callerVars, cacheVars, serverVars
<1>1. TypeOK'
  OBVIOUS
<1>2. Exclusion' /\ Timely' /\ FetchNeeded'
  BY DEF Exclusion, Timely, FetchNeeded, Fetching, Usable, Known
<1>3. Known'
  BY DEF Known
<1>4. Fresh'
  BY DEF Fresh, Known, Exclusion, Fetching
<1>5. Refusals' /\ Effects'
  BY DEF Refusals, Effects, Trying, Known, Accepts
<1>6. Attempts'
  BY DEF Attempts, AttemptsOf, Known, Trying, Fresh
<1>7. QED
  BY <1>1, <1>2, <1>3, <1>4, <1>5, <1>6

LEMMA TokenCachedHolds ==
  ASSUME IInv, NEW c \in Callers, TokenCached(c) PROVE IInv'
<1> USE ClientAssumption DEF IInv, TypeOK, TokenCached, Steps, Tokens, NoToken, Nobody,
          cacheVars, serverVars, historyVars, Usable
<1>1. TypeOK'
  OBVIOUS
<1>2. Exclusion' /\ Timely' /\ FetchNeeded'
  BY DEF Exclusion, Timely, FetchNeeded, Fetching, Known
<1>3. Known'
  BY DEF Known
<1>4. Fresh'
  BY DEF Fresh, Known, Exclusion, Fetching
<1>5. Refusals' /\ Effects'
  BY DEF Refusals, Effects, Trying, Known, Accepts
<1>6. Attempts'
  <2>1. ASSUME NEW d \in Callers, d # c PROVE AttemptsOf(d)'
    BY <2>1, AttemptsKept DEF Attempts
  <2>2. /\ pc[c] = "token" /\ pc'[c] = "send" /\ token'[c] = accessToken
        /\ attempt'[c] = attempt[c] /\ rejected'[c] = rejected[c]
        /\ accessToken' = accessToken
    OBVIOUS
  <2>3. AttemptsOf(c)'
    BY <2>2 DEF Attempts, AttemptsOf, Trying
  <2>4. QED
    BY <2>1, <2>3 DEF Attempts
<1>7. QED
  BY <1>1, <1>2, <1>3, <1>4, <1>5, <1>6

LEMMA RefusedHolds ==
  ASSUME IInv, NEW c \in Callers, Refused(c) PROVE IInv'
<1> USE ClientAssumption DEF IInv, TypeOK, Refused, Steps, Tokens, NoToken, Nobody,
          cacheVars, serverVars, Accepts
<1>1. TypeOK'
  <2>1. token[c] \in Tokens
    BY DEF Known
  <2>2. rejected' \in [Callers -> SUBSET Tokens]
    BY <2>1
  <2>3. QED
    BY <2>2
<1>2. Exclusion' /\ Timely' /\ FetchNeeded'
  BY DEF Exclusion, Timely, FetchNeeded, Fetching, Usable, Known
<1>3. Known'
  BY DEF Known
<1>4. Fresh'
  BY DEF Fresh, Known, Exclusion, Fetching
<1>5. Refusals' /\ Effects'
  BY DEF Refusals, Effects, Trying, Known
<1>6. Attempts'
  <2>1. /\ rejected'[c] = rejected[c] \cup {token[c]} /\ pc'[c] = "unauthorized"
        /\ attempt'[c] = attempt[c] /\ token'[c] = token[c] /\ attempt[c] \in {0, 1}
    OBVIOUS
  <2>2. ASSUME NEW d \in Callers, d # c PROVE AttemptsOf(d)'
    <3>1. /\ rejected'[d] = rejected[d] /\ pc'[d] = pc[d] /\ attempt'[d] = attempt[d]
          /\ token'[d] = token[d] /\ accessToken' = accessToken
      BY <2>2
    <3>2. QED
      BY <2>2, <3>1 DEF Attempts, AttemptsOf, Trying
  <2>3. AttemptsOf(c)'
    <3>1. CASE attempt[c] = 0
      BY <2>1, <3>1 DEF Attempts, AttemptsOf, Trying
    <3>2. CASE attempt[c] = 1
      <4>1. PICK t \in Tokens : rejected[c] = {t} /\ token[c] # t
        BY <3>2 DEF Attempts, AttemptsOf, Trying
      <4>2. rejected'[c] = {t, token[c]}
        BY <2>1, <4>1
      <4>3. QED
        BY <2>1, <3>2, <4>1, <4>2 DEF AttemptsOf, Trying
    <3>3. QED
      BY <2>1, <3>1, <3>2
  <2>4. QED
    BY <2>2, <2>3 DEF Attempts
<1>7. QED
  BY <1>1, <1>2, <1>3, <1>4, <1>5, <1>6

LEMMA ServedHolds ==
  ASSUME IInv, NEW c \in Callers, Served(c) PROVE IInv'
<1> USE ClientAssumption DEF IInv, TypeOK, Served, Steps, Tokens, NoToken, Nobody,
          cacheVars, serverVars
<1>1. TypeOK'
  <2>1. pc' \in [Callers -> Steps]
    OBVIOUS
  <2>2. performed' \in [Callers -> Nat]
    <3>1. performed[c] + 1 \in Nat
      OBVIOUS
    <3>2. QED
      BY <3>1
  <2>3. QED
    BY <2>1, <2>2
<1>2. Exclusion' /\ Timely' /\ FetchNeeded'
  <2>1. /\ pc[c] = "send" /\ pc'[c] \in {"ok", "failed"}
        /\ \A d \in Callers \ {c} : pc'[d] = pc[d]
    OBVIOUS
  <2>2. \A d \in Callers : /\ pc'[d] = "granted" <=> pc[d] = "granted"
                           /\ Fetching(d)' <=> Fetching(d)
    BY <2>1 DEF Fetching
  <2>3. QED
    BY <2>2 DEF Exclusion, Timely, FetchNeeded, Fetching, Usable
<1>3. Known'
  BY DEF Known
<1>4. Fresh'
  BY DEF Fresh, Known, Exclusion, Fetching
<1>5. Refusals' /\ Effects'
  BY DEF Refusals, Effects, Trying, Known, Accepts
<1>6. Attempts'
  <2>1. ASSUME NEW d \in Callers, d # c PROVE AttemptsOf(d)'
    BY <2>1, AttemptsKept DEF Attempts
  <2>2. AttemptsOf(c)'
    <3>1. pc'[c] \in {"ok", "failed"}
      OBVIOUS
    <3>2. QED
      BY <3>1 DEF AttemptsOf, Trying
  <2>3. QED
    BY <2>1, <2>2 DEF Attempts
<1>7. QED
  BY <1>1, <1>2, <1>3, <1>4, <1>5, <1>6

LEMMA UnsentHolds ==
  ASSUME IInv, NEW c \in Callers, Unsent(c) PROVE IInv'
<1> USE ClientAssumption DEF IInv, TypeOK, Unsent, Steps, Tokens, NoToken, Nobody,
          cacheVars, serverVars, historyVars
<1>1. TypeOK'
  OBVIOUS
<1>2. Exclusion' /\ Timely' /\ FetchNeeded'
  BY DEF Exclusion, Timely, FetchNeeded, Fetching, Usable, Known
<1>3. Known'
  BY DEF Known
<1>4. Fresh'
  BY DEF Fresh, Known, Exclusion, Fetching
<1>5. Refusals' /\ Effects'
  BY DEF Refusals, Effects, Trying, Known, Accepts
<1>6. Attempts'
  BY DEF Attempts, AttemptsOf, Known, Trying, Fresh
<1>7. QED
  BY <1>1, <1>2, <1>3, <1>4, <1>5, <1>6

LEMMA GiveUpHolds ==
  ASSUME IInv, NEW c \in Callers, GiveUp(c) PROVE IInv'
<1> USE ClientAssumption DEF IInv, TypeOK, GiveUp, Steps, Tokens, NoToken, Nobody,
          cacheVars, serverVars, historyVars
<1>1. TypeOK'
  OBVIOUS
<1>2. Exclusion' /\ Timely' /\ FetchNeeded'
  BY DEF Exclusion, Timely, FetchNeeded, Fetching, Usable, Known
<1>3. Known'
  BY DEF Known
<1>4. Fresh'
  BY DEF Fresh, Known, Exclusion, Fetching
<1>5. Refusals' /\ Effects'
  BY DEF Refusals, Effects, Trying, Known, Accepts
<1>6. Attempts'
  BY DEF Attempts, AttemptsOf, Known, Trying, Fresh
<1>7. QED
  BY <1>1, <1>2, <1>3, <1>4, <1>5, <1>6

LEMMA ReturnHolds ==
  ASSUME IInv, NEW c \in Callers, Return(c) PROVE IInv'
<1> USE ClientAssumption DEF IInv, TypeOK, Return, Steps, Tokens, NoToken, Nobody,
          cacheVars, serverVars, historyVars
<1>1. TypeOK'
  OBVIOUS
<1>2. Exclusion' /\ Timely' /\ FetchNeeded'
  BY DEF Exclusion, Timely, FetchNeeded, Fetching, Usable, Known
<1>3. Known'
  BY DEF Known
<1>4. Fresh'
  BY DEF Fresh, Known, Exclusion, Fetching
<1>5. Refusals' /\ Effects'
  BY DEF Refusals, Effects, Trying, Known, Accepts
<1>6. Attempts'
  BY DEF Attempts, AttemptsOf, Known, Trying, Fresh
<1>7. QED
  BY <1>1, <1>2, <1>3, <1>4, <1>5, <1>6

LEMMA IssueHolds ==
  ASSUME IInv, NEW c \in Callers, Issue(c) PROVE IInv'
<1> USE ClientAssumption DEF IInv, TypeOK, Issue, Steps, Tokens, NoToken, Nobody,
          cacheVars, historyVars
<1>1. TypeOK'
  OBVIOUS
<1>2. Exclusion' /\ Timely' /\ FetchNeeded'
  BY DEF Exclusion, Timely, FetchNeeded, Fetching, Usable, Known
<1>3. Known'
  <2>1. issued <= issued'
    OBVIOUS
  <2>2. ASSUME NEW d \in Callers
        PROVE /\ token[d] <= issued' /\ \A t \in rejected[d] : t <= issued'
              /\ pc'[d] \in {"send", "unauthorized"} => token[d] # NoToken
    <3>1. token[d] \in Nat /\ \A t \in rejected[d] : t \in Nat
      OBVIOUS
    <3>2. QED
      BY <2>1, <3>1 DEF Known
  <2>3. accessToken <= issued'
    BY <2>1 DEF Known
  <2>4. QED
    BY <2>2, <2>3 DEF Known
<1>4. Fresh'
  BY DEF Fresh, Known, Exclusion, Fetching
<1>5. Refusals' /\ Effects'
  BY DEF Refusals, Effects, Trying, Known, Accepts
<1>6. Attempts'
  BY DEF Attempts, AttemptsOf, Known, Trying, Fresh
<1>7. QED
  BY <1>1, <1>2, <1>3, <1>4, <1>5, <1>6

LEMMA TokenFetchHolds ==
  ASSUME IInv, NEW c \in Callers, TokenFetch(c) PROVE IInv'
<1> USE ClientAssumption DEF IInv, TypeOK, TokenFetch, Steps, Tokens, NoToken, Nobody,
          serverVars, historyVars
<1>1. TypeOK'
  OBVIOUS
<1>2. Exclusion' /\ Timely' /\ FetchNeeded'
  BY DEF Exclusion, Timely, FetchNeeded, Fetching, Usable, Known
<1>3. Known'
  BY DEF Known
<1>4. Fresh'
  BY DEF Fresh, Known, Exclusion, Fetching
<1>5. Refusals' /\ Effects'
  BY DEF Refusals, Effects, Trying, Known, Accepts
<1>6. Attempts'
  BY DEF Attempts, AttemptsOf, Known, Trying, Fresh
<1>7. QED
  BY <1>1, <1>2, <1>3, <1>4, <1>5, <1>6

LEMMA TokenReceivedHolds ==
  ASSUME IInv, NEW c \in Callers, TokenReceived(c) PROVE IInv'
<1> USE ClientAssumption DEF IInv, TypeOK, TokenReceived, Steps, Tokens, NoToken, Nobody,
          serverVars, historyVars
<1>1. TypeOK'
  OBVIOUS
<1>2. Exclusion' /\ Timely' /\ FetchNeeded'
  BY DEF Exclusion, Timely, FetchNeeded, Fetching, Usable, Known
<1>3. Known'
  <2>1. issued # NoToken /\ issued <= issued
    BY DEF Fresh
  <2>2. ASSUME NEW d \in Callers
        PROVE /\ token'[d] <= issued /\ \A t \in rejected[d] : t <= issued
              /\ pc'[d] \in {"send", "unauthorized"} => token'[d] # NoToken
    BY <2>1 DEF Known
  <2>3. QED
    BY <2>1, <2>2 DEF Known
<1>4. Fresh'
  BY DEF Fresh, Known, Exclusion, Fetching
<1>5. Refusals' /\ Effects'
  BY DEF Refusals, Effects, Trying, Known, Accepts
<1>6. Attempts'
  <2>1. issued # NoToken /\ \A d \in Callers : issued \notin rejected[d]
    BY DEF Fresh
  <2>2. ASSUME NEW d \in Callers, d # c PROVE AttemptsOf(d)'
    <3>1. /\ pc'[d] = pc[d] /\ attempt'[d] = attempt[d] /\ token'[d] = token[d]
          /\ rejected'[d] = rejected[d] /\ accessToken' = issued
      BY <2>2
    <3>2. QED
      BY <2>1, <3>1, AttemptsKept DEF Attempts
  <2>3. AttemptsOf(c)'
    <3>1. /\ pc[c] = "granted" /\ pc'[c] = "send" /\ attempt'[c] = attempt[c]
          /\ rejected'[c] = rejected[c] /\ accessToken' = issued /\ token'[c] = issued
      OBVIOUS
    <3>2. QED
      BY <2>1, <3>1 DEF Attempts, AttemptsOf, Trying
  <2>4. QED
    BY <2>2, <2>3 DEF Attempts
<1>7. QED
  BY <1>1, <1>2, <1>3, <1>4, <1>5, <1>6

LEMMA TokenFailsHolds ==
  ASSUME IInv, NEW c \in Callers, TokenFails(c) PROVE IInv'
<1> USE ClientAssumption DEF IInv, TypeOK, TokenFails, Steps, Tokens, NoToken, Nobody,
          serverVars, historyVars
<1>1. TypeOK'
  OBVIOUS
<1>2. Exclusion' /\ Timely' /\ FetchNeeded'
  BY DEF Exclusion, Timely, FetchNeeded, Fetching, Usable, Known
<1>3. Known'
  BY DEF Known
<1>4. Fresh'
  BY DEF Fresh, Known, Exclusion, Fetching
<1>5. Refusals' /\ Effects'
  BY DEF Refusals, Effects, Trying, Known, Accepts
<1>6. Attempts'
  <2>1. ASSUME NEW d \in Callers, d # c PROVE AttemptsOf(d)'
    BY <2>1, AttemptsKept DEF Attempts
  <2>2. AttemptsOf(c)'
    BY DEF AttemptsOf, Trying
  <2>3. QED
    BY <2>1, <2>2 DEF Attempts
<1>7. QED
  BY <1>1, <1>2, <1>3, <1>4, <1>5, <1>6

LEMMA RetryUnauthorizedHolds ==
  ASSUME IInv, NEW c \in Callers, RetryUnauthorized(c) PROVE IInv'
<1> USE ClientAssumption DEF IInv, TypeOK, RetryUnauthorized, Steps, Tokens, NoToken, Nobody,
          serverVars, historyVars, Invalidate
<1>1. TypeOK'
  OBVIOUS
<1>2. Exclusion' /\ Timely' /\ FetchNeeded'
  BY DEF Exclusion, Timely, FetchNeeded, Fetching, Usable, Known
<1>3. Known'
  BY DEF Known
<1>4. Fresh'
  BY DEF Fresh, Known, Exclusion, Fetching
<1>5. Refusals' /\ Effects'
  BY DEF Refusals, Effects, Trying, Known, Accepts
<1>6. Attempts'
  <2>1. token[c] \in Tokens /\ rejected[c] = {token[c]} /\ accessToken' # token[c]
    BY DEF Attempts, AttemptsOf, Known, Invalidate
  <2>2. accessToken' \in {accessToken, NoToken}
    BY DEF Invalidate
  <2>3. ASSUME NEW d \in Callers, d # c PROVE AttemptsOf(d)'
    <3>1. /\ rejected'[d] = rejected[d] /\ pc'[d] = pc[d] /\ attempt'[d] = attempt[d]
          /\ token'[d] = token[d]
      BY <2>3
    <3>2. QED
      BY <2>2, <2>3, <3>1 DEF Attempts, AttemptsOf, Trying
  <2>4. AttemptsOf(c)'
    <3>1. /\ attempt'[c] = 1 /\ pc'[c] = "token" /\ rejected'[c] = rejected[c]
      OBVIOUS
    <3>2. rejected'[c] = {token[c]}
      BY <2>1, <3>1
    <3>3. QED
      BY <2>1, <3>1, <3>2, SecondAttempt
  <2>5. QED
    BY <2>3, <2>4 DEF Attempts
<1>7. QED
  BY <1>1, <1>2, <1>3, <1>4, <1>5, <1>6

LEMMA RevokeHolds ==
  ASSUME IInv, Revoke PROVE IInv'
<1> USE ClientAssumption DEF IInv, TypeOK, Revoke, Steps, Tokens, NoToken, Nobody,
          callerVars, cacheVars, historyVars
<1>1. TypeOK'
  OBVIOUS
<1>2. Exclusion' /\ Timely' /\ FetchNeeded'
  BY DEF Exclusion, Timely, FetchNeeded, Fetching, Usable, Known
<1>3. Known'
  BY DEF Known
<1>4. Fresh'
  BY DEF Fresh, Known, Exclusion, Fetching
<1>5. Refusals' /\ Effects'
  BY DEF Refusals, Effects, Trying, Known, Accepts
<1>6. Attempts'
  BY DEF Attempts, AttemptsOf, Known, Trying, Fresh
<1>7. QED
  BY <1>1, <1>2, <1>3, <1>4, <1>5, <1>6

LEMMA TickHolds ==
  ASSUME IInv, Tick PROVE IInv'
<1> USE ClientAssumption DEF IInv, TypeOK, Tick, Steps, Tokens, NoToken, Nobody,
          callerVars, cacheVars, serverVars, historyVars
<1>1. TypeOK'
  OBVIOUS
<1>2. Exclusion' /\ Timely' /\ FetchNeeded'
  BY DEF Exclusion, Timely, FetchNeeded, Fetching, Usable, Known
<1>3. Known'
  BY DEF Known
<1>4. Fresh'
  BY DEF Fresh, Known, Exclusion, Fetching
<1>5. Refusals' /\ Effects'
  BY DEF Refusals, Effects, Trying, Known, Accepts
<1>6. Attempts'
  BY DEF Attempts, AttemptsOf, Known, Trying, Fresh
<1>7. QED
  BY <1>1, <1>2, <1>3, <1>4, <1>5, <1>6

-----------------------------------------------------------------------------
\* Every step preserves the invariant.
LEMMA StepHolds == IInv /\ [Next]_vars => IInv'
<1> SUFFICES ASSUME IInv, [Next]_vars PROVE IInv'
  OBVIOUS
<1>1. CASE UNCHANGED vars
  BY <1>1 DEF vars, callerVars, cacheVars, serverVars, historyVars, IInv, TypeOK, Exclusion,
       Known, Fresh, Timely, Refusals, Attempts, AttemptsOf, Effects, FetchNeeded, Fetching, Trying,
       Accepts, Usable
<1>2. ASSUME NEW c \in Callers, Request(c) PROVE IInv'
  BY <1>2, RequestHolds
<1>3. ASSUME NEW c \in Callers, Issue(c) PROVE IInv'
  BY <1>3, IssueHolds
<1>4. ASSUME NEW c \in Callers, Proceed(c) PROVE IInv'
  BY <1>4, TokenCachedHolds, TokenFetchHolds, TokenReceivedHolds, TokenFailsHolds,
     RefusedHolds, ServedHolds, UnsentHolds, RetryUnauthorizedHolds, GiveUpHolds, ReturnHolds
     DEF Proceed
<1>5. CASE Revoke
  BY <1>5, RevokeHolds
<1>6. CASE Tick
  BY <1>6, TickHolds
<1>7. QED
  BY <1>1, <1>2, <1>3, <1>4, <1>5, <1>6 DEF Next

LEMMA Invariant == Spec => []IInv
BY InitHolds, StepHolds, PTL DEF Spec

(* Every reachable state is well typed; a fetched token was issued.        *)
THEOREM TypeCorrect == Spec => []TypeOK
BY Invariant, PTL DEF IInv

(* However often its token is refused, one call of request has its effect  *)
(* at most once.                                                           *)
THEOREM EffectAtMostOnce == Spec => []AtMostOnce
<1>1. IInv => AtMostOnce
  BY DEF IInv, Effects, AtMostOnce
<1>2. QED
  BY <1>1, Invariant, PTL

(* A caller gives up on two refusals of two different tokens.              *)
THEOREM TwoTokensRefused == Spec => []RefusedTwice
<1>1. IInv => RefusedTwice
  <2> SUFFICES ASSUME IInv, NEW c \in Callers, pc[c] = "unauthorized", attempt[c] = 1
               PROVE  Cardinality(rejected[c]) = 2 /\ performed[c] = 0
    BY DEF RefusedTwice
  <2>1. performed[c] = 0
    BY DEF IInv, Effects
  <2>2. PICK t \in Tokens : t # token[c] /\ rejected[c] = {t, token[c]}
    BY DEF IInv, Attempts, AttemptsOf
  <2>3. IsFiniteSet({t}) /\ Cardinality({t}) = 1
    BY FS_Singleton
  <2>4. Cardinality({t} \cup {token[c]}) = Cardinality({t}) + 1
    BY <2>2, <2>3, FS_AddElement, Zenon
  <2>5. rejected[c] = {t} \cup {token[c]}
    BY <2>2
  <2>6. QED
    BY <2>1, <2>3, <2>4, <2>5
<1>2. QED
  BY <1>1, Invariant, PTL

(* Nobody fetches a token while the cache has one to offer.                *)
THEOREM FetchesAreNeeded == Spec => []FetchNeeded
BY Invariant, PTL DEF IInv

LEMMA StepKeepsGoodToken ==
  IInv /\ [Next]_vars =>
    (accessToken # NoToken /\ accessToken' # accessToken => ~Accepts(accessToken) \/ ~Usable)
<1> SUFFICES ASSUME IInv, [Next]_vars, accessToken' # accessToken
             PROVE  ~Accepts(accessToken) \/ ~Usable
  OBVIOUS
<1>1. \E c \in Callers : TokenReceived(c) \/ RetryUnauthorized(c)
  BY DEF Next, Proceed, Request, TokenCached, TokenFetch, TokenFails, Refused, Served, Unsent,
         GiveUp, Return, Issue, Revoke, Tick, vars, callerVars, cacheVars
<1>2. ASSUME NEW c \in Callers, TokenReceived(c) PROVE ~Usable
  BY <1>2 DEF TokenReceived, IInv, FetchNeeded
<1>3. ASSUME NEW c \in Callers, RetryUnauthorized(c) PROVE ~Accepts(accessToken)
  BY <1>3 DEF RetryUnauthorized, Invalidate, IInv, Refusals
<1>4. QED
  BY <1>1, <1>2, <1>3

(* A late refusal throws away no token that still works.                   *)
THEOREM GoodTokensStay == Spec => GoodTokenKept
<1>1. IInv /\ [Next]_vars =>
        [accessToken # NoToken /\ accessToken' # accessToken =>
           ~Accepts(accessToken) \/ ~Usable]_vars
  BY StepKeepsGoodToken
<1>2. QED
  BY <1>1, Invariant, PTL DEF Spec, GoodTokenKept

LEMMA StepHandsOutLive ==
  IInv /\ [Next]_vars =>
    \A c \in Callers : pc[c] = "token" /\ pc'[c] = "send" => now < expiry[token'[c]]
<1> SUFFICES ASSUME IInv, [Next]_vars, NEW c \in Callers, pc[c] = "token", pc'[c] = "send"
             PROVE  now < expiry[token'[c]]
  OBVIOUS
<1>1. pc \in [Callers -> Steps] /\ token \in [Callers -> Tokens \cup {NoToken}]
  BY DEF IInv, TypeOK
<1>2. \E d \in Callers : TokenCached(d) /\ d = c
  BY <1>1 DEF Next, Proceed, Request, TokenCached, TokenFetch, TokenReceived, TokenFails,
       Refused, Served, Unsent, RetryUnauthorized, GiveUp, Return, Issue, Revoke, Tick, vars,
       callerVars
<1>3. token'[c] = accessToken /\ accessToken # NoToken /\ now + Leeway < tokenExpiresAt
  BY <1>1, <1>2 DEF TokenCached, Usable
<1>4. tokenExpiresAt <= expiry[accessToken] + Timeout
  BY <1>3 DEF IInv, Timely
<1>5. /\ now \in Nat /\ tokenExpiresAt \in Nat /\ expiry[accessToken] \in Nat
      /\ Leeway \in Nat /\ Timeout \in Nat /\ Timeout <= Leeway
  BY <1>3, ClientAssumption DEF IInv, TypeOK
<1>6. QED
  BY <1>3, <1>4, <1>5

(* The cache hands out no token that has expired at the server: this is    *)
(* where the leeway must cover the time a response may take.               *)
THEOREM LiveTokensOnly == Spec => CachedNotExpired
<1>1. IInv /\ [Next]_vars =>
        [\A c \in Callers :
           pc[c] = "token" /\ pc'[c] = "send" => now < expiry[token'[c]]]_vars
  BY StepHandsOutLive
<1>2. QED
  BY <1>1, Invariant, PTL DEF Spec, CachedNotExpired

-----------------------------------------------------------------------------
(* Listings.  Their steps are apart from those of the client, whose        *)
(* requests may each fetch a page.                                         *)

PagesTypeOK ==
  /\ server \subseteq Ids
  /\ listing \in {"open", "done", "error"}
  /\ page \in Nat
  /\ total \in Nat \cup {Unknown}
  /\ ids \subseteq Ids
  /\ seen \in Nat
  /\ kept \subseteq server
  /\ deletions \in Nat

\* The records counted so far are different, and fit the pages so far.
Counted == seen = Cardinality(ids) /\ seen <= page * PageSize

\* Devices the listing has passed by: in front of the next page, never seen.
PassedBy == {i \in kept \ ids : Rank(i) < page * PageSize}

Missed ==
  /\ listing = "open" => Cardinality(PassedBy) <= deletions
  /\ listing = "done" => Cardinality(kept \ ids) <= deletions

PagesIInv == PagesTypeOK /\ Counted /\ Missed

-----------------------------------------------------------------------------
(* Ranks.                                                                  *)

LEMMA Finite ==
  ASSUME NEW S \in SUBSET Ids
  PROVE  IsFiniteSet(S) /\ Cardinality(S) \in Nat
BY FS_Subset, FS_CardinalityType, PagesAssumption

LEMMA FewerMembers ==
  ASSUME NEW S \in SUBSET Ids, NEW T \in SUBSET S
  PROVE  /\ Cardinality(T) <= Cardinality(S)
         /\ Cardinality(T) = Cardinality(S) => T = S
<1>1. IsFiniteSet(S)
  BY Finite
<1>2. QED
  BY <1>1, FS_Subset

LEMMA OneMore ==
  ASSUME NEW S \in SUBSET Ids, NEW i \in Ids
  PROVE  Cardinality(S \cup {i}) <= Cardinality(S) + 1
<1>1. IsFiniteSet(S) /\ Cardinality(S) \in Nat
  BY Finite
<1>2. Cardinality(S \cup {i}) = IF i \in S THEN Cardinality(S) ELSE Cardinality(S) + 1
  BY <1>1, FS_AddElement
<1>3. QED
  BY <1>1, <1>2

LEMMA RankOK ==
  ASSUME server \subseteq Ids, NEW i \in server
  PROVE  Rank(i) \in Nat /\ Rank(i) < Cardinality(server)
<1>1. {j \in server : j < i} \in SUBSET server /\ i \notin {j \in server : j < i}
  BY PagesAssumption
<1>2. Cardinality({j \in server : j < i}) \in Nat /\ Cardinality(server) \in Nat
  BY <1>1, Finite
<1>3. /\ Cardinality({j \in server : j < i}) <= Cardinality(server)
      /\ Cardinality({j \in server : j < i}) # Cardinality(server)
  BY <1>1, FewerMembers
<1>4. QED
  BY <1>2, <1>3 DEF Rank

LEMMA RanksDiffer ==
  ASSUME server \subseteq Ids, NEW i \in server, NEW j \in server, i # j
  PROVE  Rank(i) # Rank(j)
<1>1. ASSUME NEW x \in server, NEW y \in server, x < y
      PROVE  Rank(x) # Rank(y)
  <2>1. {k \in server : k < x} \subseteq {k \in server : k < y}
    <3>1. x \in Nat /\ y \in Nat /\ \A k \in server : k \in Nat
      BY PagesAssumption
    <3>2. \A k \in server : k < x => k < y
      BY <1>1, <3>1
    <3>3. QED
      BY <3>2
  <2>2. x \in {k \in server : k < y} /\ x \notin {k \in server : k < x}
    BY <1>1, PagesAssumption
  <2>3. {k \in server : k < x} # {k \in server : k < y}
    BY <2>2
  <2>4. {k \in server : k < y} \in SUBSET Ids
    OBVIOUS
  <2>5. Cardinality({k \in server : k < x}) # Cardinality({k \in server : k < y})
    <3> DEFINE S == {k \in server : k < y}
               T == {k \in server : k < x}
    <3>1. S \in SUBSET Ids /\ T \in SUBSET S /\ T # S
      BY <2>1, <2>3, <2>4
    <3> HIDE DEF S, T
    <3>2. Cardinality(T) # Cardinality(S)
      BY <3>1, FewerMembers
    <3>3. QED
      BY <3>2 DEF S, T
  <2>6. QED
    BY <2>5 DEF Rank
<1>2. i < j \/ j < i
  BY PagesAssumption
<1>3. QED
  BY <1>1, <1>2

\* A row of page p is one whose rank falls in it.
LEMMA InPage ==
  ASSUME NEW r \in Nat, NEW p \in Nat
  PROVE  r \div PageSize = p <=> p * PageSize <= r /\ r < (p + 1) * PageSize
<1>1. PageSize \in Nat \ {0}
  BY PagesAssumption
<1>2. r \div PageSize \in Int
  BY <1>1
<1>3. (r \div PageSize) * PageSize <= r /\ r < ((r \div PageSize) + 1) * PageSize
  BY <1>1
<1>4. QED
  BY <1>1, <1>2, <1>3

\* No page has more than PageSize rows.
LEMMA PageFull ==
  ASSUME server \subseteq Ids, NEW p \in Nat
  PROVE  Cardinality(Rows(p)) <= PageSize
<1> DEFINE slots == 0 .. PageSize - 1
           slot == [i \in Rows(p) |-> Rank(i) - p * PageSize]
<1>1. PageSize \in Nat \ {0} /\ p * PageSize \in Nat
  BY PagesAssumption
<1>2. IsFiniteSet(slots) /\ Cardinality(slots) = PageSize
  BY <1>1, FS_Interval
<1>3. Rows(p) \in SUBSET Ids /\ Rows(p) \subseteq server
  BY DEF Rows
<1>4. ASSUME NEW i \in Rows(p)
      PROVE  Rank(i) \in Nat /\ p * PageSize <= Rank(i) /\ Rank(i) < p * PageSize + PageSize
  <2>1. Rank(i) \in Nat /\ Rank(i) \div PageSize = p
    BY <1>3, <1>4, RankOK DEF Rows
  <2>2. p * PageSize <= Rank(i) /\ Rank(i) < (p + 1) * PageSize
    BY <2>1, InPage
  <2>3. (p + 1) * PageSize = p * PageSize + PageSize
    BY <1>1
  <2>4. QED
    BY <2>1, <2>2, <2>3
<1>5. slot \in [Rows(p) -> slots]
  BY <1>1, <1>4
<1>6. IsFiniteSet(Rows(p)) /\ Cardinality(Rows(p)) \in Nat
  BY <1>3, Finite
<1>7. SUFFICES ASSUME PageSize < Cardinality(Rows(p)) PROVE FALSE
  BY <1>1, <1>6
<1>8. PICK i, j \in Rows(p) : i # j /\ slot[i] = slot[j]
  <2> HIDE DEF slot, slots
  <2> QED
    BY <1>2, <1>5, <1>6, <1>7, FS_PigeonHole
<1>9. Rank(i) = Rank(j)
  BY <1>1, <1>4, <1>8
<1>10. QED
  BY <1>3, <1>8, <1>9, RanksDiffer

-----------------------------------------------------------------------------
(* The steps.                                                              *)

LEMMA PagesInitHolds == PagesInit => PagesIInv
<1> SUFFICES ASSUME PagesInit PROVE PagesIInv
  OBVIOUS
<1>1. PagesTypeOK
  BY PagesAssumption DEF PagesInit, PagesTypeOK, Unknown
<1>2. Cardinality(ids) = 0
  BY FS_EmptySet DEF PagesInit
<1>3. Counted
  BY <1>2, PagesAssumption DEF PagesInit, Counted
<1>4. PassedBy = {}
  <2>1. page * PageSize = 0
    BY PagesAssumption DEF PagesInit
  <2>2. \A i \in kept : Rank(i) \in Nat
    BY <1>1, RankOK DEF PagesTypeOK
  <2>3. QED
    BY <2>1, <2>2 DEF PassedBy
<1>5. QED
  BY <1>1, <1>3, <1>4, FS_EmptySet DEF PagesInit, PagesIInv, Missed

LEMMA AddHolds ==
  ASSUME PagesIInv, NEW i \in Ids, Add(i) PROVE PagesIInv'
<1>1. PagesTypeOK /\ server' = server \cup {i} /\ UNCHANGED <<listing, page, total, ids, seen, kept, deletions>>
  BY DEF PagesIInv, Add, walked
<1>2. PagesTypeOK'
  BY <1>1 DEF PagesTypeOK
<1>3. Counted'
  BY <1>1 DEF PagesIInv, Counted
<1>4. \A j \in kept : Rank(j) <= Rank(j)' /\ Rank(j) \in Nat /\ Rank(j)' \in Nat
  <2> TAKE j \in kept
  <2>1. {k \in server : k < j} \subseteq {k \in server' : k < j}
    BY <1>1
  <2>2. {k \in server' : k < j} \in SUBSET Ids
    BY <1>2 DEF PagesTypeOK
  <2>3. QED
    BY <2>1, <2>2, FewerMembers, Finite DEF Rank
<1>5. PassedBy' \subseteq PassedBy /\ PassedBy \in SUBSET Ids
  <2>1. page * PageSize \in Nat
    BY <1>1, PagesAssumption DEF PagesTypeOK
  <2>2. QED
    BY <1>1, <1>4, <2>1 DEF PassedBy, PagesTypeOK
<1>6. Cardinality(PassedBy') <= Cardinality(PassedBy)
  BY <1>5, FewerMembers
<1>7. Cardinality(PassedBy') \in Nat /\ Cardinality(PassedBy) \in Nat /\ deletions \in Nat
  BY <1>1, <1>5, Finite DEF PagesTypeOK
<1>8. Missed'
  BY <1>1, <1>6, <1>7 DEF PagesIInv, Missed
<1>9. QED
  BY <1>2, <1>3, <1>8 DEF PagesIInv

\* One device at most moves in front of the next page when another goes.
LEMMA DeleteHolds ==
  ASSUME PagesIInv, NEW i \in Ids, Delete(i) PROVE PagesIInv'
<1>1. /\ PagesTypeOK /\ i \in server /\ server' = server \ {i} /\ kept' = kept \ {i}
      /\ deletions' = deletions + 1 /\ UNCHANGED <<listing, page, total, ids, seen>>
  BY DEF PagesIInv, Delete, walked
<1>2. PagesTypeOK'
  BY <1>1 DEF PagesTypeOK
<1>3. Counted'
  BY <1>1 DEF PagesIInv, Counted
<1> DEFINE B == page * PageSize
           edge == {j \in server : Rank(j) = B}
<1>4. B \in Nat
  BY <1>1, PagesAssumption DEF PagesTypeOK
<1>5. \A j \in kept' : Rank(j)' \in Nat /\ Rank(j) \in Nat /\ Rank(j) <= Rank(j)' + 1
  <2> TAKE j \in kept'
  <2>1. {k \in server : k < j} \subseteq {k \in server' : k < j} \cup {i}
    BY <1>1
  <2>2. {k \in server' : k < j} \in SUBSET Ids /\ {k \in server : k < j} \in SUBSET Ids
    BY <1>1, <1>2 DEF PagesTypeOK
  <2>3. Cardinality({k \in server : k < j}) <= Cardinality({k \in server' : k < j} \cup {i})
    BY <2>1, <2>2, FewerMembers
  <2>4. Cardinality({k \in server' : k < j} \cup {i}) <= Cardinality({k \in server' : k < j}) + 1
    BY <2>2, OneMore
  <2>5. Cardinality({k \in server' : k < j} \cup {i}) \in Nat
    BY <2>2, Finite
  <2>6. QED
    BY <2>2, <2>3, <2>4, <2>5, Finite DEF Rank
<1>6. PassedBy' \subseteq PassedBy \cup edge
  BY <1>1, <1>4, <1>5 DEF PassedBy, PagesTypeOK
<1>7. PICK e \in Ids : edge \subseteq {e}
  BY <1>1, RanksDiffer DEF PagesTypeOK
<1>8. PassedBy \in SUBSET Ids /\ PassedBy \cup {e} \in SUBSET Ids /\ PassedBy' \in SUBSET (PassedBy \cup {e})
  BY <1>1, <1>6, <1>7 DEF PassedBy, PagesTypeOK
<1>9. Cardinality(PassedBy') <= Cardinality(PassedBy) + 1
  <2>1. Cardinality(PassedBy') <= Cardinality(PassedBy \cup {e})
    BY <1>8, FewerMembers
  <2>2. Cardinality(PassedBy \cup {e}) <= Cardinality(PassedBy) + 1
    BY <1>8, OneMore
  <2>3. Cardinality(PassedBy') \in Nat /\ Cardinality(PassedBy \cup {e}) \in Nat
        /\ Cardinality(PassedBy) \in Nat
    BY <1>8, Finite
  <2>4. QED
    BY <2>1, <2>2, <2>3
<1>10. kept \ ids \in SUBSET Ids /\ kept' \ ids' \in SUBSET (kept \ ids)
  BY <1>1 DEF PagesTypeOK
<1>11. Cardinality(kept' \ ids') <= Cardinality(kept \ ids)
  BY <1>10, FewerMembers
<1>12. /\ Cardinality(PassedBy') \in Nat /\ Cardinality(PassedBy) \in Nat /\ deletions \in Nat
       /\ Cardinality(kept' \ ids') \in Nat /\ Cardinality(kept \ ids) \in Nat
  BY <1>1, <1>8, <1>10, Finite DEF PagesTypeOK
<1>13. Missed'
  BY <1>1, <1>9, <1>11, <1>12 DEF PagesIInv, Missed
<1>14. QED
  BY <1>2, <1>3, <1>13 DEF PagesIInv

LEMMA PageHolds ==
  ASSUME PagesIInv, NextPage PROVE PagesIInv'
<1> DEFINE rows == Rows(page)
           t == Cardinality(server)
           n == seen + Cardinality(rows)
<1>1. /\ PagesTypeOK /\ Counted /\ listing = "open" /\ ValidPage(t, Cardinality(rows)) /\ rows \cap ids = {}
      /\ total' = First(t) /\ seen' = n /\ ids' = ids \cup rows /\ page' = page + 1
      /\ listing' = IF Complete(n, First(t)) THEN "done" ELSE "open"
      /\ UNCHANGED <<server, kept, deletions>>
  BY DEF PagesIInv, NextPage, NewIds
<1>2. rows \in SUBSET Ids /\ ids \in SUBSET Ids /\ server \in SUBSET Ids
  BY <1>1 DEF Rows, PagesTypeOK
<1>3. IsFiniteSet(rows) /\ Cardinality(rows) \in Nat /\ IsFiniteSet(ids) /\ t \in Nat
  BY <1>2, Finite
<1>4. PageSize \in Nat \ {0} /\ page \in Nat /\ page * PageSize \in Nat
      /\ page' * PageSize = page * PageSize + PageSize
  BY <1>1, PagesAssumption DEF PagesTypeOK
<1>5. First(t) = t
  BY <1>1 DEF ValidPage, TotalStands, First
<1>6. PagesTypeOK'
  <2> HIDE DEF rows, t
  <2> QED
    BY <1>1, <1>2, <1>3, <1>5 DEF PagesTypeOK
<1>7. Counted'
  <2>1. Cardinality(ids') = seen + Cardinality(rows)
    <3>1. Cardinality(rows \cap ids) = 0
      BY <1>1, FS_EmptySet
    <3>2. Cardinality(ids \cup rows) = Cardinality(ids) + Cardinality(rows) - Cardinality(ids \cap rows)
      BY <1>3, FS_Union
    <3>3. ids \cap rows = rows \cap ids
      OBVIOUS
    <3> HIDE DEF rows
    <3>4. QED
      BY <1>1, <1>3, <3>1, <3>2, <3>3 DEF Counted, PagesTypeOK
  <2>2. Cardinality(rows) <= PageSize
    BY <1>2, <1>4, PageFull
  <2> HIDE DEF rows
  <2>3. QED
    BY <1>1, <1>3, <1>4, <2>1, <2>2 DEF Counted, PagesTypeOK
<1>8. \A i \in kept : Rank(i)' = Rank(i) /\ Rank(i) \in Nat /\ Rank(i) < t
  BY <1>1, <1>2, RankOK DEF PagesTypeOK, Rank
<1>9. PassedBy' \subseteq PassedBy /\ PassedBy \in SUBSET Ids
  <2>1. SUFFICES ASSUME NEW i \in PassedBy' PROVE i \in PassedBy
    BY <1>1 DEF PassedBy, PagesTypeOK
  <2>2. i \in kept /\ i \notin ids /\ i \notin rows /\ Rank(i) \in Nat /\ Rank(i) < page' * PageSize
    BY <1>1, <1>8 DEF PassedBy
  <2>3. Rank(i) \div PageSize # page
    BY <1>1, <2>2 DEF Rows, PagesTypeOK
  <2>4. Rank(i) < page * PageSize
    BY <1>1, <1>4, <2>2, <2>3, InPage
  <2>5. QED
    BY <2>2, <2>4 DEF PassedBy
<1>10. Cardinality(PassedBy') <= Cardinality(PassedBy)
  BY <1>9, FewerMembers
<1>11. Cardinality(PassedBy') \in Nat /\ Cardinality(PassedBy) \in Nat /\ deletions \in Nat
  BY <1>1, <1>9, Finite DEF PagesTypeOK
<1>12. Cardinality(PassedBy') <= deletions'
  BY <1>1, <1>10, <1>11 DEF PagesIInv, Missed
<1>13. CASE listing' = "done"
  <2>1. seen' = t /\ t <= page' * PageSize
    BY <1>1, <1>5, <1>7, <1>13 DEF Complete, Counted
  <2>2. kept' \ ids' = PassedBy'
    <3>1. \A i \in kept : Rank(i) < page' * PageSize
      BY <1>3, <1>4, <1>8, <2>1
    <3>2. QED
      BY <1>1, <1>8, <3>1 DEF PassedBy
  <2>3. Missed'
    BY <1>12, <1>13, <2>2 DEF Missed
  <2>4. QED
    BY <1>6, <1>7, <2>3 DEF PagesIInv
<1>14. CASE listing' # "done"
  BY <1>6, <1>7, <1>12, <1>14 DEF PagesIInv, Missed
<1>15. QED
  BY <1>13, <1>14

LEMMA EndHolds ==
  ASSUME PagesIInv, BadPage \/ PageFails \/ UNCHANGED pagesVars PROVE PagesIInv'
<1>1. /\ listing' \in {listing, "error"}
      /\ UNCHANGED <<server, page, total, ids, seen, kept, deletions>>
  BY DEF BadPage, PageFails, pagesVars, walked
<1>2. PagesTypeOK' /\ Counted'
  BY <1>1 DEF PagesIInv, PagesTypeOK, Counted
<1>3. PassedBy' = PassedBy
  BY <1>1 DEF PassedBy, Rank
<1>4. QED
  BY <1>1, <1>2, <1>3 DEF PagesIInv, Missed

LEMMA Inductive == PagesSpec => []PagesIInv
<1>1. PagesIInv /\ [PagesNext]_pagesVars => PagesIInv'
  BY AddHolds, DeleteHolds, PageHolds, EndHolds DEF PagesNext
<1>2. QED
  BY <1>1, PagesInitHolds, PTL DEF PagesSpec

-----------------------------------------------------------------------------
(* Records counted are different devices: overlapping pages are never      *)
(* taken for a complete listing.                                           *)
THEOREM EachCountedOnce == PagesSpec => []CountedOnce
<1>1. PagesIInv => CountedOnce
  BY DEF PagesIInv, Counted, CountedOnce
<1>2. QED
  BY <1>1, Inductive, PTL

(* Of the devices that stayed, at most one is missed for each deletion.    *)
THEOREM MissesAreBounded == PagesSpec => []MissesPaidFor
<1>1. PagesIInv => MissesPaidFor
  <2> SUFFICES ASSUME PagesIInv, listing = "done"
               PROVE  Cardinality((kept \cap Wanted) \ Returned) <= deletions
    BY DEF MissesPaidFor
  <2>1. kept \ ids \in SUBSET Ids /\ (kept \cap Wanted) \ Returned \in SUBSET (kept \ ids)
    BY DEF PagesIInv, PagesTypeOK, Returned
  <2>2. Cardinality((kept \cap Wanted) \ Returned) <= Cardinality(kept \ ids)
    BY <2>1, FewerMembers
  <2>3. /\ Cardinality((kept \cap Wanted) \ Returned) \in Nat /\ Cardinality(kept \ ids) \in Nat
        /\ deletions \in Nat
    BY <2>1, Finite DEF PagesIInv, PagesTypeOK
  <2>4. QED
    BY <2>2, <2>3 DEF PagesIInv, Missed
<1>2. QED
  BY <1>1, Inductive, PTL

=============================================================================
