------------------------------ MODULE JamfClient ----------------------------
(***************************************************************************)
(* The Jamf API client's shared access token                               *)
(* (internal/provider/jamf/client.go): concurrent requests take a token    *)
(* from a cache behind a mutex that is held while a new one is fetched,    *)
(* and try once more with another when the server rejects theirs.          *)
(*                                                                         *)
(* The server issues every token afresh, forgets it when it expires, may   *)
(* revoke it at any time, and may carry out a request whose response is    *)
(* lost.  A response takes at most Timeout (http.Client.Timeout).          *)
(***************************************************************************)
EXTENDS Integers, FiniteSets

CONSTANTS
  Callers,     \* goroutines that call request
  Life,        \* expires_in of every token
  Leeway,      \* tokenRefreshLeeway
  Timeout,     \* defaultHTTPTimeout
  MaxTokens,   \* bound on the tokens issued
  MaxTime      \* bound on the clock

Tokens == 1 .. MaxTokens
NoToken == 0
Nobody == "nobody"

ASSUME ClientAssumption ==
  /\ Life \in Nat \ {0} /\ Leeway \in Nat /\ Timeout \in Nat
  /\ Timeout <= Leeway
  /\ MaxTokens \in Nat /\ MaxTime \in Nat
  /\ Nobody \notin Callers

VARIABLES
  now,
  pc,            \* where each caller is
  attempt,       \* 0 or 1, request's loop
  token,         \* the token of the caller's request
  mutex,         \* who holds tokenMu
  accessToken, tokenExpiresAt,  \* the cache
  fetchStarted,  \* when the token request in flight was sent
  issued,        \* server: tokens issued so far
  expiry,        \* server: when each of them expires
  revoked,       \* server: tokens revoked
  performed,     \* history: times the caller's request was carried out
  rejected       \* history: tokens the caller's request was refused with

callerVars == <<pc, attempt, token>>
cacheVars == <<mutex, accessToken, tokenExpiresAt, fetchStarted>>
serverVars == <<issued, expiry, revoked>>
historyVars == <<performed, rejected>>
vars == <<now, callerVars, cacheVars, serverVars, historyVars>>

Steps == {"idle", "token", "fetch", "granted", "send", "unauthorized", "ok", "failed"}

TypeOK ==
  /\ now \in 0 .. MaxTime
  /\ pc \in [Callers -> Steps]
  /\ attempt \in [Callers -> 0 .. 1]
  /\ token \in [Callers -> Tokens \cup {NoToken}]
  /\ mutex \in Callers \cup {Nobody}
  /\ accessToken \in Tokens \cup {NoToken}
  /\ tokenExpiresAt \in Nat
  /\ fetchStarted \in Nat
  /\ issued \in 0 .. MaxTokens
  /\ expiry \in [Tokens -> Nat]
  /\ revoked \in SUBSET Tokens
  /\ performed \in [Callers -> Nat]
  /\ rejected \in [Callers -> SUBSET Tokens]

Init ==
  /\ now = 0
  /\ pc = [c \in Callers |-> "idle"]
  /\ attempt = [c \in Callers |-> 0]
  /\ token = [c \in Callers |-> NoToken]
  /\ mutex = Nobody
  /\ accessToken = NoToken
  /\ tokenExpiresAt = 0
  /\ fetchStarted = 0
  /\ issued = 0
  /\ expiry = [t \in Tokens |-> 0]
  /\ revoked = {}
  /\ performed = [c \in Callers |-> 0]
  /\ rejected = [c \in Callers |-> {}]

-----------------------------------------------------------------------------
(* The server.                                                             *)

Accepts(t) == t \notin revoked /\ now < expiry[t]

\* A token request is answered, but the response is still on its way.
Issue(c) ==
  /\ pc[c] = "fetch"
  /\ issued < MaxTokens
  /\ issued' = issued + 1
  /\ expiry' = [expiry EXCEPT ![issued + 1] = now + Life]
  /\ pc' = [pc EXCEPT ![c] = "granted"]
  /\ UNCHANGED <<now, attempt, token, cacheVars, revoked, historyVars>>

Revoke ==
  /\ \E t \in 1 .. issued : t \notin revoked /\ revoked' = revoked \cup {t}
  /\ UNCHANGED <<now, callerVars, cacheVars, issued, expiry, historyVars>>

\* Time passes, though no token response takes longer than Timeout.
Tick ==
  /\ now < MaxTime
  /\ \A c \in Callers : pc[c] \in {"fetch", "granted"} => now < fetchStarted + Timeout
  /\ now' = now + 1
  /\ UNCHANGED <<callerVars, cacheVars, serverVars, historyVars>>

-----------------------------------------------------------------------------
(* token: returns the cached token, or fetches one holding tokenMu.        *)

\* Fault: the expiry is taken to the second.
UsableToTheEnd == accessToken # NoToken /\ now < tokenExpiresAt

Usable == accessToken # NoToken /\ now + Leeway < tokenExpiresAt

TokenCached(c) ==
  /\ pc[c] = "token" /\ mutex = Nobody
  /\ Usable
  /\ token' = [token EXCEPT ![c] = accessToken]
  /\ pc' = [pc EXCEPT ![c] = "send"]
  /\ UNCHANGED <<now, attempt, cacheVars, serverVars, historyVars>>

\* Fault: the mutex is given up while the token is fetched.
TokenFetchUnlocked(c) ==
  /\ pc[c] = "token" /\ mutex = Nobody
  /\ ~Usable
  /\ fetchStarted' = now
  /\ pc' = [pc EXCEPT ![c] = "fetch"]
  /\ UNCHANGED <<now, attempt, token, mutex, accessToken, tokenExpiresAt,
                 serverVars, historyVars>>

TokenFetch(c) ==
  /\ pc[c] = "token" /\ mutex = Nobody
  /\ ~Usable
  /\ mutex' = c
  /\ fetchStarted' = now
  /\ pc' = [pc EXCEPT ![c] = "fetch"]
  /\ UNCHANGED <<now, attempt, token, accessToken, tokenExpiresAt, serverVars, historyVars>>

\* The response is decoded, and its lifetime counted from now.
TokenReceived(c) ==
  /\ pc[c] = "granted"
  /\ accessToken' = issued
  /\ tokenExpiresAt' = now + Life
  /\ mutex' = Nobody
  /\ token' = [token EXCEPT ![c] = issued]
  /\ pc' = [pc EXCEPT ![c] = "send"]
  /\ UNCHANGED <<now, attempt, fetchStarted, serverVars, historyVars>>

\* The token request fails, times out, or its response is unusable.
TokenFails(c) ==
  /\ pc[c] \in {"fetch", "granted"}
  /\ mutex' = Nobody
  /\ pc' = [pc EXCEPT ![c] = "failed"]
  /\ UNCHANGED <<now, attempt, token, accessToken, tokenExpiresAt, fetchStarted,
                 serverVars, historyVars>>

-----------------------------------------------------------------------------
(* request                                                                 *)

Request(c) ==
  /\ pc[c] = "idle"
  /\ pc' = [pc EXCEPT ![c] = "token"]
  /\ attempt' = [attempt EXCEPT ![c] = 0]
  /\ performed' = [performed EXCEPT ![c] = 0]
  /\ rejected' = [rejected EXCEPT ![c] = {}]
  /\ UNCHANGED <<now, token, cacheVars, serverVars>>

\* The server refuses the token and does nothing.
Refused(c) ==
  /\ pc[c] = "send"
  /\ ~Accepts(token[c])
  /\ rejected' = [rejected EXCEPT ![c] = @ \cup {token[c]}]
  /\ pc' = [pc EXCEPT ![c] = "unauthorized"]
  /\ UNCHANGED <<now, attempt, token, cacheVars, serverVars, performed>>

\* Fault: a request that got no response is tried again as well.
ServedRetried(c) ==
  /\ pc[c] = "send"
  /\ Accepts(token[c])
  /\ performed' = [performed EXCEPT ![c] = @ + 1]
  /\ \/ pc' = [pc EXCEPT ![c] = "ok"] /\ UNCHANGED attempt
     \/ attempt[c] = 0 /\ pc' = [pc EXCEPT ![c] = "token"] /\ attempt' = [attempt EXCEPT ![c] = 1]
  /\ UNCHANGED <<now, token, cacheVars, serverVars, rejected>>

\* The server carries the request out; the response is a success, an error
\* status, or lost.
Served(c) ==
  /\ pc[c] = "send"
  /\ Accepts(token[c])
  /\ performed' = [performed EXCEPT ![c] = @ + 1]
  /\ pc' = [pc EXCEPT ![c] = "ok"] \/ pc' = [pc EXCEPT ![c] = "failed"]
  /\ UNCHANGED <<now, attempt, token, cacheVars, serverVars, rejected>>

\* The request never reaches the server.
Unsent(c) ==
  /\ pc[c] = "send"
  /\ pc' = [pc EXCEPT ![c] = "failed"]
  /\ UNCHANGED <<now, attempt, token, cacheVars, serverVars, historyVars>>

\* Fault: the cache is cleared whatever it holds.
InvalidateAny(t) == accessToken' = NoToken /\ tokenExpiresAt' = 0

\* invalidateToken clears the cache if it still holds the refused token.
Invalidate(t) ==
  IF accessToken = t
  THEN accessToken' = NoToken /\ tokenExpiresAt' = 0
  ELSE UNCHANGED <<accessToken, tokenExpiresAt>>

\* Fault: a refused request is tried again with the token the cache has.
RetrySameToken(c) ==
  /\ pc[c] = "unauthorized"
  /\ pc' = [pc EXCEPT ![c] = "token"]
  /\ UNCHANGED <<now, attempt, token, cacheVars, serverVars, historyVars>>

RetryUnauthorized(c) ==
  /\ pc[c] = "unauthorized" /\ attempt[c] = 0
  /\ mutex = Nobody
  /\ Invalidate(token[c])
  /\ attempt' = [attempt EXCEPT ![c] = 1]
  /\ pc' = [pc EXCEPT ![c] = "token"]
  /\ UNCHANGED <<now, token, mutex, fetchStarted, serverVars, historyVars>>

GiveUp(c) ==
  /\ pc[c] = "unauthorized" /\ attempt[c] = 1
  /\ pc' = [pc EXCEPT ![c] = "failed"]
  /\ UNCHANGED <<now, attempt, token, cacheVars, serverVars, historyVars>>

Return(c) ==
  /\ pc[c] \in {"ok", "failed"}
  /\ pc' = [pc EXCEPT ![c] = "idle"]
  /\ token' = [token EXCEPT ![c] = NoToken]
  /\ UNCHANGED <<now, attempt, cacheVars, serverVars, historyVars>>

\* What a request waits for comes about: the mutex is fair (sync.Mutex hands
\* it to a goroutine that starves), and every HTTP call ends within Timeout.
Proceed(c) ==
  \/ TokenCached(c) \/ TokenFetch(c) \/ TokenReceived(c) \/ TokenFails(c)
  \/ Refused(c) \/ Served(c) \/ Unsent(c)
  \/ RetryUnauthorized(c) \/ GiveUp(c) \/ Return(c)

Next ==
  \/ \E c \in Callers : Request(c) \/ Proceed(c) \/ Issue(c)
  \/ Revoke
  \/ Tick

Spec == Init /\ [][Next]_vars

FairSpec == Spec /\ \A c \in Callers : SF_vars(Proceed(c))

-----------------------------------------------------------------------------
(* Properties.                                                             *)

(* One call of request has its effect at most once, although it may be     *)
(* sent twice: a rename is not repeated behind the ledger's back.          *)
AtMostOnce == \A c \in Callers : performed[c] <= 1

(* A caller that gives up after a refusal has been refused with two        *)
(* different tokens, and nothing was carried out for it.                   *)
RefusedTwice ==
  \A c \in Callers :
    pc[c] = "unauthorized" /\ attempt[c] = 1
      => Cardinality(rejected[c]) = 2 /\ performed[c] = 0

(* A token is fetched only while the cache has none to offer: callers that *)
(* find it empty together cause one token request, not one each.           *)
FetchNeeded == \A c \in Callers : pc[c] \in {"fetch", "granted"} => ~Usable

(* A late refusal never throws away a token the server still accepts, one  *)
(* another caller obtained since.                                          *)
GoodTokenKept ==
  [][accessToken # NoToken /\ accessToken' # accessToken => ~Accepts(accessToken) \/ ~Usable]_vars

(* The cache never hands out a token that has expired at the server, even  *)
(* though its lifetime was counted from the response: the leeway is not    *)
(* shorter than a response may take.                                       *)
CachedNotExpired ==
  [][\A c \in Callers :
       pc[c] = "token" /\ pc'[c] = "send" => now < expiry[token'[c]]]_vars

(* Every request returns, however many callers wait for the token.         *)
RequestsReturn == \A c \in Callers : pc[c] = "token" ~> pc[c] = "idle"

=============================================================================
