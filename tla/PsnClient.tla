----------------------------- MODULE PsnClient -----------------------------
(***************************************************************************)
(* psn.Client: lookups that share one cached access token.  ensureToken    *)
(* takes it from the cache, refreshes it or logs in with the NPSSO cookie, *)
(* holding the mutex across those network calls; a lookup then presents it *)
(* in up to four calls.  Sony answers late, not at all, or with a refusal. *)
(*                                                                         *)
(* Time is kept as what is left of each timer, so that it is not bounded:  *)
(* of a token's life at Sony, of the cache's idea of it, of the request's  *)
(* context and of the HTTP call in flight.                                 *)
(***************************************************************************)
EXTENDS Integers

CONSTANTS Requests,         \* goroutines of /join and /refresh
          None,             \* "nobody"
          HttpTimeout,      \* httpTimeout, 10 s
          Deadline,         \* the handlers' context.WithTimeout, 15 s
          Skew,             \* expirySkew, 60 s
          ExpiresIn,        \* the values of expires_in Sony may answer with
          DefaultExpiry,    \* one hour, for an answer without one
          Faults,           \* what may go wrong besides delays
          MaxRevocations    \* bound on the times Sony revokes the access token

(* A status that is not a success although the request was good, whichever *)
(* it is; a success without the content it should have; counts below zero. *)
FaultKinds == {"refusal", "malformed", "negative"}

(* expires_in, or the default when it is missing. *)
LifeOf(expires) == IF expires <= 0 THEN DefaultExpiry ELSE expires

(* 10 + 15 <= 60, and Sony's tokens live for more than 25 seconds. *)
ASSUME PsnAssumption ==
    /\ None \notin Requests
    /\ HttpTimeout \in Nat \ {0} /\ Deadline \in Nat \ {0} /\ Skew \in Nat
    /\ ExpiresIn \subseteq Int /\ DefaultExpiry \in Nat
    /\ HttpTimeout + Deadline <= Skew
    /\ \A e \in ExpiresIn : LifeOf(e) > HttpTimeout + Deadline
    /\ Faults \subseteq FaultKinds
    /\ MaxRevocations \in Nat

VARIABLES
    mu,         \* the request that holds c.mu, or None
    access,     \* the cached access token, NoToken if none
    reuse,      \* time left until accessExpiry
    refresh,    \* refreshToken: "none", "good" or "bad" (Sony refuses it)
    npsso,      \* "none" (not configured), "valid" or "expired"
    pc,         \* pc[r]: the call of request r that is in flight
    timer,      \* timer[r]: time left to the HTTP timeout of the call
    budget,     \* budget[r]: time left to the deadline of the context
    token,      \* token[r]: the access token ensureToken returned
    exists,     \* exists[r]: Sony has an account of that name
    answer,     \* answer[r]: what Lookup returns
    refused,    \* history: refused[r]: Sony has refused the login of r's lookup
    revocations

cache == <<access, reuse, refresh>>
locals == <<pc, timer, budget, token, exists, answer, refused>>
vars == <<mu, cache, npsso, locals, revocations>>

TokenCalls == {"refresh", "authorize", "exchange"}
UserCalls == {"me", "search", "legacy", "trophy"}
Calls == TokenCalls \cup UserCalls
Answers == {"none", "ok", "not_found", "private", "no_credentials",
            "invalid_credentials", "upstream"}

NoToken == [left |-> 0, status |-> "none"]
Tokens == [left : Nat, status : {"none", "good", "revoked"}]

Init ==
    /\ mu = None
    /\ access = NoToken /\ reuse = 0 /\ refresh = "none"
    /\ npsso \in {"none", "valid", "expired"}
    /\ pc = [r \in Requests |-> "idle"]
    /\ timer = [r \in Requests |-> 0]
    /\ budget = [r \in Requests |-> 0]
    /\ token = [r \in Requests |-> NoToken]
    /\ exists = [r \in Requests |-> FALSE]
    /\ answer = [r \in Requests |-> "none"]
    /\ refused = [r \in Requests |-> FALSE]
    /\ revocations = 0

-----------------------------------------------------------------------------
(* How a request moves on *)

(* Mistaken variants of a definition stand just before it: they are what   *)
(* the properties are tried against.                                       *)
KeepMutex(r) == UNCHANGED mu

(* The deferred c.mu.Unlock. *)
ReleaseMutex(r) == mu' = IF mu = r THEN None ELSE mu

(* Lookup returns; nothing will look at its context again. *)
Answer(r, kind) ==
    /\ pc' = [pc EXCEPT ![r] = "reply"]
    /\ budget' = [budget EXCEPT ![r] = 0]
    /\ timer' = [timer EXCEPT ![r] = 0]
    /\ answer' = [answer EXCEPT ![r] = kind]
    /\ ReleaseMutex(r)

Send(r, call) ==
    /\ pc' = [pc EXCEPT ![r] = call]
    /\ timer' = [timer EXCEPT ![r] = HttpTimeout]
    /\ UNCHANGED <<budget, answer>>

(* The next call is sent at once; when the context is over it fails before *)
(* it is sent, and so does every call after it.                            *)
Call(r, next) ==
    IF budget[r] > 0 THEN Send(r, next) /\ UNCHANGED mu
                     ELSE Answer(r, "upstream")

(* ensureToken returns a token.  Whether Sony has an account of that name  *)
(* matters from here on.                                                   *)
Proceed(r, tok) ==
    /\ token' = [token EXCEPT ![r] = tok]
    /\ \E found \in BOOLEAN : exists' = [exists EXCEPT ![r] = found]
    /\ IF budget[r] > 0 THEN Send(r, "me") /\ ReleaseMutex(r)
                        ELSE Answer(r, "upstream")

-----------------------------------------------------------------------------
(* Lookup: the token *)

(* The handler makes its context; without an NPSSO nothing else happens. *)
Begin(r) ==
    /\ pc[r] = "idle"
    /\ \/ /\ npsso = "none"
          /\ Answer(r, "no_credentials")
       \/ /\ npsso # "none"
          /\ pc' = [pc EXCEPT ![r] = "wait"]
          /\ budget' = [budget EXCEPT ![r] = Deadline]
          /\ UNCHANGED <<mu, timer, answer>>
    /\ UNCHANGED <<cache, npsso, token, exists, refused, revocations>>

(* Variants: the cached token is used to the end of its life, or for ever; *)
(* the mutex is not there.                                                 *)
ReusableToTheEnd == reuse > 0
ReusableForEver == access # NoToken
Reusable == reuse > Skew

AlwaysFree == TRUE
MutexFree == mu = None

(* c.mu.Lock, which knows nothing of the deadline.  Who finds a token that *)
(* is good for a while unlocks at once; the others keep the mutex while    *)
(* they refresh it or log in.                                              *)
Acquire(r) ==
    /\ pc[r] = "wait"
    /\ MutexFree
    /\ IF Reusable
       THEN Proceed(r, access)
       ELSE /\ IF budget[r] > 0
               THEN /\ Send(r, IF refresh # "none" THEN "refresh" ELSE "authorize")
                    /\ mu' = r
               ELSE Answer(r, "upstream")
            /\ UNCHANGED <<token, exists>>
    /\ UNCHANGED <<cache, npsso, refused, revocations>>

(* No answer: the network, the HTTP timeout, or the context is over.  A    *)
(* failed refresh is followed by a login.  Sony may have replaced the      *)
(* refresh token in an answer that is lost.                                *)
NoResponse(r) ==
    /\ \/ /\ pc[r] = "refresh"
          /\ Call(r, "authorize")
          /\ refresh' \in {refresh, "bad"}
       \/ /\ pc[r] \in Calls \ {"refresh"}
          /\ Answer(r, "upstream")
          /\ UNCHANGED refresh
    /\ UNCHANGED <<access, reuse, npsso, token, exists, refused, revocations>>

(* The end of postToken.  The expiry is reckoned from the arrival of the   *)
(* answer, the token's life from some earlier moment of the call.  An      *)
(* answer without a refresh token leaves the old one in place.             *)
TokenIssued(r) ==
    \E e \in ExpiresIn, age \in 0 .. HttpTimeout - timer[r] :
        /\ access' = [left |-> LifeOf(e) - age, status |-> "good"]
        /\ reuse' = LifeOf(e)
        /\ refresh' \in {refresh, "good"}
        /\ Proceed(r, access')

(* Variant: a refused refresh ends the lookup. *)
RefreshResponseFinal(r) ==
    /\ pc[r] = "refresh"
    /\ \/ refresh = "good" /\ TokenIssued(r)
       \/ /\ refresh = "bad" \/ Faults \cap {"refusal", "malformed"} # {}
          /\ Answer(r, "invalid_credentials")
          /\ UNCHANGED <<cache, token, exists>>
    /\ UNCHANGED <<npsso, refused, revocations>>

(* Whatever is wrong with the refresh, the login is tried. *)
RefreshResponse(r) ==
    /\ pc[r] = "refresh"
    /\ \/ refresh = "good" /\ TokenIssued(r)
       \/ /\ refresh = "bad" \/ Faults \cap {"refusal", "malformed"} # {}
          /\ Call(r, "authorize")
          /\ UNCHANGED <<cache, token, exists>>
    /\ UNCHANGED <<npsso, refused, revocations>>

LoginRefused(r) ==
    /\ refused' = [refused EXCEPT ![r] = TRUE]
    /\ Answer(r, "invalid_credentials")
    /\ UNCHANGED <<cache, token, exists>>

(* Any response without a code, whatever its status, counts as a refusal   *)
(* of the NPSSO, be it the NPSSO's fault or not.                           *)
AuthorizeResponse(r) ==
    /\ pc[r] = "authorize"
    /\ \/ /\ npsso = "valid"
          /\ Call(r, "exchange")
          /\ UNCHANGED <<cache, token, exists, refused>>
       \/ /\ npsso = "expired" \/ Faults \cap {"refusal", "malformed"} # {}
          /\ LoginRefused(r)
    /\ UNCHANGED <<npsso, revocations>>

(* Every status but a success counts as a refusal; a success without a     *)
(* token does not.                                                         *)
ExchangeResponse(r) ==
    /\ pc[r] = "exchange"
    /\ \/ TokenIssued(r) /\ UNCHANGED refused
       \/ "refusal" \in Faults /\ LoginRefused(r)
       \/ /\ "malformed" \in Faults
          /\ Answer(r, "upstream")
          /\ UNCHANGED <<cache, token, exists, refused>>
    /\ UNCHANGED <<npsso, revocations>>

-----------------------------------------------------------------------------
(* Lookup: the account and its trophies *)

Accepted(r) == token[r].left > 0 /\ token[r].status = "good"

(* 401 to any of the four; the cache is not told.  Sony answers 401 to     *)
(* tokens it does not accept and to no other.                              *)
Unauthorized(r) ==
    /\ pc[r] \in UserCalls
    /\ ~Accepted(r)
    /\ Answer(r, "invalid_credentials")
    /\ UNCHANGED <<cache, npsso, token, exists, refused, revocations>>

(* A status that none of the other answers stands for, or a body that does *)
(* not parse.                                                              *)
ServerError(r) ==
    /\ pc[r] \in UserCalls
    /\ Faults \cap {"refusal", "malformed"} # {}
    /\ Answer(r, "upstream")
    /\ UNCHANGED <<cache, npsso, token, exists, refused, revocations>>

(* The operator's own profile, or a 400 or 404; usually the latter. *)
MeResponse(r) ==
    /\ pc[r] = "me"
    /\ Accepted(r)
    /\ \/ exists[r] /\ Call(r, "trophy")
       \/ Call(r, "search")
    /\ UNCHANGED <<cache, npsso, token, exists, refused, revocations>>

(* Variant: an account the search does not find does not exist. *)
SearchResponseFinal(r) ==
    /\ pc[r] = "search"
    /\ Accepted(r)
    /\ \/ exists[r] /\ Call(r, "trophy")
       \/ Answer(r, "not_found")
    /\ UNCHANGED <<cache, npsso, token, exists, refused, revocations>>

(* The search often misses accounts that exist. *)
SearchResponse(r) ==
    /\ pc[r] = "search"
    /\ Accepted(r)
    /\ \/ exists[r] /\ Call(r, "trophy")
       \/ Call(r, "legacy")
    /\ UNCHANGED <<cache, npsso, token, exists, refused, revocations>>

(* Sony's older profile service knows every account, client.go relies on   *)
(* that ("reliable"); what it cannot find does not exist.                  *)
LegacyResponse(r) ==
    /\ pc[r] = "legacy"
    /\ Accepted(r)
    /\ IF exists[r] THEN Call(r, "trophy") ELSE Answer(r, "not_found")
    /\ UNCHANGED <<cache, npsso, token, exists, refused, revocations>>

(* 200, 403 (private), counts below zero; or 404, which Sony answers once  *)
(* the account that was found is no more.                                  *)
TrophyResponse(r) ==
    /\ pc[r] = "trophy"
    /\ Accepted(r)
    /\ \/ exists[r] /\ Answer(r, "ok")
       \/ exists[r] /\ Answer(r, "private")
       \/ exists[r] /\ "negative" \in Faults /\ Answer(r, "upstream")
       \/ ~exists[r] /\ Answer(r, "not_found")
    /\ UNCHANGED <<cache, npsso, token, exists, refused, revocations>>

(* The handler has the answer; its locals are gone. *)
Reply(r) ==
    /\ pc[r] = "reply"
    /\ pc' = [pc EXCEPT ![r] = "idle"]
    /\ token' = [token EXCEPT ![r] = NoToken]
    /\ exists' = [exists EXCEPT ![r] = FALSE]
    /\ answer' = [answer EXCEPT ![r] = "none"]
    /\ refused' = [refused EXCEPT ![r] = FALSE]
    /\ UNCHANGED <<mu, cache, npsso, timer, budget, revocations>>

-----------------------------------------------------------------------------
(* Sony and time *)

Revoked(tok) == IF tok = NoToken THEN tok ELSE [tok EXCEPT !.status = "revoked"]

(* Every access token issued so far is refused from now on, perhaps the    *)
(* refresh token as well.                                                  *)
Revoke ==
    /\ revocations < MaxRevocations
    /\ revocations' = revocations + 1
    /\ access' = Revoked(access)
    /\ token' = [r \in Requests |-> Revoked(token[r])]
    /\ refresh' \in {refresh, IF refresh = "none" THEN "none" ELSE "bad"}
    /\ UNCHANGED <<mu, reuse, npsso, pc, timer, budget, exists, answer, refused>>

RefreshTokenExpires ==
    /\ refresh = "good"
    /\ refresh' = "bad"
    /\ UNCHANGED <<mu, access, reuse, npsso, locals, revocations>>

NpssoExpires ==
    /\ npsso = "valid"
    /\ npsso' = "expired"
    /\ UNCHANGED <<mu, cache, locals, revocations>>

(* The account is deleted while it is being looked up. *)
AccountDeleted(r) ==
    /\ pc[r] \in UserCalls
    /\ exists[r]
    /\ exists' = [exists EXCEPT ![r] = FALSE]
    /\ UNCHANGED <<mu, cache, npsso, pc, timer, budget, token, answer, refused, revocations>>

Less(n) == IF n > 0 THEN n - 1 ELSE 0
Older(tok) == [tok EXCEPT !.left = Less(@)]

(* One unit of time.  No call outlives its timeout or its context. *)
Tick ==
    /\ \A r \in Requests : pc[r] \in Calls => timer[r] > 0 /\ budget[r] > 0
    /\ access' = Older(access)
    /\ reuse' = Less(reuse)
    /\ timer' = [r \in Requests |-> Less(timer[r])]
    /\ budget' = [r \in Requests |-> Less(budget[r])]
    /\ token' = [r \in Requests |-> Older(token[r])]
    /\ UNCHANGED <<mu, refresh, npsso, pc, exists, answer, refused, revocations>>

Responses(r) ==
    \/ RefreshResponse(r) \/ AuthorizeResponse(r) \/ ExchangeResponse(r)
    \/ MeResponse(r) \/ SearchResponse(r) \/ LegacyResponse(r) \/ TrophyResponse(r)
    \/ Unauthorized(r) \/ ServerError(r)

RequestStep(r) == NoResponse(r) \/ Responses(r) \/ Reply(r)

Next ==
    \/ \E r \in Requests : Begin(r) \/ Acquire(r) \/ RequestStep(r) \/ AccountDeleted(r)
    \/ Revoke \/ RefreshTokenExpires \/ NpssoExpires
    \/ Tick

Spec == Init /\ [][Next]_vars

(* Lookups that have begun go on and time passes.  sync.Mutex hands itself *)
(* to a goroutine that has waited for a millisecond, so whoever finds it   *)
(* free again and again gets it.  Nobody is obliged to begin.              *)
FairSpec == /\ Spec
            /\ WF_vars(Tick)
            /\ \A r \in Requests : WF_vars(RequestStep(r)) /\ SF_vars(Acquire(r))

-----------------------------------------------------------------------------
(* Type invariant of the whole state; the mutex is held exactly by the     *)
(* request that is fetching a token.                                       *)
TypeOK ==
    /\ mu \in Requests \cup {None}
    /\ access \in Tokens
    /\ reuse \in Nat
    /\ refresh \in {"none", "good", "bad"}
    /\ npsso \in {"none", "valid", "expired"}
    /\ pc \in [Requests -> {"idle", "wait", "reply"} \cup Calls]
    /\ timer \in [Requests -> 0 .. HttpTimeout]
    /\ budget \in [Requests -> 0 .. Deadline]
    /\ token \in [Requests -> Tokens]
    /\ exists \in [Requests -> BOOLEAN]
    /\ answer \in [Requests -> Answers]
    /\ refused \in [Requests -> BOOLEAN]
    /\ revocations \in 0 .. MaxRevocations
    /\ \A r \in Requests : mu = r <=> pc[r] \in TokenCalls

(* No call carries a token that has run out at Sony: the margin of a       *)
(* minute covers the latency of the answer that brought the token, whose   *)
(* expiry is reckoned from its arrival, and everything the lookup does     *)
(* with it before its context ends, waiting for the mutex not included.    *)
UnexpiredWhenPresented ==
    \A r \in Requests : pc[r] \in UserCalls => token[r].left > 0

(* A token is fetched only to replace one that is about to expire: lookups *)
(* that queue up behind a refresh use its result and do not repeat it.     *)
FetchedOnlyWhenDue ==
    [][\A r \in Requests :
          pc[r] \in TokenCalls /\ token'[r] # token[r] => ~Reusable]_vars

(* invalid_credentials, which sends the operator for a new NPSSO, is       *)
(* answered only when Sony has refused the login of this very lookup, or   *)
(* has revoked the token it presented.  What went wrong before the login   *)
(* does not show: a refresh token that is refused, or whose successor was  *)
(* lost with the answer, or a token that ran out between check and use.    *)
InvalidMeansRefused ==
    \A r \in Requests :
        answer[r] = "invalid_credentials" => refused[r] \/ token[r].status = "revoked"

(* An account that exists is never reported as unknown, although two of    *)
(* the three ways to find it may miss it.                                  *)
NotFoundMeansAbsent == \A r \in Requests : answer[r] = "not_found" => ~exists[r]

(* Every lookup returns, behind however many others it queues.             *)
LookupsReturn == \A r \in Requests : pc[r] # "idle" ~> pc[r] = "idle"

(* A token that Sony revokes is refused again and again, since the refusal *)
(* does not clear the cache, but not for ever: without a restart there     *)
(* comes a time from which on only logins are refused.                     *)
RevocationHeals ==
    <>[](\A r \in Requests : answer[r] = "invalid_credentials" => refused[r])

=============================================================================
