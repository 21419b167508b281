-------------------------- MODULE PsnClientProofs --------------------------
(***************************************************************************)
(* Proofs, for any number of lookups and any times that satisfy            *)
(* PsnAssumption, of the safety properties of PsnClient.                   *)
(***************************************************************************)
EXTENDS PsnClient, TLAPS

-----------------------------------------------------------------------------
(* The inductive invariant *)

(* The cached token outlives its planned expiry less the latency of the    *)
(* answer it came with; a token a lookup presents outlives the lookup.     *)
LifeInv ==
    /\ access.left >= reuse - HttpTimeout
    /\ \A r \in Requests : pc[r] \in UserCalls => token[r].left > budget[r]

(* What can be reused, and what is presented, is a token. *)
StatusInv ==
    /\ reuse > 0 => access.status # "none"
    /\ \A r \in Requests : pc[r] \in UserCalls => token[r].status # "none"

(* Nobody fetches a token while the cached one can be reused. *)
FetchInv == mu # None => ~Reusable

(* There is an answer only between the end of a lookup and its reply. *)
AnswerInv == \A r \in Requests : pc[r] # "reply" => answer[r] = "none"

IInv == /\ TypeOK
        /\ LifeInv
        /\ StatusInv
        /\ FetchInv
        /\ AnswerInv
        /\ InvalidMeansRefused
        /\ NotFoundMeansAbsent

-----------------------------------------------------------------------------
(* Lemmas: what the building blocks of the actions do *)

(* The part of TypeOK that Answer, Send, Call and Proceed touch. *)
MoveOK ==
    /\ mu \in Requests \cup {None}
    /\ pc \in [Requests -> {"idle", "wait", "reply"} \cup Calls]
    /\ timer \in [Requests -> 0 .. HttpTimeout]
    /\ budget \in [Requests -> 0 .. Deadline]
    /\ answer \in [Requests -> Answers]
    /\ \A r \in Requests : mu = r <=> pc[r] \in TokenCalls

(* Nothing that belongs to another request moves. *)
OthersStay(r) ==
    \A q \in Requests \ {r} : /\ pc'[q] = pc[q]
                             /\ budget'[q] = budget[q]
                             /\ answer'[q] = answer[q]

(* Sony's tokens live for longer than a call and a lookup together. *)
LEMMA LifeOfToken ==
    ASSUME NEW e \in ExpiresIn
    PROVE  LifeOf(e) \in Nat /\ LifeOf(e) > HttpTimeout + Deadline
BY PsnAssumption DEF LifeOf

(* Answer ends the lookup and gives the mutex back. *)
LEMMA AnswerEffect ==
    ASSUME TypeOK, NEW r \in Requests, NEW kind \in Answers, Answer(r, kind)
    PROVE  /\ MoveOK'
           /\ OthersStay(r)
           /\ pc'[r] = "reply" /\ answer'[r] = kind
           /\ mu' \in {mu, None}
<1> USE PsnAssumption DEF TypeOK, Answer, ReleaseMutex
<1>1. \A q \in Requests : mu' = q <=> pc'[q] \in TokenCalls
  BY DEF TokenCalls
<1>2. mu' \in Requests \cup {None} /\ mu' \in {mu, None}
  OBVIOUS
<1>3. pc' \in [Requests -> {"idle", "wait", "reply"} \cup Calls]
  OBVIOUS
<1>4. timer' \in [Requests -> 0 .. HttpTimeout] /\ budget' \in [Requests -> 0 .. Deadline]
  OBVIOUS
<1>5. answer' \in [Requests -> Answers]
  OBVIOUS
<1>6. OthersStay(r) /\ pc'[r] = "reply" /\ answer'[r] = kind
  BY DEF OthersStay
<1> QED
  BY <1>1, <1>2, <1>3, <1>4, <1>5, <1>6 DEF MoveOK

(* Send leaves the context and the answer alone. *)
LEMMA SendEffect ==
    ASSUME TypeOK, NEW r \in Requests, NEW call \in Calls, Send(r, call)
    PROVE  /\ pc' \in [Requests -> {"idle", "wait", "reply"} \cup Calls]
           /\ timer' \in [Requests -> 0 .. HttpTimeout]
           /\ budget' \in [Requests -> 0 .. Deadline]
           /\ answer' \in [Requests -> Answers]
           /\ OthersStay(r)
           /\ pc'[r] = call /\ budget'[r] = budget[r] /\ answer'[r] = answer[r]
BY PsnAssumption DEF TypeOK, Send, OthersStay

(* Call goes on within the same half of the lookup, or gives it up. *)
LEMMA CallEffect ==
    ASSUME TypeOK, NEW r \in Requests, NEW next \in Calls, Call(r, next),
           next \in TokenCalls <=> pc[r] \in TokenCalls
    PROVE  /\ MoveOK'
           /\ OthersStay(r)
           /\ mu' \in {mu, None}
           /\ \/ pc'[r] = next /\ budget'[r] = budget[r] /\ answer'[r] = answer[r]
              \/ pc'[r] = "reply" /\ answer'[r] = "upstream"
<1>1. CASE budget[r] > 0
  <2>1. Send(r, next) /\ mu' = mu
    BY <1>1 DEF Call
  <2>2. \A q \in Requests : mu' = q <=> pc'[q] \in TokenCalls
    BY <2>1, SendEffect DEF TypeOK, OthersStay
  <2> QED
    BY <2>1, <2>2, SendEffect DEF TypeOK, MoveOK
<1>2. CASE ~(budget[r] > 0)
  BY <1>2, AnswerEffect DEF Call, Answers
<1> QED
  BY <1>1, <1>2

(* Proceed leaves ensureToken with a token and without the mutex. *)
LEMMA ProceedEffect ==
    ASSUME TypeOK, NEW r \in Requests, NEW tok \in Tokens, Proceed(r, tok), mu \in {r, None}
    PROVE  /\ MoveOK'
           /\ OthersStay(r)
           /\ mu' = None
           /\ token' \in [Requests -> Tokens] /\ exists' \in [Requests -> BOOLEAN]
           /\ \A q \in Requests \ {r} : token'[q] = token[q] /\ exists'[q] = exists[q]
           /\ token'[r] = tok
           /\ \/ pc'[r] = "me" /\ budget'[r] = budget[r] /\ answer'[r] = answer[r]
              \/ pc'[r] = "reply" /\ answer'[r] = "upstream"
<1>1. /\ token' \in [Requests -> Tokens] /\ exists' \in [Requests -> BOOLEAN]
      /\ \A q \in Requests \ {r} : token'[q] = token[q] /\ exists'[q] = exists[q]
      /\ token'[r] = tok
  BY DEF TypeOK, Proceed
<1>2. CASE budget[r] > 0
  <2>1. Send(r, "me") /\ mu' = None
    BY <1>2 DEF Proceed, ReleaseMutex
  <2>2. "me" \in Calls /\ "me" \notin TokenCalls
    BY DEF Calls, TokenCalls, UserCalls
  <2>3. \A q \in Requests : mu' = q <=> pc'[q] \in TokenCalls
    BY <2>1, <2>2, SendEffect, PsnAssumption DEF TypeOK, OthersStay
  <2> QED
    BY <1>1, <2>1, <2>2, <2>3, SendEffect DEF MoveOK
<1>3. CASE ~(budget[r] > 0)
  <2>1. Answer(r, "upstream") /\ mu' = None
    BY <1>3 DEF Proceed, Answer, ReleaseMutex
  <2> QED
    BY <1>1, <2>1, AnswerEffect DEF Answers
<1> QED
  BY <1>2, <1>3

(* The token an answer of Sony's brings. *)
LEMMA TokenIssuedEffect ==
    ASSUME TypeOK, NEW r \in Requests, TokenIssued(r), pc[r] \in TokenCalls
    PROVE  /\ access' \in Tokens /\ reuse' \in Nat
           /\ access'.left >= reuse' - HttpTimeout
           /\ access'.left > Deadline
           /\ access'.status = "good"
           /\ refresh' \in {"none", "good", "bad"}
           /\ Proceed(r, access') /\ mu = r
<1>1. PICK e \in ExpiresIn, age \in 0 .. HttpTimeout - timer[r] :
         /\ access' = [left |-> LifeOf(e) - age, status |-> "good"]
         /\ reuse' = LifeOf(e)
         /\ refresh' \in {refresh, "good"}
         /\ Proceed(r, access')
  BY DEF TokenIssued
<1>2. timer[r] \in 0 .. HttpTimeout /\ age \in Nat /\ age <= HttpTimeout
  BY PsnAssumption DEF TypeOK
<1>3. LifeOf(e) \in Nat /\ LifeOf(e) > HttpTimeout + Deadline
  BY LifeOfToken
<1>4. LifeOf(e) - age \in Nat /\ LifeOf(e) - age > Deadline /\ LifeOf(e) - age >= LifeOf(e) - HttpTimeout
  BY <1>2, <1>3, PsnAssumption
<1> QED
  BY <1>1, <1>3, <1>4 DEF TypeOK, Tokens

-----------------------------------------------------------------------------
(* Preservation, one lemma per way a request moves on *)

(* No lookup, no token.                                                    *)
LEMMA InitIInv == Init => IInv
BY PsnAssumption DEF Init, IInv, TypeOK, LifeInv, StatusInv, FetchInv, AnswerInv,
   InvalidMeansRefused, NotFoundMeansAbsent, Calls, TokenCalls, UserCalls, Tokens, NoToken,
   Answers, Reusable

(* A lookup ends, for a reason the invariant allows; the rest of the state *)
(* stays but for the refresh token and the mark that Sony refused a login. *)
LEMMA AnswerKeeps ==
    ASSUME IInv, NEW r \in Requests, NEW kind \in Answers, Answer(r, kind),
           UNCHANGED <<access, reuse, npsso, token, revocations>>,
           refresh' \in {"none", "good", "bad"},
           exists' \in [Requests -> BOOLEAN], refused' \in [Requests -> BOOLEAN],
           \A q \in Requests \ {r} : exists'[q] = exists[q] /\ refused'[q] = refused[q],
           kind = "invalid_credentials" =>
               refused'[r] \/ token[r].status = "revoked",
           kind = "not_found" => ~exists'[r]
    PROVE  IInv'
<1>1. /\ MoveOK'
      /\ OthersStay(r)
      /\ pc'[r] = "reply" /\ answer'[r] = kind
      /\ mu' \in {mu, None}
  BY AnswerEffect DEF IInv
<1>2. TypeOK'
  BY <1>1 DEF IInv, TypeOK, MoveOK
<1>3. LifeInv' /\ StatusInv'
  BY <1>1 DEF IInv, LifeInv, StatusInv, OthersStay, UserCalls
<1>4. FetchInv' /\ AnswerInv'
  BY <1>1 DEF IInv, FetchInv, AnswerInv, OthersStay, Reusable
<1>5. InvalidMeansRefused' /\ NotFoundMeansAbsent'
  BY <1>1 DEF IInv, InvalidMeansRefused, NotFoundMeansAbsent, OthersStay
<1> QED
  BY <1>2, <1>3, <1>4, <1>5 DEF IInv

(* A call follows a call of the same half of the lookup. *)
LEMMA CallKeeps ==
    ASSUME IInv, NEW r \in Requests, NEW next \in Calls, Call(r, next), pc[r] \in Calls,
           next \in TokenCalls <=> pc[r] \in TokenCalls,
           UNCHANGED <<access, reuse, npsso, token, exists, refused, revocations>>,
           refresh' \in {"none", "good", "bad"}
    PROVE  IInv'
<1>1. /\ MoveOK'
      /\ OthersStay(r)
      /\ mu' \in {mu, None}
      /\ \/ pc'[r] = next /\ budget'[r] = budget[r] /\ answer'[r] = answer[r]
         \/ pc'[r] = "reply" /\ answer'[r] = "upstream"
  BY CallEffect DEF IInv
<1>2. TypeOK'
  BY <1>1 DEF IInv, TypeOK, MoveOK
<1>3. pc'[r] \in UserCalls => pc[r] \in UserCalls /\ budget'[r] = budget[r]
  BY <1>1 DEF Calls, TokenCalls, UserCalls
<1>4. LifeInv' /\ StatusInv'
  BY <1>1, <1>3 DEF IInv, LifeInv, StatusInv, OthersStay
<1>5. FetchInv' /\ AnswerInv'
  BY <1>1 DEF IInv, FetchInv, AnswerInv, OthersStay, Reusable, Calls, TokenCalls, UserCalls
<1>6. InvalidMeansRefused' /\ NotFoundMeansAbsent'
  BY <1>1 DEF IInv, InvalidMeansRefused, NotFoundMeansAbsent, OthersStay
<1> QED
  BY <1>2, <1>4, <1>5, <1>6 DEF IInv

(* ensureToken returns a token that outlives the lookup, either out of the *)
(* cache or fresh from Sony.                                               *)
LEMMA ProceedKeeps ==
    ASSUME IInv, NEW r \in Requests, NEW tok \in Tokens, Proceed(r, tok), mu \in {r, None},
           pc[r] \in {"wait"} \cup Calls,
           tok.left > budget[r], tok.status # "none",
           access' \in Tokens, reuse' \in Nat, access'.left >= reuse' - HttpTimeout,
           access'.status # "none",
           refresh' \in {"none", "good", "bad"}, UNCHANGED <<npsso, refused, revocations>>
    PROVE  IInv'
<1>1. /\ MoveOK'
      /\ OthersStay(r)
      /\ mu' = None
      /\ token' \in [Requests -> Tokens] /\ exists' \in [Requests -> BOOLEAN]
      /\ \A q \in Requests \ {r} : token'[q] = token[q] /\ exists'[q] = exists[q]
      /\ token'[r] = tok
      /\ \/ pc'[r] = "me" /\ budget'[r] = budget[r] /\ answer'[r] = answer[r]
         \/ pc'[r] = "reply" /\ answer'[r] = "upstream"
  BY ProceedEffect DEF IInv
<1>2. TypeOK'
  BY <1>1 DEF IInv, TypeOK, MoveOK
<1>3. LifeInv' /\ StatusInv'
  BY <1>1 DEF IInv, LifeInv, StatusInv, OthersStay, UserCalls
<1>4. answer[r] = "none"
  BY DEF IInv, AnswerInv, Calls, TokenCalls, UserCalls
<1>5. FetchInv' /\ AnswerInv'
  BY <1>1, <1>4 DEF IInv, FetchInv, AnswerInv, OthersStay
<1>6. InvalidMeansRefused' /\ NotFoundMeansAbsent'
  BY <1>1, <1>4 DEF IInv, InvalidMeansRefused, NotFoundMeansAbsent, OthersStay
<1> QED
  BY <1>2, <1>3, <1>5, <1>6 DEF IInv

(* Sony refuses the login. *)
LEMMA RefusalKeeps ==
    ASSUME IInv, NEW r \in Requests, LoginRefused(r), UNCHANGED <<npsso, revocations>>
    PROVE  IInv'
<1>1. /\ Answer(r, "invalid_credentials") /\ "invalid_credentials" \in Answers
      /\ UNCHANGED <<access, reuse, refresh, token, exists>>
      /\ refused' = [refused EXCEPT ![r] = TRUE]
  BY DEF LoginRefused, cache, Answers
<1>2. /\ refresh \in {"none", "good", "bad"}
      /\ exists \in [Requests -> BOOLEAN] /\ refused \in [Requests -> BOOLEAN]
  BY DEF IInv, TypeOK
<1> QED
  BY <1>1, <1>2, AnswerKeeps

(* Whatever follows an answer that brings a token. *)
LEMMA TokenIssuedKeeps ==
    ASSUME IInv, NEW r \in Requests, TokenIssued(r), pc[r] \in TokenCalls,
           UNCHANGED <<npsso, refused, revocations>>
    PROVE  IInv'
<1>1. /\ access' \in Tokens /\ reuse' \in Nat
      /\ access'.left >= reuse' - HttpTimeout
      /\ access'.left > Deadline
      /\ access'.status = "good"
      /\ refresh' \in {"none", "good", "bad"}
      /\ Proceed(r, access') /\ mu = r
  BY TokenIssuedEffect DEF IInv
<1>2. budget[r] \in 0 .. Deadline
  BY DEF IInv, TypeOK
<1>3. access'.left > budget[r]
  BY <1>1, <1>2, PsnAssumption DEF Tokens
<1>4. pc[r] \in {"wait"} \cup Calls
  BY DEF Calls
<1> QED
  BY <1>1, <1>3, <1>4, ProceedKeeps

-----------------------------------------------------------------------------
(* Preservation, action by action *)

(* The steps of one lookup.  A token out of the cache has more than a      *)
(* minute to its planned expiry, so that even if it was issued at the very *)
(* start of a call that timed out it outlives the deadline of the lookup.  *)
LEMMA LookupKeeps ==
    ASSUME IInv, NEW r \in Requests, Begin(r) \/ Acquire(r) \/ RequestStep(r)
    PROVE  IInv'
<1> USE DEF locals, cache
<1>0. /\ refresh \in {"none", "good", "bad"}
      /\ exists \in [Requests -> BOOLEAN] /\ refused \in [Requests -> BOOLEAN]
      /\ token \in [Requests -> Tokens] /\ budget[r] \in 0 .. Deadline
      /\ pc \in [Requests -> {"idle", "wait", "reply"} \cup Calls]
  BY DEF IInv, TypeOK
<1>1. CASE Begin(r)
  <2>1. CASE npsso = "none"
    <3>1. Answer(r, "no_credentials") /\ "no_credentials" \in Answers
      BY <1>1, <2>1 DEF Begin, Answers
    <3> QED
      BY <1>0, <1>1, <3>1, AnswerKeeps DEF Begin
  <2>2. CASE npsso # "none"
    <3>1. /\ pc[r] = "idle" /\ pc' = [pc EXCEPT ![r] = "wait"]
          /\ budget' = [budget EXCEPT ![r] = Deadline]
          /\ UNCHANGED <<mu, access, reuse, refresh, npsso, timer, token, exists, answer, refused,
                         revocations>>
      BY <1>1, <2>2 DEF Begin
    <3>2. TypeOK'
      BY <3>1, PsnAssumption DEF IInv, TypeOK, TokenCalls
    <3>3. LifeInv' /\ StatusInv' /\ FetchInv' /\ AnswerInv'
      BY <3>1, <1>0 DEF IInv, LifeInv, StatusInv, FetchInv, AnswerInv, UserCalls, Reusable
    <3>4. InvalidMeansRefused' /\ NotFoundMeansAbsent'
      BY <3>1 DEF IInv, InvalidMeansRefused, NotFoundMeansAbsent
    <3> QED
      BY <3>2, <3>3, <3>4 DEF IInv
  <2> QED
    BY <2>1, <2>2
<1>2. CASE Acquire(r)
  <2>1. CASE Reusable
    <3>1. Proceed(r, access) /\ mu = None /\ pc[r] = "wait"
      BY <1>2, <2>1 DEF Acquire, MutexFree
    <3>2. /\ access \in Tokens /\ access.left \in Nat /\ reuse \in Nat
          /\ access.left >= reuse - HttpTimeout
      BY DEF IInv, TypeOK, Tokens, LifeInv
    <3>3. access.left > budget[r] /\ access.status # "none"
      BY <1>0, <2>1, <3>2, PsnAssumption DEF IInv, Reusable, StatusInv
    <3> QED
      BY <1>0, <1>2, <3>1, <3>2, <3>3, ProceedKeeps DEF Acquire
  <2>2. CASE ~Reusable /\ budget[r] > 0
    <3> DEFINE first == IF refresh # "none" THEN "refresh" ELSE "authorize"
    <3>1. /\ pc[r] = "wait" /\ mu = None /\ mu' = r /\ Send(r, first)
          /\ UNCHANGED <<access, reuse, refresh, npsso, token, exists, refused, revocations>>
      BY <1>2, <2>2 DEF Acquire, MutexFree
    <3>2. first \in Calls /\ first \in TokenCalls
      BY DEF Calls, TokenCalls
    <3> HIDE DEF first
    <3>3. /\ pc' \in [Requests -> {"idle", "wait", "reply"} \cup Calls]
          /\ timer' \in [Requests -> 0 .. HttpTimeout]
          /\ budget' \in [Requests -> 0 .. Deadline]
          /\ answer' \in [Requests -> Answers]
          /\ OthersStay(r)
          /\ pc'[r] = first /\ budget'[r] = budget[r] /\ answer'[r] = answer[r]
      BY <3>1, <3>2, SendEffect DEF IInv
    <3>4. TypeOK'
      <4>1. \A q \in Requests : mu' = q <=> pc'[q] \in TokenCalls
        BY <3>1, <3>2, <3>3, PsnAssumption DEF IInv, TypeOK, OthersStay
      <4> QED
        BY <3>1, <3>3, <4>1 DEF IInv, TypeOK
    <3>5. pc'[r] \notin UserCalls /\ answer[r] = "none"
      BY <3>1, <3>2, <3>3 DEF TokenCalls, UserCalls, IInv, AnswerInv
    <3>6. LifeInv' /\ StatusInv' /\ FetchInv' /\ AnswerInv'
      BY <2>2, <3>1, <3>3, <3>5 DEF IInv, LifeInv, StatusInv, FetchInv, AnswerInv, OthersStay, Reusable
    <3>7. InvalidMeansRefused' /\ NotFoundMeansAbsent'
      BY <3>1, <3>3, <3>5 DEF IInv, InvalidMeansRefused, NotFoundMeansAbsent, OthersStay
    <3> QED
      BY <3>4, <3>6, <3>7 DEF IInv
  <2>3. CASE ~Reusable /\ ~(budget[r] > 0)
    <3>1. Answer(r, "upstream") /\ "upstream" \in Answers
      BY <1>2, <2>3 DEF Acquire, Answers
    <3> QED
      BY <1>0, <1>2, <2>3, <3>1, AnswerKeeps DEF Acquire
  <2> QED
    BY <2>1, <2>2, <2>3
<1>3. CASE NoResponse(r)
  <2>1. CASE pc[r] = "refresh"
    <3>1. Call(r, "authorize") /\ refresh' \in {refresh, "bad"}
      BY <1>3, <2>1 DEF NoResponse
    <3>2. "authorize" \in Calls /\ pc[r] \in Calls /\ ("authorize" \in TokenCalls <=> pc[r] \in TokenCalls)
      BY <2>1 DEF Calls, TokenCalls
    <3> QED
      BY <1>0, <1>3, <3>1, <3>2, CallKeeps DEF NoResponse
  <2>2. CASE pc[r] \in Calls \ {"refresh"}
    <3>1. Answer(r, "upstream") /\ "upstream" \in Answers /\ refresh' = refresh
      BY <1>3, <2>2 DEF NoResponse, Answers
    <3> QED
      BY <1>0, <1>3, <3>1, AnswerKeeps DEF NoResponse
  <2> QED
    BY <1>3, <2>1, <2>2 DEF NoResponse
<1>4. CASE RefreshResponse(r)
  <2>1. CASE TokenIssued(r)
    BY <1>4, <2>1, TokenIssuedKeeps DEF RefreshResponse, TokenCalls
  <2>2. CASE Call(r, "authorize") /\ UNCHANGED <<cache, token, exists>>
    <3>1. "authorize" \in Calls /\ pc[r] \in Calls /\ ("authorize" \in TokenCalls <=> pc[r] \in TokenCalls)
      BY <1>4 DEF RefreshResponse, Calls, TokenCalls
    <3> QED
      BY <1>0, <1>4, <2>2, <3>1, CallKeeps DEF RefreshResponse
  <2> QED
    BY <1>4, <2>1, <2>2 DEF RefreshResponse
<1>5. CASE AuthorizeResponse(r)
  <2>1. CASE npsso = "valid" /\ Call(r, "exchange") /\ UNCHANGED <<cache, token, exists, refused>>
    <3>1. "exchange" \in Calls /\ pc[r] \in Calls /\ ("exchange" \in TokenCalls <=> pc[r] \in TokenCalls)
      BY <1>5 DEF AuthorizeResponse, Calls, TokenCalls
    <3> QED
      BY <1>0, <1>5, <2>1, <3>1, CallKeeps DEF AuthorizeResponse
  <2>2. CASE LoginRefused(r)
    BY <1>5, <2>2, RefusalKeeps DEF AuthorizeResponse
  <2> QED
    BY <1>5, <2>1, <2>2 DEF AuthorizeResponse
<1>6. CASE ExchangeResponse(r)
  <2>1. CASE TokenIssued(r) /\ UNCHANGED refused
    BY <1>6, <2>1, TokenIssuedKeeps DEF ExchangeResponse, TokenCalls
  <2>2. CASE LoginRefused(r)
    BY <1>6, <2>2, RefusalKeeps DEF ExchangeResponse
  <2>3. CASE Answer(r, "upstream") /\ UNCHANGED <<cache, token, exists, refused>>
    BY <1>0, <1>6, <2>3, AnswerKeeps DEF ExchangeResponse, Answers
  <2> QED
    BY <1>6, <2>1, <2>2, <2>3 DEF ExchangeResponse
<1>7. CASE Unauthorized(r)
  <2>1. token[r].status = "revoked"
    BY <1>0, <1>7 DEF Unauthorized, Accepted, IInv, LifeInv, StatusInv, Tokens
  <2> QED
    BY <1>0, <1>7, <2>1, AnswerKeeps DEF Unauthorized, Answers
<1>8. CASE ServerError(r)
  BY <1>0, <1>8, AnswerKeeps DEF ServerError, Answers
<1>9. CASE MeResponse(r)
  <2>1. /\ "trophy" \in Calls /\ "search" \in Calls /\ pc[r] \in Calls
        /\ "trophy" \notin TokenCalls /\ "search" \notin TokenCalls /\ pc[r] \notin TokenCalls
    BY <1>9 DEF MeResponse, Calls, TokenCalls, UserCalls
  <2> QED
    BY <1>0, <1>9, <2>1, CallKeeps DEF MeResponse
<1>10. CASE SearchResponse(r)
  <2>1. /\ "trophy" \in Calls /\ "legacy" \in Calls /\ pc[r] \in Calls
        /\ "trophy" \notin TokenCalls /\ "legacy" \notin TokenCalls /\ pc[r] \notin TokenCalls
    BY <1>10 DEF SearchResponse, Calls, TokenCalls, UserCalls
  <2> QED
    BY <1>0, <1>10, <2>1, CallKeeps DEF SearchResponse
<1>11. CASE LegacyResponse(r)
  <2>1. CASE exists[r]
    <3>1. "trophy" \in Calls /\ pc[r] \in Calls /\ "trophy" \notin TokenCalls /\ pc[r] \notin TokenCalls
      BY <1>11 DEF LegacyResponse, Calls, TokenCalls, UserCalls
    <3> QED
      BY <1>0, <1>11, <2>1, <3>1, CallKeeps DEF LegacyResponse
  <2>2. CASE ~exists[r]
    BY <1>0, <1>11, <2>2, AnswerKeeps DEF LegacyResponse, Answers
  <2> QED
    BY <2>1, <2>2
<1>12. CASE TrophyResponse(r)
  <2>1. \/ Answer(r, "ok") \/ Answer(r, "private") \/ Answer(r, "upstream")
        \/ ~exists[r] /\ Answer(r, "not_found")
    BY <1>12 DEF TrophyResponse
  <2> QED
    BY <1>0, <1>12, <2>1, AnswerKeeps DEF TrophyResponse, Answers
<1>13. CASE Reply(r)
  <2>1. TypeOK'
    <3>1. NoToken \in Tokens
      BY DEF NoToken, Tokens
    <3> QED
      BY <1>13, <3>1 DEF Reply, IInv, TypeOK, Answers, TokenCalls
  <2>2. LifeInv' /\ StatusInv' /\ FetchInv' /\ AnswerInv'
    BY <1>13, <1>0 DEF Reply, IInv, TypeOK, LifeInv, StatusInv, FetchInv, AnswerInv, UserCalls, Reusable
  <2>3. InvalidMeansRefused' /\ NotFoundMeansAbsent'
    BY <1>13, <1>0 DEF Reply, IInv, TypeOK, InvalidMeansRefused, NotFoundMeansAbsent
  <2> QED
    BY <2>1, <2>2, <2>3 DEF IInv
<1> QED
  BY <1>1, <1>2, <1>3, <1>4, <1>5, <1>6, <1>7, <1>8, <1>9, <1>10, <1>11, <1>12, <1>13
     DEF RequestStep, Responses

(* Sony refuses every token issued so far: their times stay as they are. *)
LEMMA RevokeKeeps == IInv /\ Revoke => IInv'
<1> SUFFICES ASSUME IInv, Revoke
             PROVE  IInv'
  OBVIOUS
<1> USE DEF Revoke
<1>1. ASSUME NEW tok \in Tokens
      PROVE  /\ Revoked(tok) \in Tokens /\ Revoked(tok).left = tok.left
             /\ tok.status # "none" => Revoked(tok).status = "revoked"
             /\ tok.status = "revoked" => Revoked(tok).status = "revoked"
  BY DEF Revoked, NoToken, Tokens
<1>2. /\ access \in Tokens /\ token \in [Requests -> Tokens] /\ reuse \in Nat
      /\ access' = Revoked(access) /\ \A r \in Requests : token'[r] = Revoked(token[r])
  BY DEF IInv, TypeOK
<1>3. TypeOK'
  <2>1. token' \in [Requests -> Tokens] /\ access' \in Tokens
    BY <1>1, <1>2
  <2>2. revocations' \in 0 .. MaxRevocations
    BY PsnAssumption DEF IInv, TypeOK
  <2> QED
    BY <2>1, <2>2 DEF IInv, TypeOK
<1>4. LifeInv' /\ StatusInv'
  BY <1>1, <1>2 DEF IInv, LifeInv, StatusInv
<1>5. FetchInv' /\ AnswerInv'
  BY DEF IInv, FetchInv, AnswerInv, Reusable
<1>6. InvalidMeansRefused' /\ NotFoundMeansAbsent'
  BY <1>1, <1>2 DEF IInv, InvalidMeansRefused, NotFoundMeansAbsent
<1> QED
  BY <1>3, <1>4, <1>5, <1>6 DEF IInv

(* While a call is in flight its context is not over, so that the token it *)
(* carries and the time the lookup has left run down together.             *)
LEMMA TickKeeps == IInv /\ Tick => IInv'
<1> SUFFICES ASSUME IInv, Tick
             PROVE  IInv'
  OBVIOUS
<1> USE DEF Tick
<1>1. ASSUME NEW tok \in Tokens
      PROVE  /\ Older(tok) \in Tokens /\ Older(tok).left = Less(tok.left)
             /\ Older(tok).status = tok.status
  BY DEF Older, Less, Tokens
<1>2. /\ access \in Tokens /\ token \in [Requests -> Tokens] /\ reuse \in Nat
      /\ budget \in [Requests -> 0 .. Deadline] /\ timer \in [Requests -> 0 .. HttpTimeout]
      /\ access' = Older(access) /\ reuse' = Less(reuse)
      /\ \A r \in Requests : token'[r] = Older(token[r]) /\ budget'[r] = Less(budget[r])
  BY DEF IInv, TypeOK
<1>3. TypeOK'
  <2>1. token' \in [Requests -> Tokens] /\ access' \in Tokens
    BY <1>1, <1>2
  <2>2. timer' \in [Requests -> 0 .. HttpTimeout] /\ budget' \in [Requests -> 0 .. Deadline]
    BY <1>2, PsnAssumption DEF Less
  <2>3. reuse' \in Nat
    BY <1>2 DEF Less
  <2> QED
    BY <2>1, <2>2, <2>3 DEF IInv, TypeOK
<1>4. LifeInv'
  <2>1. access'.left >= reuse' - HttpTimeout
    BY <1>1, <1>2, PsnAssumption DEF IInv, LifeInv, Less, Tokens
  <2>2. ASSUME NEW r \in Requests, pc'[r] \in UserCalls
        PROVE  token'[r].left > budget'[r]
    BY <1>1, <1>2, <2>2 DEF IInv, LifeInv, Less, Tokens, Calls
  <2> QED
    BY <2>1, <2>2 DEF LifeInv
<1>5. StatusInv' /\ FetchInv' /\ AnswerInv'
  BY <1>1, <1>2, PsnAssumption DEF IInv, StatusInv, FetchInv, AnswerInv, Reusable, Less
<1>6. InvalidMeansRefused' /\ NotFoundMeansAbsent'
  BY <1>1, <1>2 DEF IInv, InvalidMeansRefused, NotFoundMeansAbsent
<1> QED
  BY <1>3, <1>4, <1>5, <1>6 DEF IInv

(* Every step of a lookup, of time and of Sony preserves the invariant.    *)
LEMMA StepIInv == IInv /\ [Next]_vars => IInv'
<1> SUFFICES ASSUME IInv, [Next]_vars
             PROVE  IInv'
  OBVIOUS
<1> USE DEF IInv, TypeOK, LifeInv, StatusInv, FetchInv, AnswerInv, Reusable,
            InvalidMeansRefused, NotFoundMeansAbsent, locals, cache
<1>1. CASE RefreshTokenExpires
  BY <1>1 DEF RefreshTokenExpires
<1>2. CASE NpssoExpires
  BY <1>2 DEF NpssoExpires
<1>3. CASE UNCHANGED vars
  BY <1>3 DEF vars
<1>4. ASSUME NEW r \in Requests, AccountDeleted(r)
      PROVE  IInv'
  BY <1>4 DEF AccountDeleted
<1> QED
  BY <1>1, <1>2, <1>3, <1>4, LookupKeeps, RevokeKeeps, TickKeeps DEF Next

-----------------------------------------------------------------------------
(* What holds of every behaviour *)

(* The mutex, the life of every token and what each lookup has met are as  *)
(* IInv says, for any number of lookups.                                   *)
THEOREM Invariant == Spec => []IInv
BY InitIInv, StepIInv, PTL DEF Spec

(* The whole state keeps its type, and c.mu is held exactly by the request *)
(* that is fetching a token: every way out of ensureToken unlocks it.      *)
THEOREM TypeCorrect == Spec => []TypeOK
<1>1. IInv => TypeOK
  BY DEF IInv
<1> QED
  BY <1>1, Invariant, PTL

(* No call carries a token that has run out at Sony, for every lifetime    *)
(* Sony may choose beyond 25 seconds, and whatever the answers' latency.   *)
THEOREM PresentedTokensLive == Spec => []UnexpiredWhenPresented
<1>1. IInv => UnexpiredWhenPresented
  <2> SUFFICES ASSUME IInv, NEW r \in Requests, pc[r] \in UserCalls
               PROVE  token[r].left > 0
    BY DEF UnexpiredWhenPresented
  <2>1. token[r].left \in Nat /\ budget[r] \in 0 .. Deadline /\ token[r].left > budget[r]
    BY DEF IInv, TypeOK, LifeInv, Tokens
  <2> QED
    BY <2>1, PsnAssumption
<1> QED
  BY <1>1, Invariant, PTL

(* "Invalid credentials" is told to the operator only when Sony has        *)
(* refused the login of this lookup or revoked its token: neither a failed *)
(* refresh nor an expiry that was missed shows as one.                     *)
THEOREM RefusalsAreReal == Spec => []InvalidMeansRefused
<1>1. IInv => InvalidMeansRefused
  BY DEF IInv
<1> QED
  BY <1>1, Invariant, PTL

(* An account that exists is never reported as unknown. *)
THEOREM ExistingAreFound == Spec => []NotFoundMeansAbsent
<1>1. IInv => NotFoundMeansAbsent
  BY DEF IInv
<1> QED
  BY <1>1, Invariant, PTL

(* A token is fetched only when the cached one is about to expire, however *)
(* many lookups queue up for it.                                           *)
THEOREM NoNeedlessFetch == Spec => FetchedOnlyWhenDue
<1>1. ASSUME IInv, NEW r \in Requests, pc[r] \in TokenCalls
      PROVE  ~Reusable
  BY <1>1, PsnAssumption DEF IInv, TypeOK, FetchInv
<1>2. IInv /\ [Next]_vars =>
          [\A r \in Requests : pc[r] \in TokenCalls /\ token'[r] # token[r] => ~Reusable]_vars
  BY <1>1
<1> QED
  BY <1>2, Invariant, PTL DEF Spec, FetchedOnlyWhenDue

=============================================================================
