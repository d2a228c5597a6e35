-------------------------- MODULE TokenCacheProofs --------------------------
(***************************************************************************)
(* Proofs about TokenCache: its types, and that whatever the SDK, the      *)
(* number of callers and the way they fail or are cancelled, at most one   *)
(* token request is on the wire.                                           *)
(***************************************************************************)
EXTENDS TokenCache, TLAPS

Request == [st : {"none", "sent", "granted", "landed"}, spent : 0..FetchMax,
            since : 0..FetchMax, real : Lifetimes \cup {0}, stated : Lifetimes \cup {Unknown}]

(* Updates of one request record. *)
LEMMA Sent ==
  /\ NoReq \in Request
  /\ [NoReq EXCEPT !.st = "sent"] \in Request
  /\ [NoReq EXCEPT !.st = "landed"] \in Request
  /\ NoReq.st = "none" /\ [NoReq EXCEPT !.st = "sent"].st = "sent"
  /\ [NoReq EXCEPT !.st = "landed"].st = "landed"
BY TokenCacheAssumption DEF NoReq, Request, TokenCacheAssumption, Unknown

LEMMA Granted ==
  ASSUME NEW r \in Request, NEW life \in Lifetimes, NEW stated \in {life, Unknown}
  PROVE  /\ [r EXCEPT !.st = "granted", !.real = life, !.stated = stated] \in Request
         /\ [r EXCEPT !.st = "granted", !.real = life, !.stated = stated].st = "granted"
BY DEF Request, Unknown

LEMMA OlderRequest ==
  ASSUME NEW r \in Request, r.since <= r.spent, r.st \in {"sent", "granted"} => r.spent < FetchMax
  PROVE  Older(r) \in Request /\ Older(r).st = r.st /\ Older(r).since <= Older(r).spent
<1>1. CASE r.st = "sent"
  <2>1. Older(r) = [r EXCEPT !.spent = r.spent + 1]
    BY <1>1 DEF Older
  <2>2. r.spent + 1 \in 0..FetchMax
    BY <1>1, TokenCacheAssumption DEF Request, TokenCacheAssumption
  <2>3. QED
    BY <2>1, <2>2 DEF Request
<1>2. CASE r.st = "granted"
  <2>1. Older(r) = [r EXCEPT !.spent = r.spent + 1, !.since = r.since + 1]
    BY <1>2 DEF Older
  <2>2. r.spent + 1 \in 0..FetchMax /\ r.since + 1 \in 0..FetchMax /\ r.since + 1 <= r.spent + 1
    BY <1>2, TokenCacheAssumption DEF Request, TokenCacheAssumption
  <2> DEFINE p == r.spent + 1
             q == r.since + 1
  <2>3. p \in 0..FetchMax /\ q \in 0..FetchMax /\ q <= p
    BY <2>2
  <2>4. Older(r) = [r EXCEPT !.spent = p, !.since = q]
    BY <2>1
  <2> HIDE DEF p, q
  <2>5. QED
    BY <2>3, <2>4 DEF Request
<1>3. CASE r.st \notin {"sent", "granted"}
  BY <1>3 DEF Older
<1> QED
  BY <1>1, <1>2, <1>3

(* No reuse is negative.                                                     *)
LEMMA ExpiryIsNat ==
  ASSUME NEW stated \in Nat, NEW spent \in Nat
  PROVE  Expiry(stated, spent) \in Nat
BY TokenCacheAssumption DEF Expiry, FromArrival, FromRequest, RubyExpiry, Larger, TokenCacheAssumption, Unknown

-----------------------------------------------------------------------------
(* Who has a request under way holds the lock or the flight; who fetches     *)
(* under a lock has its request on the wire, so dropping it frees the lock   *)
(* of nobody else; a grant is no older than its request.                     *)
HoldersOnly ==
  \A c \in Callers :
    /\ req[c].st # "none" => holder = c
    /\ pc[c] = "fetching" => sdk \notin Shared /\ OnTheWire(c)

IInv ==
  /\ TypeOK /\ HoldersOnly
  /\ \A c \in Callers : req[c].since <= req[c].spent

LEMMA InitIInv == Init => IInv
<1> SUFFICES ASSUME Init PROVE IInv
  OBVIOUS
<1>1. \A c \in Callers : req[c] = NoReq /\ req[c] \in Request
  BY Sent DEF Init
<1>2. TypeOK
  BY <1>1, TokenCacheAssumption DEF Init, TypeOK, Request, Outcomes
<1>3. HoldersOnly
  BY <1>1, Sent DEF Init, HoldersOnly
<1>4. \A c \in Callers : req[c].since <= req[c].spent
  BY <1>1 DEF NoReq
<1> QED
  BY <1>2, <1>3, <1>4 DEF IInv

(* A caller looks at the cache, joins, waits, or gives up waiting.           *)
LEMMA CallerMoves ==
  ASSUME IInv, NEW c \in Callers, pc[c] # "fetching", NEW next \in Outcomes \cup {"calling", "missed", "waiting"},
         pc' = [pc EXCEPT ![c] = next], UNCHANGED <<sdk, cache, req, holder>>
  PROVE  IInv'
<1>1. TypeOK'
  BY DEF IInv, TypeOK, cache
<1>2. next # "fetching"
  BY DEF Outcomes
<1>3. HoldersOnly'
  BY <1>2 DEF IInv, TypeOK, HoldersOnly, OnTheWire
<1> QED
  BY <1>1, <1>3 DEF IInv

(* A request is sent while nobody holds the lock or the flight.              *)
LEMMA RequestSent ==
  ASSUME IInv, NEW c \in Callers, holder = NoCaller, NEW next, Send(c, next),
         \/ next = "waiting"
         \/ next = "fetching" /\ sdk \notin Shared
  PROVE  IInv'
<1>1. \A d \in Callers : req[d].st = "none" /\ pc[d] # "fetching"
  BY TokenCacheAssumption DEF IInv, HoldersOnly, OnTheWire, TokenCacheAssumption
<1>2. req'[c] = [NoReq EXCEPT !.st = "sent"] /\ \A d \in Callers \ {c} : req'[d] = req[d]
  BY DEF Send, IInv, TypeOK
<1>3. TypeOK'
  <2>1. req' \in [Callers -> Request]
    BY Sent DEF Send, IInv, TypeOK, Request
  <2>2. QED
    BY <2>1 DEF Send, IInv, TypeOK, Request, cache
<1>4. HoldersOnly'
  BY <1>1, <1>2, Sent DEF Send, IInv, TypeOK, HoldersOnly, OnTheWire
<1>5. \A d \in Callers : req'[d].since <= req'[d].spent
  BY <1>2 DEF IInv, NoReq
<1> QED
  BY <1>3, <1>4, <1>5 DEF IInv

(* The request of c ends and the lock or the flight with it.                 *)
LEMMA RequestEnded ==
  ASSUME IInv, NEW c \in Callers, req[c].st # "none",
         req' = [req EXCEPT ![c] = NoReq], holder' = NoCaller, sdk' = sdk,
         left' \in Nat, valid' \in Nat, known' \in BOOLEAN,
         NEW outcome \in Outcomes,
         Tell(c, outcome) \/ pc' = [pc EXCEPT ![c] = outcome]
  PROVE  IInv'
<1>1. \A d \in Callers \ {c} : req[d].st = "none" /\ pc[d] # "fetching"
  BY TokenCacheAssumption DEF IInv, HoldersOnly, OnTheWire
<1>2. req'[c] = NoReq /\ \A d \in Callers \ {c} : req'[d] = req[d]
  BY DEF IInv, TypeOK
<1>3. req' \in [Callers -> Request]
  BY Sent DEF IInv, TypeOK, Request
<1>4. pc' \in [Callers -> Outcomes \cup {"calling", "missed", "waiting", "fetching"}]
  BY DEF Tell, IInv, TypeOK
<1>5. TypeOK'
  BY <1>3, <1>4 DEF IInv, TypeOK, Request
<1>6. pc'[c] # "fetching"
  <2>1. outcome # "fetching"
    BY DEF Outcomes
  <2>2. CASE pc' = [pc EXCEPT ![c] = outcome]
    BY <2>1, <2>2 DEF IInv, TypeOK
  <2>3. CASE Tell(c, outcome)
    <3>1. CASE sdk \in Shared
      BY <2>1, <2>3, <3>1 DEF Tell, Told, IInv, HoldersOnly
    <3>2. CASE sdk \notin Shared
      BY <2>1, <2>3, <3>2 DEF Tell, Told
    <3>3. QED
      BY <3>1, <3>2
  <2>4. QED
    BY <2>2, <2>3
<1>7. \A d \in Callers \ {c} : pc'[d] # "fetching"
  BY <1>1 DEF Tell, Told, IInv, TypeOK, Outcomes
<1>8. HoldersOnly'
  BY <1>1, <1>2, <1>6, <1>7, Sent DEF HoldersOnly
<1>9. \A d \in Callers : req'[d].since <= req'[d].spent
  BY <1>2 DEF IInv, NoReq
<1> QED
  BY <1>5, <1>8, <1>9 DEF IInv

LEMMA GrantKeepsIInv ==
  ASSUME IInv, NEW c \in Callers, Grant(c)
  PROVE  IInv'
<1>0. PICK life \in Lifetimes : \E stated \in {life, Unknown} :
        req' = [req EXCEPT ![c] = [req[c] EXCEPT !.st = "granted", !.real = life, !.stated = stated]]
  BY DEF Grant
<1>1. PICK stated \in {life, Unknown} :
        req' = [req EXCEPT ![c] = [req[c] EXCEPT !.st = "granted", !.real = life, !.stated = stated]]
  BY <1>0
<1>2. req[c] \in Request /\ req \in [Callers -> Request]
  BY DEF IInv, TypeOK, Request
<1> DEFINE r == [req[c] EXCEPT !.st = "granted", !.real = life, !.stated = stated]
<1>3. r \in Request /\ r.st = "granted"
  BY <1>2, Granted
<1>4. r.since = req[c].since /\ r.spent = req[c].spent
  BY <1>2 DEF Request
<1>5. req'[c] = r /\ \A d \in Callers \ {c} : req'[d] = req[d]
  BY <1>1, <1>2
<1>6. req' \in [Callers -> Request]
  BY <1>1, <1>2, <1>3
<1> HIDE DEF r
<1>7. TypeOK'
  BY <1>6 DEF Grant, IInv, TypeOK, Request, cache
<1>8. HoldersOnly'
  BY <1>3, <1>5 DEF Grant, IInv, HoldersOnly, OnTheWire
<1>9. \A d \in Callers : req'[d].since <= req'[d].spent
  BY <1>4, <1>5 DEF IInv
<1> QED
  BY <1>7, <1>8, <1>9 DEF IInv

LEMMA LandKeepsIInv ==
  ASSUME IInv, NEW c \in Callers, Land(c)
  PROVE  IInv'
<1>1. req[c] \in Request /\ req \in [Callers -> Request] /\ req[c].st = "granted"
  BY DEF Land, IInv, TypeOK, Request
<1>2. left' \in Nat /\ valid' \in Nat /\ known' \in BOOLEAN
  <2>1. req[c].stated \in Nat /\ req[c].spent \in Nat /\ req[c].real \in Nat /\ req[c].since \in Nat
    <3>1. Lifetimes \in SUBSET Nat /\ FetchMax \in Nat
      BY TokenCacheAssumption DEF TokenCacheAssumption
    <3>2. /\ req[c].stated \in Lifetimes \cup {Unknown} /\ req[c].real \in Lifetimes \cup {0}
          /\ req[c].spent \in 0..FetchMax /\ req[c].since \in 0..FetchMax
      BY <1>1 DEF Request
    <3>3. req[c].stated \in Nat /\ req[c].real \in Nat
      BY <3>1, <3>2, 0 \in Nat, Zenon DEF Unknown
    <3>4. req[c].spent \in Nat /\ req[c].since \in Nat
      BY <3>1, <3>2, SMT
    <3>5. QED
      BY <3>3, <3>4
  <2>2. QED
    BY <2>1, ExpiryIsNat DEF Land, Larger
<1>3. CASE sdk = "go"
  <2>1. req' = [req EXCEPT ![c] = [NoReq EXCEPT !.st = "landed"]] /\ UNCHANGED <<sdk, holder, pc>>
    BY <1>3 DEF Land
  <2>2. req' \in [Callers -> Request]
    BY <1>1, <2>1, Sent
  <2>3. TypeOK'
    BY <1>2, <2>1, <2>2 DEF IInv, TypeOK, Request
  <2>4. \A d \in Callers : pc[d] # "fetching"
    BY <1>3 DEF IInv, HoldersOnly, Shared
  <2>5. HoldersOnly'
    BY <1>1, <2>1, <2>4 DEF IInv, HoldersOnly
  <2>6. \A d \in Callers : req'[d].since <= req'[d].spent
    BY <1>1, <2>1 DEF IInv, NoReq
  <2>7. QED
    BY <2>3, <2>5, <2>6 DEF IInv
<1>4. CASE sdk # "go"
  BY <1>1, <1>2, <1>4, RequestEnded DEF Land, Outcomes
<1> QED
  BY <1>3, <1>4

LEMMA TickKeepsIInv ==
  ASSUME IInv, Tick
  PROVE  IInv'
<1>1. \A c \in Callers : req[c] \in Request /\ req'[c] = Older(req[c])
  BY DEF Tick, IInv, TypeOK, Request
<1>2. \A c \in Callers : req'[c] \in Request /\ req'[c].st = req[c].st /\ req'[c].since <= req'[c].spent
  BY <1>1, OlderRequest DEF Tick, IInv, OnTheWire
<1>3. left' \in Nat /\ valid' \in Nat
  BY DEF Tick, IInv, TypeOK, Larger
<1>4. TypeOK'
  BY <1>1, <1>2, <1>3 DEF Tick, IInv, TypeOK, Request
<1>5. HoldersOnly'
  BY <1>2 DEF Tick, IInv, HoldersOnly, OnTheWire
<1> QED
  BY <1>2, <1>4, <1>5 DEF IInv

LEMMA NextKeepsIInv == IInv /\ [Next]_vars => IInv'
<1> SUFFICES ASSUME IInv, [Next]_vars PROVE IInv'
  OBVIOUS
<1>1. ASSUME NEW c \in Callers, Call(c) \/ HitCache(c) \/ MissCache(c) \/ FindUnderLock(c) \/ JoinFlight(c) \/ GiveUp(c)
      PROVE  IInv'
  <2>1. pc[c] # "fetching"
    BY <1>1 DEF Call, HitCache, MissCache, FindUnderLock, JoinFlight, GiveUp, At, Locks, Missed, Outcomes
  <2>2. /\ UNCHANGED <<sdk, cache, req, holder>>
        /\ \E next \in Outcomes \cup {"calling", "missed", "waiting"} : pc' = [pc EXCEPT ![c] = next]
    BY <1>1 DEF Call, HitCache, MissCache, FindUnderLock, JoinFlight, GiveUp, At, Outcomes
  <2>3. QED
    BY <2>1, <2>2, CallerMoves
<1>2. ASSUME NEW c \in Callers, RequestUnderLock(c) \/ StartFlight(c) PROVE IInv'
  BY <1>2, RequestSent DEF RequestUnderLock, StartFlight, Locks
<1>3. ASSUME NEW c \in Callers, Grant(c) PROVE IInv'
  BY <1>3, GrantKeepsIInv
<1>4. ASSUME NEW c \in Callers, Land(c) PROVE IInv'
  BY <1>4, LandKeepsIInv
<1>5. ASSUME NEW c \in Callers, Deliver(c) \/ Refuse(c) PROVE IInv'
  <2>1. UNCHANGED <<left, valid, known>> /\ left \in Nat /\ valid \in Nat /\ known \in BOOLEAN
    BY <1>5 DEF Deliver, Refuse, cache, IInv, TypeOK
  <2>2. QED
    BY <1>5, <2>1, RequestEnded DEF Deliver, Refuse, Outcomes
<1>6. ASSUME NEW c \in Callers, Drop(c) PROVE IInv'
  <2>1. UNCHANGED <<left, valid, known>> /\ left \in Nat /\ valid \in Nat /\ known \in BOOLEAN
    BY <1>6 DEF Drop, cache, IInv, TypeOK
  <2>2. req[c].st # "none"
    BY <1>6 DEF Drop, At, IInv, HoldersOnly, OnTheWire
  <2>3. QED
    BY <1>6, <2>1, <2>2, RequestEnded DEF Drop, At, Outcomes
<1>7. CASE Tick
  BY <1>7, TickKeepsIInv
<1>8. CASE UNCHANGED vars
  BY <1>8 DEF vars, IInv, TypeOK, HoldersOnly, OnTheWire
<1> QED
  BY <1>1, <1>2, <1>3, <1>4, <1>5, <1>6, <1>7, <1>8 DEF Next, GetToken, Settle

LEMMA Inductive == Spec => []IInv
BY InitIInv, NextKeepsIInv, PTL DEF Spec

(* The state of every token provider keeps its types: in particular no       *)
(* clock arithmetic of an expiry goes below zero.                            *)
THEOREM TypeCorrect == Spec => []TypeOK
<1>1. IInv => TypeOK
  BY DEF IInv
<1> QED
  BY <1>1, Inductive, PTL

(* Whatever the SDK and the number of callers, and however they fail or are  *)
(* cancelled, the token endpoint is asked once at a time (getAccessToken).   *)
THEOREM RequestsAreExclusive == Spec => []OneRequestAtATime
<1>1. IInv => OneRequestAtATime
  BY DEF IInv, HoldersOnly, OnTheWire, OneRequestAtATime
<1> QED
  BY <1>1, Inductive, PTL

(* A request goes out only when no usable token is cached, except from Go's  *)
(* flight: the second look under the lock, and Node's event loop, leave no   *)
(* room between the last look at the cache and the request.                  *)
THEOREM RequestsAreNeeded == Spec => NoNeedlessRequest
<1> DEFINE Needed == \A c \in Callers : ~OnTheWire(c) /\ OnTheWire(c)' /\ sdk # "go" => ~Served
<1>1. ASSUME IInv, [Next]_vars PROVE [Needed]_vars
  <2> SUFFICES ASSUME NEW c \in Callers, ~OnTheWire(c), OnTheWire(c)', sdk # "go"
               PROVE  ~Served
    BY DEF Needed
  <2>1. req[c] \in Request /\ req \in [Callers -> Request] /\ req[c].st \notin {"sent", "granted"}
    BY <1>1 DEF IInv, TypeOK, Request, OnTheWire
  <2>2. req'[c] # req[c]
    BY <2>1 DEF OnTheWire
  <2>3. req'[c] # NoReq
    BY Sent DEF OnTheWire
  <2>4. ASSUME NEW d \in Callers, RequestUnderLock(d) \/ StartFlight(d) PROVE ~Served
    BY <2>4 DEF RequestUnderLock, StartFlight, Shared
  <2>5. ASSUME NEW d \in Callers, Grant(d) PROVE FALSE
    <3>1. d # c
      BY <2>1, <2>5 DEF Grant
    <3>2. QED
      BY <2>1, <2>2, <2>5, <3>1 DEF Grant
  <2>6. ASSUME NEW d \in Callers, Land(d) \/ Deliver(d) \/ Refuse(d) \/ Drop(d) PROVE FALSE
    <3>1. req' = [req EXCEPT ![d] = NoReq]
      BY <2>6 DEF Land, Deliver, Refuse, Drop
    <3>2. QED
      BY <2>1, <2>2, <2>3, <3>1
  <2>7. ASSUME NEW d \in Callers,
               Call(d) \/ HitCache(d) \/ MissCache(d) \/ FindUnderLock(d) \/ JoinFlight(d) \/ GiveUp(d)
        PROVE  FALSE
    BY <2>2, <2>7 DEF Call, HitCache, MissCache, FindUnderLock, JoinFlight, GiveUp
  <2>8. CASE Tick
    BY <2>1, <2>2, <2>8 DEF Tick, Older
  <2>9. CASE UNCHANGED vars
    BY <2>2, <2>9 DEF vars
  <2> QED
    BY <1>1, <2>4, <2>5, <2>6, <2>7, <2>8, <2>9 DEF Next, GetToken, Settle
<1> QED
  BY <1>1, Inductive, PTL DEF Spec, NoNeedlessRequest

-----------------------------------------------------------------------------
(* Why a cached token is valid: a lifetime the realm stated is the one it   *)
(* granted, and what is left of a stated lifetime, plus the skew, is what   *)
(* the realm still honours, plus one exchange where the SDK counts from the *)
(* response.                                                                *)
Trip       == IF sdk \in {"java", "kotlin"} THEN 0 ELSE FetchMax
StatedTrue == \A c \in Callers : req[c].stated # Unknown => req[c].stated = req[c].real
SkewKept   == known /\ Served => valid + Trip >= left + Skew
ValidInv   == StatedTrue /\ SkewKept

LEMMA OlderStated ==
  ASSUME NEW r \in Request
  PROVE  Older(r).stated = r.stated /\ Older(r).real = r.real
BY DEF Older, Request

LEMMA GrantedStated ==
  ASSUME NEW r \in Request, NEW life, NEW stated
  PROVE  LET u == [r EXCEPT !.st = "granted", !.real = life, !.stated = stated]
         IN  u.stated = stated /\ u.real = life
BY DEF Request

LEMMA NoReqStated == NoReq.stated = Unknown /\ [NoReq EXCEPT !.st = "sent"].stated = Unknown
                     /\ [NoReq EXCEPT !.st = "landed"].stated = Unknown
BY DEF NoReq

LEMMA StatedStep ==
  ASSUME IInv, StatedTrue, [Next]_vars
  PROVE  StatedTrue'
<1>1. req \in [Callers -> Request]
  BY DEF IInv, TypeOK, Request
<1>2. ASSUME NEW d \in Callers, NEW r, req' = [req EXCEPT ![d] = r], r.stated # Unknown => r.stated = r.real
      PROVE  StatedTrue'
  BY <1>1, <1>2 DEF StatedTrue
<1>3. ASSUME NEW d \in Callers, Grant(d) PROVE StatedTrue'
  <2>0. PICK life \in Lifetimes : \E stated \in {life, Unknown} :
          req' = [req EXCEPT ![d] = [req[d] EXCEPT !.st = "granted", !.real = life, !.stated = stated]]
    BY <1>3 DEF Grant
  <2>1. PICK stated \in {life, Unknown} :
          req' = [req EXCEPT ![d] = [req[d] EXCEPT !.st = "granted", !.real = life, !.stated = stated]]
    BY <2>0
  <2> DEFINE r == [req[d] EXCEPT !.st = "granted", !.real = life, !.stated = stated]
  <2>2. r.stated = stated /\ r.real = life
    BY <1>1, GrantedStated
  <2> HIDE DEF r
  <2>3. req' = [req EXCEPT ![d] = r] /\ (r.stated # Unknown => r.stated = r.real)
    BY <2>1, <2>2 DEF r
  <2> QED
    BY <1>2, <2>3
<1>4. ASSUME NEW d \in Callers, Land(d) \/ Deliver(d) \/ Refuse(d) \/ Drop(d) PROVE StatedTrue'
  BY <1>2, <1>4, NoReqStated DEF Land, Deliver, Refuse, Drop
<1>5. ASSUME NEW d \in Callers, RequestUnderLock(d) \/ StartFlight(d) PROVE StatedTrue'
  BY <1>2, <1>5, NoReqStated DEF RequestUnderLock, StartFlight, Send
<1>6. CASE Tick
  BY <1>1, <1>6, OlderStated DEF Tick, StatedTrue
<1>7. CASE UNCHANGED req
  BY <1>7 DEF StatedTrue
<1> QED
  BY <1>3, <1>4, <1>5, <1>6, <1>7 DEF Next, GetToken, Settle, Call, HitCache, MissCache, FindUnderLock,
     JoinFlight, GiveUp, vars

(* The skew pays for the trip of the response, or the trip is counted.      *)
LEMMA CountedFromRequest ==
  ASSUME NEW life \in Nat, NEW spent \in 0..FetchMax, NEW since \in 0..FetchMax, since <= spent,
         NEW honoured \in Int, honoured >= life - since
  PROVE  honoured + 0 >= (life - spent - Skew) + Skew
BY TokenCacheAssumption DEF TokenCacheAssumption

LEMMA CountedFromArrival ==
  ASSUME NEW life \in Nat, NEW since \in 0..FetchMax, NEW honoured \in Int, honoured >= life - since
  PROVE  honoured + FetchMax >= (life - Skew) + Skew
BY TokenCacheAssumption DEF TokenCacheAssumption

LEMMA LandKeepsSkew ==
  ASSUME IInv, StatedTrue, NEW c \in Callers, Land(c)
  PROVE  SkewKept'
<1> DEFINE stated == req[c].stated
           spent == req[c].spent
           since == req[c].since
           real == req[c].real
<1>1. req[c] \in Request
  BY DEF IInv, TypeOK, Request
<1>2. /\ spent \in 0..FetchMax /\ since \in 0..FetchMax /\ since <= spent
      /\ stated # Unknown => stated = real /\ real \in Nat
  <2>1. stated # Unknown => stated \in Lifetimes /\ stated = real
    BY <1>1 DEF Request, StatedTrue
  <2>2. Lifetimes \in SUBSET Nat
    BY TokenCacheAssumption DEF TokenCacheAssumption
  <2> QED
    BY <1>1, <2>1, <2>2 DEF IInv, Request
<1>3. /\ left' = Expiry(stated, spent) /\ valid' = Larger(real - since, 0)
      /\ known' = (stated # Unknown) /\ sdk' = sdk
  BY DEF Land
<1> HIDE DEF stated, spent, since, real
<1>4. FetchMax \in Nat /\ Skew \in Nat
  BY TokenCacheAssumption DEF TokenCacheAssumption
<1> SUFFICES ASSUME stated # Unknown, left' > 0 PROVE valid' + Trip' >= left' + Skew
  BY <1>3 DEF SkewKept, Served
<1>5. stated = real /\ real \in Nat
  BY <1>2
<1>6. valid' \in Int /\ valid' >= real - since
  BY <1>2, <1>3, <1>5 DEF Larger
<1>7. CASE sdk \in {"java", "kotlin"}
  <2>1. left' = real - spent - Skew
    BY <1>2, <1>3, <1>4, <1>5, <1>7 DEF Expiry, FromRequest, Larger
  <2>2. Trip' = 0
    BY <1>3, <1>7 DEF Trip
  <2> QED
    BY <1>2, <1>4, <1>5, <1>6, <2>1, <2>2, CountedFromRequest
<1>8. CASE sdk \notin {"java", "kotlin"}
  <2>1. Expiry(stated, spent) = FromArrival(real)
    BY <1>5, <1>8 DEF Expiry, RubyExpiry
  <2>2. left' = real - Skew
    BY <1>3, <1>4, <1>5, <2>1 DEF FromArrival, Larger
  <2>3. Trip' = FetchMax
    BY <1>3, <1>8 DEF Trip
  <2> QED
    BY <1>2, <1>4, <1>5, <1>6, <2>2, <2>3, CountedFromArrival
<1> QED
  BY <1>7, <1>8

LEMMA ValidStep == IInv /\ ValidInv /\ [Next]_vars => ValidInv'
<1> SUFFICES ASSUME IInv, ValidInv, [Next]_vars PROVE ValidInv'
  OBVIOUS
<1>1. StatedTrue'
  BY StatedStep DEF ValidInv
<1>2. ASSUME NEW c \in Callers, Land(c) PROVE SkewKept'
  BY <1>2, LandKeepsSkew DEF ValidInv
<1>3. ASSUME Tick PROVE SkewKept'
  <2>1. /\ left' = Larger(left - 1, 0) /\ valid' = Larger(valid - 1, 0) /\ UNCHANGED <<sdk, known>>
        /\ left \in Nat /\ valid \in Nat /\ Trip \in Nat /\ Skew \in Nat
    BY <1>3, TokenCacheAssumption DEF Tick, IInv, TypeOK, Trip, TokenCacheAssumption
  <2>2. Trip' = Trip
    BY <2>1 DEF Trip
  <2> QED
    BY <2>1, <2>2 DEF ValidInv, SkewKept, Served, Larger
<1>4. ASSUME UNCHANGED <<sdk, cache>> PROVE SkewKept'
  BY <1>4 DEF ValidInv, SkewKept, Served, Trip, cache
<1>5. SkewKept'
  BY <1>2, <1>3, <1>4 DEF Next, GetToken, Settle, Call, HitCache, MissCache, FindUnderLock, RequestUnderLock,
     StartFlight, JoinFlight, Send, Grant, Refuse, Deliver, GiveUp, Drop, vars, cache
<1> QED
  BY <1>1, <1>5 DEF ValidInv

(* Whatever the SDK, a token handed out of the cache is one the realm still *)
(* accepts for the clock skew, less one exchange where the lifetime is      *)
(* counted from the response.                                               *)
THEOREM TokensAreValid == Spec => CachedTokensAreValid
<1>1. Init => ValidInv
  <2>1. ASSUME Init, NEW c \in Callers PROVE req[c] = NoReq
    BY <2>1 DEF Init
  <2> QED
    BY <2>1, NoReqStated DEF Init, ValidInv, StatedTrue, SkewKept, Served
<1>2. ASSUME IInv, ValidInv, NEW c \in Callers, HitCache(c) \/ FindUnderLock(c), known
      PROVE  valid + (IF sdk \in {"java", "kotlin"} THEN 0 ELSE FetchMax) > Skew
  <2>1. Served /\ left \in Nat /\ valid \in Nat /\ Skew \in Nat /\ Trip \in Nat
    BY <1>2, TokenCacheAssumption DEF HitCache, FindUnderLock, IInv, TypeOK, Trip, TokenCacheAssumption
  <2>2. valid + Trip >= left + Skew
    BY <1>2, <2>1 DEF ValidInv, SkewKept
  <2>3. valid + Trip > Skew
    BY <2>1, <2>2 DEF Served
  <2> QED
    BY <2>3 DEF Trip
<1>3. IInv /\ ValidInv /\ [Next]_vars =>
        [\A c \in Callers :
           (HitCache(c) \/ FindUnderLock(c)) /\ known =>
             valid + (IF sdk \in {"java", "kotlin"} THEN 0 ELSE FetchMax) > Skew]_vars
  BY <1>2
<1> QED
  BY <1>1, <1>3, ValidStep, Inductive, PTL DEF Spec, CachedTokensAreValid

=============================================================================
