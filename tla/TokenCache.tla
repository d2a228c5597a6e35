----------------------------- MODULE TokenCache -----------------------------
(***************************************************************************)
(* The service token of an admin client, cached by eight SDKs (the Python  *)
(* SDK leaves it to python-keycloak).  One contract: reuse the token until *)
(* the clock skew before its expiry, then let concurrent callers cost one  *)
(* request.  Three designs keep it: a lock held across the request and the *)
(* cache read again under it; one flight that every caller joins (Go,      *)
(* Node); and PHP, where a process runs one call after the other.          *)
(* The variable sdk says which implementation runs; it never changes.      *)
(***************************************************************************)
EXTENDS Integers, FiniteSets

CONSTANTS
  Callers, NoCaller,  \* callers of the provider; the holder of no lock or flight
  Skew,               \* clockSkew of the configuration
  Lifetimes,          \* the lifetimes the realm grants
  FetchMax,           \* the read timeout of a token request
  Fallback            \* what Ruby assumes of a token without expires_in

Unknown == 0          \* a token response without expires_in

ASSUME TokenCacheAssumption ==
  /\ NoCaller \notin Callers
  /\ Skew \in Nat /\ FetchMax \in Nat \ {0} /\ Fallback \in Nat
  /\ Lifetimes \in SUBSET (Nat \ {0}) /\ IsFiniteSet(Lifetimes)

SDKs   == {"go", "node", "java", "kotlin", "dotnet", "rust", "ruby", "php"}
Shared == {"go", "node"}                   \* callers join one flight
Fast   == {"go", "java", "kotlin", "dotnet"} \* the cache is read before the lock or the flight
Drops  == {"kotlin", "dotnet", "rust"}     \* a cancelled caller drops its own request

VARIABLES
  sdk,
  left, valid, known, \* the cached token: time until the SDK drops it (0: none), until the
                      \* realm does (history), and whether its expiry was stated (history)
  req,                \* per caller: the request it started
  holder,             \* who holds the lock, or started the flight in progress
  pc                  \* per caller: where it is, or its outcome

cache == <<left, valid, known>>
vars  == <<sdk, left, valid, known, req, holder, pc>>

Outcomes == {"idle", "token", "failed", "gave_up"}
NoReq    == [st |-> "none", spent |-> 0, since |-> 0, real |-> 0, stated |-> Unknown]
Larger(a, b) == IF a > b THEN a ELSE b

Served == left > 0

(* How long a granted token will be reused.  Go, Node, .NET, Rust and PHP   *)
(* count from the response; the JVM SDKs from before the request; Ruby      *)
(* gives a token without expires_in a minute from before the request.       *)
FromArrivalUnskewed(stated) == stated           \* mutant: the skew is forgotten
FromArrival(stated) == Larger(stated - Skew, 0)
FromRequest(stated, spent) == Larger(stated - spent - Skew, 0)
RubyExpiry(stated, spent) ==
  IF stated = Unknown THEN Larger(Fallback - spent, 0) ELSE FromArrival(stated)

Expiry(stated, spent) ==
  CASE sdk \in {"java", "kotlin"} -> FromRequest(stated, spent)
    [] sdk = "ruby"               -> RubyExpiry(stated, spent)
    [] OTHER                      -> FromArrival(stated)

Init ==
  /\ sdk \in SDKs
  /\ left = 0 /\ valid = 0 /\ known = TRUE
  /\ req = [c \in Callers |-> NoReq] /\ holder = NoCaller
  /\ pc = [c \in Callers |-> "idle"]

-----------------------------------------------------------------------------
At(c, here, there) == pc[c] = here /\ pc' = [pc EXCEPT ![c] = there]

Call(c) ==
  /\ pc[c] \in Outcomes
  /\ sdk = "php" => \A d \in Callers : pc[d] \in Outcomes
  /\ pc' = [pc EXCEPT ![c] = "calling"]
  /\ UNCHANGED <<sdk, cache, req, holder>>

(* The first look at the cache.  On Node's event loop and under the locks of *)
(* Rust and Ruby nothing runs between it and the decision that follows.      *)
HitCache(c) ==
  /\ sdk \in Fast \cup {"node"} /\ Served
  /\ At(c, "calling", "token")
  /\ UNCHANGED <<sdk, cache, req, holder>>

MissCache(c) ==
  /\ sdk \in Fast /\ ~Served
  /\ At(c, "calling", "missed")
  /\ UNCHANGED <<sdk, cache, req, holder>>

Missed(c) == pc[c] = (IF sdk \in Fast THEN "missed" ELSE "calling")

Send(c, next) ==
  /\ req' = [req EXCEPT ![c] = [NoReq EXCEPT !.st = "sent"]]
  /\ holder' = c
  /\ pc' = [pc EXCEPT ![c] = next]
  /\ UNCHANGED <<sdk, cache>>

(* The locked SDKs: the cache is read again under the lock. *)
Locks(c) == sdk \notin Shared /\ Missed(c) /\ holder = NoCaller

FindUnderLock(c) ==
  /\ Locks(c) /\ Served
  /\ pc' = [pc EXCEPT ![c] = "token"]
  /\ UNCHANGED <<sdk, cache, req, holder>>

RequestUnchecked(c) == Locks(c) /\ Send(c, "fetching")  \* mutant: no second look
RequestUnderLock(c) == Locks(c) /\ ~Served /\ Send(c, "fetching")

(* Go and Node: start the flight, or join it.  Go does not look at the cache *)
(* again: a caller that missed before the last flight landed starts another. *)
StartAnyway(c) ==                          \* mutant: the flight in progress is not looked at
  /\ sdk \in Shared /\ Missed(c) /\ (sdk = "node" => ~Served)
  /\ Send(c, "waiting")
StartFlight(c) ==
  /\ sdk \in Shared /\ Missed(c) /\ (sdk = "node" => ~Served)
  /\ holder = NoCaller
  /\ Send(c, "waiting")

JoinFlight(c) ==
  /\ sdk \in Shared /\ Missed(c) /\ (sdk = "node" => ~Served)
  /\ holder # NoCaller
  /\ pc' = [pc EXCEPT ![c] = "waiting"]
  /\ UNCHANGED <<sdk, cache, req, holder>>

-----------------------------------------------------------------------------
(* The realm grants a token; the response may not state its lifetime. *)
Grant(c) ==
  /\ req[c].st = "sent"
  /\ \E life \in Lifetimes : \E stated \in {life, Unknown} :
       req' = [req EXCEPT ![c] = [@ EXCEPT !.st = "granted", !.real = life, !.stated = stated]]
  /\ UNCHANGED <<sdk, cache, holder, pc>>

(* Who is told how the request of c ended. *)
Told(c) == IF sdk \in Shared THEN {d \in Callers : pc[d] = "waiting"} ELSE {c}
Tell(c, outcome) == pc' = [d \in Callers |-> IF d \in Told(c) THEN outcome ELSE pc[d]]

(* The response is here: the token is cached.  Go's flight is still joined   *)
(* until its result is delivered; elsewhere the two are one step.            *)
Land(c) ==
  /\ req[c].st = "granted"
  /\ left' = Expiry(req[c].stated, req[c].spent)
  /\ valid' = Larger(req[c].real - req[c].since, 0) /\ known' = (req[c].stated # Unknown)
  /\ IF sdk = "go"
     THEN req' = [req EXCEPT ![c] = [NoReq EXCEPT !.st = "landed"]] /\ UNCHANGED <<holder, pc>>
     ELSE req' = [req EXCEPT ![c] = NoReq] /\ holder' = NoCaller /\ Tell(c, "token")
  /\ UNCHANGED sdk

Deliver(c) ==
  /\ req[c].st = "landed"
  /\ req' = [req EXCEPT ![c] = NoReq] /\ holder' = NoCaller /\ Tell(c, "token")
  /\ UNCHANGED <<sdk, cache>>

(* The request fails, times out, or brings a token that cannot be sent; the  *)
(* failure is not cached.                                                    *)
RefuseKeepingFlight(c) ==                  \* mutant: the failed flight stays registered
  /\ req[c].st \in {"sent", "granted"}
  /\ req' = [req EXCEPT ![c] = NoReq] /\ Tell(c, "failed")
  /\ UNCHANGED <<sdk, cache, holder>>
Refuse(c) ==
  /\ req[c].st \in {"sent", "granted"}
  /\ req' = [req EXCEPT ![c] = NoReq] /\ holder' = NoCaller /\ Tell(c, "failed")
  /\ UNCHANGED <<sdk, cache>>

(* A caller is cancelled.  In Go the flight goes on without it; under a lock *)
(* its own request goes with it and the lock is free again.                  *)
GiveUp(c) ==
  /\ \/ sdk = "go" /\ pc[c] \in {"missed", "waiting"}
     \/ sdk \in Drops /\ Missed(c)
  /\ pc' = [pc EXCEPT ![c] = "gave_up"]
  /\ UNCHANGED <<sdk, cache, req, holder>>

Drop(c) ==
  /\ sdk \in Drops /\ At(c, "fetching", "gave_up")
  /\ req' = [req EXCEPT ![c] = NoReq] /\ holder' = NoCaller
  /\ UNCHANGED <<sdk, cache>>

OnTheWire(c) == req[c].st \in {"sent", "granted"}

Older(r) ==
  CASE r.st = "sent"    -> [r EXCEPT !.spent = @ + 1]
    [] r.st = "granted" -> [r EXCEPT !.spent = @ + 1, !.since = @ + 1]
    [] OTHER            -> r

Tick ==
  /\ \A c \in Callers : OnTheWire(c) => req[c].spent < FetchMax
  /\ left' = Larger(left - 1, 0) /\ valid' = Larger(valid - 1, 0)
  /\ req' = [c \in Callers |-> Older(req[c])]
  /\ UNCHANGED <<sdk, known, holder, pc>>

GetToken(c) ==
  \/ HitCache(c) \/ MissCache(c) \/ FindUnderLock(c) \/ RequestUnderLock(c)
  \/ StartFlight(c) \/ JoinFlight(c)
Settle(c) == Grant(c) \/ Land(c) \/ Refuse(c)

Next ==
  \/ \E c \in Callers : Call(c) \/ GetToken(c) \/ Settle(c) \/ Deliver(c) \/ GiveUp(c) \/ Drop(c)
  \/ Tick

(* Threads, tasks and callbacks that can run do so, nobody is passed over at *)
(* the lock for ever, the read timeout ends every request, and time passes.  *)
Fairness ==
  /\ \A c \in Callers : SF_vars(GetToken(c)) /\ WF_vars(Settle(c)) /\ WF_vars(Deliver(c))
  /\ WF_vars(Tick)

Spec     == Init /\ [][Next]_vars
FairSpec == Spec /\ Fairness

-----------------------------------------------------------------------------
TypeOK ==
  /\ sdk \in SDKs
  /\ left \in Nat /\ valid \in Nat /\ known \in BOOLEAN
  /\ req \in [Callers -> [st : {"none", "sent", "granted", "landed"}, spent : 0..FetchMax,
                          since : 0..FetchMax, real : Lifetimes \cup {0}, stated : Lifetimes \cup {Unknown}]]
  /\ holder \in Callers \cup {NoCaller}
  /\ pc \in [Callers -> Outcomes \cup {"calling", "missed", "waiting", "fetching"}]

(* Concurrent callers cost one token request at a time, whichever of them    *)
(* fail or are cancelled meanwhile (the single flight of every provider).    *)
OneRequestAtATime == \A c, d \in Callers : OnTheWire(c) /\ OnTheWire(d) => c = d

(* While a usable token is cached no request is sent, also by a caller that  *)
(* missed and then waited for another's request.  Only Go may send one, for  *)
(* a caller that missed before the token landed: Token does not read the     *)
(* cache again inside the flight, as Client.Admin does.                      *)
NoNeedlessRequest ==
  [][\A c \in Callers : ~OnTheWire(c) /\ OnTheWire(c)' /\ sdk # "go" => ~Served]_vars

(* What the cache hands out the realm still accepts for the clock skew, less *)
(* one exchange where the SDK counts from the response, provided the realm   *)
(* stated the lifetime: the skew pays for the trip of the response.          *)
CachedTokensAreValid ==
  [][\A c \in Callers :
       (HitCache(c) \/ FindUnderLock(c)) /\ known =>
         valid + (IF sdk \in {"java", "kotlin"} THEN 0 ELSE FetchMax) > Skew]_vars

(* Every call comes back. *)
EveryCallReturns == \A c \in Callers : pc[c] \notin Outcomes ~> pc[c] \in Outcomes

(* Every call comes back; and once requests stop failing, a caller that keeps *)
(* asking and is not cancelled is given a token: no failure, and no other    *)
(* caller's cancellation, leaves the cache without one.                      *)
Healthy    == [][\A c \in Callers : ~Refuse(c)]_vars
Patient(c) == [][~GiveUp(c) /\ ~Drop(c)]_vars

Recovers ==
  /\ EveryCallReturns
  /\ \A c \in Callers : <>Healthy /\ <>Patient(c) /\ []<>(pc[c] = "calling") => []<>(pc[c] = "token")
=============================================================================
