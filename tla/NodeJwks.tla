------------------------------ MODULE NodeJwks ------------------------------
(***************************************************************************)
(* The JWKS key store of the Node SDK (jwt.ts).  The SDK wraps jose's      *)
(* remote key set twice: around each lookup, to refuse while the backoff   *)
(* of a failed fetch runs, and inside jose's fetch, where the window of    *)
(* forced refetches is kept.  jose itself shares one fetch between all     *)
(* lookups that need it; it is modelled from what jwt.ts says of it.       *)
(* JavaScript runs one callback at a time: whoever waits for a fetch is    *)
(* resumed before the loop takes the next event.                           *)
(***************************************************************************)
EXTENDS Backoff

CONSTANTS
  Callers,      \* asynchronous calls of validate
  Kids, NoKid,  \* key ids, and that of a call that has returned
  Lifetime,     \* JWKS_MAX_AGE_SECONDS
  MinRefetch,   \* jwksMinRefetchSeconds
  FetchMax,     \* the deadline of one exchange (timeoutDuration)
  MaxFailures,  \* bound of the failure counter
  MaxRotations, \* bound of the key rotations explored
  Horizon,      \* how far back the history of the provider's key set reaches
  SlowImport    \* TRUE: time passes while jose imports a key it has found

ASSUME NodeAssumption ==
  /\ NoKid \notin Kids /\ SlowImport \in BOOLEAN
  /\ Lifetime \in Nat \ {0} /\ MinRefetch \in Nat \ {0} /\ FetchMax \in Nat \ {0}
  /\ MaxFailures \in Nat \ {0} /\ MaxRotations \in Nat /\ Horizon \in Nat

VARIABLES
  keys, age,         \* jose's local key set and its age
  attemptAge,        \* time since lastAttempt (MinRefetch: the window is over)
  failures, backoff, \* of withFetchFailureBackoff; backoff is what is left until retryAt
  fetch,             \* jose's pending fetch; "failed" until the first caller has seen it
  pc, kid,           \* per call: where it is in the lookup, or its outcome; its key id
  idp, since, rotations,  \* the provider's key ids, since when each is (not) published
  window,            \* history: how the last attempt ended
  rest,              \* history: what is left of the backoff of the last counted failure
  failed             \* history: fetches that failed since the counter was last reset

store  == <<keys, age>>
gates  == <<attemptAge, failures, backoff, window, rest, failed>>
calls  == <<pc, kid>>
server == <<idp, since, rotations>>
vars   == <<keys, age, attemptAge, failures, backoff, fetch, pc, kid, idp, since, rotations, window, rest, failed>>

Outcomes == {"idle", "accepted", "no_key", "backing_off", "fetch_failed"}
Loading  == {"first", "second"}                 \* awaits the fetch, before or after the lookup
Ready    == {"first_ready", "second_ready", "raised"}
NoFetch  == [st |-> "none", set |-> {}, age |-> 0]

Fresh      == age < Lifetime
WindowOver == attemptAge >= MinRefetch
LoopIdle   == \A c \in Callers : pc[c] \notin Ready
Pending    == fetch.st \in {"sent", "replied"}

Init ==
  /\ keys = {} /\ age = Lifetime /\ attemptAge = MinRefetch
  /\ failures = 0 /\ backoff = 0 /\ fetch = NoFetch
  /\ pc = [c \in Callers |-> "idle"] /\ kid = [c \in Callers |-> NoKid]
  /\ idp \in (SUBSET Kids) \ {{}} /\ since = [k \in Kids |-> Horizon] /\ rotations = 0
  /\ window = "none" /\ rest = 0 /\ failed = 0

-----------------------------------------------------------------------------
Become(c, k, state) == pc' = [pc EXCEPT ![c] = state] /\ kid' = [kid EXCEPT ![c] = k]
Return(c, outcome)  == Become(c, NoKid, outcome)

(* What the wrapper does with a lookup that found its key, or that failed   *)
(* while the set is fresh: the last load succeeded.                         *)
Forget == failures' = 0 /\ backoff' = 0 /\ failed' = 0

(* jose's reload: the pending fetch is shared; without one, the SDK's fetch *)
(* function decides: a fresh set is not fetched again inside the window.    *)
Join(c, k, stage) ==
  /\ Pending
  /\ Become(c, k, stage)
  /\ UNCHANGED <<store, gates, fetch, server>>

StartUnstamped(c, k, stage) ==   \* mutant: only a successful fetch opens the window
  /\ ~Pending /\ (Fresh => WindowOver)
  /\ window' = "running"
  /\ fetch' = [NoFetch EXCEPT !.st = "sent"]
  /\ Become(c, k, stage)
  /\ UNCHANGED <<store, attemptAge, failures, backoff, rest, failed, server>>

Start(c, k, stage) ==
  /\ ~Pending /\ (Fresh => WindowOver)
  /\ attemptAge' = 0 /\ window' = "running"
  /\ fetch' = [NoFetch EXCEPT !.st = "sent"]
  /\ Become(c, k, stage)
  /\ UNCHANGED <<store, failures, backoff, rest, failed, server>>

RefuseByWindow(c, k) ==
  /\ ~Pending /\ Fresh /\ ~WindowOver
  /\ Return(c, "no_key") /\ Forget
  /\ UNCHANGED <<store, attemptAge, window, rest, fetch, server>>

(* A lookup in a fresh set: the key found is imported, a key id that is not *)
(* there reloads the set.                                                   *)
LookUp(c, k) ==
  IF k \in keys THEN Become(c, k, "importing") /\ UNCHANGED <<store, gates, fetch, server>>
  ELSE Join(c, k, "second") \/ Start(c, k, "second") \/ RefuseByWindow(c, k)

RefuseBackingOff(c, k) ==
  /\ pc[c] \in Outcomes /\ LoopIdle /\ backoff > 0
  /\ Return(c, "backing_off")
  /\ UNCHANGED <<store, gates, fetch, server>>

MayLookUpAlways == TRUE      \* mutant: the lookup does not ask the backoff
MayLookUp == backoff = 0

Validate(c, k) ==
  /\ pc[c] \in Outcomes /\ LoopIdle /\ MayLookUp
  /\ IF Fresh THEN LookUp(c, k) ELSE Join(c, k, "first") \/ Start(c, k, "first")

(* Resumed after a successful fetch. *)
LookUpLoaded(c) ==
  /\ pc[c] = "first_ready"
  /\ LookUp(c, kid[c])

LookUpAgain(c) ==
  /\ pc[c] = "second_ready"
  /\ IF kid[c] \in keys
     THEN Become(c, kid[c], "importing") /\ UNCHANGED <<failures, backoff, failed>>
     ELSE Return(c, "no_key") /\ Forget
  /\ UNCHANGED <<store, attemptAge, window, rest, fetch, server>>

Imported(c) ==
  /\ pc[c] = "importing" /\ LoopIdle
  /\ Return(c, "accepted") /\ Forget
  /\ UNCHANGED <<store, attemptAge, window, rest, fetch, server>>

(* A failed fetch rejects every lookup that awaits it with the same error.  *)
(* It counts once, and only if there is no fresh set.                       *)
Forgiven(c) ==
  /\ pc[c] = "raised" /\ Fresh
  /\ Return(c, "fetch_failed") /\ Forget
  /\ fetch' = NoFetch
  /\ UNCHANGED <<store, attemptAge, window, rest, server>>

Counted(c) ==
  /\ pc[c] = "raised" /\ ~Fresh
  /\ Return(c, "fetch_failed")
  /\ IF fetch.st = "failed"
     THEN /\ failures' = Smaller(failures + 1, MaxFailures)
          /\ backoff' \in Delays(failures') /\ rest' = backoff'
     ELSE UNCHANGED <<failures, backoff, rest>>
  /\ fetch' = NoFetch
  /\ UNCHANGED <<store, attemptAge, window, failed, server>>

-----------------------------------------------------------------------------
Reply ==
  /\ LoopIdle /\ fetch.st = "sent"
  /\ \E set \in {idp, {}} : fetch' = [fetch EXCEPT !.st = "replied", !.set = set]
  /\ UNCHANGED <<store, gates, calls, server>>

ReadyIn == [first |-> "first_ready", second |-> "second_ready"]
Awaits(c) == pc[c] \in Loading

FetchFailsUnseen ==  \* mutant: the calls that share a failed fetch are not woken
  /\ LoopIdle /\ Pending
  /\ window' = "failed" /\ failed' = Smaller(failed + 1, MaxFailures)
  /\ fetch' = NoFetch
  /\ UNCHANGED <<store, attemptAge, failures, backoff, rest, calls, server>>

(* The transport, the deadline, the size, the status, or a set without keys. *)
FetchFails ==
  /\ LoopIdle /\ Pending
  /\ pc' = [c \in Callers |-> IF Awaits(c) THEN "raised" ELSE pc[c]]
  /\ fetch' = [fetch EXCEPT !.st = "failed"]
  /\ window' = "failed" /\ failed' = Smaller(failed + 1, MaxFailures)
  /\ UNCHANGED <<store, attemptAge, failures, backoff, rest, kid, server>>

SucceedEmpty ==   \* mutant: a set without keys replaces the one held
  /\ LoopIdle /\ fetch.st = "replied"
  /\ keys' = fetch.set /\ age' = 0
  /\ pc' = [c \in Callers |-> IF Awaits(c) THEN ReadyIn[pc[c]] ELSE pc[c]]
  /\ fetch' = NoFetch
  /\ window' = "ok" /\ rest' = 0
  /\ UNCHANGED <<attemptAge, failures, backoff, failed, kid, server>>

Succeed ==
  /\ LoopIdle /\ fetch.st = "replied" /\ fetch.set # {}
  /\ keys' = fetch.set /\ age' = 0
  /\ pc' = [c \in Callers |-> IF Awaits(c) THEN ReadyIn[pc[c]] ELSE pc[c]]
  /\ fetch' = NoFetch
  /\ window' = "ok" /\ rest' = 0
  /\ UNCHANGED <<attemptAge, failures, backoff, failed, kid, server>>

-----------------------------------------------------------------------------
Rotate(S) ==
  /\ rotations < MaxRotations /\ S # idp
  /\ rotations' = rotations + 1 /\ idp' = S
  /\ since' = [k \in Kids |-> IF (k \in S) = (k \in idp) THEN since[k] ELSE 0]
  /\ UNCHANGED <<store, gates, fetch, calls>>

Tick ==
  /\ LoopIdle
  /\ SlowImport \/ \A c \in Callers : pc[c] # "importing"
  /\ Pending => fetch.age < FetchMax
  /\ age' = Smaller(age + 1, Lifetime)
  /\ attemptAge' = Smaller(attemptAge + 1, MinRefetch)
  /\ backoff' = Larger(backoff - 1, 0) /\ rest' = Larger(rest - 1, 0)
  /\ fetch' = IF Pending THEN [fetch EXCEPT !.age = @ + 1] ELSE fetch
  /\ since' = [k \in Kids |-> Smaller(since[k] + 1, Horizon)]
  /\ UNCHANGED <<keys, failures, calls, idp, rotations, window, failed>>

Resume(c) == LookUpLoaded(c) \/ LookUpAgain(c) \/ Forgiven(c) \/ Counted(c)
Exchange  == Reply \/ FetchFails \/ Succeed

Next ==
  \/ \E c \in Callers : \E k \in Kids : RefuseBackingOff(c, k) \/ Validate(c, k)
  \/ \E c \in Callers : Resume(c) \/ Imported(c)
  \/ Exchange
  \/ \E S \in (SUBSET Kids) \ {{}} : Rotate(S)
  \/ Tick

(* Callbacks run, imports end, the deadline ends every exchange, time passes. *)
Fairness ==
  /\ \A c \in Callers : WF_vars(Resume(c)) /\ WF_vars(Imported(c))
  /\ WF_vars(Exchange) /\ WF_vars(Tick)

Spec     == Init /\ [][Next]_vars
FairSpec == Spec /\ Fairness

-----------------------------------------------------------------------------
TypeOK ==
  /\ keys \in SUBSET Kids /\ age \in 0..Lifetime /\ attemptAge \in 0..MinRefetch
  /\ failures \in 0..MaxFailures /\ backoff \in 0..BackoffCap /\ rest \in 0..BackoffCap
  /\ fetch \in [st : {"none", "sent", "replied", "failed"}, set : SUBSET Kids, age : 0..FetchMax]
  /\ failed \in 0..MaxFailures
  /\ pc \in [Callers -> Outcomes \cup Loading \cup Ready \cup {"importing"}]
  /\ kid \in [Callers -> Kids \cup {NoKid}]
  /\ idp \in SUBSET Kids /\ since \in [Kids -> 0..Horizon] /\ rotations \in 0..MaxRotations
  /\ window \in {"none", "running", "ok", "failed"}

(* A key the provider has withdrawn is accepted for at most the lifetime of *)
(* a key set plus one exchange.                                             *)
WithdrawnKeysExpire ==
  [][\A c \in Callers : pc[c] = "importing" /\ pc'[c] = "accepted" =>
       kid[c] \in idp \/ since[kid[c]] < Lifetime + FetchMax]_vars

(* A key published for a whole window is refused without a request only if  *)
(* the last attempt failed: the window begins with each attempt, and an     *)
(* attempt that succeeds brings every key published before it.              *)
RefusedUnasked(c, k) ==
  /\ Validate(c, k) \/ (LookUpLoaded(c) /\ kid[c] = k)
  /\ RefuseByWindow(c, k)
RefusalsAreExplained ==
  [][\A c \in Callers, k \in Kids :
       RefusedUnasked(c, k) /\ k \in idp /\ since[k] >= MinRefetch => window = "failed"]_vars

(* What a validation is told is just: it is neither given a key that is not *)
(* the provider's any longer nor denied one without a reason.  The types    *)
(* are checked with it.                                                     *)
AnswersAreJust == []TypeOK /\ WithdrawnKeysExpire /\ RefusalsAreExplained

(* The backoff a failed fetch opened is kept until it is over or a fetch    *)
(* succeeds: inside it no request leaves (rule (3): the success that resets *)
(* the counter is that of a load).  And it is not longer than the fetches   *)
(* that failed make it: each counts once, however many lookups shared it.   *)
Leaves == fetch.st # "sent" /\ fetch'.st = "sent"
RestIsKept == [](failures <= failed) /\ [][Leaves => rest = 0]_vars

(* The key store implements the policy, except that every attempt stamps    *)
(* the window and that a failed refetch of a fresh set is not counted.      *)
Policy == INSTANCE JwksPolicy WITH
  Liberties <- {"load_stamps", "forgives"},
  forcedAge <- attemptAge,
  failures  <- IF Fresh THEN 0 ELSE failures,
  backoff   <- IF Fresh THEN 0 ELSE backoff,
  request   <- IF fetch.st # "none" THEN "sent" ELSE "none"
ImplementsPolicy == Policy!Spec

(* Every call comes back. *)
EveryCallReturns == \A c \in Callers : pc[c] \notin Outcomes ~> pc[c] \in Outcomes
=============================================================================
