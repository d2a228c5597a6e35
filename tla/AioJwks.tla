------------------------------ MODULE AioJwks ------------------------------
(***************************************************************************)
(* The JWKS key store of the asyncio Python client (aio/auth.py).  There   *)
(* is no lock: a decision and the task it creates have no await between    *)
(* them.  The fetch is a task of the client; coroutines await it behind    *)
(* asyncio.shield, so a cancelled coroutine leaves it running.             *)
(***************************************************************************)
EXTENDS Backoff

CONSTANTS
  Callers,      \* coroutines that await validate
  Kids, NoKid,  \* key ids, and that of a coroutine outside validate
  Lifetime,     \* JWKS_MAX_AGE_SECONDS
  MinRefetch,   \* jwks_min_refetch_seconds
  FetchMax,     \* the deadline of one exchange
  MaxFailures,  \* bound of the failure counter
  MaxRotations, \* bound of the key rotations explored
  Horizon       \* how far back the history of the provider's key set reaches

ASSUME AioAssumption ==
  /\ NoKid \notin Kids
  /\ Lifetime \in Nat \ {0} /\ MinRefetch \in Nat \ {0} /\ FetchMax \in Nat \ {0}
  /\ MaxFailures \in Nat \ {0} /\ MaxRotations \in Nat /\ Horizon \in Nat

VARIABLES
  keys, age,         \* JwksKeyCache
  forcedAge,         \* time since _jwks_forced_at (MinRefetch: the window is over)
  failures, backoff, \* JwksFailureBackoff
  fetch,             \* the task _jwks_fetch: its stage ("none": no task, or done)
  pc, kid,           \* per coroutine: where it is in _validate_for, or its outcome; its key id
  woken,             \* what the task a coroutine awaited returned ({}: it raised)
  idp, since, rotations,  \* the provider's key ids, since when each is (not) published
  window             \* history: how the decision that opened the window ended

store  == <<keys, age>>
gates  == <<forcedAge, failures, backoff>>
calls  == <<pc, kid, woken>>
server == <<idp, since, rotations>>
vars   == <<keys, age, forcedAge, failures, backoff, fetch, pc, kid, woken, idp, since, rotations, window>>

Outcomes == {"idle", "accepted", "no_key", "backing_off", "fetch_failed", "cancelled"}
Awaiting == {"first", "forced"}               \* awaits the task, in either call of _load_jwks
Ready    == {"first_ready", "forced_ready"}   \* the task is done: the loop will resume it
NoTask   == [st |-> "none", set |-> {}, age |-> 0, kind |-> "load"]

Fresh      == age < Lifetime
WindowOver == forcedAge >= MinRefetch
LoopIdle   == \A c \in Callers : pc[c] \notin Ready   \* no coroutine is waiting to be resumed
Running    == fetch.st # "none"

Init ==
  /\ keys = {} /\ age = Lifetime /\ forcedAge = MinRefetch
  /\ failures = 0 /\ backoff = 0 /\ fetch = NoTask
  /\ pc = [c \in Callers |-> "idle"] /\ kid = [c \in Callers |-> NoKid]
  /\ woken = [c \in Callers |-> {}]
  /\ idp \in (SUBSET Kids) \ {{}} /\ since = [k \in Kids |-> Horizon] /\ rotations = 0
  /\ window = "none"

-----------------------------------------------------------------------------
Become(c, k, state) ==
  /\ pc' = [pc EXCEPT ![c] = state] /\ kid' = [kid EXCEPT ![c] = k]
  /\ woken' = [woken EXCEPT ![c] = {}]
Return(c, outcome) == Become(c, NoKid, outcome)

(* _load_jwks once it cannot answer from the cache, for a coroutine that    *)
(* then awaits in stage "first" or "forced": it awaits the task in flight,  *)
(* or the window answers with the set held, or it stamps the window and     *)
(* asks the backoff, or it starts the task.                                 *)
Join(c, k, stage) ==
  /\ Running
  /\ Become(c, k, stage)
  /\ UNCHANGED <<gates, fetch, window>>

UseWindow(c, k, stage) ==
  /\ ~Running /\ stage = "forced" /\ Fresh /\ ~WindowOver
  /\ Return(c, IF k \in keys THEN "accepted" ELSE "no_key")
  /\ UNCHANGED <<gates, fetch, window>>

Decides(stage) == ~Running /\ (stage = "forced" /\ Fresh => WindowOver)

Stamps(stage, ending) ==
  IF stage = "forced" /\ Fresh THEN forcedAge' = 0 /\ window' = ending
  ELSE UNCHANGED <<forcedAge, window>>

RefuseBackingOff(c, stage) ==
  /\ Decides(stage) /\ backoff > 0
  /\ Stamps(stage, "refused") /\ Return(c, "backing_off")
  /\ UNCHANGED <<failures, backoff, fetch>>

StartInBackoff(c, k, stage) ==  \* mutant: the backoff is not asked
  /\ Decides(stage)
  /\ Stamps(stage, "running") /\ Become(c, k, stage)
  /\ fetch' = [NoTask EXCEPT !.st = "sent", !.kind = IF stage = "forced" /\ Fresh THEN "forced" ELSE "load"]
  /\ UNCHANGED <<failures, backoff>>

StartFetch(c, k, stage) ==
  /\ Decides(stage) /\ backoff = 0
  /\ Stamps(stage, "running") /\ Become(c, k, stage)
  /\ fetch' = [NoTask EXCEPT !.st = "sent", !.kind = IF stage = "forced" /\ Fresh THEN "forced" ELSE "load"]
  /\ UNCHANGED <<failures, backoff>>

LoadJwks(c, k, stage) ==
  /\ Join(c, k, stage) \/ UseWindow(c, k, stage) \/ RefuseBackingOff(c, stage) \/ StartFetch(c, k, stage)
  /\ UNCHANGED <<store, server>>

(* _validate_for runs to its first await: a fresh set resolves the key id,  *)
(* or sends the call on to the forced load; without one it loads.           *)
Validate(c, k) ==
  /\ pc[c] \in Outcomes
  /\ IF Fresh /\ k \in keys
     THEN Return(c, "accepted") /\ UNCHANGED <<store, gates, fetch, server, window>>
     ELSE LoadJwks(c, k, IF Fresh THEN "forced" ELSE "first")

(* The loop resumes a coroutine whose task is done: it failed, or it        *)
(* returned a set, and a first call without its key id goes on to force.    *)
Raise(c) ==
  /\ pc[c] \in Ready /\ woken[c] = {}
  /\ Return(c, "fetch_failed")
  /\ UNCHANGED <<store, gates, fetch, server, window>>

Found(c) ==
  /\ pc[c] \in Ready /\ kid[c] \in woken[c]
  /\ Return(c, "accepted")
  /\ UNCHANGED <<store, gates, fetch, server, window>>

NotFound(c) ==
  /\ pc[c] = "forced_ready" /\ woken[c] # {} /\ kid[c] \notin woken[c]
  /\ Return(c, "no_key")
  /\ UNCHANGED <<store, gates, fetch, server, window>>

LoadForced(c) ==
  /\ pc[c] = "first_ready" /\ woken[c] # {} /\ kid[c] \notin woken[c]
  /\ LoadJwks(c, kid[c], "forced")

Resume(c) == Raise(c) \/ Found(c) \/ NotFound(c) \/ LoadForced(c)

CancelFetch(c) ==  \* mutant: the coroutine awaits the task without shield
  /\ pc[c] \in Awaiting
  /\ Return(c, "cancelled")
  /\ fetch' = NoTask
  /\ UNCHANGED <<store, gates, server, window>>

Cancel(c) ==
  /\ pc[c] \in Awaiting \cup Ready
  /\ Return(c, "cancelled")
  /\ UNCHANGED <<store, gates, fetch, server, window>>

-----------------------------------------------------------------------------
(* The task.  The loop resumes the coroutines that are ready before it      *)
(* polls the network again.                                                 *)

Reply ==
  /\ LoopIdle /\ fetch.st = "sent"
  /\ \E set \in {idp, {}} : fetch' = [fetch EXCEPT !.st = "replied", !.set = set]
  /\ UNCHANGED <<store, gates, calls, server, window>>

Awaited(c) == pc[c] \in Awaiting
ReadyIn    == [first |-> "first_ready", forced |-> "forced_ready"]
Wake(set) ==
  /\ pc' = [c \in Callers |-> IF Awaited(c) THEN ReadyIn[pc[c]] ELSE pc[c]]
  /\ woken' = [c \in Callers |-> IF Awaited(c) THEN set ELSE woken[c]]
  /\ UNCHANGED kid

Done(ending) ==
  /\ fetch' = NoTask
  /\ window' = IF fetch.kind = "forced" THEN ending ELSE window

FetchFailsUnseen ==  \* mutant: the coroutines that await a failed task are not woken
  /\ LoopIdle /\ fetch.st \in {"sent", "replied"}
  /\ failures' = Smaller(failures + 1, MaxFailures)
  /\ backoff' \in Delays(failures')
  /\ Done("failed")
  /\ UNCHANGED <<store, forcedAge, calls, server>>

FetchFails ==
  /\ LoopIdle /\ fetch.st \in {"sent", "replied"}
  /\ failures' = Smaller(failures + 1, MaxFailures)
  /\ backoff' \in Delays(failures')
  /\ Wake({}) /\ Done("failed")
  /\ UNCHANGED <<store, forcedAge, server>>

(* The set is stored and the success recorded without an await between. *)
Succeed ==
  /\ LoopIdle /\ fetch.st = "replied" /\ fetch.set # {}
  /\ keys' = fetch.set /\ age' = 0
  /\ failures' = 0 /\ backoff' = 0
  /\ Wake(fetch.set) /\ Done("ok")
  /\ UNCHANGED <<forcedAge, server>>

-----------------------------------------------------------------------------
Rotate(S) ==
  /\ rotations < MaxRotations /\ S # idp
  /\ rotations' = rotations + 1 /\ idp' = S
  /\ since' = [k \in Kids |-> IF (k \in S) = (k \in idp) THEN since[k] ELSE 0]
  /\ UNCHANGED <<store, gates, fetch, calls, window>>

Tick ==
  /\ LoopIdle
  /\ Running => fetch.age < FetchMax
  /\ age' = Smaller(age + 1, Lifetime)
  /\ forcedAge' = Smaller(forcedAge + 1, MinRefetch)
  /\ backoff' = Larger(backoff - 1, 0)
  /\ fetch' = IF Running THEN [fetch EXCEPT !.age = @ + 1] ELSE fetch
  /\ since' = [k \in Kids |-> Smaller(since[k] + 1, Horizon)]
  /\ UNCHANGED <<keys, failures, calls, idp, rotations, window>>

RefetchJwks == Reply \/ FetchFails \/ Succeed

Next ==
  \/ \E c \in Callers : (\E k \in Kids : Validate(c, k)) \/ Resume(c) \/ Cancel(c)
  \/ RefetchJwks
  \/ \E S \in (SUBSET Kids) \ {{}} : Rotate(S)
  \/ Tick

(* The loop resumes what is ready, the exchange ends within its deadline,   *)
(* and time passes.                                                         *)
Fairness == (\A c \in Callers : WF_vars(Resume(c))) /\ WF_vars(RefetchJwks) /\ WF_vars(Tick)

Spec     == Init /\ [][Next]_vars
FairSpec == Spec /\ Fairness

-----------------------------------------------------------------------------
TypeOK ==
  /\ keys \in SUBSET Kids /\ age \in 0..Lifetime /\ forcedAge \in 0..MinRefetch
  /\ failures \in 0..MaxFailures /\ backoff \in 0..BackoffCap
  /\ fetch \in [st : {"none", "sent", "replied"}, set : SUBSET Kids,
                age : 0..FetchMax, kind : {"load", "forced"}]
  /\ pc \in [Callers -> Outcomes \cup Awaiting \cup Ready]
  /\ kid \in [Callers -> Kids \cup {NoKid}] /\ woken \in [Callers -> SUBSET Kids]
  /\ idp \in SUBSET Kids /\ since \in [Kids -> 0..Horizon] /\ rotations \in 0..MaxRotations
  /\ window \in {"none", "refused", "running", "ok", "failed"}

Ends(c, outcome) == pc[c] # outcome /\ pc'[c] = outcome

(* A key the provider has withdrawn is accepted for at most the lifetime of *)
(* a key set plus one exchange.                                             *)
WithdrawnKeysExpire ==
  [][\A c \in Callers, k \in Kids :
       (Ends(c, "accepted") /\ kid[c] = k) \/ (Validate(c, k) /\ pc'[c] = "accepted")
         => k \in idp \/ since[k] < Lifetime + FetchMax]_vars

(* A key published for a whole window is rejected without a request only if *)
(* the refetch that opened the window failed or was refused by the backoff: *)
(* a cancelled coroutine does not waste the window of the others, and a     *)
(* coroutine inside the window waits for the refetch in flight (the comment *)
(* on _load_jwks).  Told from the outside: while a refetch that can still   *)
(* bring the key is in flight, no coroutine is told the key is unknown that *)
(* has not itself awaited a refetch.                                        *)
RejectsPublished(c, k) == UseWindow(c, k, "forced") /\ pc'[c] = "no_key" /\ k \in idp /\ since[k] >= MinRefetch
RejectedInFlight(c) ==
  fetch.st = "sent" /\ fetch'.st = "sent" /\ pc[c] # "forced_ready" /\ Ends(c, "no_key")
RefusalsAreExplained ==
  [][\A c \in Callers, k \in Kids :
       /\ RejectsPublished(c, k) => window \in {"failed", "refused"}
       /\ ~RejectedInFlight(c)]_vars

(* What a validation is told is just: it is neither given a key that is not *)
(* the provider's any longer nor denied one without a reason.  The types    *)
(* are checked with it.                                                     *)
AnswersAreJust == []TypeOK /\ WithdrawnKeysExpire /\ RefusalsAreExplained

(* The key store implements the policy, except that a refetch the backoff   *)
(* refuses stamps the window.                                               *)
Policy == INSTANCE JwksPolicy WITH
  Liberties <- {"refusal_stamps"},
  request   <- IF Running THEN "sent" ELSE "none"
ImplementsPolicy == Policy!Spec

(* Every call comes back. *)
EveryCallReturns == \A c \in Callers : pc[c] \notin Outcomes ~> pc[c] \in Outcomes
=============================================================================
