----------------------------- MODULE PythonJwks -----------------------------
(***************************************************************************)
(* The JWKS key store of the synchronous Python client (auth.py,           *)
(* jwks_cache.py, backoff.py).  A thread reads the cache without a lock,   *)
(* takes the lock only when it must load or force a refetch, and holds it  *)
(* across the whole exchange.  The set is stored, visible to every other   *)
(* thread, before the backoff is reset.                                    *)
(***************************************************************************)
EXTENDS Backoff

CONSTANTS
  Callers,      \* threads that call validate
  Kids, NoKid,  \* key ids, and that of a thread outside validate
  NoCaller,     \* the holder of a free lock
  Lifetime,     \* JWKS_MAX_AGE_SECONDS
  MinRefetch,   \* jwks_min_refetch_seconds
  FetchMax,     \* the bound of one exchange
  MaxFailures,  \* bound of the failure counter
  MaxRotations, \* bound of the key rotations explored
  Horizon       \* how far back the history of the provider's key set reaches

ASSUME PythonAssumption ==
  /\ NoKid \notin Kids /\ NoCaller \notin Callers
  /\ Lifetime \in Nat \ {0} /\ MinRefetch \in Nat \ {0} /\ FetchMax \in Nat \ {0}
  /\ MaxFailures \in Nat \ {0} /\ MaxRotations \in Nat /\ Horizon \in Nat

VARIABLES
  keys, age,         \* JwksKeyCache: the set and its age (Lifetime: none, or past it)
  forcedAge,         \* time since _jwks_forced_at (MinRefetch: the window is over)
  failures, backoff, \* JwksFailureBackoff
  holder, fetch,     \* the thread that holds _jwks_lock across an exchange, and the exchange
  pc, kid,           \* per thread: where it is in _validate_for, or its outcome; its key id
  idp, since, rotations,  \* the provider's key ids, since when each is (not) published
  window             \* history: how the decision that opened the window ended

store  == <<keys, age>>
gates  == <<forcedAge, failures, backoff>>
lock   == <<holder, fetch>>
calls  == <<pc, kid>>
server == <<idp, since, rotations>>
vars   == <<keys, age, forcedAge, failures, backoff, holder, fetch, pc, kid, idp, since, rotations, window>>

Outcomes == {"idle", "accepted", "no_key", "backing_off", "fetch_failed", "interrupted"}
Waiting  == {"first", "load", "forced"}   \* before fresh(), and at the lock of either call
Idle     == [st |-> "none", set |-> {}, age |-> 0, kind |-> "load"]

Fresh      == age < Lifetime
WindowOver == forcedAge >= MinRefetch

Init ==
  /\ keys = {} /\ age = Lifetime /\ forcedAge = MinRefetch
  /\ failures = 0 /\ backoff = 0
  /\ holder = NoCaller /\ fetch = Idle
  /\ pc = [c \in Callers |-> "idle"] /\ kid = [c \in Callers |-> NoKid]
  /\ idp \in (SUBSET Kids) \ {{}} /\ since = [k \in Kids |-> Horizon] /\ rotations = 0
  /\ window = "none"

-----------------------------------------------------------------------------
Call(c, k) ==
  /\ pc[c] \in Outcomes
  /\ pc' = [pc EXCEPT ![c] = "first"] /\ kid' = [kid EXCEPT ![c] = k]
  /\ UNCHANGED <<store, gates, lock, server, window>>

Return(c, outcome) == pc' = [pc EXCEPT ![c] = outcome] /\ kid' = [kid EXCEPT ![c] = NoKid]

(* The token is checked against the set _load_jwks returned; an unknown key *)
(* id of the first call leads to the forced one.                            *)
Resolve(c, set) ==
  IF kid[c] \in set THEN Return(c, "accepted")
  ELSE IF pc[c] = "forced" THEN Return(c, "no_key")
  ELSE pc' = [pc EXCEPT ![c] = "forced"] /\ UNCHANGED kid

(* The fast path, outside the lock. *)
ReadCache(c) ==
  /\ pc[c] = "first"
  /\ IF Fresh THEN Resolve(c, keys) ELSE pc' = [pc EXCEPT ![c] = "load"] /\ UNCHANGED kid
  /\ UNCHANGED <<store, gates, lock, server, window>>

Enters(c) == pc[c] \in {"load", "forced"} /\ holder = NoCaller

(* Under the lock, another thread has loaded the set meanwhile. *)
UseLoaded(c) ==
  /\ Enters(c) /\ pc[c] = "load" /\ Fresh
  /\ Resolve(c, keys)
  /\ UNCHANGED <<store, gates, lock, server, window>>

(* Inside the window a forced call is given the set held: another thread's  *)
(* refetch may just have brought the key id.                                *)
UseWindow(c) ==
  /\ Enters(c) /\ pc[c] = "forced" /\ Fresh /\ ~WindowOver
  /\ Resolve(c, keys)
  /\ UNCHANGED <<store, gates, lock, server, window>>

Decides(c) == Enters(c) /\ (Fresh => pc[c] = "forced" /\ WindowOver)

(* A refetch of a fresh set stamps the window, then asks the backoff; a     *)
(* forced call that finds the set expired is a plain load.                  *)
Stamps(ending) ==
  /\ forcedAge' = IF Fresh THEN 0 ELSE forcedAge
  /\ window' = IF Fresh THEN ending ELSE window

RefuseBackingOff(c) ==
  /\ Decides(c) /\ backoff > 0
  /\ Stamps("refused") /\ Return(c, "backing_off")
  /\ UNCHANGED <<store, failures, backoff, lock, server>>

StartInBackoff(c) ==  \* mutant: the backoff is not asked
  /\ Decides(c)
  /\ Stamps("running")
  /\ holder' = c
  /\ fetch' = [Idle EXCEPT !.st = "sent", !.kind = IF Fresh THEN "forced" ELSE "load"]
  /\ UNCHANGED <<store, failures, backoff, calls, server>>

StartFetch(c) ==
  /\ Decides(c) /\ backoff = 0
  /\ Stamps("running")
  /\ holder' = c
  /\ fetch' = [Idle EXCEPT !.st = "sent", !.kind = IF Fresh THEN "forced" ELSE "load"]
  /\ UNCHANGED <<store, failures, backoff, calls, server>>

-----------------------------------------------------------------------------
(* The exchange of the thread that holds the lock. *)

Reply ==
  /\ fetch.st = "sent"
  /\ \E set \in {idp, {}} : fetch' = [fetch EXCEPT !.st = "replied", !.set = set]
  /\ UNCHANGED <<store, gates, holder, calls, server, window>>

Release(ending) ==
  /\ holder' = NoCaller /\ fetch' = Idle
  /\ window' = IF fetch.kind = "forced" THEN ending ELSE window

FetchFails ==
  /\ fetch.st \in {"sent", "replied"}
  /\ failures' = Smaller(failures + 1, MaxFailures)
  /\ backoff' \in Delays(failures')
  /\ Return(holder, "fetch_failed") /\ Release("failed")
  /\ UNCHANGED <<store, forcedAge, server>>

Store ==
  /\ fetch.st = "replied" /\ fetch.set # {}
  /\ keys' = fetch.set /\ age' = 0
  /\ fetch' = [fetch EXCEPT !.st = "stored"]
  /\ UNCHANGED <<gates, holder, calls, server, window>>

RecordAndStamp ==  \* mutant: the window starts when the refetch ends
  /\ fetch.st = "stored"
  /\ failures' = 0 /\ backoff' = 0
  /\ forcedAge' = IF fetch.kind = "forced" THEN 0 ELSE forcedAge
  /\ Resolve(holder, fetch.set) /\ Release("ok")
  /\ UNCHANGED <<store, server>>

RecordSuccess ==
  /\ fetch.st = "stored"
  /\ failures' = 0 /\ backoff' = 0
  /\ Resolve(holder, fetch.set) /\ Release("ok")
  /\ UNCHANGED <<store, forcedAge, server>>

InterruptLocked ==  \* mutant: the lock is not released
  /\ fetch.st \in {"sent", "replied"}
  /\ Return(holder, "interrupted") /\ fetch' = Idle
  /\ UNCHANGED <<store, gates, holder, server, window>>

(* KeyboardInterrupt in the exchange: no Exception, so no failure is        *)
(* recorded; the with statement releases the lock.                          *)
Interrupt ==
  /\ fetch.st \in {"sent", "replied"}
  /\ Return(holder, "interrupted") /\ Release("failed")
  /\ UNCHANGED <<store, gates, server>>

-----------------------------------------------------------------------------
Rotate(S) ==
  /\ rotations < MaxRotations /\ S # idp
  /\ rotations' = rotations + 1 /\ idp' = S
  /\ since' = [k \in Kids |-> IF (k \in S) = (k \in idp) THEN since[k] ELSE 0]
  /\ UNCHANGED <<store, gates, lock, calls, window>>

(* Time passes; the holder does not wait between the cache and the backoff. *)
Tick ==
  /\ fetch.st = "none" \/ (fetch.st \in {"sent", "replied"} /\ fetch.age < FetchMax)
  /\ age' = Smaller(age + 1, Lifetime)
  /\ forcedAge' = Smaller(forcedAge + 1, MinRefetch)
  /\ backoff' = Larger(backoff - 1, 0)
  /\ fetch' = IF fetch.st = "none" THEN fetch ELSE [fetch EXCEPT !.age = @ + 1]
  /\ since' = [k \in Kids |-> Smaller(since[k] + 1, Horizon)]
  /\ UNCHANGED <<keys, failures, holder, calls, idp, rotations, window>>

LoadJwks(c) == UseLoaded(c) \/ UseWindow(c) \/ RefuseBackingOff(c) \/ StartFetch(c)
FetchJwks   == Reply \/ FetchFails \/ Store \/ RecordSuccess

Next ==
  \/ \E c \in Callers : (\E k \in Kids : Call(c, k)) \/ ReadCache(c) \/ LoadJwks(c)
  \/ FetchJwks \/ Interrupt
  \/ \E S \in (SUBSET Kids) \ {{}} : Rotate(S)
  \/ Tick

(* Threads run, one that waits for the lock gets it eventually, the exchange *)
(* ends within its deadline, and time passes.                                *)
Fairness ==
  /\ \A c \in Callers : WF_vars(ReadCache(c)) /\ SF_vars(LoadJwks(c))
  /\ WF_vars(FetchJwks) /\ WF_vars(Tick)

Spec     == Init /\ [][Next]_vars
FairSpec == Spec /\ Fairness

-----------------------------------------------------------------------------
TypeOK ==
  /\ keys \in SUBSET Kids /\ age \in 0..Lifetime /\ forcedAge \in 0..MinRefetch
  /\ failures \in 0..MaxFailures /\ backoff \in 0..BackoffCap
  /\ holder \in Callers \cup {NoCaller}
  /\ fetch \in [st : {"none", "sent", "replied", "stored"}, set : SUBSET Kids,
                age : 0..FetchMax, kind : {"load", "forced"}]
  /\ pc \in [Callers -> Outcomes \cup Waiting] /\ kid \in [Callers -> Kids \cup {NoKid}]
  /\ idp \in SUBSET Kids /\ since \in [Kids -> 0..Horizon] /\ rotations \in 0..MaxRotations
  /\ window \in {"none", "refused", "running", "ok", "failed"}

Ends(c, outcome) == pc[c] # outcome /\ pc'[c] = outcome

(* A key the provider has withdrawn is accepted for at most the lifetime of *)
(* a key set plus one exchange, on the fast path as under the lock.         *)
WithdrawnKeysExpire ==
  [][\A c \in Callers : Ends(c, "accepted") =>
       kid[c] \in idp \/ since[kid[c]] < Lifetime + FetchMax]_vars

(* A key the provider has published for a whole window is rejected inside   *)
(* the window only if the refetch that opened it failed, was interrupted,   *)
(* or was refused by the backoff; a load never spends the window.  And a    *)
(* validation whose key id another thread's refetch brought while it was    *)
(* queued is not rejected.                                                  *)
RejectsPublished(c) == UseWindow(c) /\ pc'[c] = "no_key" /\ kid[c] \in idp /\ since[kid[c]] >= MinRefetch
RejectsOnAStaleMiss(c) == Ends(c, "no_key") /\ holder # c /\ kid[c] \in keys
RefusalsAreExplained ==
  [][\A c \in Callers :
       /\ RejectsPublished(c) => window \in {"failed", "refused"}
       /\ ~RejectsOnAStaleMiss(c)]_vars

(* What a validation is told is just: it is neither given a key that is not *)
(* the provider's any longer nor denied one without a reason.  The types    *)
(* are checked with it.                                                     *)
AnswersAreJust == []TypeOK /\ WithdrawnKeysExpire /\ RefusalsAreExplained

(* The key store implements the policy: a set is obtained when it is stored. *)
Stored == fetch.st = "stored"
Policy == INSTANCE JwksPolicy WITH
  Liberties <- {"refusal_stamps", "abandons"},
  failures  <- IF Stored THEN 0 ELSE failures,
  backoff   <- IF Stored THEN 0 ELSE backoff,
  request   <- IF fetch.st \in {"sent", "replied"} THEN "sent" ELSE "none"
ImplementsPolicy == Policy!Spec

(* Every validation comes back, whichever threads are interrupted. *)
EveryCallReturns == \A c \in Callers : pc[c] \notin Outcomes ~> pc[c] \in Outcomes
=============================================================================
