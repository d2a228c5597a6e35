------------------------------ MODULE RubyJwks ------------------------------
(***************************************************************************)
(* The JWKS key store of the Ruby SDK (jwks_store.rb) and the loader that  *)
(* ruby-jwt calls (jwt_validator.rb): once for the set held, and, when the *)
(* key id is not in it, a second time to force a refetch.  A Mutex is held *)
(* across the whole fetch, so threads queue behind it instead of joining.  *)
(* A thread may be interrupted (Timeout, Thread#raise) while it fetches.   *)
(***************************************************************************)
EXTENDS Backoff

CONSTANTS
  Callers,      \* threads that call validate
  Kids, NoKid,  \* key ids, and that of a thread outside validate
  NoCaller,     \* the holder of a free mutex
  Lifetime,     \* JWKS_MAX_AGE_SECONDS
  MinRefetch,   \* jwks_min_refetch
  FetchMax,     \* the bound of one exchange (open and read timeouts)
  MaxFailures,  \* bound of the failure counter
  MaxRotations, \* bound of the key rotations explored
  Horizon,      \* how far back the history of the provider's key set reaches
  InterruptAt   \* stages of a fetch at which its thread may be interrupted

ASSUME RubyAssumption ==
  /\ NoKid \notin Kids /\ NoCaller \notin Callers
  /\ Lifetime \in Nat \ {0} /\ MinRefetch \in Nat \ {0} /\ FetchMax \in Nat \ {0}
  /\ MaxFailures \in Nat \ {0} /\ MaxRotations \in Nat /\ Horizon \in Nat
  /\ InterruptAt \subseteq {"sent", "replied", "loaded"}

VARIABLES
  keys, age,    \* @cache, and the time since @fetched_at (Lifetime: past it, or unset)
  forcedAge,    \* time since @last_refetch (MinRefetch: the window is over, or unset)
  failures,     \* @failures
  backoff,      \* what is left of @backoff_window
  holder,       \* the thread that holds @mutex across a fetch
  fetch,        \* its exchange: stage, what the provider answered, how long it lasts
  pc, kid,      \* per thread: which call of the loader it makes, or its outcome; its key id
  idp, since, rotations,  \* the provider's key ids, since when each is (not) published
  window        \* history: how the fetch that opened the window ended

store  == <<keys, age, failures, backoff>>
mutex  == <<holder, fetch>>
server == <<idp, since, rotations>>
vars   == <<keys, age, forcedAge, failures, backoff, holder, fetch, pc, kid, idp, since, rotations, window>>

Outcomes == {"idle", "accepted", "no_key", "backing_off", "fetch_failed", "interrupted"}
Idle     == [st |-> "none", set |-> {}, age |-> 0]

Live       == age < Lifetime
WindowOver == forcedAge >= MinRefetch

Init ==
  /\ keys = {} /\ age = Lifetime /\ forcedAge = MinRefetch
  /\ failures = 0 /\ backoff = 0
  /\ holder = NoCaller /\ fetch = Idle
  /\ pc = [c \in Callers |-> "idle"] /\ kid = [c \in Callers |-> NoKid]
  /\ idp \in (SUBSET Kids) \ {{}} /\ since = [k \in Kids |-> Horizon] /\ rotations = 0
  /\ window = "none"

-----------------------------------------------------------------------------
(* A token within the length cap, validly encoded, with an allowed algorithm. *)
Call(c, k) ==
  /\ pc[c] \in Outcomes
  /\ pc' = [pc EXCEPT ![c] = "first"] /\ kid' = [kid EXCEPT ![c] = k]
  /\ UNCHANGED <<store, forcedAge, mutex, server, window>>

Forced(c)          == pc[c] = "second"
Enters(c)          == pc[c] \in {"first", "second"} /\ holder = NoCaller
Return(c, outcome) == pc' = [pc EXCEPT ![c] = outcome] /\ kid' = [kid EXCEPT ![c] = NoKid]

(* ruby-jwt looks for the key id in the set the loader returned. *)
Resolve(c, set) ==
  IF kid[c] \in set THEN Return(c, "accepted")
  ELSE IF Forced(c) THEN Return(c, "no_key")
  ELSE pc' = [pc EXCEPT ![c] = "second"] /\ UNCHANGED kid

(* key_set: the set held answers the first call while it is live, and the   *)
(* second one inside the window (no set, when it has expired meanwhile).    *)
UseCache(c) ==
  /\ Enters(c) /\ ~Forced(c) /\ Live
  /\ Resolve(c, keys)
  /\ UNCHANGED <<store, forcedAge, mutex, server, window>>

RefuseByWindow(c) ==
  /\ Enters(c) /\ Forced(c) /\ ~WindowOver
  /\ Resolve(c, IF Live THEN keys ELSE {})
  /\ UNCHANGED <<store, forcedAge, mutex, server, window>>

MustFetchAlways(c) == Enters(c) /\ (Forced(c) \/ ~Live)            \* mutant: no window
MustFetch(c) == Enters(c) /\ IF Forced(c) THEN WindowOver ELSE ~Live

RefuseBackingOff(c) ==
  /\ MustFetch(c) /\ backoff > 0
  /\ Return(c, "backing_off")
  /\ UNCHANGED <<store, forcedAge, mutex, server, window>>

StartFetch(c) ==
  /\ MustFetch(c) /\ backoff = 0
  /\ forcedAge' = IF Forced(c) THEN 0 ELSE forcedAge
  /\ window' = IF Forced(c) THEN "running" ELSE window
  /\ holder' = c /\ fetch' = [Idle EXCEPT !.st = "sent"]
  /\ UNCHANGED <<store, pc, kid, server>>

Release == holder' = NoCaller /\ fetch' = Idle
Ended(outcome) == window' = IF Forced(holder) THEN outcome ELSE window

(* The provider answers with its key set as of now, or with an empty one. *)
Reply ==
  /\ fetch.st = "sent"
  /\ \E set \in {idp, {}} : fetch' = [fetch EXCEPT !.st = "replied", !.set = set]
  /\ UNCHANGED <<store, forcedAge, holder, pc, kid, server, window>>

(* The transport fails, or the answer is no key set: fetch_recording_failure. *)
FetchFails ==
  /\ fetch.st \in {"sent", "replied"}
  /\ failures' = Smaller(failures + 1, MaxFailures)
  /\ backoff' \in Delays(failures')
  /\ Return(holder, "fetch_failed") /\ Ended("failed") /\ Release
  /\ UNCHANGED <<keys, age, forcedAge, server>>

(* A usable set: the lifetime and the failures restart, then the set is      *)
(* assigned to @cache and returned.                                          *)
Load ==
  /\ fetch.st = "replied" /\ fetch.set # {}
  /\ age' = 0 /\ failures' = 0 /\ backoff' = 0
  /\ fetch' = [fetch EXCEPT !.st = "loaded"]
  /\ UNCHANGED <<keys, forcedAge, holder, pc, kid, server, window>>

InstallAndStamp ==  \* mutant: the window starts when the refetch ends
  /\ fetch.st = "loaded"
  /\ keys' = fetch.set
  /\ forcedAge' = IF Forced(holder) THEN 0 ELSE forcedAge
  /\ Resolve(holder, fetch.set) /\ Ended("ok") /\ Release
  /\ UNCHANGED <<age, failures, backoff, server>>

Install ==
  /\ fetch.st = "loaded"
  /\ keys' = fetch.set
  /\ Resolve(holder, fetch.set) /\ Ended("ok") /\ Release
  /\ UNCHANGED <<age, forcedAge, failures, backoff, server>>

InterruptLocked ==  \* mutant: the mutex is not released
  /\ fetch.st \in InterruptAt
  /\ Return(holder, "interrupted") /\ Ended("failed")
  /\ fetch' = Idle
  /\ UNCHANGED <<store, forcedAge, holder, server>>

(* The thread is interrupted: synchronize releases the mutex; the exception  *)
(* is no StandardError, so no failure is recorded.                           *)
Interrupt ==
  /\ fetch.st \in InterruptAt
  /\ Return(holder, "interrupted") /\ Ended("failed") /\ Release
  /\ UNCHANGED <<store, forcedAge, server>>

-----------------------------------------------------------------------------
Rotate(S) ==
  /\ rotations < MaxRotations /\ S # idp
  /\ rotations' = rotations + 1 /\ idp' = S
  /\ since' = [k \in Kids |-> IF (k \in S) = (k \in idp) THEN since[k] ELSE 0]
  /\ UNCHANGED <<store, forcedAge, mutex, pc, kid, window>>

Tick ==
  /\ fetch.st = "none" \/ (fetch.st \in {"sent", "replied"} /\ fetch.age < FetchMax)
  /\ age' = Smaller(age + 1, Lifetime)
  /\ forcedAge' = Smaller(forcedAge + 1, MinRefetch)
  /\ backoff' = Larger(backoff - 1, 0)
  /\ fetch' = IF fetch.st = "none" THEN fetch ELSE [fetch EXCEPT !.age = @ + 1]
  /\ since' = [k \in Kids |-> Smaller(since[k] + 1, Horizon)]
  /\ UNCHANGED <<keys, failures, holder, pc, kid, idp, rotations, window>>

KeySet(c) == UseCache(c) \/ RefuseByWindow(c) \/ RefuseBackingOff(c) \/ StartFetch(c)
Exchange  == Reply \/ FetchFails \/ Load \/ Install

Next ==
  \/ \E c \in Callers : (\E k \in Kids : Call(c, k)) \/ KeySet(c)
  \/ Exchange \/ Interrupt
  \/ \E S \in (SUBSET Kids) \ {{}} : Rotate(S)
  \/ Tick

(* A thread that waits for the mutex gets it eventually, the HTTP client     *)
(* enforces its timeouts, and time passes.                                   *)
Fairness == (\A c \in Callers : SF_vars(KeySet(c))) /\ WF_vars(Exchange) /\ WF_vars(Tick)

Spec     == Init /\ [][Next]_vars
FairSpec == Spec /\ Fairness

-----------------------------------------------------------------------------
TypeOK ==
  /\ keys \in SUBSET Kids /\ age \in 0..Lifetime /\ forcedAge \in 0..MinRefetch
  /\ failures \in 0..MaxFailures /\ backoff \in 0..BackoffCap
  /\ holder \in Callers \cup {NoCaller}
  /\ fetch \in [st : {"none", "sent", "replied", "loaded"}, set : SUBSET Kids, age : 0..FetchMax]
  /\ pc \in [Callers -> Outcomes \cup {"first", "second"}]
  /\ kid \in [Callers -> Kids \cup {NoKid}]
  /\ idp \in SUBSET Kids /\ since \in [Kids -> 0..Horizon] /\ rotations \in 0..MaxRotations
  /\ window \in {"none", "running", "ok", "failed"}

Ends(c, outcome) == pc[c] # outcome /\ pc'[c] = outcome

(* A key the provider has withdrawn is accepted for at most the lifetime of *)
(* a key set plus one exchange, and an expired set is never used again      *)
(* (JWKS_MAX_AGE_SECONDS: "It does not fall back to the stale set").        *)
WithdrawnKeysExpire ==
  [][\A c \in Callers : Ends(c, "accepted") =>
       kid[c] \in idp \/ since[kid[c]] < Lifetime + FetchMax]_vars

(* The window hides a key the provider has published for a whole window     *)
(* only while the refetch that opened it failed or was interrupted.         *)
RefusalsAreExplained ==
  [][\A c \in Callers :
       RefuseByWindow(c) /\ pc'[c] = "no_key" /\ kid[c] \in idp /\ since[kid[c]] >= MinRefetch
         => window = "failed"]_vars

(* What a validation is told is just: it is neither given a key that is not *)
(* the provider's any longer nor denied one without a reason.  The types    *)
(* are checked with it.                                                     *)
AnswersAreJust == []TypeOK /\ WithdrawnKeysExpire /\ RefusalsAreExplained

(* The key store implements the policy, except that a forced load of a set  *)
(* that expired meanwhile stamps the window, and that an interrupt drops a  *)
(* request.                                                                 *)
Policy == INSTANCE JwksPolicy WITH
  Liberties <- {"load_stamps", "abandons"},
  keys      <- IF fetch.st = "loaded" THEN fetch.set ELSE keys,
  request   <- IF fetch.st \in {"sent", "replied"} THEN "sent" ELSE "none"
ImplementsPolicy == Policy!Spec

(* Every validation comes back, whatever the provider does and whichever    *)
(* threads are interrupted.                                                 *)
EveryCallReturns == \A c \in Callers : pc[c] \notin Outcomes ~> pc[c] \in Outcomes
=============================================================================
