------------------------------ MODULE RustJwks ------------------------------
(***************************************************************************)
(* The JWKS key store of the Rust SDK (jwks.rs).  One tokio mutex, the     *)
(* gate, serialises the decisions; the task that fetches is detached from  *)
(* the caller that started it and carries the guard of the gate, so a      *)
(* caller that is cancelled (its future dropped) leaves the fetch running. *)
(***************************************************************************)
EXTENDS Backoff

CONSTANTS
  Callers,      \* tasks that call get_key
  Kids, NoKid,  \* key ids, and that of a task outside get_key
  NoCaller,     \* the starter of no fetch, or one that was cancelled
  Lifetime,     \* JWKS_MAX_AGE_SECONDS
  MinRefetch,   \* min_refetch
  FetchMax,     \* the timeout of the reqwest client
  MaxFailures,  \* bound of the failure counter
  MaxRotations, \* bound of the key rotations explored
  Horizon       \* how far back the history of the provider's key set reaches

ASSUME RustAssumption ==
  /\ NoKid \notin Kids /\ NoCaller \notin Callers
  /\ Lifetime \in Nat \ {0} /\ MinRefetch \in Nat \ {0} /\ FetchMax \in Nat \ {0}
  /\ MaxFailures \in Nat \ {0} /\ MaxRotations \in Nat /\ Horizon \in Nat

VARIABLES
  keys, age,    \* the cache: its key ids and the time since loaded_at (Lifetime: none or expired)
  forcedAge,    \* time since last_refetch (MinRefetch: over, or unset)
  failures, backoff,      \* of Gate
  fetch,        \* the detached task: its stage ("none": the gate is free), what was
                \* answered, how long the exchange lasts, and what for
  starter,      \* the caller that awaits it
  pc, kid,      \* per caller: where it is in get_key, or its outcome; its key id
  idp, since, rotations,  \* the provider's key ids, since when each is (not) published
  window        \* history: how the decision that opened the window ended

store  == <<keys, age>>
gate   == <<forcedAge, failures, backoff>>
task   == <<fetch, starter>>
calls  == <<pc, kid>>
server == <<idp, since, rotations>>
vars   == <<keys, age, forcedAge, failures, backoff, fetch, starter, pc, kid, idp, since, rotations, window>>

Outcomes == {"idle", "accepted", "no_key", "rate_limited", "backing_off", "fetch_failed", "gave_up"}
NoTask   == [st |-> "none", set |-> {}, age |-> 0, kind |-> "load"]
GateFree == fetch.st = "none"

Fresh      == age < Lifetime
Cached(k)  == Fresh /\ k \in keys
WindowOver == forcedAge >= MinRefetch

Init ==
  /\ keys = {} /\ age = Lifetime /\ forcedAge = MinRefetch
  /\ failures = 0 /\ backoff = 0
  /\ fetch = NoTask /\ starter = NoCaller
  /\ pc = [c \in Callers |-> "idle"] /\ kid = [c \in Callers |-> NoKid]
  /\ idp \in (SUBSET Kids) \ {{}} /\ since = [k \in Kids |-> Horizon] /\ rotations = 0
  /\ window = "none"

-----------------------------------------------------------------------------
Call(c, k) ==
  /\ pc[c] \in Outcomes
  /\ pc' = [pc EXCEPT ![c] = "calling"] /\ kid' = [kid EXCEPT ![c] = k]
  /\ UNCHANGED <<store, gate, task, server, window>>

Return(c, outcome) == pc' = [pc EXCEPT ![c] = outcome] /\ kid' = [kid EXCEPT ![c] = NoKid]

(* The first lookup, outside the gate. *)
LookUp(c) ==
  /\ pc[c] = "calling"
  /\ IF Cached(kid[c]) THEN Return(c, "accepted")
     ELSE pc' = [pc EXCEPT ![c] = "missed"] /\ UNCHANGED kid
  /\ UNCHANGED <<store, gate, task, server, window>>

(* The gate is locked: the key id is looked up again. *)
Locks(c) == pc[c] = "missed" /\ GateFree

FindAgain(c) ==
  /\ Locks(c) /\ Cached(kid[c])
  /\ Return(c, "accepted")
  /\ UNCHANGED <<store, gate, task, server, window>>

RefuseRateLimited(c) ==
  /\ Locks(c) /\ Fresh /\ kid[c] \notin keys /\ ~WindowOver
  /\ Return(c, "rate_limited")
  /\ UNCHANGED <<store, gate, task, server, window>>

(* A cold or expired cache, or an unknown key id once the window is over:    *)
(* the latter stamps the window here, whatever the backoff then says.        *)
Decides(c) == Locks(c) /\ ~Cached(kid[c]) /\ (Fresh => WindowOver)
Stamps(ending) ==
  /\ forcedAge' = IF Fresh THEN 0 ELSE forcedAge
  /\ window' = IF Fresh THEN ending ELSE window

RefuseBackingOff(c) ==
  /\ Decides(c) /\ backoff > 0
  /\ Stamps("refused")
  /\ Return(c, "backing_off")
  /\ UNCHANGED <<store, failures, backoff, task, server>>

StartInBackoff(c) ==  \* mutant: the backoff is not asked
  /\ Decides(c)
  /\ Stamps("running")
  /\ fetch' = [NoTask EXCEPT !.st = "sent", !.kind = IF Fresh THEN "forced" ELSE "load"]
  /\ starter' = c
  /\ pc' = [pc EXCEPT ![c] = "waiting"]
  /\ UNCHANGED <<store, failures, backoff, kid, server>>

StartFetch(c) ==
  /\ Decides(c) /\ backoff = 0
  /\ Stamps("running")
  /\ fetch' = [NoTask EXCEPT !.st = "sent", !.kind = IF Fresh THEN "forced" ELSE "load"]
  /\ starter' = c
  /\ pc' = [pc EXCEPT ![c] = "waiting"]
  /\ UNCHANGED <<store, failures, backoff, kid, server>>

CancelFetch(c) ==  \* mutant: the fetch runs in the caller's future and dies with it
  /\ pc[c] \in {"calling", "missed", "waiting"}
  /\ Return(c, "gave_up")
  /\ fetch' = IF starter = c THEN NoTask ELSE fetch
  /\ starter' = IF starter = c THEN NoCaller ELSE starter
  /\ UNCHANGED <<store, gate, server, window>>

(* The caller's future is dropped at one of its awaits. *)
Cancel(c) ==
  /\ pc[c] \in {"calling", "missed", "waiting"}
  /\ Return(c, "gave_up")
  /\ starter' = IF starter = c THEN NoCaller ELSE starter
  /\ UNCHANGED <<store, gate, fetch, server, window>>

-----------------------------------------------------------------------------
(* The detached task. *)

Reply ==
  /\ fetch.st = "sent"
  /\ \E set \in {idp, {}} : fetch' = [fetch EXCEPT !.st = "replied", !.set = set]
  /\ UNCHANGED <<store, gate, starter, calls, server, window>>

(* The task ends: it drops the guard and its outcome goes to the caller that *)
(* still awaits it.                                                          *)
Finish(outcome, ending) ==
  /\ IF starter = NoCaller THEN UNCHANGED calls ELSE Return(starter, outcome)
  /\ window' = IF fetch.kind = "forced" THEN ending ELSE window
  /\ fetch' = NoTask /\ starter' = NoCaller

(* The transport, the status, the size, the JSON or an empty set. *)
FetchFails ==
  /\ fetch.st \in {"sent", "replied"}
  /\ failures' = Smaller(failures + 1, MaxFailures)
  /\ backoff' \in Delays(failures')
  /\ Finish("fetch_failed", "failed")
  /\ UNCHANGED <<store, forcedAge, server>>

InstallAnything ==  \* mutant: an empty set replaces the one held
  /\ fetch.st = "replied"
  /\ keys' = fetch.set /\ age' = 0
  /\ fetch' = [fetch EXCEPT !.st = "installed"]
  /\ UNCHANGED <<gate, starter, calls, server, window>>

(* Source::fetch writes the cache, which callers read outside the gate ... *)
Install ==
  /\ fetch.st = "replied" /\ fetch.set # {}
  /\ keys' = fetch.set /\ age' = 0
  /\ fetch' = [fetch EXCEPT !.st = "installed"]
  /\ UNCHANGED <<gate, starter, calls, server, window>>

(* ... and the task records the success. *)
Succeed ==
  /\ fetch.st = "installed"
  /\ failures' = 0 /\ backoff' = 0
  /\ Finish(IF starter # NoCaller /\ kid[starter] \in fetch.set THEN "accepted" ELSE "no_key", "ok")
  /\ UNCHANGED <<store, forcedAge, server>>

-----------------------------------------------------------------------------
Rotate(S) ==
  /\ rotations < MaxRotations /\ S # idp
  /\ rotations' = rotations + 1 /\ idp' = S
  /\ since' = [k \in Kids |-> IF (k \in S) = (k \in idp) THEN since[k] ELSE 0]
  /\ UNCHANGED <<store, gate, task, calls, window>>

(* Time passes; the task does not wait between the cache and the gate.       *)
Tick ==
  /\ GateFree \/ (fetch.st \in {"sent", "replied"} /\ fetch.age < FetchMax)
  /\ age' = Smaller(age + 1, Lifetime)
  /\ forcedAge' = Smaller(forcedAge + 1, MinRefetch)
  /\ backoff' = Larger(backoff - 1, 0)
  /\ fetch' = IF GateFree THEN fetch ELSE [fetch EXCEPT !.age = @ + 1]
  /\ since' = [k \in Kids |-> Smaller(since[k] + 1, Horizon)]
  /\ UNCHANGED <<keys, failures, starter, calls, idp, rotations, window>>

Gated(c) == FindAgain(c) \/ RefuseRateLimited(c) \/ RefuseBackingOff(c) \/ StartFetch(c)
Task     == Reply \/ FetchFails \/ Install \/ Succeed

Next ==
  \/ \E c \in Callers : (\E k \in Kids : Call(c, k)) \/ LookUp(c) \/ Gated(c) \/ Cancel(c)
  \/ Task
  \/ \E S \in (SUBSET Kids) \ {{}} : Rotate(S)
  \/ Tick

(* tokio polls a task that can run, its mutex is handed over in order, the   *)
(* client's timeout ends every exchange, and time passes.                    *)
Fairness ==
  /\ \A c \in Callers : WF_vars(LookUp(c)) /\ SF_vars(Gated(c))
  /\ WF_vars(Task) /\ WF_vars(Tick)

Spec     == Init /\ [][Next]_vars
FairSpec == Spec /\ Fairness

-----------------------------------------------------------------------------
TypeOK ==
  /\ keys \in SUBSET Kids /\ age \in 0..Lifetime /\ forcedAge \in 0..MinRefetch
  /\ failures \in 0..MaxFailures /\ backoff \in 0..BackoffCap
  /\ fetch \in [st : {"none", "sent", "replied", "installed"}, set : SUBSET Kids,
                age : 0..FetchMax, kind : {"load", "forced"}]
  /\ starter \in Callers \cup {NoCaller}
  /\ pc \in [Callers -> Outcomes \cup {"calling", "missed", "waiting"}]
  /\ kid \in [Callers -> Kids \cup {NoKid}]
  /\ idp \in SUBSET Kids /\ since \in [Kids -> 0..Horizon] /\ rotations \in 0..MaxRotations
  /\ window \in {"none", "refused", "running", "ok", "failed"}

Ends(c, outcome) == pc[c] # outcome /\ pc'[c] = outcome

(* A key the provider has withdrawn is accepted for at most the lifetime of *)
(* a key set plus one exchange (fresh_set).                                 *)
WithdrawnKeysExpire ==
  [][\A c \in Callers : Ends(c, "accepted") =>
       kid[c] \in idp \/ since[kid[c]] < Lifetime + FetchMax]_vars

Refused(c) == Ends(c, "rate_limited") /\ kid[c] \in idp /\ since[kid[c]] >= MinRefetch

(* The window refuses a key the provider has published for a whole window   *)
(* only after a refetch that failed or that the backoff refused: a caller   *)
(* that is cancelled does not waste the window for the others (the comment  *)
(* on why the fetch is detached).  And a key another task's fetch has cached *)
(* while the caller queued at the gate is neither refused nor fetched again. *)
DecidesOnAStaleMiss(c) ==
  (Ends(c, "rate_limited") \/ Ends(c, "backing_off") \/ StartFetch(c)) /\ Cached(kid[c])
RefusalsAreExplained ==
  [][\A c \in Callers :
       /\ Refused(c) => window \in {"failed", "refused"}
       /\ ~DecidesOnAStaleMiss(c)]_vars

(* What a validation is told is just: it is neither given a key that is not *)
(* the provider's any longer nor denied one without a reason.  The types    *)
(* are checked with it.                                                     *)
AnswersAreJust == []TypeOK /\ WithdrawnKeysExpire /\ RefusalsAreExplained

(* The same as in Go, where the window is stamped only by a refetch that     *)
(* starts: a refusal by the window follows a request that failed.           *)
RefusalsFollowARequest == [][\A c \in Callers : Refused(c) => window = "failed"]_vars

(* The key store implements the policy, except that a refetch the backoff    *)
(* refuses stamps the window.  A set is obtained when it is written.         *)
Installed == fetch.st = "installed"
Policy == INSTANCE JwksPolicy WITH
  Liberties <- {"refusal_stamps"},
  failures  <- IF Installed THEN 0 ELSE failures,
  backoff   <- IF Installed THEN 0 ELSE backoff,
  request   <- IF fetch.st \in {"sent", "replied"} THEN "sent" ELSE "none"
ImplementsPolicy == Policy!Spec

(* Once fetches stop failing and the provider publishes a key for good, a    *)
(* caller that keeps asking for it and is not cancelled is eventually given *)
(* it, however often others ask for unknown key ids and are cancelled.      *)
Healthy    == [][~FetchFails]_vars
Patient(c) == [][~(pc[c] # "gave_up" /\ pc'[c] = "gave_up")]_vars

Recovers ==
  \A c \in Callers, k \in Kids :
    <>Healthy /\ <>Patient(c) /\ <>[](k \in idp) /\ []<>(pc[c] = "missed" /\ kid[c] = k)
      => []<>(pc[c] = "accepted")
=============================================================================
