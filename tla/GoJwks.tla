------------------------------- MODULE GoJwks -------------------------------
(***************************************************************************)
(* The JWKS key store of the Go SDK (go/jwt.go): one cached key set shared *)
(* by every goroutine that validates a token, one fetch in flight, a       *)
(* window that limits the refetches forced by unknown key ids, and a       *)
(* backoff that limits the requests to a failing identity provider.        *)
(*                                                                         *)
(* Time advances by Tick.                                                  *)
(***************************************************************************)
EXTENDS Backoff

CONSTANTS
  Callers,        \* goroutines that call Validate
  Kids,           \* key ids of tokens; one the provider never publishes is a forger's
  NoKid,          \* the key id of a caller outside Validate
  Flights,        \* jwksFlight objects (recycled when nobody holds one)
  NoFlight,       \* the nil *jwksFlight
  Lifetime,       \* jwksMaxAgeSeconds
  MinRefetch,     \* opts.minRefetch
  FetchMax,       \* Config.ReadTimeout, the deadline of one JWKS exchange
  MaxFailures,    \* bound of the failure counter: from here the delay is the cap
  MaxRotations,   \* bound of the key rotations explored
  Horizon         \* how far back the history of the provider's key set reaches

ASSUME ConstantsAssumption ==
  /\ NoKid \notin Kids
  /\ NoFlight \notin Flights
  /\ Lifetime \in Nat \ {0} /\ MinRefetch \in Nat \ {0} /\ FetchMax \in Nat \ {0}
  /\ MaxFailures \in Nat \ {0}
  /\ MaxRotations \in Nat /\ Horizon \in Nat

VARIABLES
  keys,       \* the key ids of jwks ({} before the first load)
  age,        \* time since loadedAt; Lifetime when expired or never loaded
  forcedAge,  \* time since forcedAt; MinRefetch when the window is over or unset
  failures,   \* consecutive failed fetches
  backoff,    \* what is left of the backoff of the last failure
  flight,     \* the fetch in progress, or NoFlight
  fl,         \* the jwksFlight objects with the goroutine that runs each
  pc, kid, on,\* per caller: where it is, its key id, the flight it waits for
  idp,        \* the identity provider: the key ids it publishes,
  since,      \*   how long ago each was last published or withdrawn,
  rotations,  \*   how many rotations it has made
  window      \* history: the last forced refetch and how it ended

cache   == <<keys, age>>
gates   == <<forcedAge, failures, backoff>>
calls   == <<pc, kid, on>>
server  == <<idp, since, rotations>>
vars    == <<keys, age, forcedAge, failures, backoff, flight, fl,
             pc, kid, on, idp, since, rotations, window>>

Outcomes == {"idle", "accepted", "no_key", "rate_limited", "backing_off", "fetch_failed", "gave_up"}

(* A jwksFlight: the stage of its goroutine, whether a cold cache or an     *)
(* unknown key id started it, what the provider answered, its outcome and   *)
(* how long its exchange has lasted.                                       *)
Flight ==
  [st : {"free", "sent", "replied", "fetched", "recorded", "closed"}, kind : {"load", "forced"},
   set : SUBSET Kids, err : {"nil", "error"}, age : 0..FetchMax]
NewFlight(st, kind) == [st |-> st, kind |-> kind, set |-> {}, err |-> "nil", age |-> 0]
OnTheWire == {"sent", "replied"}

-----------------------------------------------------------------------------
Fresh     == age < Lifetime
CachedAtAnyAge(k) == k \in keys            \* mutant: the lifetime is not looked at
Cached(k) == Fresh /\ k \in keys

-----------------------------------------------------------------------------
Init ==
  /\ keys = {} /\ age = Lifetime
  /\ forcedAge = MinRefetch /\ failures = 0 /\ backoff = 0
  /\ flight = NoFlight
  /\ fl = [f \in Flights |-> NewFlight("free", "load")]
  /\ pc = [c \in Callers |-> "idle"]
  /\ kid = [c \in Callers |-> NoKid]
  /\ on = [c \in Callers |-> NoFlight]
  /\ idp \in (SUBSET Kids) \ {{}}
  /\ since = [k \in Kids |-> Horizon]
  /\ rotations = 0
  /\ window = [age |-> MinRefetch, end |-> "none"]

-----------------------------------------------------------------------------
(* The callers: Validate, as far as resolveKey.                            *)

(* A token within the length cap and with an allowed algorithm.            *)
Call(c, k) ==
  /\ pc[c] \in Outcomes
  /\ kid' = [kid EXCEPT ![c] = k]
  /\ pc' = [pc EXCEPT ![c] = "calling"]
  /\ UNCHANGED <<on, cache, gates, flight, fl, server, window>>

(* A caller leaves resolveKey. *)
Return(c, outcome) ==
  /\ pc' = [pc EXCEPT ![c] = outcome]
  /\ kid' = [kid EXCEPT ![c] = NoKid]

(* The first lookup of resolveKey, outside any decision. *)
LookUp(c) ==
  /\ pc[c] = "calling"
  /\ IF Cached(kid[c])
       THEN Return(c, "accepted")
       ELSE pc' = [pc EXCEPT ![c] = "missed"] /\ UNCHANGED kid
  /\ UNCHANGED <<on, cache, gates, flight, fl, server, window>>

(* fetchFor finds the key id under the lock: the flight is nil.            *)
FindAgain(c) ==
  /\ pc[c] = "missed" /\ Cached(kid[c])
  /\ pc' = [pc EXCEPT ![c] = "looking"]
  /\ UNCHANGED <<kid, on, cache, gates, flight, fl, server, window>>

(* fetchFor joins the fetch in flight.                                     *)
Join(c) ==
  /\ pc[c] = "missed" /\ ~Cached(kid[c]) /\ flight # NoFlight
  /\ pc' = [pc EXCEPT ![c] = "waiting"]
  /\ on' = [on EXCEPT ![c] = flight]
  /\ UNCHANGED <<kid, cache, gates, flight, fl, server, window>>

Unused(f) == fl[f].st \in {"free", "closed"} /\ \A c \in Callers : on[c] # f

(* startFetchLocked past the backoff: the caller waits for the new flight. *)
StartFetch(c, kind) ==
  /\ backoff = 0
  /\ \E f \in Flights :
       /\ Unused(f)
       /\ fl' = [fl EXCEPT ![f] = NewFlight("sent", kind)]
       /\ flight' = f
       /\ on' = [on EXCEPT ![c] = f]
  /\ pc' = [pc EXCEPT ![c] = "waiting"]

(* startFetchLocked inside the backoff. *)
BackedOff(c) ==
  /\ backoff > 0
  /\ Return(c, "backing_off")

(* fetchFor decides on a fetch: the initial load of a cold or expired      *)
(* cache, or a forced refetch once the window is over.                     *)
NeedsLoadAnyway(c)  == pc[c] = "missed" /\ ~Fresh                      \* mutant: no single flight
NeedsLoad(c) == pc[c] = "missed" /\ flight = NoFlight /\ ~Fresh
MayForce(c)  == pc[c] = "missed" /\ flight = NoFlight /\ Fresh /\ kid[c] \notin keys
WindowOver   == forcedAge >= MinRefetch

StartColdLoad(c) ==
  /\ NeedsLoad(c)
  /\ StartFetch(c, "load")
  /\ UNCHANGED <<kid, cache, gates, server, window>>

StartForcedRefetch(c) ==
  /\ MayForce(c) /\ WindowOver
  /\ StartFetch(c, "forced")
  /\ forcedAge' = 0
  /\ window' = [age |-> 0, end |-> "running"]
  /\ UNCHANGED <<kid, cache, failures, backoff, server>>

RefuseAndStamp(c) ==  \* mutant: the window is stamped before the backoff is asked
  /\ NeedsLoad(c) \/ (MayForce(c) /\ WindowOver)
  /\ BackedOff(c)
  /\ forcedAge' = IF Fresh THEN 0 ELSE forcedAge
  /\ UNCHANGED <<on, cache, failures, backoff, flight, fl, server, window>>

RefuseBackingOff(c) ==
  /\ NeedsLoad(c) \/ (MayForce(c) /\ WindowOver)
  /\ BackedOff(c)
  /\ UNCHANGED <<on, cache, gates, flight, fl, server, window>>

RefuseRateLimited(c) ==
  /\ MayForce(c) /\ ~WindowOver
  /\ Return(c, "rate_limited")
  /\ UNCHANGED <<on, cache, gates, flight, fl, server, window>>

(* wait returns the outcome of a finished flight. *)
Wake(c) ==
  /\ pc[c] = "waiting" /\ fl[on[c]].st = "closed"
  /\ IF fl[on[c]].err = "error"
       THEN Return(c, "fetch_failed")
       ELSE pc' = [pc EXCEPT ![c] = "looking"] /\ UNCHANGED kid
  /\ on' = [on EXCEPT ![c] = NoFlight]
  /\ UNCHANGED <<cache, gates, flight, fl, server, window>>

(* The last lookup of resolveKey. *)
LookAgain(c) ==
  /\ pc[c] = "looking"
  /\ Return(c, IF Cached(kid[c]) THEN "accepted" ELSE "no_key")
  /\ UNCHANGED <<on, cache, gates, flight, fl, server, window>>

(* The caller's context ends: before it asks for a fetch, or while it waits *)
(* (a finished flight wins over the context).                              *)
GiveUp(c) ==
  /\ \/ pc[c] = "missed"
     \/ pc[c] = "waiting" /\ fl[on[c]].st # "closed"
  /\ Return(c, "gave_up")
  /\ on' = [on EXCEPT ![c] = NoFlight]
  /\ UNCHANGED <<cache, gates, flight, fl, server, window>>

-----------------------------------------------------------------------------
(* The goroutine of a flight: runFetch and fetch.                          *)

(* The provider answers with its key set as of now; a proxy or a realm that *)
(* is not up answers 200 with an empty one.                                *)
Reply(f) ==
  /\ fl[f].st = "sent"
  /\ \E set \in {idp, {}} : fl' = [fl EXCEPT ![f] = [@ EXCEPT !.st = "replied", !.set = set]]
  /\ UNCHANGED <<cache, gates, flight, calls, server, window>>

FetchErrorReturnsEarly(f) ==  \* mutant: an error ends the goroutine, nothing is recorded or closed
  /\ fl[f].st \in OnTheWire
  /\ fl' = [fl EXCEPT ![f] = NewFlight("free", "load")]
  /\ UNCHANGED <<cache, gates, flight, calls, server, window>>

(* fetch returns an error: no connection, a status that is not 2xx, a body  *)
(* past the cap or not JSON, no keys, the deadline of the client.          *)
FetchError(f) ==
  /\ fl[f].st \in OnTheWire
  /\ fl' = [fl EXCEPT ![f] = [@ EXCEPT !.st = "fetched", !.err = "error", !.set = {}, !.age = 0]]
  /\ UNCHANGED <<cache, gates, flight, calls, server, window>>

InstallAnything(f) ==  \* mutant: an empty key set replaces a good one
  /\ fl[f].st = "replied"
  /\ keys' = fl[f].set /\ age' = 0
  /\ fl' = [fl EXCEPT ![f] = [@ EXCEPT !.st = "fetched", !.set = {}, !.age = 0]]
  /\ UNCHANGED <<gates, flight, calls, server, window>>

(* fetch installs a non-empty key set, in a lock section of its own. *)
Install(f) ==
  /\ fl[f].st = "replied" /\ fl[f].set # {}
  /\ keys' = fl[f].set /\ age' = 0
  /\ fl' = [fl EXCEPT ![f] = [@ EXCEPT !.st = "fetched", !.set = {}, !.age = 0]]
  /\ UNCHANGED <<gates, flight, calls, server, window>>

(* runFetch records the outcome and clears the flight. *)
Record(f) ==
  /\ fl[f].st = "fetched"
  /\ IF fl[f].err = "error"
       THEN /\ failures' = Smaller(failures + 1, MaxFailures)
            /\ backoff' \in Delays(failures')
       ELSE failures' = 0 /\ backoff' = 0
  /\ flight' = NoFlight
  /\ fl' = [fl EXCEPT ![f].st = "recorded"]
  /\ window' = IF fl[f].kind = "forced"
                 THEN [window EXCEPT !.end = IF fl[f].err = "error" THEN "failed" ELSE "ok"]
                 ELSE window
  /\ UNCHANGED <<cache, forcedAge, calls, server>>

(* ... then publishes f.err and closes f.done, outside the lock. *)
Close(f) ==
  /\ fl[f].st = "recorded"
  /\ fl' = [fl EXCEPT ![f].st = "closed"]
  /\ UNCHANGED <<cache, gates, flight, calls, server, window>>

-----------------------------------------------------------------------------
(* The environment. *)

Rotate(S) ==
  /\ rotations < MaxRotations /\ S # idp
  /\ rotations' = rotations + 1
  /\ idp' = S
  /\ since' = [k \in Kids |-> IF (k \in S) = (k \in idp) THEN since[k] ELSE 0]
  /\ UNCHANGED <<cache, gates, flight, fl, calls, window>>

(* Time passes, except past the deadline of an exchange. *)
Tick ==
  /\ \A f \in Flights : fl[f].st \in OnTheWire => fl[f].age < FetchMax
  /\ age' = Smaller(age + 1, Lifetime)
  /\ forcedAge' = Smaller(forcedAge + 1, MinRefetch)
  /\ backoff' = Larger(backoff - 1, 0)
  /\ fl' = [f \in Flights |-> IF fl[f].st \in OnTheWire
                                THEN [fl[f] EXCEPT !.age = fl[f].age + 1] ELSE fl[f]]
  /\ since' = [k \in Kids |-> Smaller(since[k] + 1, Horizon)]
  /\ window' = [window EXCEPT !.age = Smaller(window.age + 1, MinRefetch)]
  /\ UNCHANGED <<keys, failures, flight, calls, idp, rotations>>

-----------------------------------------------------------------------------
FetchFor(c) ==
  \/ FindAgain(c) \/ Join(c)
  \/ StartColdLoad(c) \/ StartForcedRefetch(c)
  \/ RefuseBackingOff(c) \/ RefuseRateLimited(c)

Caller(c) ==
  \/ \E k \in Kids : Call(c, k)
  \/ LookUp(c) \/ FetchFor(c) \/ Wake(c) \/ LookAgain(c) \/ GiveUp(c)

RunFetch(f) ==
  \/ Reply(f) \/ FetchError(f) \/ Install(f) \/ Record(f) \/ Close(f)

Next ==
  \/ \E c \in Callers : Caller(c)
  \/ \E f \in Flights : RunFetch(f)
  \/ \E S \in (SUBSET Kids) \ {{}} : Rotate(S)
  \/ Tick

Spec == Init /\ [][Next]_vars

-----------------------------------------------------------------------------
TypeOK ==
  /\ keys \in SUBSET Kids /\ age \in 0..Lifetime
  /\ forcedAge \in 0..MinRefetch
  /\ failures \in 0..MaxFailures /\ backoff \in 0..BackoffCap
  /\ flight \in Flights \cup {NoFlight}
  /\ fl \in [Flights -> Flight]
  /\ pc \in [Callers -> Outcomes \cup {"calling", "missed", "waiting", "looking"}]
  /\ kid \in [Callers -> Kids \cup {NoKid}]
  /\ on \in [Callers -> Flights \cup {NoFlight}]
  /\ idp \in SUBSET Kids /\ since \in [Kids -> 0..Horizon]
  /\ rotations \in 0..MaxRotations
  /\ window \in [age : 0..MinRefetch, end : {"none", "running", "ok", "failed"}]

(* At most one JWKS request is with the provider at a time, however many   *)
(* goroutines miss, give up or wake (jwksFlight, fetchFor).                *)
OneRequestAtATime ==
  \A f, g \in Flights : fl[f].st \in OnTheWire /\ fl[g].st \in OnTheWire => f = g

(* Nobody waits in vain.  The flight callers join is one whose exchange is *)
(* not over; a waiter's flight is held by a goroutine that has yet to close *)
(* it, or is closed, whatever became of the caller that started it, and     *)
(* until its outcome is recorded it is the one everybody else would join   *)
(* (runFetch closes a flight that failed as well; jwksFlight.wait).        *)
Busy(f) == fl[f].st \in {"sent", "replied", "fetched"}
WaitersAreServed ==
  /\ flight # NoFlight => Busy(flight)
  /\ \A c \in Callers : pc[c] = "waiting" =>
       on[c] \in Flights /\ fl[on[c]].st # "free" /\ (Busy(on[c]) => flight = on[c])

(* One flight serves everybody: one request at a time, and no waiter is    *)
(* left on a flight that nobody will close.                                *)
OneFlightServesAll == OneRequestAtATime /\ WaitersAreServed

Ends(c, outcome) == pc[c] # outcome /\ pc'[c] = outcome

(* A key the provider has withdrawn is accepted for at most the lifetime of *)
(* a key set plus one exchange (jwksMaxAgeSeconds, freshLocked).           *)
WithdrawnKeysExpire ==
  [][\A c \in Callers : Ends(c, "accepted") =>
       kid[c] \in idp \/ since[kid[c]] < Lifetime + FetchMax]_vars

(* The window refuses a key the provider has published for at least a whole *)
(* window only while the refetch that opened it, a request made less than a *)
(* window ago, has failed: the window is never spent without a request     *)
(* (fetchFor, and its comment on what stamping first used to cost).  And a  *)
(* key that another goroutine's fetch has cached since the caller missed it *)
(* is neither refused nor fetched again.                                   *)
RefusedUnexplained(c) ==
  /\ Ends(c, "rate_limited") /\ kid[c] \in idp /\ since[kid[c]] >= MinRefetch
  /\ ~(window.age < MinRefetch /\ window.end = "failed")
DecidesOnAStaleMiss(c) ==
  /\ Ends(c, "rate_limited") \/ Ends(c, "backing_off") \/ StartForcedRefetch(c)
  /\ Cached(kid[c])
RefusalsAreExplained ==
  [][\A c \in Callers : ~RefusedUnexplained(c) /\ ~DecidesOnAStaleMiss(c)]_vars

(* Between two requests that unknown key ids force, a whole window passes, *)
(* and the loads of a cold cache do not count.                             *)
ForcedRequestsAreSpaced ==
  [][\A f \in Flights :
       fl[f].st # "sent" /\ fl'[f].st = "sent" /\ Fresh => window.age = MinRefetch]_vars

(* The key store implements the policy.  A key set is obtained when it is  *)
(* installed, so a flight that has installed one and has not recorded it   *)
(* counts as recorded.                                                     *)
Installed == \E f \in Flights : fl[f].st = "fetched" /\ fl[f].err = "nil"
Pending   == {f \in Flights : fl[f].st \in OnTheWire \/ (fl[f].st = "fetched" /\ fl[f].err = "error")}
Request   == IF Pending = {} THEN "none" ELSE "sent"

Policy == INSTANCE JwksPolicy WITH
  Liberties <- {},
  failures <- IF Installed THEN 0 ELSE failures,
  backoff  <- IF Installed THEN 0 ELSE backoff,
  request  <- Request

(* Whatever the goroutines do, the provider sees requests only when the    *)
(* policy allows one, and a failed one takes no key away.                  *)
ImplementsPolicy == Policy!Spec
=============================================================================
