---------------------------- MODULE GoJwksProofs ----------------------------
(***************************************************************************)
(* Proofs about the Go key store, for any number of callers, key ids and   *)
(* flights and any lifetime, window, deadline and backoff.                 *)
(***************************************************************************)
EXTENDS GoJwks, TLAPS

-----------------------------------------------------------------------------
(* The arithmetic of the saturating clocks. *)

LEMMA DelaysBounded == \A n : Delays(n) \subseteq 0..BackoffCap
BY DEF Delays

LEMMA AgesStayInRange ==
  ASSUME NEW x, NEW bound \in Nat, x \in 0..bound
  PROVE  Smaller(x + 1, bound) \in 0..bound /\ Larger(x - 1, 0) \in 0..bound
BY DEF Smaller, Larger

LEMMA NewFlightType ==
  \A st \in {"free", "sent"}, kind \in {"load", "forced"} : NewFlight(st, kind) \in Flight
BY ConstantsAssumption DEF NewFlight, Flight

(* The updates a flight goes through. *)
LEMMA FlightStage ==
  ASSUME NEW r \in Flight, NEW st \in {"free", "sent", "replied", "fetched", "recorded", "closed"}
  PROVE  [r EXCEPT !.st = st] \in Flight
BY DEF Flight

LEMMA FlightReplied ==
  ASSUME NEW r \in Flight, NEW set \in SUBSET Kids
  PROVE  [r EXCEPT !.st = "replied", !.set = set] \in Flight
BY DEF Flight

LEMMA FlightRestarted ==
  ASSUME NEW r \in Flight
  PROVE  [r EXCEPT !.age = 0] \in Flight
BY ConstantsAssumption DEF Flight

LEMMA FlightEmptied ==
  ASSUME NEW r \in Flight
  PROVE  [r EXCEPT !.set = {}, !.age = 0] \in Flight
<1>1. [r EXCEPT !.set = {}] \in Flight
  BY DEF Flight
<1> QED
  BY <1>1, FlightRestarted

LEMMA FlightFetched ==
  ASSUME NEW r \in Flight
  PROVE  [r EXCEPT !.st = "fetched", !.set = {}, !.age = 0] \in Flight
<1>1. [r EXCEPT !.st = "fetched"] \in Flight
  BY DEF Flight
<1> QED
  BY <1>1, FlightEmptied

LEMMA FlightFailed ==
  ASSUME NEW r \in Flight
  PROVE  [r EXCEPT !.st = "fetched", !.err = "error", !.set = {}, !.age = 0] \in Flight
<1>1. [r EXCEPT !.st = "fetched"] \in Flight
  BY DEF Flight
<1>2. [[r EXCEPT !.st = "fetched"] EXCEPT !.err = "error"] \in Flight
  BY <1>1 DEF Flight
<1> QED
  BY <1>2, FlightEmptied

LEMMA FlightFailedFields ==
  ASSUME NEW r \in Flight
  PROVE  LET s == [r EXCEPT !.st = "fetched", !.err = "error", !.set = {}, !.age = 0]
         IN  s.st = "fetched" /\ s.err = "error" /\ s.kind = r.kind
BY DEF Flight

LEMMA FlightOlder ==
  ASSUME NEW r \in Flight, r.age < FetchMax
  PROVE  [r EXCEPT !.age = r.age + 1] \in Flight
BY ConstantsAssumption DEF Flight

(* What the steps of the goroutine of a flight do to it. *)
LEMMA FlightSteps ==
  ASSUME TypeOK, NEW f \in Flights
  PROVE  /\ Reply(f) => fl'[f].st = "replied" /\ fl'[f].err = fl[f].err /\ fl'[f].kind = fl[f].kind
         /\ FetchError(f) => fl'[f].st = "fetched" /\ fl'[f].err = "error" /\ fl'[f].kind = fl[f].kind
         /\ Install(f) => fl'[f].st = "fetched" /\ fl'[f].err = fl[f].err /\ fl'[f].kind = fl[f].kind
         /\ Record(f) => fl'[f].st = "recorded"
         /\ Close(f) => fl'[f].st = "closed"
         /\ RunFetch(f) => \A g \in Flights \ {f} : fl'[g] = fl[g]
<1>0. fl[f] \in Flight
  BY DEF TypeOK
<1>1. Reply(f) => fl'[f].st = "replied" /\ fl'[f].err = fl[f].err /\ fl'[f].kind = fl[f].kind
  <2> SUFFICES ASSUME NEW set, fl' = [fl EXCEPT ![f] = [@ EXCEPT !.st = "replied", !.set = set]]
               PROVE  fl'[f].st = "replied" /\ fl'[f].err = fl[f].err /\ fl'[f].kind = fl[f].kind
    BY DEF Reply
  <2> QED
    BY <1>0 DEF TypeOK, Flight
<1>2. FetchError(f) => fl'[f].st = "fetched" /\ fl'[f].err = "error" /\ fl'[f].kind = fl[f].kind
  BY <1>0, FlightFailedFields DEF FetchError, TypeOK
<1>3. Install(f) => fl'[f].st = "fetched" /\ fl'[f].err = fl[f].err /\ fl'[f].kind = fl[f].kind
  BY <1>0 DEF Install, TypeOK, Flight
<1>4. Record(f) => fl'[f].st = "recorded"
  BY <1>0 DEF Record, TypeOK, Flight
<1>5. Close(f) => fl'[f].st = "closed"
  BY <1>0 DEF Close, TypeOK, Flight
<1>6. RunFetch(f) => \A g \in Flights \ {f} : fl'[g] = fl[g]
  BY DEF RunFetch, Reply, FetchError, Install, Record, Close, TypeOK
<1> QED
  BY <1>1, <1>2, <1>3, <1>4, <1>5, <1>6

LEMMA FlightTick ==
  ASSUME TypeOK, Tick, NEW f \in Flights
  PROVE  /\ fl'[f].st = fl[f].st /\ fl'[f].err = fl[f].err /\ fl'[f].kind = fl[f].kind
         /\ fl'[f].set = fl[f].set
         /\ fl[f].st \in OnTheWire => fl'[f].age = fl[f].age + 1
<1>1. fl[f] \in Flight
  BY DEF TypeOK
<1>2. CASE fl[f].st \in OnTheWire
  <2>1. fl'[f] = [fl[f] EXCEPT !.age = fl[f].age + 1]
    BY <1>2 DEF Tick
  <2> QED
    BY <1>1, <2>1 DEF Flight
<1>3. CASE fl[f].st \notin OnTheWire
  BY <1>3 DEF Tick
<1> QED
  BY <1>2, <1>3

-----------------------------------------------------------------------------
(* Every action keeps the types. *)
LEMMA TypeInit == Init => TypeOK
BY ConstantsAssumption, BackoffAssumption, NewFlightType DEF Init, TypeOK, Outcomes

LEMMA TypeCaller ==
  ASSUME TypeOK, NEW c \in Callers, Caller(c)
  PROVE  TypeOK'
<1> USE ConstantsAssumption, BackoffAssumption DEF TypeOK, Outcomes, cache, gates, calls, server, Return
<1>1. CASE \E k \in Kids : Call(c, k)
  BY <1>1 DEF Call
<1>2. CASE LookUp(c)
  BY <1>2 DEF LookUp
<1>3. CASE FindAgain(c)
  BY <1>3 DEF FindAgain
<1>4. CASE Join(c)
  BY <1>4 DEF Join
<1>5. CASE StartColdLoad(c)
  BY <1>5, NewFlightType DEF StartColdLoad, StartFetch
<1>6. CASE StartForcedRefetch(c)
  BY <1>6, NewFlightType DEF StartForcedRefetch, StartFetch
<1>7. CASE RefuseBackingOff(c)
  BY <1>7 DEF RefuseBackingOff, BackedOff
<1>8. CASE RefuseRateLimited(c)
  BY <1>8 DEF RefuseRateLimited
<1>9. CASE Wake(c)
  BY <1>9 DEF Wake
<1>10. CASE LookAgain(c)
  BY <1>10 DEF LookAgain
<1>11. CASE GiveUp(c)
  BY <1>11 DEF GiveUp
<1> QED
  BY <1>1, <1>2, <1>3, <1>4, <1>5, <1>6, <1>7, <1>8, <1>9, <1>10, <1>11 DEF Caller, FetchFor

LEMMA TypeFetch ==
  ASSUME TypeOK, NEW f \in Flights, RunFetch(f)
  PROVE  TypeOK'
<1> USE ConstantsAssumption, BackoffAssumption DEF TypeOK, cache, gates, calls, server
<1> fl[f] \in Flight
  OBVIOUS
<1>1. CASE Reply(f)
  <2>1. PICK set \in SUBSET Kids : fl' = [fl EXCEPT ![f] = [@ EXCEPT !.st = "replied", !.set = set]]
    BY <1>1 DEF Reply
  <2>2. fl' \in [Flights -> Flight]
    BY <2>1, FlightReplied
  <2> QED
    BY <1>1, <2>2 DEF Reply
<1>2. CASE FetchError(f)
  <2>1. fl' \in [Flights -> Flight]
    BY <1>2, FlightFailed DEF FetchError
  <2> QED
    BY <1>2, <2>1 DEF FetchError
<1>3. CASE Install(f)
  <2>1. fl' \in [Flights -> Flight]
    BY <1>3, FlightFetched DEF Install
  <2>2. keys' \in SUBSET Kids
    BY <1>3 DEF Install, Flight
  <2> QED
    BY <1>3, <2>1, <2>2 DEF Install
<1>4. CASE Record(f)
  <2>1. failures' \in 0..MaxFailures
    BY <1>4 DEF Record, Smaller
  <2>2. backoff' \in 0..BackoffCap
    BY <1>4, DelaysBounded DEF Record
  <2>3. fl' \in [Flights -> Flight]
    BY <1>4, FlightStage DEF Record
  <2> QED
    BY <1>4, <2>1, <2>2, <2>3 DEF Record
<1>5. CASE Close(f)
  <2>1. fl' \in [Flights -> Flight]
    BY <1>5, FlightStage DEF Close
  <2> QED
    BY <1>5, <2>1 DEF Close
<1> QED
  BY <1>1, <1>2, <1>3, <1>4, <1>5 DEF RunFetch

LEMMA TypeEnvironment ==
  ASSUME TypeOK, Tick \/ (\E S \in (SUBSET Kids) \ {{}} : Rotate(S))
  PROVE  TypeOK'
<1> USE ConstantsAssumption, BackoffAssumption DEF TypeOK, cache, gates, calls, server
<1>1. CASE Tick
  <2>1. /\ age' \in 0..Lifetime /\ forcedAge' \in 0..MinRefetch /\ backoff' \in 0..BackoffCap
        /\ since' \in [Kids -> 0..Horizon]
        /\ window' \in [age : 0..MinRefetch, end : {"none", "running", "ok", "failed"}]
    BY <1>1, AgesStayInRange DEF Tick
  <2>2. fl' \in [Flights -> Flight]
    <3>1. ASSUME NEW f \in Flights PROVE fl'[f] \in Flight
      <4>1. CASE fl[f].st \in OnTheWire
        <5>1. fl[f] \in Flight /\ fl[f].age < FetchMax /\ fl'[f] = [fl[f] EXCEPT !.age = fl[f].age + 1]
          BY <1>1, <4>1 DEF Tick
        <5> QED
          BY <5>1, FlightOlder
      <4>2. CASE fl[f].st \notin OnTheWire
        BY <1>1, <4>2 DEF Tick
      <4> QED
        BY <4>1, <4>2
    <3> QED
      BY <1>1, <3>1 DEF Tick
  <2> QED
    BY <1>1, <2>1, <2>2 DEF Tick
<1>2. CASE \E S \in (SUBSET Kids) \ {{}} : Rotate(S)
  BY <1>2 DEF Rotate
<1> QED
  BY <1>1, <1>2

(* The key store keeps its types: the clocks saturate within their bounds  *)
(* and a flight is always in one of its stages.                            *)
THEOREM TypeCorrect == Spec => []TypeOK
<1>1. TypeOK /\ [Next]_vars => TypeOK'
  <2> SUFFICES ASSUME TypeOK, [Next]_vars PROVE TypeOK'
    OBVIOUS
  <2>1. CASE UNCHANGED vars
    BY <2>1 DEF TypeOK, vars
  <2> QED
    BY <2>1, TypeCaller, TypeFetch, TypeEnvironment DEF Next
<1> QED
  BY <1>1, TypeInit, PTL DEF Spec

-----------------------------------------------------------------------------
(* One request at a time.  The flight a caller could join is the only one  *)
(* whose exchange is not over: it is cleared in the lock section that      *)
(* records the exchange, and a new one is started only when there is none. *)
SingleFlight == \A f \in Flights : Busy(f) => flight = f

LEMMA SingleInit == Init => SingleFlight
BY DEF Init, SingleFlight, Busy, NewFlight

LEMMA SingleCaller ==
  ASSUME TypeOK, SingleFlight, NEW c \in Callers, Caller(c)
  PROVE  SingleFlight'
<1> USE DEF SingleFlight, Busy
<1>1. CASE \E kind \in {"load", "forced"} : flight = NoFlight /\ StartFetch(c, kind)
  <2>1. PICK f \in Flights, kind \in {"load", "forced"} :
             /\ flight = NoFlight
             /\ fl' = [fl EXCEPT ![f] = NewFlight("sent", kind)] /\ flight' = f
    BY <1>1 DEF StartFetch
  <2>2. \A g \in Flights : fl[g].st \notin {"sent", "replied", "fetched"}
    BY <2>1, ConstantsAssumption
  <2> QED
    BY <2>1, <2>2 DEF TypeOK
<1>2. CASE StartColdLoad(c) \/ StartForcedRefetch(c)
  BY <1>1, <1>2 DEF StartColdLoad, StartForcedRefetch, NeedsLoad, MayForce
<1>3. CASE UNCHANGED <<flight, fl>>
  BY <1>3
<1> QED
  BY <1>2, <1>3 DEF Caller, FetchFor, Call, LookUp, FindAgain, Join, RefuseBackingOff,
     RefuseRateLimited, Wake, LookAgain, GiveUp

LEMMA SingleFetch ==
  ASSUME TypeOK, SingleFlight, NEW f \in Flights, RunFetch(f)
  PROVE  SingleFlight'
<1> USE DEF SingleFlight, Busy
<1>1. CASE Reply(f) \/ FetchError(f) \/ Install(f)
  <2>1. Busy(f) /\ flight' = flight
    BY <1>1 DEF Reply, FetchError, Install, OnTheWire, gates
  <2> QED
    BY <2>1, FlightSteps
<1>2. CASE Record(f)
  <2>1. Busy(f)
    BY <1>2 DEF Record
  <2> QED
    BY <1>2, <2>1, FlightSteps
<1>3. CASE Close(f)
  <2>1. flight' = flight
    BY <1>3 DEF Close
  <2> QED
    BY <1>3, <2>1, FlightSteps
<1> QED
  BY <1>1, <1>2, <1>3 DEF RunFetch

LEMMA SingleEnvironment ==
  ASSUME TypeOK, SingleFlight, Tick \/ (\E S \in (SUBSET Kids) \ {{}} : Rotate(S))
  PROVE  SingleFlight'
<1>1. CASE Tick
  BY <1>1, FlightTick DEF Tick, calls, SingleFlight, Busy
<1>2. CASE \E S \in (SUBSET Kids) \ {{}} : Rotate(S)
  BY <1>2 DEF Rotate, SingleFlight, Busy
<1> QED
  BY <1>1, <1>2

LEMMA SingleStep == TypeOK /\ SingleFlight /\ [Next]_vars => SingleFlight'
<1> SUFFICES ASSUME TypeOK, SingleFlight, [Next]_vars PROVE SingleFlight'
  OBVIOUS
<1>1. CASE UNCHANGED vars
  BY <1>1 DEF SingleFlight, Busy, vars
<1> QED
  BY <1>1, SingleCaller, SingleFetch, SingleEnvironment DEF Next

(* At most one JWKS request is with the provider at a time.  Giving up is  *)
(* the step that makes it worth proving: a flight outlives its callers.    *)
THEOREM RequestsAreExclusive == Spec => []OneRequestAtATime
<1>1. SingleFlight => OneRequestAtATime
  BY DEF SingleFlight, Busy, OneRequestAtATime, OnTheWire
<1> QED
  BY <1>1, TypeCorrect, SingleInit, SingleStep, PTL DEF Spec

-----------------------------------------------------------------------------
(* Withdrawn keys expire.  A key the provider no longer publishes is in an *)
(* answer, or in the cache, only if it was published when the answer was   *)
(* given: not longer ago than the exchange or the cached set is old.       *)
RecentKeys ==
  /\ Fresh => \A k \in keys : k \in idp \/ since[k] <= age + FetchMax
  /\ \A f \in Flights :
       fl[f].st = "replied" => \A k \in fl[f].set : k \in idp \/ since[k] <= fl[f].age

LEMMA RecentInit == Init => RecentKeys
BY DEF Init, RecentKeys, NewFlight

LEMMA RecentCaller ==
  ASSUME TypeOK, RecentKeys, NEW c \in Callers, Caller(c)
  PROVE  RecentKeys'
<1>1. UNCHANGED <<keys, age, idp, since>>
  BY DEF Caller, FetchFor, Call, LookUp, FindAgain, Join, StartColdLoad, StartForcedRefetch,
     RefuseBackingOff, RefuseRateLimited, Wake, LookAgain, GiveUp, cache, server
<1>2. \A f \in Flights : fl'[f] = fl[f] \/ fl'[f].st = "sent"
  <2>1. CASE StartColdLoad(c) \/ StartForcedRefetch(c)
    <3>1. PICK f \in Flights, kind \in {"load", "forced"} : fl' = [fl EXCEPT ![f] = NewFlight("sent", kind)]
      BY <2>1 DEF StartColdLoad, StartForcedRefetch, StartFetch
    <3> QED
      BY <3>1 DEF NewFlight, TypeOK
  <2>2. CASE UNCHANGED fl
    BY <2>2
  <2> QED
    BY <2>1, <2>2 DEF Caller, FetchFor, Call, LookUp, FindAgain, Join, RefuseBackingOff,
       RefuseRateLimited, Wake, LookAgain, GiveUp
<1> QED
  BY <1>1, <1>2 DEF RecentKeys, Fresh

LEMMA RecentFetch ==
  ASSUME TypeOK, RecentKeys, NEW f \in Flights, RunFetch(f)
  PROVE  RecentKeys'
<1>1. UNCHANGED <<idp, since>> /\ \A g \in Flights \ {f} : fl'[g] = fl[g]
  BY DEF RunFetch, Reply, FetchError, Install, Record, Close, server, TypeOK
<1>2. fl[f] \in Flight
  BY DEF TypeOK
<1>3. CASE Reply(f)
  <2>1. PICK set \in {idp, {}} : fl' = [fl EXCEPT ![f] = [@ EXCEPT !.st = "replied", !.set = set]]
    BY <1>3 DEF Reply
  <2>2. fl'[f].set = set
    BY <1>2, <2>1 DEF TypeOK, Flight
  <2>3. UNCHANGED <<keys, age>>
    BY <1>3 DEF Reply, cache
  <2> QED
    BY <1>1, <2>1, <2>2, <2>3 DEF RecentKeys, Fresh
<1>4. CASE Install(f)
  <2>1. keys' = fl[f].set /\ age' = 0 /\ fl[f].st = "replied" /\ fl'[f].st = "fetched"
    BY <1>2, <1>4 DEF Install, TypeOK, Flight
  <2>2. fl[f].age <= FetchMax /\ \A k \in fl[f].set : since[k] \in Nat
    BY <1>2, ConstantsAssumption DEF Flight, TypeOK
  <2>3. \A k \in keys' : k \in idp' \/ since'[k] <= age' + FetchMax
    BY <1>1, <1>2, <2>1, <2>2, ConstantsAssumption DEF RecentKeys, Flight
  <2>4. \A g \in Flights : fl'[g].st = "replied" => \A k \in fl'[g].set : k \in idp' \/ since'[k] <= fl'[g].age
    BY <1>1, <2>1 DEF RecentKeys
  <2> QED
    BY <2>3, <2>4 DEF RecentKeys
<1>5. CASE FetchError(f) \/ Record(f) \/ Close(f)
  <2>1. fl'[f].st # "replied"
    BY <1>5, FlightSteps
  <2>2. UNCHANGED <<keys, age>>
    BY <1>5 DEF FetchError, Record, Close, cache
  <2> QED
    BY <1>1, <2>1, <2>2 DEF RecentKeys, Fresh
<1> QED
  BY <1>3, <1>4, <1>5 DEF RunFetch

LEMMA RecentTick ==
  ASSUME TypeOK, RecentKeys, Tick
  PROVE  RecentKeys'
<1>1. UNCHANGED <<keys, idp>> /\ age' = Smaller(age + 1, Lifetime)
  BY DEF Tick
<1>2. \A k \in Kids : since[k] \in Nat /\ since'[k] \in Nat /\ since'[k] <= since[k] + 1
  BY ConstantsAssumption DEF Tick, TypeOK, Smaller
<1>3. Fresh' => \A k \in keys' : k \in idp' \/ since'[k] <= age' + FetchMax
  BY <1>1, <1>2, ConstantsAssumption DEF RecentKeys, Fresh, Smaller, TypeOK
<1>4. ASSUME NEW f \in Flights, fl'[f].st = "replied", NEW k \in fl'[f].set
      PROVE  k \in idp' \/ since'[k] <= fl'[f].age
  <2>1. fl[f] \in Flight
    BY DEF TypeOK
  <2>2. fl'[f].st = fl[f].st
    BY FlightTick
  <2>3. fl'[f].set = fl[f].set /\ fl'[f].age = fl[f].age + 1
    BY <1>4, <2>2, FlightTick DEF OnTheWire
  <2>4. k \in Kids /\ fl[f].age \in Nat
    BY <1>4, <2>1, <2>3, ConstantsAssumption DEF Flight
  <2>5. k \in idp \/ since[k] <= fl[f].age
    BY <1>4, <2>2, <2>3 DEF RecentKeys
  <2> QED
    BY <1>1, <1>2, <2>3, <2>4, <2>5
<1> QED
  BY <1>3, <1>4 DEF RecentKeys

LEMMA RecentRotate ==
  ASSUME TypeOK, RecentKeys, NEW S \in SUBSET Kids, Rotate(S)
  PROVE  RecentKeys'
<1>1. UNCHANGED <<keys, age, fl>> /\ idp' = S
  BY DEF Rotate, cache
<1>2. \A k \in Kids \ S : IF k \in idp THEN since'[k] = 0 ELSE since'[k] = since[k]
  BY DEF Rotate
<1>3. Fresh' => \A k \in keys' : k \in idp' \/ since'[k] <= age' + FetchMax
  BY <1>1, <1>2, ConstantsAssumption DEF RecentKeys, Fresh, TypeOK
<1>4. ASSUME NEW f \in Flights, fl'[f].st = "replied", NEW k \in fl'[f].set
      PROVE  k \in idp' \/ since'[k] <= fl'[f].age
  <2>1. fl[f] \in Flight
    BY DEF TypeOK
  <2>2. k \in Kids /\ fl[f].age \in Nat
    BY <1>1, <1>4, <2>1, ConstantsAssumption DEF Flight
  <2> QED
    BY <1>1, <1>2, <1>4, <2>2 DEF RecentKeys
<1> QED
  BY <1>3, <1>4 DEF RecentKeys

LEMMA RecentStep == TypeOK /\ RecentKeys /\ [Next]_vars => RecentKeys'
<1> SUFFICES ASSUME TypeOK, RecentKeys, [Next]_vars PROVE RecentKeys'
  OBVIOUS
<1>1. CASE UNCHANGED vars
  BY <1>1 DEF RecentKeys, Fresh, vars
<1> QED
  BY <1>1, RecentCaller, RecentFetch, RecentTick, RecentRotate DEF Next

(* A key the provider has withdrawn is accepted for at most the lifetime of *)
(* a key set plus one exchange: only a lookup accepts, and it looks at the  *)
(* age of the set.                                                         *)
THEOREM WithdrawnKeysAreDropped == Spec => WithdrawnKeysExpire
<1>1. TypeOK /\ RecentKeys /\ [Next]_vars =>
        [\A c \in Callers : Ends(c, "accepted") =>
           kid[c] \in idp \/ since[kid[c]] < Lifetime + FetchMax]_vars
  <2> SUFFICES ASSUME TypeOK, RecentKeys, Next, NEW c \in Callers, Ends(c, "accepted")
               PROVE  kid[c] \in idp \/ since[kid[c]] < Lifetime + FetchMax
    BY DEF vars
  <2>1. Cached(kid[c])
    <3>1. CASE \E d \in Callers : Caller(d)
      BY <3>1 DEF Caller, FetchFor, Call, LookUp, FindAgain, Join, StartColdLoad, StartForcedRefetch,
         StartFetch, RefuseBackingOff, BackedOff, RefuseRateLimited, Wake, LookAgain, GiveUp,
         Return, Ends, TypeOK
    <3>2. CASE UNCHANGED pc
      BY <3>2 DEF Ends
    <3> QED
      BY <3>1, <3>2 DEF Next, RunFetch, Reply, FetchError, Install, Record, Close, Tick, Rotate, calls
  <2>2. kid[c] \in Kids /\ since[kid[c]] \in Nat /\ age \in Nat /\ age < Lifetime
    BY <2>1, ConstantsAssumption DEF Cached, Fresh, TypeOK
  <2> QED
    BY <2>1, <2>2, ConstantsAssumption DEF Cached, RecentKeys
<1> QED
  BY <1>1, TypeCorrect, RecentInit, RecentStep, PTL DEF Spec, WithdrawnKeysExpire

-----------------------------------------------------------------------------
(* The forced refetches are spaced.  The window of the history is the one  *)
(* the code keeps in forcedAt.                                             *)
WindowKept == window.age = forcedAge

LEMMA WindowStep == TypeOK /\ WindowKept /\ [Next]_vars => WindowKept'
<1> SUFFICES ASSUME TypeOK, WindowKept, [Next]_vars PROVE WindowKept'
  OBVIOUS
<1> USE DEF WindowKept, TypeOK
<1>1. ASSUME NEW c \in Callers, Caller(c) PROVE WindowKept'
  BY <1>1 DEF Caller, FetchFor, Call, LookUp, FindAgain, Join, StartColdLoad, StartForcedRefetch,
     RefuseBackingOff, RefuseRateLimited, Wake, LookAgain, GiveUp, gates
<1>2. ASSUME NEW f \in Flights, RunFetch(f) PROVE WindowKept'
  BY <1>2 DEF RunFetch, Reply, FetchError, Install, Record, Close, gates
<1>3. CASE Tick
  BY <1>3 DEF Tick
<1>4. ASSUME NEW S, Rotate(S) PROVE WindowKept'
  BY <1>4 DEF Rotate, gates
<1>5. CASE UNCHANGED vars
  BY <1>5 DEF vars
<1> QED
  BY <1>1, <1>2, <1>3, <1>4, <1>5 DEF Next

(* A request leaves on a fresh cache only when the window is over. *)
LEMMA SpacingStep ==
  ASSUME TypeOK, WindowKept, Next, NEW f \in Flights, fl[f].st # "sent", fl'[f].st = "sent", Fresh
  PROVE  window.age = MinRefetch
<1>1. fl[f] \in Flight
  BY DEF TypeOK
<1>2. ASSUME NEW c \in Callers, StartForcedRefetch(c) PROVE window.age = MinRefetch
  BY <1>2, ConstantsAssumption DEF StartForcedRefetch, WindowOver, WindowKept, TypeOK
<1>3. ASSUME NEW c \in Callers, StartColdLoad(c) PROVE FALSE
  BY <1>3 DEF StartColdLoad, NeedsLoad
<1>4. ASSUME UNCHANGED fl PROVE FALSE
  BY <1>4
<1>5. ASSUME NEW g \in Flights, RunFetch(g) PROVE FALSE
  BY <1>5, FlightSteps DEF RunFetch
<1>6. CASE Tick
  BY <1>6, FlightTick
<1> QED
  BY <1>2, <1>3, <1>4, <1>5, <1>6 DEF Next, Caller, FetchFor, Call, LookUp, FindAgain, Join,
     RefuseBackingOff, RefuseRateLimited, Wake, LookAgain, GiveUp, Rotate

(* Between two requests that unknown key ids force, a whole window passes. *)
THEOREM ForcedRequestsSpaced == Spec => ForcedRequestsAreSpaced
<1>1. Init => WindowKept
  BY DEF Init, WindowKept
<1>2. TypeOK /\ WindowKept /\ [Next]_vars =>
        [\A f \in Flights :
           fl[f].st # "sent" /\ fl'[f].st = "sent" /\ Fresh => window.age = MinRefetch]_vars
  BY SpacingStep
<1> QED
  BY <1>1, <1>2, WindowStep, TypeCorrect, PTL DEF Spec, ForcedRequestsAreSpaced

-----------------------------------------------------------------------------
(* The key store implements the policy. *)
CleanFlights == \A f \in Flights : fl[f].st \in OnTheWire => fl[f].err = "nil"

LEMMA CleanStep == TypeOK /\ CleanFlights /\ [Next]_vars => CleanFlights'
<1> SUFFICES ASSUME TypeOK, CleanFlights, [Next]_vars PROVE CleanFlights'
  OBVIOUS
<1> USE DEF CleanFlights, OnTheWire
<1>1. ASSUME NEW c \in Callers, StartColdLoad(c) \/ StartForcedRefetch(c) PROVE CleanFlights'
  <2>1. PICK f \in Flights, kind \in {"load", "forced"} : fl' = [fl EXCEPT ![f] = NewFlight("sent", kind)]
    BY <1>1 DEF StartColdLoad, StartForcedRefetch, StartFetch
  <2> QED
    BY <2>1 DEF TypeOK, NewFlight
<1>2. ASSUME NEW f \in Flights, RunFetch(f) PROVE CleanFlights'
  <2>1. \A g \in Flights \ {f} : fl'[g] = fl[g]
    BY <1>2, FlightSteps
  <2>2. fl'[f].st \in OnTheWire => fl[f].st = "sent" /\ fl'[f].err = fl[f].err
    BY <1>2, FlightSteps DEF RunFetch, Reply
  <2> QED
    BY <2>1, <2>2
<1>3. CASE Tick
  BY <1>3, FlightTick
<1>4. CASE UNCHANGED fl
  BY <1>4
<1> QED
  BY <1>1, <1>2, <1>3, <1>4 DEF vars, Next, Caller, FetchFor, Call, LookUp, FindAgain, Join,
     RefuseBackingOff, RefuseRateLimited, Wake, LookAgain, GiveUp, Rotate

(* A step that changes no stage and no outcome is no step of the policy's   *)
(* request.                                                                *)
SameFlights == \A f \in Flights : fl'[f].st = fl[f].st /\ fl'[f].err = fl[f].err

LEMMA SameRequest ==
  ASSUME SameFlights
  PROVE  Installed' = Installed /\ Request' = Request
<1>1. Installed' <=> Installed
  BY DEF SameFlights, Installed
<1>2. Pending' = Pending
  BY DEF SameFlights, Pending
<1> QED
  BY <1>1, <1>2 DEF Request

(* The policy has no request while no flight can be joined. *)
LEMMA NoRequest ==
  ASSUME SingleFlight, flight = NoFlight
  PROVE  Request = "none" /\ ~Installed
BY ConstantsAssumption DEF SingleFlight, Busy, Request, Pending, Installed, OnTheWire

LEMMA PolicyInit == Init => Policy!Init
<1> SUFFICES ASSUME Init PROVE Policy!Init
  OBVIOUS
<1>1. Request = "none" /\ ~Installed
  BY DEF Init, NewFlight, Request, Pending, Installed, OnTheWire
<1> QED
  BY <1>1 DEF Init, Policy!Init

LEMMA PolicyStutter ==
  ASSUME SameFlights, UNCHANGED <<keys, age, forcedAge, failures, backoff>>
  PROVE  UNCHANGED Policy!vars
BY SameRequest DEF Policy!vars

LEMMA PolicyStart ==
  ASSUME TypeOK, SingleFlight, NEW c \in Callers, StartColdLoad(c) \/ StartForcedRefetch(c)
  PROVE  Policy!Next
<1>1. flight = NoFlight /\ backoff = 0
  BY DEF StartColdLoad, StartForcedRefetch, StartFetch, NeedsLoad, MayForce
<1>2. Request = "none" /\ ~Installed
  BY <1>1, NoRequest
<1>3. \A g \in Flights : fl[g].st \notin {"sent", "replied", "fetched"}
  BY <1>1, ConstantsAssumption DEF SingleFlight, Busy
<1>4. ASSUME NEW f \in Flights, NEW kind \in {"load", "forced"}, fl' = [fl EXCEPT ![f] = NewFlight("sent", kind)]
      PROVE  ~Installed' /\ Request' = "sent"
  <2>1. fl'[f].st = "sent" /\ \A g \in Flights \ {f} : fl'[g] = fl[g]
    BY <1>4 DEF TypeOK, NewFlight
  <2>2. ~Installed' /\ Pending' = {f}
    BY <1>3, <2>1 DEF Installed, Pending, OnTheWire
  <2> QED
    BY <2>1, <2>2 DEF Request
<1>5. CASE StartColdLoad(c)
  <2>1. ~Installed' /\ Request' = "sent"
    BY <1>4, <1>5 DEF StartColdLoad, StartFetch
  <2>2. Policy!Load
    BY <1>1, <1>2, <1>5, <2>1 DEF Policy!Load, Policy!Fresh, StartColdLoad, NeedsLoad, Fresh, cache, gates
  <2> QED
    BY <2>2 DEF Policy!Next
<1>6. CASE StartForcedRefetch(c)
  <2>1. ~Installed' /\ Request' = "sent"
    BY <1>4, <1>6 DEF StartForcedRefetch, StartFetch
  <2>2. Policy!Refetch
    BY <1>1, <1>2, <1>6, <2>1 DEF Policy!Refetch, Policy!Fresh, Policy!WindowOver, StartForcedRefetch,
       MayForce, WindowOver, Fresh, cache
  <2> QED
    BY <2>2 DEF Policy!Next
<1> QED
  BY <1>5, <1>6

(* The outcome of the one exchange: obtained when it is installed, failed  *)
(* when the failure is recorded.                                           *)
LEMMA PolicyInstall ==
  ASSUME TypeOK, SingleFlight, CleanFlights, NEW f \in Flights, Install(f)
  PROVE  Policy!Obtain
<1>0. fl[f] \in Flight
  BY DEF TypeOK
<1>1. Pending = {f} /\ ~Installed
  BY DEF Install, SingleFlight, Busy, Pending, Installed, OnTheWire
<1>2. Request # "none"
  BY <1>1 DEF Request
<1>3. fl'[f].st = "fetched" /\ fl'[f].err = "nil" /\ \A g \in Flights \ {f} : fl'[g] = fl[g]
  BY FlightSteps DEF Install, RunFetch, CleanFlights, OnTheWire
<1>4. Installed' /\ Pending' = {}
  BY <1>1, <1>3 DEF Installed, Pending, OnTheWire
<1>5. Request' = "none"
  BY <1>4 DEF Request
<1>6. keys' \in (SUBSET Kids) \ {{}} /\ age' = 0 /\ forcedAge' = forcedAge
  BY <1>0 DEF Install, Flight, gates
<1> QED
  BY <1>2, <1>4, <1>5, <1>6 DEF Policy!Obtain

LEMMA PolicyRecord ==
  ASSUME TypeOK, SingleFlight, NEW f \in Flights, Record(f)
  PROVE  Policy!Fail \/ UNCHANGED Policy!vars
<1>0. fl[f] \in Flight
  BY DEF TypeOK
<1>1. \A g \in Flights \ {f} : ~Busy(g)
  BY DEF Record, SingleFlight, Busy
<1>2. fl'[f].st = "recorded" /\ \A g \in Flights \ {f} : fl'[g] = fl[g]
  BY FlightSteps DEF RunFetch
<1>3. ~Installed' /\ Pending' = {}
  BY <1>1, <1>2 DEF Installed, Pending, Busy, OnTheWire
<1>4. Request' = "none"
  BY <1>3 DEF Request
<1>5. CASE fl[f].err = "error"
  <2>1. ~Installed /\ Pending = {f}
    BY <1>1, <1>5 DEF Record, Installed, Pending, Busy, OnTheWire
  <2>2. Request # "none"
    BY <2>1 DEF Request
  <2>3. failures' = Smaller(failures + 1, MaxFailures) /\ backoff' \in Delays(failures')
    BY <1>5 DEF Record
  <2>4. Policy!Fail
    BY <1>3, <1>4, <2>1, <2>2, <2>3 DEF Policy!Fail, Policy!Smaller, Policy!Delays, Policy!RawDelay,
       Smaller, Delays, RawDelay, Record, cache
  <2> QED
    BY <2>4
<1>6. CASE fl[f].err = "nil"
  <2>1. Installed /\ Pending = {}
    BY <1>1, <1>6 DEF Record, Installed, Pending, Busy, OnTheWire
  <2>2. Request = "none"
    BY <2>1 DEF Request
  <2> QED
    BY <1>3, <1>4, <1>6, <2>1, <2>2 DEF Record, Policy!vars, cache
<1> QED
  BY <1>0, <1>5, <1>6 DEF Flight

LEMMA PolicyTick ==
  ASSUME TypeOK, Tick
  PROVE  Policy!Tick
<1>1. Installed' = Installed /\ Request' = Request
  BY FlightTick, SameRequest DEF SameFlights
<1> QED
  BY <1>1 DEF Policy!Tick, Policy!Smaller, Policy!Larger, Tick, Smaller, Larger

LEMMA PolicyStep ==
  ASSUME TypeOK, SingleFlight, CleanFlights, [Next]_vars
  PROVE  [Policy!Next]_(Policy!vars)
<1>1. ASSUME NEW f \in Flights, Reply(f) \/ FetchError(f) \/ Close(f)
      PROVE  UNCHANGED Policy!vars
  <2>1. UNCHANGED <<keys, age, forcedAge, failures, backoff>>
    BY <1>1 DEF Reply, FetchError, Close, cache, gates
  <2>a. \A g \in Flights \ {f} : fl'[g] = fl[g]
    BY <1>1, FlightSteps DEF RunFetch
  <2>b. /\ (f \in Pending') <=> (f \in Pending)
        /\ ~(fl[f].st = "fetched" /\ fl[f].err = "nil") /\ ~(fl'[f].st = "fetched" /\ fl'[f].err = "nil")
    <3>1. CASE Reply(f)
      BY <3>1, FlightSteps DEF Reply, Pending, OnTheWire
    <3>2. CASE FetchError(f)
      BY <3>2, FlightSteps DEF FetchError, Pending, OnTheWire
    <3>3. CASE Close(f)
      BY <3>3, FlightSteps DEF Close, Pending, OnTheWire
    <3> QED
      BY <1>1, <3>1, <3>2, <3>3
  <2>2. Installed' <=> Installed
    BY <2>a, <2>b DEF Installed
  <2>3. Pending' = Pending
    BY <2>a, <2>b DEF Pending
  <2>4. Request' = Request
    BY <2>3 DEF Request
  <2> QED
    BY <2>1, <2>2, <2>4 DEF Policy!vars
<1>2. CASE UNCHANGED <<keys, age, forcedAge, failures, backoff, fl>>
  BY <1>2, PolicyStutter DEF SameFlights
<1>3. ASSUME NEW f \in Flights, Install(f) \/ Record(f) PROVE [Policy!Next]_(Policy!vars)
  BY <1>3, PolicyInstall, PolicyRecord DEF Policy!Next
<1>4. ASSUME NEW c \in Callers, StartColdLoad(c) \/ StartForcedRefetch(c) PROVE Policy!Next
  BY <1>4, PolicyStart
<1>5. CASE Tick
  BY <1>5, PolicyTick DEF Policy!Next
<1> QED
  BY <1>1, <1>2, <1>3, <1>4, <1>5 DEF vars, Next, Caller, FetchFor, Call, LookUp, FindAgain, Join,
     RefuseBackingOff, RefuseRateLimited, Wake, LookAgain, GiveUp, Rotate, RunFetch, cache, gates

(* Whatever the goroutines do, the provider sees requests only when the    *)
(* policy allows one, and a failed one takes no key away.                  *)
THEOREM GoImplementsPolicy == Spec => ImplementsPolicy
<1>1. Init => CleanFlights
  BY DEF Init, CleanFlights, NewFlight, OnTheWire
<1> QED
  BY <1>1, PolicyInit, PolicyStep, TypeCorrect, SingleInit, SingleStep, CleanStep, PTL
     DEF Spec, ImplementsPolicy, Policy!Spec

-----------------------------------------------------------------------------
(* Refusals are explained.  While the window is open, what the cache lacks *)
(* is younger than the refetch that opened it: an exchange that is not     *)
(* older than the window brought the set, and what it lacks was published  *)
(* after it.                                                               *)
Covered   == forcedAge < MinRefetch => \A k \in idp \ keys : since[k] <= forcedAge
Succeeded(f) == fl[f].st = "fetched" /\ fl[f].err = "nil"
Forces(f)    == flight = f /\ Busy(f) /\ fl[f].kind = "forced"
AgedWithin(f) == fl[f].st \in OnTheWire /\ forcedAge < MinRefetch => fl[f].age <= forcedAge
LacksTheNew(f) ==
  fl[f].st = "replied" /\ fl[f].set # {} => \A k \in idp \ fl[f].set : since[k] <= fl[f].age

WindowJust ==
  /\ window.end = "none" => forcedAge = MinRefetch
  /\ window.end = "running" => \E f \in Flights : Forces(f)
  /\ window.end = "ok" => Covered
FlightsJust == \A f \in Flights : AgedWithin(f) /\ LacksTheNew(f) /\ (Succeeded(f) => Covered)

LEMMA JustInit == Init => WindowJust /\ FlightsJust
BY DEF Init, WindowJust, FlightsJust, Covered, Succeeded, AgedWithin, LacksTheNew, OnTheWire, NewFlight

LEMMA NewFlightFields ==
  ASSUME NEW kind
  PROVE  LET r == NewFlight("sent", kind) IN r.st = "sent" /\ r.kind = kind /\ r.age = 0
BY DEF NewFlight

LEMMA JustStart ==
  ASSUME TypeOK, SingleFlight, WindowJust, FlightsJust,
         NEW c \in Callers, StartColdLoad(c) \/ StartForcedRefetch(c)
  PROVE  WindowJust' /\ FlightsJust'
<1>1. PICK f \in Flights, kind \in {"load", "forced"} :
           /\ fl' = [fl EXCEPT ![f] = NewFlight("sent", kind)] /\ flight' = f
           /\ StartForcedRefetch(c) => kind = "forced"
  <2>1. CASE StartColdLoad(c)
    BY <2>1 DEF StartColdLoad, StartForcedRefetch, StartFetch, NeedsLoad, MayForce
  <2>2. CASE StartForcedRefetch(c)
    BY <2>2 DEF StartForcedRefetch, StartFetch
  <2> QED
    BY <2>1, <2>2
<1>2. /\ flight = NoFlight /\ UNCHANGED <<keys, idp, since>>
      /\ forcedAge' = 0 \/ forcedAge' = forcedAge
  BY DEF StartColdLoad, StartForcedRefetch, NeedsLoad, MayForce, cache, gates, server
<1>3. \A g \in Flights : fl[g].st \notin {"sent", "replied", "fetched"}
  BY <1>2, ConstantsAssumption DEF SingleFlight, Busy
<1>4. /\ fl'[f].st = "sent" /\ fl'[f].kind = kind /\ fl'[f].age = 0
      /\ \A g \in Flights \ {f} : fl'[g] = fl[g]
  BY <1>1, NewFlightFields DEF TypeOK
<1>5. FlightsJust'
  BY <1>2, <1>3, <1>4, ConstantsAssumption
     DEF FlightsJust, AgedWithin, LacksTheNew, Succeeded, OnTheWire, TypeOK
<1>6. CASE StartForcedRefetch(c)
  <2>1. window'.end = "running"
    BY <1>6 DEF StartForcedRefetch
  <2> QED
    BY <1>1, <1>4, <1>5, <1>6, <2>1 DEF WindowJust, Forces, Busy
<1>7. CASE StartColdLoad(c)
  <2>1. UNCHANGED <<window, forcedAge>> /\ window.end # "running"
    BY <1>2, <1>7, ConstantsAssumption DEF StartColdLoad, gates, WindowJust, Forces
  <2> QED
    BY <1>2, <1>5, <2>1 DEF WindowJust, Covered
<1> QED
  BY <1>6, <1>7

LEMMA ReplyFields ==
  ASSUME NEW r \in Flight, NEW set
  PROVE  LET s == [r EXCEPT !.st = "replied", !.set = set]
         IN  s.st = "replied" /\ s.set = set /\ s.age = r.age /\ s.kind = r.kind
BY DEF Flight

LEMMA JustReply ==
  ASSUME TypeOK, WindowJust, FlightsJust, NEW f \in Flights, Reply(f)
  PROVE  WindowJust' /\ FlightsJust'
<1>0. fl[f] \in Flight
  BY DEF TypeOK
<1>1. PICK set \in {idp, {}} : fl' = [fl EXCEPT ![f] = [@ EXCEPT !.st = "replied", !.set = set]]
  BY DEF Reply
<1>2. /\ fl'[f].st = "replied" /\ fl'[f].set = set /\ fl'[f].age = fl[f].age /\ fl'[f].kind = fl[f].kind
      /\ \A g \in Flights \ {f} : fl'[g] = fl[g]
  BY <1>0, <1>1, ReplyFields DEF TypeOK
<1>3. fl[f].st = "sent" /\ UNCHANGED <<keys, idp, since, forcedAge, flight, window>>
  BY DEF Reply, cache, gates, server
<1>4. FlightsJust'
  BY <1>2, <1>3 DEF FlightsJust, AgedWithin, LacksTheNew, Succeeded, OnTheWire, Covered
<1>5. \A g \in Flights : Forces(g) => Forces(g)'
  BY <1>2, <1>3 DEF Forces, Busy
<1>6. WindowJust'
  BY <1>3, <1>5 DEF WindowJust, Covered
<1> QED
  BY <1>4, <1>6

LEMMA JustFetched ==
  ASSUME TypeOK, WindowJust, FlightsJust, CleanFlights, NEW f \in Flights, FetchError(f) \/ Install(f)
  PROVE  WindowJust' /\ FlightsJust'
<1>0. fl[f] \in Flight
  BY DEF TypeOK
<1>1. fl'[f].st = "fetched" /\ fl'[f].kind = fl[f].kind /\ \A g \in Flights \ {f} : fl'[g] = fl[g]
  BY FlightSteps DEF RunFetch
<1>2. fl[f].st \in OnTheWire /\ UNCHANGED <<idp, since, forcedAge, flight, window>>
  BY DEF FetchError, Install, gates, server, OnTheWire
<1>3. \A g \in Flights : Forces(g) => Forces(g)'
  BY <1>1, <1>2 DEF Forces, Busy
<1>4. CASE FetchError(f)
  <2>1. fl'[f].err = "error" /\ UNCHANGED keys
    BY <1>4, FlightSteps DEF FetchError, cache
  <2>2. FlightsJust'
    BY <1>1, <1>2, <2>1 DEF FlightsJust, AgedWithin, LacksTheNew, Succeeded, OnTheWire, Covered
  <2> QED
    BY <1>2, <1>3, <2>1, <2>2 DEF WindowJust, Covered
<1>5. CASE Install(f)
  <2>1. fl[f].st = "replied" /\ fl[f].set # {} /\ keys' = fl[f].set
    BY <1>5 DEF Install
  <2>2. fl[f].age \in Nat /\ forcedAge \in Nat /\ \A k \in idp : since[k] \in Nat
    BY <1>0, ConstantsAssumption DEF Flight, TypeOK
  <2>3. \A k \in idp \ keys' : since[k] <= fl[f].age
    BY <2>1 DEF FlightsJust, LacksTheNew
  <2>4. forcedAge < MinRefetch => fl[f].age <= forcedAge
    BY <1>2 DEF FlightsJust, AgedWithin
  <2>5. Covered'
    BY <1>2, <2>2, <2>3, <2>4 DEF Covered
  <2>6. FlightsJust'
    BY <1>1, <1>2, <2>5 DEF FlightsJust, AgedWithin, LacksTheNew, OnTheWire
  <2> QED
    BY <1>2, <1>3, <2>5, <2>6 DEF WindowJust
<1> QED
  BY <1>4, <1>5

LEMMA JustRecord ==
  ASSUME TypeOK, SingleFlight, WindowJust, FlightsJust, NEW f \in Flights, Record(f)
  PROVE  WindowJust' /\ FlightsJust'
<1>0. fl[f] \in Flight
  BY DEF TypeOK
<1>1. fl'[f].st = "recorded" /\ \A g \in Flights \ {f} : fl'[g] = fl[g]
  BY FlightSteps DEF RunFetch
<1>2. fl[f].st = "fetched" /\ flight = f /\ UNCHANGED <<keys, idp, since, forcedAge>>
  BY DEF Record, SingleFlight, Busy, cache, server
<1>3. FlightsJust'
  BY <1>1, <1>2 DEF FlightsJust, AgedWithin, LacksTheNew, Succeeded, OnTheWire, Covered
<1>4. Covered' = Covered
  BY <1>2 DEF Covered
<1>5. CASE fl[f].kind = "forced"
  <2>1. window'.end = IF fl[f].err = "error" THEN "failed" ELSE "ok"
    BY <1>5 DEF Record, TypeOK
  <2>2. fl[f].err # "error" => Covered
    BY <1>0, <1>2 DEF FlightsJust, Succeeded, Flight
  <2> QED
    BY <1>3, <1>4, <2>1, <2>2 DEF WindowJust
<1>6. CASE fl[f].kind # "forced"
  <2>1. window' = window /\ window.end # "running"
    BY <1>2, <1>6 DEF Record, WindowJust, Forces
  <2> QED
    BY <1>2, <1>3, <1>4, <2>1 DEF WindowJust
<1> QED
  BY <1>5, <1>6

LEMMA JustClose ==
  ASSUME TypeOK, WindowJust, FlightsJust, NEW f \in Flights, Close(f)
  PROVE  WindowJust' /\ FlightsJust'
<1>1. fl'[f].st = "closed" /\ \A g \in Flights \ {f} : fl'[g] = fl[g]
  BY FlightSteps DEF RunFetch
<1>2. fl[f].st = "recorded" /\ UNCHANGED <<keys, idp, since, forcedAge, flight, window>>
  BY DEF Close, cache, gates, server
<1>3. FlightsJust'
  BY <1>1, <1>2 DEF FlightsJust, AgedWithin, LacksTheNew, Succeeded, OnTheWire, Covered
<1>4. \A g \in Flights : Forces(g) => Forces(g)'
  BY <1>1, <1>2 DEF Forces, Busy
<1> QED
  BY <1>2, <1>3, <1>4 DEF WindowJust, Covered

LEMMA JustTick ==
  ASSUME TypeOK, WindowJust, FlightsJust, Tick
  PROVE  WindowJust' /\ FlightsJust'
<1>1. UNCHANGED <<keys, idp, flight>> /\ window'.end = window.end
  BY DEF Tick, TypeOK
<1>2. \A k \in Kids : since[k] \in Nat /\ since'[k] \in Nat /\ since'[k] <= since[k] + 1
  BY ConstantsAssumption DEF Tick, TypeOK, Smaller
<1>3. /\ forcedAge \in Nat /\ forcedAge' \in Nat
      /\ forcedAge' < MinRefetch => forcedAge' = forcedAge + 1
      /\ forcedAge = MinRefetch => forcedAge' = MinRefetch
  BY ConstantsAssumption DEF Tick, TypeOK, Smaller
<1>4. Covered => Covered'
  BY <1>1, <1>2, <1>3, ConstantsAssumption DEF Covered, TypeOK
<1>5. ASSUME NEW f \in Flights PROVE (AgedWithin(f) /\ LacksTheNew(f) /\ (Succeeded(f) => Covered))'
  <2>0. fl[f] \in Flight
    BY DEF TypeOK
  <2>1. /\ fl'[f].st = fl[f].st /\ fl'[f].err = fl[f].err /\ fl'[f].set = fl[f].set
        /\ fl[f].st \in OnTheWire => fl'[f].age = fl[f].age + 1
    BY FlightTick
  <2>2. fl[f].age \in Nat
    BY <2>0, ConstantsAssumption DEF Flight
  <2>3. AgedWithin(f)'
    BY <1>3, <2>1, <2>2, ConstantsAssumption DEF FlightsJust, AgedWithin
  <2>4. LacksTheNew(f)'
    <3> SUFFICES ASSUME fl[f].st = "replied", fl[f].set # {}, NEW k \in idp \ fl[f].set
                 PROVE  since'[k] <= fl'[f].age
      BY <1>1, <2>1 DEF LacksTheNew
    <3>1. fl'[f].age = fl[f].age + 1
      BY <2>1 DEF OnTheWire
    <3>2. since[k] <= fl[f].age
      BY DEF FlightsJust, LacksTheNew
    <3>3. k \in Kids
      BY DEF TypeOK
    <3> QED
      BY <1>2, <2>2, <3>1, <3>2, <3>3
  <2> QED
    BY <1>4, <2>1, <2>3, <2>4 DEF FlightsJust, Succeeded
<1>6. \A f \in Flights : Forces(f) => Forces(f)'
  BY <1>1, FlightTick DEF Forces, Busy
<1>7. WindowJust'
  BY <1>1, <1>3, <1>4, <1>6 DEF WindowJust
<1> QED
  BY <1>5, <1>7 DEF FlightsJust

LEMMA JustRotate ==
  ASSUME TypeOK, WindowJust, FlightsJust, NEW S \in SUBSET Kids, Rotate(S)
  PROVE  WindowJust' /\ FlightsJust'
<1>1. UNCHANGED <<keys, forcedAge, flight, fl, window>> /\ idp' = S
  BY DEF Rotate, cache, gates
<1>2. \A k \in S : IF k \in idp THEN since'[k] = since[k] ELSE since'[k] = 0
  BY DEF Rotate
<1>3. Covered => Covered'
  BY <1>1, <1>2, ConstantsAssumption DEF Covered, TypeOK
<1>4. ASSUME NEW f \in Flights, LacksTheNew(f) PROVE LacksTheNew(f)'
  <2>0. fl[f] \in Flight
    BY DEF TypeOK
  <2>1. fl[f].age \in Nat
    BY <2>0, ConstantsAssumption DEF Flight
  <2> QED
    BY <1>1, <1>2, <1>4, <2>1 DEF LacksTheNew
<1>5. FlightsJust'
  BY <1>1, <1>3, <1>4 DEF FlightsJust, AgedWithin, Succeeded
<1>6. WindowJust'
  BY <1>1, <1>3 DEF WindowJust, Forces, Busy
<1> QED
  BY <1>5, <1>6

LEMMA JustStep ==
  TypeOK /\ SingleFlight /\ CleanFlights /\ WindowJust /\ FlightsJust /\ [Next]_vars
    => WindowJust' /\ FlightsJust'
<1> SUFFICES ASSUME TypeOK, SingleFlight, CleanFlights, WindowJust, FlightsJust, [Next]_vars
             PROVE  WindowJust' /\ FlightsJust'
  OBVIOUS
<1>1. CASE UNCHANGED <<keys, forcedAge, flight, fl, idp, since, window>>
  BY <1>1 DEF WindowJust, FlightsJust, Covered, Forces, Busy, AgedWithin, LacksTheNew, Succeeded
<1>2. ASSUME NEW c \in Callers, Caller(c) PROVE WindowJust' /\ FlightsJust'
  <2>1. CASE StartColdLoad(c) \/ StartForcedRefetch(c)
    BY <2>1, JustStart
  <2>2. CASE ~(StartColdLoad(c) \/ StartForcedRefetch(c))
    BY <1>1, <1>2, <2>2 DEF Caller, FetchFor, Call, LookUp, FindAgain, Join,
       RefuseBackingOff, RefuseRateLimited, Wake, LookAgain, GiveUp, cache, gates, server
  <2> QED
    BY <2>1, <2>2
<1>3. ASSUME NEW f \in Flights, RunFetch(f) PROVE WindowJust' /\ FlightsJust'
  BY <1>3, JustReply, JustFetched, JustRecord, JustClose DEF RunFetch
<1>4. CASE UNCHANGED vars
  BY <1>1, <1>4 DEF vars
<1> QED
  BY <1>2, <1>3, <1>4, JustTick, JustRotate DEF Next

(* Who refuses: no step but the decision of fetchFor, which is taken under *)
(* the lock and looks at the cache again.                                  *)
LEMMA WhoRefuses ==
  ASSUME TypeOK, Next, NEW c \in Callers
  PROVE  /\ Ends(c, "rate_limited") => RefuseRateLimited(c)
         /\ Ends(c, "backing_off") => RefuseBackingOff(c)
<1>1. ASSUME NEW d \in Callers, Caller(d), Ends(c, "rate_limited") \/ Ends(c, "backing_off")
      PROVE  /\ Ends(c, "rate_limited") => RefuseRateLimited(c)
             /\ Ends(c, "backing_off") => RefuseBackingOff(c)
  <2>1. d = c /\ pc'[c] \in {"rate_limited", "backing_off"}
    BY <1>1 DEF Caller, FetchFor, Call, LookUp, FindAgain, Join, StartColdLoad, StartForcedRefetch,
       StartFetch, RefuseBackingOff, BackedOff, RefuseRateLimited, Wake, LookAgain, GiveUp,
       Return, Ends, TypeOK
  <2> QED
    BY <1>1, <2>1 DEF Caller, FetchFor, Call, LookUp, FindAgain, Join, StartColdLoad, StartForcedRefetch,
       StartFetch, RefuseBackingOff, BackedOff, RefuseRateLimited, Wake, LookAgain, GiveUp,
       Return, Ends, TypeOK
<1>2. CASE UNCHANGED pc
  BY <1>2 DEF Ends
<1> QED
  BY <1>1, <1>2 DEF Next, RunFetch, Reply, FetchError, Install, Record, Close, Tick, Rotate, calls

LEMMA RefusalsAreJust ==
  ASSUME TypeOK, WindowKept, WindowJust, Next, NEW c \in Callers
  PROVE  ~RefusedUnexplained(c) /\ ~DecidesOnAStaleMiss(c)
<1>1. ASSUME RefuseRateLimited(c), kid[c] \in idp, since[kid[c]] >= MinRefetch
      PROVE  window.age < MinRefetch /\ window.end = "failed"
  <2>1. flight = NoFlight /\ kid[c] \in idp \ keys /\ forcedAge < MinRefetch
    BY <1>1, ConstantsAssumption DEF RefuseRateLimited, MayForce, WindowOver, TypeOK
  <2>2. forcedAge \in Nat /\ since[kid[c]] \in Nat
    BY <2>1, ConstantsAssumption DEF TypeOK
  <2>3. window.end # "running"
    BY <2>1, ConstantsAssumption DEF WindowJust, Forces
  <2>4. window.end # "none"
    BY <2>1, <2>2, ConstantsAssumption DEF WindowJust
  <2>5. window.end # "ok"
    BY <1>1, <2>1, <2>2, ConstantsAssumption DEF WindowJust, Covered
  <2> QED
    BY <2>1, <2>3, <2>4, <2>5 DEF WindowKept, TypeOK
<1>2. RefuseRateLimited(c) \/ RefuseBackingOff(c) \/ StartForcedRefetch(c) => ~Cached(kid[c])
  BY DEF RefuseRateLimited, RefuseBackingOff, StartForcedRefetch, NeedsLoad, MayForce, Cached
<1> QED
  BY <1>1, <1>2, WhoRefuses DEF RefusedUnexplained, DecidesOnAStaleMiss

(* The window refuses a published key only while the refetch that opened   *)
(* it has failed, and no caller is refused, or fetches, for a key that     *)
(* another goroutine has cached since it missed.                           *)
THEOREM RefusalsExplained == Spec => RefusalsAreExplained
<1>1. Init => CleanFlights /\ WindowKept
  BY DEF Init, CleanFlights, WindowKept, NewFlight, OnTheWire
<1>2. TypeOK /\ WindowKept /\ WindowJust /\ [Next]_vars =>
        [\A c \in Callers : ~RefusedUnexplained(c) /\ ~DecidesOnAStaleMiss(c)]_vars
  BY RefusalsAreJust
<1> QED
  BY <1>1, <1>2, JustInit, JustStep, TypeCorrect, SingleInit, SingleStep, CleanStep, WindowStep, PTL
     DEF Spec, RefusalsAreExplained

-----------------------------------------------------------------------------
(* Nobody waits in vain.  WaitersAreServed is not inductive alone: that a  *)
(* fetch in flight is the one to join is SingleFlight, and a new flight is *)
(* none that a waiter holds.                                               *)
LEMMA ServedInit == Init => WaitersAreServed
BY ConstantsAssumption DEF Init, WaitersAreServed

LEMMA ServedStart ==
  ASSUME TypeOK, SingleFlight, WaitersAreServed,
         NEW c \in Callers, StartColdLoad(c) \/ StartForcedRefetch(c)
  PROVE  WaitersAreServed'
<1>1. flight = NoFlight
  BY DEF StartColdLoad, StartForcedRefetch, NeedsLoad, MayForce
<1>2. PICK f \in Flights, kind \in {"load", "forced"} :
           /\ Unused(f) /\ fl' = [fl EXCEPT ![f] = NewFlight("sent", kind)]
           /\ flight' = f /\ on' = [on EXCEPT ![c] = f] /\ pc' = [pc EXCEPT ![c] = "waiting"]
  BY DEF StartColdLoad, StartForcedRefetch, StartFetch
<1>3. fl'[f].st = "sent" /\ \A g \in Flights \ {f} : fl'[g] = fl[g]
  BY <1>2, NewFlightFields DEF TypeOK
<1>4. \A g \in Flights : ~Busy(g)
  BY <1>1, ConstantsAssumption DEF SingleFlight
<1>5. on'[c] = f /\ \A d \in Callers \ {c} : on'[d] = on[d] /\ pc'[d] = pc[d] /\ on[d] # f
  BY <1>2 DEF TypeOK, Unused
<1>6. ASSUME NEW d \in Callers \ {c}, pc'[d] = "waiting"
      PROVE  (on[d] \in Flights /\ fl[on[d]].st # "free" /\ ~Busy(on[d]))'
  <2>1. on[d] \in Flights \ {f} /\ fl[on[d]].st # "free"
    BY <1>5, <1>6 DEF WaitersAreServed
  <2> QED
    BY <1>3, <1>4, <1>5, <2>1 DEF Busy
<1> QED
  BY <1>2, <1>3, <1>5, <1>6 DEF WaitersAreServed, Busy, TypeOK

LEMMA ServedCaller ==
  ASSUME TypeOK, SingleFlight, WaitersAreServed, NEW c \in Callers, Caller(c)
  PROVE  WaitersAreServed'
<1> USE DEF WaitersAreServed, Busy
<1>1. CASE StartColdLoad(c) \/ StartForcedRefetch(c)
  BY <1>1, ServedStart
<1>2. CASE Join(c)
  <2>1. flight \in Flights /\ Busy(flight) /\ UNCHANGED <<flight, fl>>
    BY <1>2 DEF Join, TypeOK
  <2>2. on'[c] = flight /\ \A d \in Callers \ {c} : on'[d] = on[d] /\ pc'[d] = pc[d]
    BY <1>2 DEF Join, TypeOK
  <2> QED
    BY <2>1, <2>2
<1>3. CASE /\ pc'[c] # "waiting" /\ UNCHANGED <<flight, fl>>
           /\ \A d \in Callers \ {c} : on'[d] = on[d] /\ pc'[d] = pc[d]
  BY <1>3
<1>4. CASE Wake(c) \/ GiveUp(c)
  <2>1. \A d \in Callers \ {c} : on'[d] = on[d] /\ pc'[d] = pc[d]
    BY <1>4 DEF Wake, GiveUp, Return, TypeOK
  <2>2. pc'[c] # "waiting" /\ UNCHANGED <<flight, fl>>
    BY <1>4 DEF Wake, GiveUp, Return, TypeOK
  <2> QED
    BY <1>3, <2>1, <2>2
<1>5. CASE (\E k \in Kids : Call(c, k)) \/ LookUp(c) \/ FindAgain(c) \/ LookAgain(c)
  BY <1>3, <1>5 DEF Call, LookUp, FindAgain, LookAgain, Return, TypeOK
<1>6. CASE RefuseBackingOff(c) \/ RefuseRateLimited(c)
  BY <1>3, <1>6 DEF RefuseBackingOff, BackedOff, RefuseRateLimited, Return, gates, TypeOK
<1> QED
  BY <1>1, <1>2, <1>4, <1>5, <1>6 DEF Caller, FetchFor

LEMMA ServedFetch ==
  ASSUME TypeOK, SingleFlight, WaitersAreServed, NEW f \in Flights, RunFetch(f)
  PROVE  WaitersAreServed'
<1> USE DEF WaitersAreServed, Busy
<1>1. UNCHANGED <<pc, on>> /\ \A g \in Flights \ {f} : fl'[g] = fl[g]
  BY FlightSteps DEF RunFetch, Reply, FetchError, Install, Record, Close, calls
<1>2. CASE Reply(f) \/ FetchError(f) \/ Install(f)
  <2>1. flight' = flight /\ flight = f /\ Busy(f) /\ Busy(f)'
    BY <1>2, FlightSteps DEF Reply, FetchError, Install, OnTheWire, gates, SingleFlight
  <2> QED
    BY <1>1, <2>1
<1>3. CASE Record(f)
  <2>1. flight' = NoFlight /\ fl'[f].st = "recorded"
    BY <1>3, FlightSteps DEF Record
  <2>2. \A g \in Flights \ {f} : ~Busy(g)
    BY <1>3 DEF Record, SingleFlight
  <2> QED
    BY <1>1, <2>1, <2>2
<1>4. CASE Close(f)
  <2>1. flight' = flight /\ fl'[f].st = "closed" /\ ~Busy(f)
    BY <1>4, FlightSteps DEF Close
  <2> QED
    BY <1>1, <2>1 DEF TypeOK
<1> QED
  BY <1>2, <1>3, <1>4 DEF RunFetch

LEMMA ServedStep == TypeOK /\ SingleFlight /\ WaitersAreServed /\ [Next]_vars => WaitersAreServed'
<1> SUFFICES ASSUME TypeOK, SingleFlight, WaitersAreServed, [Next]_vars PROVE WaitersAreServed'
  OBVIOUS
<1> USE DEF WaitersAreServed, Busy
<1>1. CASE UNCHANGED vars
  BY <1>1 DEF vars
<1>2. CASE Tick
  <2>1. UNCHANGED <<flight, pc, on>>
    BY <1>2 DEF Tick, calls
  <2> QED
    BY <1>2, <2>1, FlightTick DEF TypeOK
<1>3. CASE \E S \in (SUBSET Kids) \ {{}} : Rotate(S)
  BY <1>3 DEF Rotate, calls
<1> QED
  BY <1>1, <1>2, <1>3, ServedCaller, ServedFetch DEF Next

(* Every waiter's flight is closed or held by a goroutine that will close  *)
(* it, and callers only join a fetch that is under way (runFetch, wait).   *)
THEOREM NobodyWaitsInVain == Spec => []WaitersAreServed
<1>1. SingleFlight /\ WaitersAreServed /\ TypeOK /\ TypeOK' /\ [Next]_vars
        => (SingleFlight /\ WaitersAreServed)'
  BY SingleStep, ServedStep
<1> QED
  BY <1>1, TypeCorrect, SingleInit, ServedInit, PTL DEF Spec

(* The two together: what the run checks of the flights.                   *)
THEOREM FlightsAreShared == Spec => []OneFlightServesAll
<1>1. OneRequestAtATime /\ WaitersAreServed => OneFlightServesAll
  BY DEF OneFlightServesAll
<1> QED
  BY <1>1, RequestsAreExclusive, NobodyWaitsInVain, PTL
=============================================================================
