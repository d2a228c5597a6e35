---------------------------- MODULE PythonProofs ----------------------------
(***************************************************************************)
(* Proofs about the two key stores of the Python clients, for any number   *)
(* of threads or coroutines and key ids and any lifetime, window and       *)
(* backoff: first the store of the synchronous client, then that of the    *)
(* asyncio client, whose definitions are those called Aio!...              *)
(***************************************************************************)
EXTENDS PythonJwks, TLAPS

Exchanges == [st : {"none", "sent", "replied", "stored"}, set : SUBSET Kids,
              age : 0..FetchMax, kind : {"load", "forced"}]

-----------------------------------------------------------------------------
(* The saturating clocks, and what the steps of the exchange do to it. *)

LEMMA DelaysBounded == \A n : Delays(n) \subseteq 0..BackoffCap
BY DEF Delays

LEMMA AgesStayInRange ==
  ASSUME NEW x, NEW bound \in Nat, x \in 0..bound
  PROVE  Smaller(x + 1, bound) \in 0..bound /\ Larger(x - 1, 0) \in 0..bound
BY DEF Smaller, Larger

LEMMA IdleExchange == Idle \in Exchanges
BY PythonAssumption DEF Idle, Exchanges

LEMMA ExchangeStarted ==
  ASSUME NEW t \in Exchanges, NEW kind \in {"load", "forced"}
  PROVE  LET u == [t EXCEPT !.st = "sent", !.kind = kind]
         IN  u \in Exchanges /\ u.st = "sent" /\ u.kind = kind /\ u.set = t.set /\ u.age = t.age
BY DEF Exchanges

LEMMA ExchangeSent ==
  ASSUME NEW kind \in {"load", "forced"}
  PROVE  LET t == [Idle EXCEPT !.st = "sent", !.kind = kind]
         IN  t \in Exchanges /\ t.st = "sent" /\ t.kind = kind /\ t.set = {} /\ t.age = 0
<1>1. Idle.set = {} /\ Idle.age = 0
  BY DEF Idle
<1> QED
  BY <1>1, IdleExchange, ExchangeStarted

LEMMA ExchangeReplied ==
  ASSUME NEW t \in Exchanges, NEW set \in SUBSET Kids
  PROVE  LET u == [t EXCEPT !.st = "replied", !.set = set]
         IN  u \in Exchanges /\ u.st = "replied" /\ u.set = set /\ u.age = t.age /\ u.kind = t.kind
BY DEF Exchanges

LEMMA ExchangeStored ==
  ASSUME NEW t \in Exchanges
  PROVE  LET u == [t EXCEPT !.st = "stored"]
         IN  u \in Exchanges /\ u.st = "stored" /\ u.set = t.set /\ u.age = t.age /\ u.kind = t.kind
BY DEF Exchanges

LEMMA ExchangeOlder ==
  ASSUME NEW t \in Exchanges, t.age < FetchMax
  PROVE  LET u == [t EXCEPT !.age = t.age + 1]
         IN  u \in Exchanges /\ u.st = t.st /\ u.set = t.set /\ u.age = t.age + 1 /\ u.kind = t.kind
BY PythonAssumption DEF Exchanges

(* The fields of the exchange after each step. *)
LEMMA StartedFields ==
  ASSUME NEW c \in Callers, StartFetch(c)
  PROVE  /\ fetch' \in Exchanges /\ fetch'.st = "sent" /\ fetch'.set = {} /\ fetch'.age = 0
         /\ fetch'.kind = IF Fresh THEN "forced" ELSE "load"
<1>1. fetch' = [Idle EXCEPT !.st = "sent", !.kind = IF Fresh THEN "forced" ELSE "load"]
  BY DEF StartFetch
<1> QED
  BY <1>1, ExchangeSent

LEMMA RepliedFields ==
  ASSUME TypeOK, Reply
  PROVE  /\ fetch \in Exchanges /\ fetch' \in Exchanges
         /\ fetch'.st = "replied" /\ fetch'.age = fetch.age /\ fetch'.kind = fetch.kind
         /\ fetch'.set = idp \/ fetch'.set = {}
<1>1. PICK set \in {idp, {}} : fetch' = [fetch EXCEPT !.st = "replied", !.set = set]
  BY DEF Reply
<1>2. fetch \in Exchanges /\ set \in SUBSET Kids
  BY <1>1 DEF TypeOK, Exchanges
<1> QED
  BY <1>1, <1>2, ExchangeReplied

LEMMA StoredFields ==
  ASSUME TypeOK, Store
  PROVE  /\ fetch \in Exchanges /\ fetch' \in Exchanges
         /\ fetch'.st = "stored" /\ fetch'.set = fetch.set
         /\ fetch'.age = fetch.age /\ fetch'.kind = fetch.kind
<1>1. fetch \in Exchanges
  BY DEF TypeOK, Exchanges
<1> QED
  BY <1>1, ExchangeStored DEF Store

LEMMA TickFields ==
  ASSUME TypeOK, Tick
  PROVE  /\ fetch \in Exchanges /\ fetch' \in Exchanges
         /\ fetch'.st = fetch.st /\ fetch'.set = fetch.set /\ fetch'.kind = fetch.kind
         /\ fetch.st # "none" => fetch'.age = fetch.age + 1 /\ fetch.st \in {"sent", "replied"}
<1>1. fetch \in Exchanges
  BY DEF TypeOK, Exchanges
<1>2. CASE fetch.st = "none"
  BY <1>1, <1>2 DEF Tick
<1>3. CASE fetch.st # "none"
  BY <1>1, <1>3, ExchangeOlder DEF Tick
<1> QED
  BY <1>2, <1>3

-----------------------------------------------------------------------------
(* Every action keeps the types. *)
CallersSteps(c) == (\E k \in Kids : Call(c, k)) \/ ReadCache(c) \/ LoadJwks(c)
CallTypes ==
  /\ pc \in [Callers -> Outcomes \cup Waiting] /\ kid \in [Callers -> Kids \cup {NoKid}]

LEMMA TypeInit == Init => TypeOK
BY PythonAssumption, BackoffAssumption, IdleExchange DEF Init, TypeOK, Exchanges, Outcomes

LEMMA ResolveTypes ==
  ASSUME TypeOK, NEW c, NEW set, Resolve(c, set)
  PROVE  CallTypes'
BY DEF TypeOK, CallTypes, Resolve, Return, Outcomes, Waiting

LEMMA TypeCaller ==
  ASSUME TypeOK, NEW c \in Callers, CallersSteps(c)
  PROVE  TypeOK'
<1> USE PythonAssumption, BackoffAssumption DEF TypeOK, Outcomes, Waiting, store, gates, lock, calls, server
<1>1. CASE \E k \in Kids : Call(c, k)
  BY <1>1 DEF Call
<1>2. CASE ReadCache(c) \/ UseLoaded(c) \/ UseWindow(c)
  <2>1. CallTypes'
    <3>1. CASE Resolve(c, keys)
      BY <3>1, ResolveTypes
    <3>2. CASE pc' = [pc EXCEPT ![c] = "load"] /\ UNCHANGED kid
      BY <3>2 DEF CallTypes
    <3> QED
      BY <1>2, <3>1, <3>2 DEF ReadCache, UseLoaded, UseWindow
  <2> QED
    BY <1>2, <2>1 DEF CallTypes, ReadCache, UseLoaded, UseWindow
<1>3. CASE RefuseBackingOff(c)
  BY <1>3 DEF RefuseBackingOff, Stamps, Return
<1>4. CASE StartFetch(c)
  <2>1. fetch' \in Exchanges
    BY <1>4, StartedFields
  <2> QED
    BY <1>4, <2>1 DEF StartFetch, Stamps, Exchanges
<1> QED
  BY <1>1, <1>2, <1>3, <1>4 DEF CallersSteps, LoadJwks

LEMMA ReleaseTypes ==
  ASSUME TypeOK, NEW ending \in {"ok", "failed"}, Release(ending)
  PROVE  /\ window' \in {"none", "refused", "running", "ok", "failed"}
         /\ fetch' \in Exchanges /\ holder' \in Callers \cup {NoCaller}
BY IdleExchange DEF TypeOK, Release

LEMMA ReturnTypes ==
  ASSUME TypeOK, NEW outcome \in Outcomes, NEW c, Return(c, outcome)
  PROVE  CallTypes'
BY DEF TypeOK, CallTypes, Return

LEMMA TypeExchange ==
  ASSUME TypeOK, FetchJwks \/ Interrupt
  PROVE  TypeOK'
<1> USE PythonAssumption, BackoffAssumption DEF TypeOK, store, gates, calls, server
<1>1. CASE Reply
  BY <1>1, RepliedFields DEF Reply, Exchanges
<1>2. CASE FetchFails
  <2>1. failures' \in 0..MaxFailures
    BY <1>2 DEF FetchFails, Smaller
  <2>2. backoff' \in 0..BackoffCap
    BY <1>2, DelaysBounded DEF FetchFails
  <2>3. CallTypes'
    BY <1>2, ReturnTypes DEF FetchFails, Outcomes
  <2>4. Release("failed")
    BY <1>2 DEF FetchFails
  <2> QED
    BY <1>2, <2>1, <2>2, <2>3, <2>4, ReleaseTypes DEF FetchFails, CallTypes, Exchanges
<1>3. CASE Store
  <2>1. fetch' \in Exchanges /\ fetch.set \in SUBSET Kids
    BY <1>3, StoredFields
  <2> QED
    BY <1>3, <2>1 DEF Store, Exchanges
<1>4. CASE RecordSuccess
  <2>1. CallTypes'
    BY <1>4, ResolveTypes DEF RecordSuccess
  <2>2. Release("ok")
    BY <1>4 DEF RecordSuccess
  <2> QED
    BY <1>4, <2>1, <2>2, ReleaseTypes DEF RecordSuccess, CallTypes, Exchanges
<1>5. CASE Interrupt
  <2>1. CallTypes'
    BY <1>5, ReturnTypes DEF Interrupt, Outcomes
  <2>2. Release("failed")
    BY <1>5 DEF Interrupt
  <2> QED
    BY <1>5, <2>1, <2>2, ReleaseTypes DEF Interrupt, CallTypes, Exchanges
<1> QED
  BY <1>1, <1>2, <1>3, <1>4, <1>5 DEF FetchJwks

LEMMA TypeEnvironment ==
  ASSUME TypeOK, Tick \/ (\E S \in (SUBSET Kids) \ {{}} : Rotate(S))
  PROVE  TypeOK'
<1> USE PythonAssumption, BackoffAssumption DEF TypeOK, store, gates, lock, calls, server
<1>1. CASE Tick
  <2>1. /\ age' \in 0..Lifetime /\ forcedAge' \in 0..MinRefetch /\ backoff' \in 0..BackoffCap
        /\ since' \in [Kids -> 0..Horizon]
    BY <1>1, AgesStayInRange DEF Tick
  <2>2. fetch' \in Exchanges
    BY <1>1, TickFields
  <2> QED
    BY <1>1, <2>1, <2>2 DEF Tick, Exchanges
<1>2. CASE \E S \in (SUBSET Kids) \ {{}} : Rotate(S)
  BY <1>2 DEF Rotate
<1> QED
  BY <1>1, <1>2

(* The key store keeps its types. *)
THEOREM TypeCorrect == Spec => []TypeOK
<1>1. TypeOK /\ [Next]_vars => TypeOK'
  <2> SUFFICES ASSUME TypeOK, [Next]_vars PROVE TypeOK'
    OBVIOUS
  <2>1. CASE UNCHANGED vars
    BY <2>1 DEF TypeOK, vars
  <2> QED
    BY <2>1, TypeCaller, TypeExchange, TypeEnvironment DEF Next, CallersSteps
<1> QED
  BY <1>1, TypeInit, PTL DEF Spec

(* The lock is held exactly while an exchange runs. *)
LockHeld == holder = NoCaller <=> fetch.st = "none"

LEMMA LockInit == Init => LockHeld
BY DEF Init, Idle, LockHeld

LEMMA LockStep == TypeOK /\ LockHeld /\ [Next]_vars => LockHeld'
<1> SUFFICES ASSUME TypeOK, LockHeld, [Next]_vars PROVE LockHeld'
  OBVIOUS
<1> USE DEF LockHeld
<1>1. CASE UNCHANGED <<holder, fetch>>
  BY <1>1
<1>2. ASSUME NEW c \in Callers, StartFetch(c) PROVE LockHeld'
  BY <1>2, StartedFields, PythonAssumption DEF StartFetch
<1>3. CASE Reply
  BY <1>3, RepliedFields DEF Reply
<1>4. CASE Store
  BY <1>4, StoredFields DEF Store
<1>5. CASE FetchFails \/ RecordSuccess \/ Interrupt
  BY <1>5 DEF FetchFails, RecordSuccess, Interrupt, Release, Idle
<1>6. CASE Tick
  BY <1>6, TickFields DEF Tick
<1> QED
  BY <1>1, <1>2, <1>3, <1>4, <1>5, <1>6 DEF Next, LoadJwks, FetchJwks, Call, ReadCache, UseLoaded, UseWindow,
     RefuseBackingOff, Rotate, vars, lock

-----------------------------------------------------------------------------
(* The key store implements the policy: a refetch that the backoff refuses  *)
(* is the policy's waste, a set is obtained when it is stored, and an       *)
(* interrupt abandons the request.                                          *)
Policed == <<keys, age, forcedAge, failures, backoff, fetch>>

LEMMA PolicyInit == Init => Policy!Init
BY DEF Init, Idle, Stored, Policy!Init

LEMMA PolicyStutter ==
  ASSUME UNCHANGED Policed
  PROVE  UNCHANGED Policy!vars
BY DEF Policed, Stored, Policy!vars

LEMMA PolicyStart ==
  ASSUME LockHeld, NEW c \in Callers, StartFetch(c)
  PROVE  Policy!Next
<1>1. fetch.st = "none" /\ fetch'.st = "sent" /\ backoff = 0 /\ UNCHANGED <<keys, age, failures, backoff>>
  BY StartedFields DEF StartFetch, Decides, Enters, LockHeld, store
<1>2. ~Stored /\ ~Stored'
  BY <1>1 DEF Stored
<1>3. CASE Fresh
  <2>1. WindowOver /\ forcedAge' = 0
    BY <1>3 DEF StartFetch, Decides, Stamps
  <2>2. Policy!Refetch
    BY <1>1, <1>2, <1>3, <2>1 DEF Policy!Refetch, Policy!Fresh, Policy!WindowOver, Fresh, WindowOver
  <2> QED
    BY <2>2 DEF Policy!Next
<1>4. CASE ~Fresh
  <2>1. forcedAge' = forcedAge
    BY <1>4 DEF StartFetch, Stamps
  <2>2. Policy!Load
    BY <1>1, <1>2, <1>4, <2>1 DEF Policy!Load, Policy!Fresh, Fresh
  <2> QED
    BY <2>2 DEF Policy!Next
<1> QED
  BY <1>3, <1>4

LEMMA PolicyWaste ==
  ASSUME LockHeld, NEW c \in Callers, RefuseBackingOff(c)
  PROVE  [Policy!Next]_(Policy!vars)
<1>1. fetch.st = "none" /\ backoff > 0 /\ UNCHANGED <<keys, age, failures, backoff, fetch>>
  BY DEF RefuseBackingOff, Decides, Enters, LockHeld, store, lock
<1>2. ~Stored /\ ~Stored'
  BY <1>1 DEF Stored
<1>3. CASE Fresh
  <2>1. WindowOver /\ forcedAge' = 0
    BY <1>3 DEF RefuseBackingOff, Decides, Stamps
  <2>2. Policy!Waste
    BY <1>1, <1>2, <1>3, <2>1 DEF Policy!Waste, Policy!Fresh, Policy!WindowOver, Fresh, WindowOver
  <2> QED
    BY <2>2 DEF Policy!Next
<1>4. CASE ~Fresh
  <2>1. forcedAge' = forcedAge
    BY <1>4 DEF RefuseBackingOff, Stamps
  <2> QED
    BY <1>1, <2>1, PolicyStutter DEF Policed
<1> QED
  BY <1>3, <1>4

LEMMA PolicyExchange ==
  ASSUME TypeOK, FetchJwks \/ Interrupt
  PROVE  [Policy!Next]_(Policy!vars)
<1>1. CASE Reply
  <2>1. fetch.st = "sent" /\ fetch'.st = "replied" /\ UNCHANGED <<keys, age, forcedAge, failures, backoff>>
    BY <1>1, RepliedFields DEF Reply, store, gates
  <2> QED
    BY <2>1 DEF Stored, Policy!vars
<1>2. CASE FetchFails
  <2>1. fetch.st \in {"sent", "replied"} /\ fetch'.st = "none"
    BY <1>2 DEF FetchFails, Release, Idle
  <2>2. /\ failures' = Smaller(failures + 1, MaxFailures) /\ backoff' \in Delays(failures')
        /\ UNCHANGED <<keys, age, forcedAge>>
    BY <1>2 DEF FetchFails, store
  <2>3. Policy!Fail
    BY <2>1, <2>2 DEF Stored, Policy!Fail, Policy!Smaller, Policy!Delays, Policy!RawDelay,
       Smaller, Delays, RawDelay
  <2> QED
    BY <2>3 DEF Policy!Next
<1>3. CASE Store
  <2>1. fetch.st = "replied" /\ fetch'.st = "stored"
    BY <1>3, StoredFields DEF Store
  <2>2. keys' \in (SUBSET Kids) \ {{}} /\ age' = 0 /\ forcedAge' = forcedAge
    BY <1>3 DEF Store, TypeOK, gates
  <2>3. Policy!Obtain
    BY <2>1, <2>2 DEF Stored, Policy!Obtain
  <2> QED
    BY <2>3 DEF Policy!Next
<1>4. CASE RecordSuccess
  <2>1. fetch.st = "stored" /\ fetch'.st = "none"
    BY <1>4 DEF RecordSuccess, Release, Idle
  <2>2. failures' = 0 /\ backoff' = 0 /\ UNCHANGED <<keys, age, forcedAge>>
    BY <1>4 DEF RecordSuccess, store
  <2> QED
    BY <2>1, <2>2 DEF Stored, Policy!vars
<1>5. CASE Interrupt
  <2>1. fetch.st \in {"sent", "replied"} /\ fetch'.st = "none"
    BY <1>5 DEF Interrupt, Release, Idle
  <2>2. UNCHANGED <<keys, age, forcedAge, failures, backoff>>
    BY <1>5 DEF Interrupt, store, gates
  <2>3. Policy!Abandon
    BY <2>1, <2>2 DEF Stored, Policy!Abandon
  <2> QED
    BY <2>3 DEF Policy!Next
<1> QED
  BY <1>1, <1>2, <1>3, <1>4, <1>5 DEF FetchJwks

LEMMA PolicyTick ==
  ASSUME TypeOK, Tick
  PROVE  Policy!Tick
<1>1. fetch'.st = fetch.st /\ fetch.st # "stored"
  BY TickFields DEF Tick
<1> QED
  BY <1>1 DEF Stored, Policy!Tick, Policy!Smaller, Policy!Larger, Tick, Smaller, Larger

LEMMA PolicyStep ==
  ASSUME TypeOK, LockHeld, [Next]_vars
  PROVE  [Policy!Next]_(Policy!vars)
<1>1. CASE UNCHANGED Policed
  BY <1>1, PolicyStutter
<1>2. ASSUME NEW c \in Callers, StartFetch(c) \/ RefuseBackingOff(c) PROVE [Policy!Next]_(Policy!vars)
  BY <1>2, PolicyStart, PolicyWaste
<1>3. CASE Tick
  BY <1>3, PolicyTick DEF Policy!Next
<1> QED
  BY <1>1, <1>2, <1>3, PolicyExchange DEF Policed, vars, Next, LoadJwks, Call, ReadCache, UseLoaded, UseWindow,
     Rotate, store, gates, lock

(* Whatever the threads do and whenever one is interrupted, the provider    *)
(* sees requests only when the policy allows one, and a failed one takes no *)
(* key away.                                                                *)
THEOREM PythonImplementsPolicy == Spec => ImplementsPolicy
BY PolicyInit, PolicyStep, TypeCorrect, LockInit, LockStep, PTL DEF Spec, ImplementsPolicy, Policy!Spec

-----------------------------------------------------------------------------
(* Why what is cached is recent: a set on its way was published no longer   *)
(* ago than its exchange is old, and a cached one than it is old, plus one  *)
(* exchange.                                                                *)
Answered   == fetch.st \in {"replied", "stored"}
RecentKeys ==
  /\ Fresh => \A k \in keys : k \in idp \/ since[k] <= age + FetchMax
  /\ Answered => \A k \in fetch.set : k \in idp \/ since[k] <= fetch.age

LEMMA RecentInit == Init => RecentKeys
BY DEF Init, RecentKeys, Answered, Idle

(* The steps of a thread before its exchange leave the cache and the        *)
(* provider alone; the one that touches the exchange starts it.             *)
LEMMA CallersStepsSpare ==
  ASSUME NEW c \in Callers, CallersSteps(c)
  PROVE  UNCHANGED <<keys, age, idp, since>> /\ (fetch' = fetch \/ fetch'.st = "sent")
BY StartedFields DEF CallersSteps, LoadJwks, Call, ReadCache, UseLoaded, UseWindow, RefuseBackingOff,
   StartFetch, store, lock, server

LEMMA RecentExchange ==
  ASSUME TypeOK, RecentKeys, FetchJwks \/ Interrupt
  PROVE  RecentKeys'
<1>0. UNCHANGED <<idp, since>>
  BY DEF FetchJwks, Reply, FetchFails, Store, RecordSuccess, Interrupt, server
<1>1. CASE Reply
  <2>1. UNCHANGED <<keys, age>> /\ (fetch'.set = idp \/ fetch'.set = {})
    BY <1>1, RepliedFields DEF Reply, store
  <2> QED
    BY <1>0, <2>1 DEF RecentKeys, Fresh
<1>2. CASE FetchFails \/ RecordSuccess \/ Interrupt
  <2>1. UNCHANGED <<keys, age>> /\ fetch'.st = "none"
    BY <1>2 DEF FetchFails, RecordSuccess, Interrupt, Release, Idle, store
  <2> QED
    BY <1>0, <2>1 DEF RecentKeys, Fresh, Answered
<1>3. CASE Store
  <2>1. keys' = fetch.set /\ age' = 0 /\ fetch'.set = fetch.set /\ fetch'.age = fetch.age /\ fetch.st = "replied"
    BY <1>3, StoredFields DEF Store
  <2>2. \A k \in fetch.set : k \in idp \/ since[k] <= fetch.age
    BY <2>1 DEF RecentKeys, Answered
  <2>3. fetch.age \in 0..FetchMax /\ \A k \in fetch.set : since[k] \in 0..Horizon
    BY DEF TypeOK
  <2>4. \A k \in fetch.set : k \in idp \/ since[k] <= FetchMax
    BY <2>2, <2>3, PythonAssumption
  <2> QED
    BY <1>0, <2>1, <2>2, <2>4, PythonAssumption DEF RecentKeys
<1> QED
  BY <1>1, <1>2, <1>3 DEF FetchJwks

LEMMA RecentTick ==
  ASSUME TypeOK, RecentKeys, Tick
  PROVE  RecentKeys'
<1>1. UNCHANGED <<keys, idp>> /\ age' = Smaller(age + 1, Lifetime)
  BY DEF Tick
<1>2. \A k \in Kids : since[k] \in Nat /\ since'[k] \in Nat /\ since'[k] <= since[k] + 1
  BY PythonAssumption DEF Tick, TypeOK, Smaller
<1>3. Fresh' => \A k \in keys' : k \in idp' \/ since'[k] <= age' + FetchMax
  BY <1>1, <1>2, PythonAssumption DEF RecentKeys, Fresh, Smaller, TypeOK
<1>4. ASSUME Answered', NEW k \in fetch'.set PROVE k \in idp' \/ since'[k] <= fetch'.age
  <2>1. fetch'.st = fetch.st /\ fetch'.set = fetch.set /\ fetch'.age = fetch.age + 1
    BY <1>4, TickFields DEF Answered
  <2>2. k \in Kids /\ fetch.age \in 0..FetchMax
    BY <1>4, <2>1 DEF TypeOK
  <2>3. k \in idp \/ since[k] <= fetch.age
    BY <1>4, <2>1 DEF RecentKeys, Answered
  <2> QED
    BY <1>1, <1>2, <2>1, <2>2, <2>3, PythonAssumption
<1> QED
  BY <1>3, <1>4 DEF RecentKeys

LEMMA RecentRotate ==
  ASSUME TypeOK, RecentKeys, NEW S \in SUBSET Kids, Rotate(S)
  PROVE  RecentKeys'
<1>1. UNCHANGED <<keys, age, fetch>> /\ idp' = S
  BY DEF Rotate, store, lock
<1>2. \A k \in Kids \ S : IF k \in idp THEN since'[k] = 0 ELSE since'[k] = since[k]
  BY DEF Rotate
<1>3. Fresh' => \A k \in keys' : k \in idp' \/ since'[k] <= age' + FetchMax
  BY <1>1, <1>2, PythonAssumption DEF RecentKeys, Fresh, TypeOK
<1>4. ASSUME Answered', NEW k \in fetch'.set PROVE k \in idp' \/ since'[k] <= fetch'.age
  <2>1. k \in Kids /\ fetch.age \in 0..FetchMax
    BY <1>1, <1>4 DEF TypeOK
  <2> QED
    BY <1>1, <1>2, <1>4, <2>1, PythonAssumption DEF RecentKeys, Answered
<1> QED
  BY <1>3, <1>4 DEF RecentKeys

LEMMA RecentStep == TypeOK /\ RecentKeys /\ [Next]_vars => RecentKeys'
<1> SUFFICES ASSUME TypeOK, RecentKeys, [Next]_vars PROVE RecentKeys'
  OBVIOUS
<1>1. CASE UNCHANGED vars
  BY <1>1 DEF RecentKeys, Fresh, Answered, vars
<1>2. ASSUME NEW c \in Callers, CallersSteps(c) PROVE RecentKeys'
  BY <1>2, CallersStepsSpare DEF RecentKeys, Fresh, Answered
<1>3. ASSUME NEW S \in (SUBSET Kids) \ {{}}, Rotate(S) PROVE RecentKeys'
  BY <1>3, RecentRotate
<1> QED
  BY <1>1, <1>2, <1>3, RecentExchange, RecentTick DEF Next, CallersSteps

-----------------------------------------------------------------------------
(* Why the window rejects no key without a reason: how its decision ended,  *)
(* and that after a success it misses only keys published since it opened.  *)
WindowRuns   == window = "running" <=> fetch.st # "none" /\ fetch.kind = "forced"
WindowCovers == fetch.st # "none" /\ ~WindowOver => fetch.age <= forcedAge
SetIsWhole   ==
  /\ Answered => fetch.set = {} \/ \A k \in idp \ fetch.set : since[k] <= fetch.age
  /\ fetch.st = "stored" => keys = fetch.set /\ keys # {}
WindowIsJust ==
  /\ window = "none" => WindowOver
  /\ window = "ok" /\ ~WindowOver => \A k \in idp \ keys : since[k] <= forcedAge
WindowInv == WindowRuns /\ WindowCovers /\ SetIsWhole /\ WindowIsJust

LEMMA WindowInit == Init => WindowInv
BY PythonAssumption
   DEF Init, Idle, WindowInv, WindowRuns, WindowCovers, SetIsWhole, WindowIsJust, WindowOver, Answered

LEMMA WindowSame ==
  ASSUME WindowInv, UNCHANGED <<keys, forcedAge, fetch, idp, since, window>>
  PROVE  WindowInv'
BY DEF WindowInv, WindowRuns, WindowCovers, SetIsWhole, WindowIsJust, WindowOver, Answered

LEMMA WindowRefused ==
  ASSUME LockHeld, WindowInv, NEW c \in Callers, RefuseBackingOff(c)
  PROVE  WindowInv'
<1>1. fetch.st = "none" /\ UNCHANGED <<keys, fetch, idp, since>>
  BY DEF RefuseBackingOff, Decides, Enters, LockHeld, store, lock, server
<1>2. CASE Fresh
  BY <1>1, <1>2 DEF RefuseBackingOff, Stamps, WindowInv, WindowRuns, WindowCovers, SetIsWhole,
     WindowIsJust, Answered
<1>3. CASE ~Fresh
  BY <1>1, <1>3, WindowSame DEF RefuseBackingOff, Stamps
<1> QED
  BY <1>2, <1>3

LEMMA WindowStarted ==
  ASSUME TypeOK, LockHeld, WindowInv, NEW c \in Callers, StartFetch(c)
  PROVE  WindowInv'
<1>1. fetch.st = "none" /\ UNCHANGED <<keys, idp, since>>
  BY DEF StartFetch, Decides, Enters, LockHeld, store, server
<1>2. fetch'.st = "sent" /\ fetch'.age = 0 /\ fetch'.kind = IF Fresh THEN "forced" ELSE "load"
  BY StartedFields
<1>3. forcedAge' = (IF Fresh THEN 0 ELSE forcedAge) /\ window' = (IF Fresh THEN "running" ELSE window)
  BY DEF StartFetch, Stamps
<1>4. WindowRuns' /\ SetIsWhole'
  BY <1>1, <1>2, <1>3 DEF WindowInv, WindowRuns, SetIsWhole, Answered
<1>5. WindowCovers'
  BY <1>2, <1>3, PythonAssumption DEF WindowCovers, TypeOK
<1>6. WindowIsJust'
  BY <1>1, <1>3 DEF WindowInv, WindowIsJust, WindowOver
<1> QED
  BY <1>4, <1>5, <1>6 DEF WindowInv

LEMMA WindowCaller ==
  ASSUME TypeOK, LockHeld, WindowInv, NEW c \in Callers, CallersSteps(c)
  PROVE  WindowInv'
<1>1. CASE UNCHANGED <<keys, forcedAge, fetch, idp, since, window>>
  BY <1>1, WindowSame
<1> QED
  BY <1>1, WindowRefused, WindowStarted
     DEF CallersSteps, LoadJwks, Call, ReadCache, UseLoaded, UseWindow, store, gates, lock, server

(* A successful exchange leaves out only keys published since it began. *)
LEMMA WholeInTheWindow ==
  ASSUME TypeOK, WindowInv, Answered, fetch.set # {}, ~WindowOver, NEW k \in idp \ fetch.set
  PROVE  since[k] <= forcedAge
<1>1. since[k] \in Nat /\ fetch.age \in Nat /\ forcedAge \in Nat
  BY PythonAssumption DEF TypeOK
<1>2. fetch.age <= forcedAge
  BY DEF WindowInv, WindowCovers, Answered
<1>3. since[k] <= fetch.age
  BY DEF WindowInv, SetIsWhole
<1> QED
  BY <1>1, <1>2, <1>3

LEMMA WindowExchange ==
  ASSUME TypeOK, WindowInv, FetchJwks \/ Interrupt
  PROVE  WindowInv'
<1>0. UNCHANGED <<forcedAge, idp, since>>
  BY DEF FetchJwks, Reply, FetchFails, Store, RecordSuccess, Interrupt, server, gates
<1>1. CASE Reply
  <2>1. /\ fetch.st = "sent" /\ fetch'.st = "replied" /\ fetch'.age = fetch.age /\ fetch'.kind = fetch.kind
        /\ fetch'.set = idp \/ fetch'.set = {}
        /\ UNCHANGED <<keys, window>>
    BY <1>1, RepliedFields DEF Reply, store
  <2> QED
    BY <1>0, <2>1 DEF WindowInv, WindowRuns, WindowCovers, SetIsWhole, WindowIsJust, WindowOver
<1>2. CASE FetchFails \/ Interrupt
  <2>1. /\ fetch.st # "none" /\ fetch'.st = "none" /\ UNCHANGED keys
        /\ window' = IF fetch.kind = "forced" THEN "failed" ELSE window
    BY <1>2 DEF FetchFails, Interrupt, Release, Idle, store
  <2> QED
    BY <1>0, <2>1 DEF WindowInv, WindowRuns, WindowCovers, SetIsWhole, WindowIsJust, WindowOver, Answered
<1>3. CASE Store
  <2>1. /\ fetch.st = "replied" /\ fetch'.st = "stored"
        /\ fetch'.age = fetch.age /\ fetch'.kind = fetch.kind /\ fetch'.set = fetch.set
        /\ keys' = fetch.set /\ fetch.set # {} /\ UNCHANGED window
    BY <1>3, StoredFields DEF Store
  <2>2. \A k \in idp \ fetch.set : since[k] <= fetch.age
    BY <2>1 DEF WindowInv, SetIsWhole, Answered
  <2>3. WindowRuns' /\ WindowCovers' /\ SetIsWhole'
    BY <1>0, <2>1, <2>2 DEF WindowInv, WindowRuns, WindowCovers, SetIsWhole, WindowOver
  <2>4. WindowIsJust'
    BY <1>0, <2>1, WholeInTheWindow DEF WindowInv, WindowIsJust, WindowOver, Answered
  <2> QED
    BY <2>3, <2>4 DEF WindowInv
<1>4. CASE RecordSuccess
  <2>1. /\ fetch.st = "stored" /\ fetch'.st = "none" /\ UNCHANGED keys
        /\ window' = IF fetch.kind = "forced" THEN "ok" ELSE window
    BY <1>4 DEF RecordSuccess, Release, Idle, store
  <2>2. keys = fetch.set /\ fetch.set # {} /\ Answered
    BY <2>1 DEF WindowInv, SetIsWhole, Answered
  <2>3. WindowIsJust'
    BY <1>0, <2>1, <2>2, WholeInTheWindow DEF WindowInv, WindowIsJust, WindowOver
  <2> QED
    BY <1>0, <2>1, <2>3 DEF WindowInv, WindowRuns, WindowCovers, SetIsWhole, Answered
<1> QED
  BY <1>1, <1>2, <1>3, <1>4 DEF FetchJwks

LEMMA WindowTick ==
  ASSUME TypeOK, WindowInv, Tick
  PROVE  WindowInv'
<1>1. UNCHANGED <<keys, idp, window>> /\ forcedAge' = Smaller(forcedAge + 1, MinRefetch)
  BY DEF Tick
<1>2. /\ fetch'.st = fetch.st /\ fetch'.set = fetch.set /\ fetch'.kind = fetch.kind
      /\ fetch.st # "none" => fetch'.age = fetch.age + 1 /\ fetch.st # "stored"
  BY TickFields
<1>3. \A k \in Kids : since[k] \in Nat /\ since'[k] \in Nat /\ since'[k] <= since[k] + 1
  BY PythonAssumption DEF Tick, TypeOK, Smaller
<1>4. /\ forcedAge \in Nat /\ fetch.age \in Nat /\ idp \subseteq Kids
      /\ ~WindowOver' => ~WindowOver /\ forcedAge' = forcedAge + 1
      /\ WindowOver => WindowOver'
  BY <1>1, PythonAssumption DEF TypeOK, WindowOver, Smaller
<1>5. WindowRuns' /\ WindowCovers'
  BY <1>1, <1>2, <1>4 DEF WindowInv, WindowRuns, WindowCovers
<1>6. SetIsWhole'
  <2>1. ASSUME Answered', fetch'.set # {}, NEW k \in idp' \ fetch'.set PROVE since'[k] <= fetch'.age
    <3>1. Answered /\ fetch'.age = fetch.age + 1
      BY <1>2, <2>1 DEF Answered
    <3>2. since[k] <= fetch.age
      BY <1>1, <1>2, <2>1, <3>1 DEF WindowInv, SetIsWhole
    <3> QED
      BY <1>1, <1>3, <1>4, <2>1, <3>1, <3>2
  <2> QED
    BY <1>2, <2>1 DEF SetIsWhole
<1>7. WindowIsJust'
  <2>1. ASSUME window = "ok", ~WindowOver', NEW k \in idp' \ keys' PROVE since'[k] <= forcedAge'
    <3>1. since[k] <= forcedAge
      BY <1>1, <1>4, <2>1 DEF WindowInv, WindowIsJust
    <3> QED
      BY <1>1, <1>3, <1>4, <2>1, <3>1
  <2> QED
    BY <1>1, <1>4, <2>1 DEF WindowInv, WindowIsJust
<1> QED
  BY <1>5, <1>6, <1>7 DEF WindowInv

LEMMA WindowRotate ==
  ASSUME TypeOK, WindowInv, NEW S \in SUBSET Kids, Rotate(S)
  PROVE  WindowInv'
<1>1. UNCHANGED <<keys, forcedAge, fetch, window>> /\ idp' = S
  BY DEF Rotate, store, gates, lock
<1>2. \A k \in S : IF k \in idp THEN since'[k] = since[k] ELSE since'[k] = 0
  BY DEF Rotate
<1>3. forcedAge >= 0 /\ fetch.age >= 0
  BY PythonAssumption DEF TypeOK
<1>4. SetIsWhole'
  BY <1>1, <1>2, <1>3 DEF WindowInv, SetIsWhole, Answered
<1>5. WindowIsJust'
  BY <1>1, <1>2, <1>3 DEF WindowInv, WindowIsJust, WindowOver
<1> QED
  BY <1>1, <1>4, <1>5 DEF WindowInv, WindowRuns, WindowCovers, WindowOver

LEMMA WindowStep == TypeOK /\ LockHeld /\ WindowInv /\ [Next]_vars => WindowInv'
<1> SUFFICES ASSUME TypeOK, LockHeld, WindowInv, [Next]_vars PROVE WindowInv'
  OBVIOUS
<1>1. CASE UNCHANGED vars
  BY <1>1, WindowSame DEF vars
<1>2. ASSUME NEW S \in (SUBSET Kids) \ {{}}, Rotate(S) PROVE WindowInv'
  BY <1>2, WindowRotate
<1> QED
  BY <1>1, <1>2, WindowCaller, WindowExchange, WindowTick DEF Next, CallersSteps

-----------------------------------------------------------------------------
(* Which steps answer a thread. *)
LEMMA ResolveAnswers ==
  ASSUME TypeOK, NEW c \in Callers, NEW d \in Callers, NEW set, Resolve(d, set)
  PROVE  /\ Ends(c, "accepted") => d = c /\ kid[c] \in set
         /\ Ends(c, "no_key") => d = c /\ kid[c] \notin set
BY DEF Resolve, Return, Ends, TypeOK

LEMMA WhoDecides ==
  ASSUME TypeOK, LockHeld, Next, NEW c \in Callers, Ends(c, "accepted") \/ Ends(c, "no_key")
  PROVE  \/ Fresh /\ (Ends(c, "accepted") => kid[c] \in keys) /\ (Ends(c, "no_key") => kid[c] \notin keys)
         \/ /\ fetch.st = "stored" /\ holder = c
            /\ (Ends(c, "accepted") => kid[c] \in fetch.set) /\ (Ends(c, "no_key") => kid[c] \notin fetch.set)
<1>1. ASSUME NEW d \in Callers, Fresh, Resolve(d, keys)
      PROVE  (Ends(c, "accepted") => kid[c] \in keys) /\ (Ends(c, "no_key") => kid[c] \notin keys)
  BY <1>1, ResolveAnswers
<1>2. CASE RecordSuccess
  <2>1. fetch.st = "stored" /\ Resolve(holder, fetch.set) /\ holder \in Callers
    BY <1>2 DEF RecordSuccess, LockHeld, TypeOK
  <2> QED
    BY <2>1, ResolveAnswers
<1>3. ASSUME NEW d, NEW state \in {"first", "load", "backing_off", "fetch_failed", "interrupted"},
             pc' = [pc EXCEPT ![d] = state]
      PROVE  FALSE
  BY <1>3 DEF Ends, TypeOK
<1>4. ASSUME UNCHANGED pc PROVE FALSE
  BY <1>4 DEF Ends
<1>5. ASSUME NEW d \in Callers, CallersSteps(d)
      PROVE  Fresh /\ (Ends(c, "accepted") => kid[c] \in keys) /\ (Ends(c, "no_key") => kid[c] \notin keys)
  <2>1. CASE \E k \in Kids : Call(d, k)
    BY <1>3, <2>1 DEF Call
  <2>2. CASE ReadCache(d)
    BY <1>1, <1>3, <2>2 DEF ReadCache
  <2>3. CASE UseLoaded(d) \/ UseWindow(d)
    BY <1>1, <2>3 DEF UseLoaded, UseWindow
  <2>4. CASE RefuseBackingOff(d)
    BY <1>3, <2>4 DEF RefuseBackingOff, Return
  <2>5. CASE StartFetch(d)
    BY <1>4, <2>5 DEF StartFetch, calls
  <2> QED
    BY <1>5, <2>1, <2>2, <2>3, <2>4, <2>5 DEF CallersSteps, LoadJwks
<1>6. CASE FetchFails \/ Interrupt
  BY <1>3, <1>6 DEF FetchFails, Interrupt, Return
<1> QED
  BY <1>2, <1>4, <1>5, <1>6 DEF Next, CallersSteps, FetchJwks, Reply, Store, Tick, Rotate, calls

LEMMA AcceptedIsRecent ==
  ASSUME TypeOK, LockHeld, RecentKeys, Next, NEW c \in Callers, Ends(c, "accepted")
  PROVE  kid[c] \in idp \/ since[kid[c]] < Lifetime + FetchMax
<1>1. CASE Fresh /\ kid[c] \in keys
  <2>1. kid[c] \in Kids /\ since[kid[c]] \in Nat /\ age \in Nat /\ age < Lifetime
    BY <1>1, PythonAssumption DEF Fresh, TypeOK
  <2> QED
    BY <1>1, <2>1, PythonAssumption DEF RecentKeys
<1>2. CASE fetch.st = "stored" /\ kid[c] \in fetch.set
  <2>1. kid[c] \in Kids /\ fetch.age \in 0..FetchMax /\ since[kid[c]] \in Nat
    BY <1>2, PythonAssumption DEF TypeOK
  <2>2. kid[c] \in idp \/ since[kid[c]] <= fetch.age
    BY <1>2 DEF RecentKeys, Answered
  <2> QED
    BY <2>1, <2>2, PythonAssumption
<1> QED
  BY <1>1, <1>2, WhoDecides

LEMMA RejectedIsExplained ==
  ASSUME TypeOK, LockHeld, WindowInv, Next, NEW c \in Callers
  PROVE  (RejectsPublished(c) => window \in {"failed", "refused"}) /\ ~RejectsOnAStaleMiss(c)
<1>1. ASSUME RejectsPublished(c) PROVE window \in {"failed", "refused"}
  <2>1. fetch.st = "none" /\ ~WindowOver
    BY <1>1 DEF RejectsPublished, UseWindow, Enters, LockHeld
  <2>2. kid[c] \notin keys
    BY <1>1 DEF RejectsPublished, UseWindow, Resolve, Return, TypeOK
  <2>3. window \notin {"none", "running"}
    BY <2>1 DEF WindowInv, WindowRuns, WindowIsJust
  <2>4. since[kid[c]] >= MinRefetch /\ since[kid[c]] \in Nat /\ forcedAge \in Nat
    BY <1>1, PythonAssumption DEF RejectsPublished, TypeOK
  <2>5. window # "ok"
    BY <1>1, <2>1, <2>2, <2>4, PythonAssumption DEF WindowInv, WindowIsJust, WindowOver, RejectsPublished
  <2> QED
    BY <2>3, <2>5 DEF TypeOK
<1>2. ~RejectsOnAStaleMiss(c)
  BY WhoDecides DEF RejectsOnAStaleMiss
<1> QED
  BY <1>1, <1>2

(* A validation is never given a key withdrawn longer ago than the lifetime *)
(* of a set and one exchange; the window never denies it a published key    *)
(* but after a refetch that failed, was interrupted or was refused by the   *)
(* backoff; and it is not denied a key that came while it was queued.       *)
THEOREM AnswersJust == Spec => AnswersAreJust
<1>1. TypeOK /\ LockHeld /\ RecentKeys /\ [Next]_vars =>
        [\A c \in Callers : Ends(c, "accepted") =>
           kid[c] \in idp \/ since[kid[c]] < Lifetime + FetchMax]_vars
  BY AcceptedIsRecent
<1>2. TypeOK /\ LockHeld /\ WindowInv /\ [Next]_vars =>
        [\A c \in Callers :
           /\ RejectsPublished(c) => window \in {"failed", "refused"}
           /\ ~RejectsOnAStaleMiss(c)]_vars
  BY RejectedIsExplained
<1> QED
  BY <1>1, <1>2, TypeCorrect, LockInit, LockStep, RecentInit, RecentStep, WindowInit, WindowStep, PTL
     DEF Spec, AnswersAreJust, WithdrawnKeysExpire, RefusalsAreExplained

-----------------------------------------------------------------------------
(* The asyncio client.  Its coroutines are the callers of the same client  *)
(* with the other key store: what they share is declared above, and what a *)
(* task returned to them is theirs alone.                                  *)
VARIABLE woken
Aio == INSTANCE AioJwks

Tasks == [st : {"none", "sent", "replied"}, set : SUBSET Kids,
          age : 0..FetchMax, kind : {"load", "forced"}]

-----------------------------------------------------------------------------
(* The saturating clocks, and what the steps of the task do to it. *)

LEMMA AioDelaysBounded == \A n : Aio!Delays(n) \subseteq 0..BackoffCap
BY DEF Aio!Delays

LEMMA AioAgesStayInRange ==
  ASSUME NEW x, NEW bound \in Nat, x \in 0..bound
  PROVE  Aio!Smaller(x + 1, bound) \in 0..bound /\ Aio!Larger(x - 1, 0) \in 0..bound
BY DEF Aio!Smaller, Aio!Larger

LEMMA NoTaskType == Aio!NoTask \in Tasks
BY PythonAssumption DEF Aio!NoTask, Tasks

LEMMA TaskStarted ==
  ASSUME NEW t \in Tasks, NEW kind \in {"load", "forced"}
  PROVE  LET u == [t EXCEPT !.st = "sent", !.kind = kind]
         IN  u \in Tasks /\ u.st = "sent" /\ u.kind = kind /\ u.set = t.set /\ u.age = t.age
BY DEF Tasks

LEMMA TaskSent ==
  ASSUME NEW kind \in {"load", "forced"}
  PROVE  LET t == [Aio!NoTask EXCEPT !.st = "sent", !.kind = kind]
         IN  t \in Tasks /\ t.st = "sent" /\ t.kind = kind /\ t.set = {} /\ t.age = 0
<1>1. Aio!NoTask.set = {} /\ Aio!NoTask.age = 0
  BY DEF Aio!NoTask
<1> QED
  BY <1>1, NoTaskType, TaskStarted

LEMMA TaskReplied ==
  ASSUME NEW t \in Tasks, NEW set \in SUBSET Kids
  PROVE  LET u == [t EXCEPT !.st = "replied", !.set = set]
         IN  u \in Tasks /\ u.st = "replied" /\ u.set = set /\ u.age = t.age /\ u.kind = t.kind
BY DEF Tasks

LEMMA TaskOlder ==
  ASSUME NEW t \in Tasks, t.age < FetchMax
  PROVE  LET u == [t EXCEPT !.age = t.age + 1]
         IN  u \in Tasks /\ u.st = t.st /\ u.set = t.set /\ u.age = t.age + 1 /\ u.kind = t.kind
BY PythonAssumption DEF Tasks

(* The fields of the task after each step. *)
LEMMA StartTask ==
  ASSUME NEW c, NEW k, NEW stage, Aio!StartFetch(c, k, stage)
  PROVE  /\ fetch' \in Tasks /\ fetch'.st = "sent" /\ fetch'.set = {} /\ fetch'.age = 0
         /\ fetch'.kind = IF stage = "forced" /\ Aio!Fresh THEN "forced" ELSE "load"
<1>1. fetch' = [Aio!NoTask EXCEPT !.st = "sent", !.kind = IF stage = "forced" /\ Aio!Fresh THEN "forced" ELSE "load"]
  BY DEF Aio!StartFetch
<1> QED
  BY <1>1, TaskSent

LEMMA ReplyTask ==
  ASSUME Aio!TypeOK, Aio!Reply
  PROVE  /\ fetch \in Tasks /\ fetch' \in Tasks
         /\ fetch'.st = "replied" /\ fetch'.age = fetch.age /\ fetch'.kind = fetch.kind
         /\ fetch'.set = idp \/ fetch'.set = {}
<1>1. PICK set \in {idp, {}} : fetch' = [fetch EXCEPT !.st = "replied", !.set = set]
  BY DEF Aio!Reply
<1>2. fetch \in Tasks /\ set \in SUBSET Kids
  BY <1>1 DEF Aio!TypeOK, Tasks
<1> QED
  BY <1>1, <1>2, TaskReplied

LEMMA TickTask ==
  ASSUME Aio!TypeOK, Aio!Tick
  PROVE  /\ fetch \in Tasks /\ fetch' \in Tasks
         /\ fetch'.st = fetch.st /\ fetch'.set = fetch.set /\ fetch'.kind = fetch.kind
         /\ fetch.st # "none" => fetch'.age = fetch.age + 1
<1>1. fetch \in Tasks
  BY DEF Aio!TypeOK, Tasks
<1>2. CASE ~Aio!Running
  BY <1>1, <1>2 DEF Aio!Tick, Aio!Running
<1>3. CASE Aio!Running
  BY <1>1, <1>3, TaskOlder DEF Aio!Tick
<1> QED
  BY <1>2, <1>3

-----------------------------------------------------------------------------
(* What a coroutine does, and the types. *)
AioCallersSteps(c) == (\E k \in Kids : Aio!Validate(c, k)) \/ Aio!Resume(c) \/ Aio!Cancel(c)
AioCallTypes ==
  /\ pc \in [Callers -> Aio!Outcomes \cup Aio!Awaiting \cup Aio!Ready]
  /\ kid \in [Callers -> Kids \cup {NoKid}] /\ woken \in [Callers -> SUBSET Kids]

LEMMA AioTypeInit == Aio!Init => Aio!TypeOK
BY PythonAssumption, BackoffAssumption, NoTaskType DEF Aio!Init, Aio!TypeOK, Tasks, Aio!Outcomes

(* A coroutine is left awaiting the task, with a key id, or with an outcome *)
(* and none.                                                                *)
Settles(c, k, state) ==
  /\ Aio!Become(c, k, state)
  /\ (k \in Kids /\ state \in Aio!Awaiting) \/ (k = NoKid /\ state \in Aio!Outcomes)

LEMMA BecomeTypes ==
  ASSUME Aio!TypeOK, NEW c \in Callers, NEW k, NEW state, Settles(c, k, state)
  PROVE  AioCallTypes'
BY DEF Aio!TypeOK, AioCallTypes, Settles, Aio!Become

(* The four ways of _load_jwks. *)
LEMMA LoadTypes ==
  ASSUME Aio!TypeOK, NEW c \in Callers, NEW k \in Kids, NEW stage \in Aio!Awaiting, Aio!LoadJwks(c, k, stage)
  PROVE  Aio!TypeOK'
<1>0. UNCHANGED <<keys, age, idp, since, rotations>>
  BY DEF Aio!LoadJwks, Aio!store, Aio!server
<1>1. CASE Aio!Join(c, k, stage)
  <2>1. AioCallTypes'
    BY <1>1, BecomeTypes DEF Aio!Join, Settles
  <2> QED
    BY <1>0, <1>1, <2>1 DEF Aio!Join, Aio!TypeOK, AioCallTypes, Aio!gates
<1>2. CASE Aio!UseWindow(c, k, stage)
  <2>1. AioCallTypes'
    BY <1>2, BecomeTypes DEF Aio!UseWindow, Aio!Return, Settles, Aio!Outcomes
  <2> QED
    BY <1>0, <1>2, <2>1 DEF Aio!UseWindow, Aio!TypeOK, AioCallTypes, Aio!gates
<1>3. CASE Aio!RefuseBackingOff(c, stage)
  <2>1. AioCallTypes'
    BY <1>3, BecomeTypes DEF Aio!RefuseBackingOff, Aio!Return, Settles, Aio!Outcomes
  <2> QED
    BY <1>0, <1>3, <2>1, PythonAssumption DEF Aio!RefuseBackingOff, Aio!Stamps, Aio!TypeOK, AioCallTypes
<1>4. CASE Aio!StartFetch(c, k, stage)
  <2>1. AioCallTypes'
    BY <1>4, BecomeTypes DEF Aio!StartFetch, Settles
  <2>2. fetch' \in Tasks
    BY <1>4, StartTask
  <2>3. /\ forcedAge' \in 0..MinRefetch /\ UNCHANGED <<failures, backoff>>
        /\ window' \in {"none", "refused", "running", "ok", "failed"}
    BY <1>4, PythonAssumption DEF Aio!StartFetch, Aio!Stamps, Aio!TypeOK
  <2> QED
    BY <1>0, <2>1, <2>2, <2>3 DEF Aio!TypeOK, AioCallTypes, Tasks
<1> QED
  BY <1>1, <1>2, <1>3, <1>4 DEF Aio!LoadJwks

LEMMA KeyOfACall ==
  ASSUME Aio!TypeOK, NEW c \in Callers, NEW k \in Kids, Aio!Validate(c, k)
  PROVE  \/ /\ Aio!Fresh /\ k \in keys /\ Aio!Return(c, "accepted")
            /\ UNCHANGED <<Aio!store, Aio!gates, fetch, Aio!server, window>>
         \/ \E stage \in Aio!Awaiting : Aio!LoadJwks(c, k, stage) /\ (stage = "first" => ~Aio!Fresh)
BY DEF Aio!Validate, Aio!Awaiting

(* Every coroutine that is outside a call has no key id, others have one. *)
KidKept == \A c \in Callers : pc[c] \in Aio!Outcomes <=> kid[c] = NoKid

LEMMA AioTypeCaller ==
  ASSUME Aio!TypeOK, KidKept, NEW c \in Callers, AioCallersSteps(c)
  PROVE  Aio!TypeOK'
<1>1. ASSUME NEW k \in Kids, Aio!Validate(c, k) PROVE Aio!TypeOK'
  <2>1. CASE Aio!Return(c, "accepted") /\ UNCHANGED <<Aio!store, Aio!gates, fetch, Aio!server, window>>
    <3>1. AioCallTypes'
      BY <2>1, BecomeTypes DEF Aio!Return, Settles, Aio!Outcomes
    <3> QED
      BY <2>1, <3>1 DEF Aio!TypeOK, AioCallTypes, Aio!store, Aio!gates, Aio!server
  <2> QED
    BY <1>1, <2>1, KeyOfACall, LoadTypes
<1>2. CASE Aio!Raise(c) \/ Aio!Found(c) \/ Aio!NotFound(c) \/ Aio!Cancel(c)
  <2>1. AioCallTypes'
    BY <1>2, BecomeTypes DEF Aio!Raise, Aio!Found, Aio!NotFound, Aio!Cancel, Aio!Return, Settles, Aio!Outcomes
  <2>2. UNCHANGED <<Aio!store, Aio!gates, fetch, Aio!server, window>>
    BY <1>2 DEF Aio!Raise, Aio!Found, Aio!NotFound, Aio!Cancel
  <2> QED
    BY <2>1, <2>2 DEF Aio!TypeOK, AioCallTypes, Aio!store, Aio!gates, Aio!server
<1>3. CASE Aio!LoadForced(c)
  <2>1. kid[c] \in Kids
    BY <1>3 DEF Aio!LoadForced, KidKept, Aio!TypeOK, Aio!Outcomes
  <2> QED
    BY <1>3, <2>1, LoadTypes DEF Aio!LoadForced, Aio!Awaiting
<1> QED
  BY <1>1, <1>2, <1>3 DEF AioCallersSteps, Aio!Resume

LEMMA WakeTypes ==
  ASSUME Aio!TypeOK, NEW set \in SUBSET Kids, Aio!Wake(set)
  PROVE  AioCallTypes'
BY DEF Aio!TypeOK, AioCallTypes, Aio!Wake, Aio!Awaited, Aio!Awaiting, Aio!Ready, Aio!ReadyIn

LEMMA TypeTask ==
  ASSUME Aio!TypeOK, Aio!RefetchJwks
  PROVE  Aio!TypeOK'
<1> USE PythonAssumption, BackoffAssumption DEF Aio!TypeOK, Aio!store, Aio!gates, Aio!calls, Aio!server
<1>1. CASE Aio!Reply
  BY <1>1, ReplyTask DEF Aio!Reply, Tasks
<1>2. CASE Aio!FetchFails
  <2>1. failures' \in 0..MaxFailures
    BY <1>2 DEF Aio!FetchFails, Aio!Smaller
  <2>2. backoff' \in 0..BackoffCap
    BY <1>2, AioDelaysBounded DEF Aio!FetchFails
  <2>3. AioCallTypes'
    BY <1>2, WakeTypes DEF Aio!FetchFails
  <2>4. fetch' \in Tasks /\ window' \in {"none", "refused", "running", "ok", "failed"}
    BY <1>2, NoTaskType DEF Aio!FetchFails, Aio!Done
  <2> QED
    BY <1>2, <2>1, <2>2, <2>3, <2>4 DEF Aio!FetchFails, AioCallTypes, Tasks
<1>3. CASE Aio!Succeed
  <2>1. fetch.set \in SUBSET Kids
    OBVIOUS
  <2>2. AioCallTypes'
    BY <1>3, <2>1, WakeTypes DEF Aio!Succeed
  <2>3. fetch' \in Tasks /\ window' \in {"none", "refused", "running", "ok", "failed"}
    BY <1>3, NoTaskType DEF Aio!Succeed, Aio!Done
  <2> QED
    BY <1>3, <2>1, <2>2, <2>3 DEF Aio!Succeed, AioCallTypes, Tasks
<1> QED
  BY <1>1, <1>2, <1>3 DEF Aio!RefetchJwks

LEMMA AioTypeEnvironment ==
  ASSUME Aio!TypeOK, Aio!Tick \/ (\E S \in (SUBSET Kids) \ {{}} : Aio!Rotate(S))
  PROVE  Aio!TypeOK'
<1> USE PythonAssumption, BackoffAssumption DEF Aio!TypeOK, Aio!store, Aio!gates, Aio!calls, Aio!server
<1>1. CASE Aio!Tick
  <2>1. /\ age' \in 0..Lifetime /\ forcedAge' \in 0..MinRefetch /\ backoff' \in 0..BackoffCap
        /\ since' \in [Kids -> 0..Horizon]
    BY <1>1, AioAgesStayInRange DEF Aio!Tick
  <2>2. fetch' \in Tasks
    BY <1>1, TickTask
  <2> QED
    BY <1>1, <2>1, <2>2 DEF Aio!Tick, Tasks
<1>2. CASE \E S \in (SUBSET Kids) \ {{}} : Aio!Rotate(S)
  BY <1>2 DEF Aio!Rotate
<1> QED
  BY <1>1, <1>2

-----------------------------------------------------------------------------
(* The key id of a call lasts as long as the call. *)
LEMMA KidInit == Aio!Init => KidKept
BY DEF Aio!Init, KidKept, Aio!Outcomes

LEMMA SettlesKeepKids ==
  ASSUME Aio!TypeOK, KidKept, NEW c \in Callers, NEW k, NEW state, Settles(c, k, state)
  PROVE  KidKept'
<1>1. state \in Aio!Outcomes <=> k = NoKid
  BY PythonAssumption DEF Settles, Aio!Outcomes, Aio!Awaiting
<1> QED
  BY <1>1 DEF KidKept, Settles, Aio!Become, Aio!TypeOK

LEMMA LoadsSettle ==
  ASSUME NEW c \in Callers, NEW k \in Kids, NEW stage \in Aio!Awaiting, Aio!LoadJwks(c, k, stage)
  PROVE  \E j, state : Settles(c, j, state)
<1>1. CASE Aio!Join(c, k, stage) \/ Aio!StartFetch(c, k, stage)
  BY <1>1 DEF Aio!Join, Aio!StartFetch, Settles
<1>2. CASE Aio!UseWindow(c, k, stage)
  BY <1>2 DEF Aio!UseWindow, Aio!Return, Settles, Aio!Outcomes
<1>3. CASE Aio!RefuseBackingOff(c, stage)
  BY <1>3 DEF Aio!RefuseBackingOff, Aio!Return, Settles, Aio!Outcomes
<1> QED
  BY <1>1, <1>2, <1>3 DEF Aio!LoadJwks

(* A step of a coroutine moves that coroutine alone. *)
LEMMA CallersSettle ==
  ASSUME Aio!TypeOK, KidKept, NEW c \in Callers, AioCallersSteps(c)
  PROVE  \E j, state : Settles(c, j, state)
<1>1. ASSUME NEW k \in Kids, Aio!Validate(c, k) PROVE \E j, state : Settles(c, j, state)
  <2>1. CASE Aio!Return(c, "accepted")
    BY <2>1 DEF Aio!Return, Settles, Aio!Outcomes
  <2> QED
    BY <1>1, <2>1, KeyOfACall, LoadsSettle
<1>2. CASE Aio!Raise(c)
  BY <1>2 DEF Aio!Raise, Aio!Return, Settles, Aio!Outcomes
<1>3. CASE Aio!Found(c)
  BY <1>3 DEF Aio!Found, Aio!Return, Settles, Aio!Outcomes
<1>4. CASE Aio!NotFound(c)
  BY <1>4 DEF Aio!NotFound, Aio!Return, Settles, Aio!Outcomes
<1>5. CASE Aio!Cancel(c)
  BY <1>5 DEF Aio!Cancel, Aio!Return, Settles, Aio!Outcomes
<1>6. CASE Aio!LoadForced(c)
  <2>1. kid[c] \in Kids
    BY <1>6 DEF Aio!LoadForced, KidKept, Aio!TypeOK, Aio!Outcomes
  <2> QED
    BY <1>6, <2>1, LoadsSettle DEF Aio!LoadForced, Aio!Awaiting
<1> QED
  BY <1>1, <1>2, <1>3, <1>4, <1>5, <1>6 DEF AioCallersSteps, Aio!Resume

LEMMA KidStep == Aio!TypeOK /\ KidKept /\ [Aio!Next]_Aio!vars => KidKept'
<1> SUFFICES ASSUME Aio!TypeOK, KidKept, [Aio!Next]_Aio!vars PROVE KidKept'
  OBVIOUS
<1>1. CASE UNCHANGED <<pc, kid>>
  BY <1>1 DEF KidKept
<1>2. ASSUME NEW c \in Callers, AioCallersSteps(c) PROVE KidKept'
  BY <1>2, CallersSettle, SettlesKeepKids
<1>3. CASE Aio!FetchFails \/ Aio!Succeed
  <2>1. /\ kid' = kid
        /\ \A c \in Callers : pc'[c] = IF Aio!Awaited(c) THEN Aio!ReadyIn[pc[c]] ELSE pc[c]
    BY <1>3 DEF Aio!FetchFails, Aio!Succeed, Aio!Wake
  <2>2. \A c \in Callers : pc'[c] \in Aio!Outcomes <=> pc[c] \in Aio!Outcomes
    BY <2>1 DEF Aio!Awaited, Aio!Awaiting, Aio!ReadyIn, Aio!Outcomes
  <2> QED
    BY <2>1, <2>2 DEF KidKept
<1> QED
  BY <1>1, <1>2, <1>3 DEF Aio!Next, AioCallersSteps, Aio!RefetchJwks, Aio!Reply, Aio!Tick, Aio!Rotate,
       Aio!vars, Aio!calls

TypeInv == Aio!TypeOK /\ KidKept

LEMMA TypesInductive == Aio!Spec => []TypeInv
<1>1. TypeInv /\ [Aio!Next]_Aio!vars => TypeInv'
  <2> SUFFICES ASSUME TypeInv, [Aio!Next]_Aio!vars PROVE TypeInv'
    OBVIOUS
  <2>1. Aio!TypeOK'
    <3>1. CASE UNCHANGED Aio!vars
      BY <3>1 DEF TypeInv, Aio!TypeOK, Aio!vars
    <3> QED
      BY <3>1, AioTypeCaller, TypeTask, AioTypeEnvironment DEF TypeInv, Aio!Next, AioCallersSteps
  <2> QED
    BY <2>1, KidStep DEF TypeInv
<1>2. Aio!Init => TypeInv
  BY AioTypeInit, KidInit DEF TypeInv
<1> QED
  BY <1>1, <1>2, PTL DEF Aio!Spec

(* The key store keeps its types; that a resumed coroutine loads for a real *)
(* key id needs KidKept.                                                    *)
THEOREM AioTypeCorrect == Aio!Spec => []Aio!TypeOK
<1>1. TypeInv => Aio!TypeOK
  BY DEF TypeInv
<1> QED
  BY <1>1, TypesInductive, PTL

-----------------------------------------------------------------------------
(* The key store implements the policy: a forced refetch that the backoff   *)
(* refuses is the policy's waste, and the set is stored as the task ends.   *)
AioPoliced == <<keys, age, forcedAge, failures, backoff, fetch>>

LEMMA AioPolicyInit == Aio!Init => Aio!Policy!Init
BY DEF Aio!Init, Aio!NoTask, Aio!Running, Aio!Policy!Init

LEMMA AioPolicyStutter ==
  ASSUME UNCHANGED AioPoliced
  PROVE  UNCHANGED Aio!Policy!vars
BY DEF AioPoliced, Aio!Running, Aio!Policy!vars

(* A first load is made only of a set that is not fresh. *)
LEMMA PolicyLoad ==
  ASSUME NEW c \in Callers, NEW k \in Kids, NEW stage \in Aio!Awaiting, Aio!LoadJwks(c, k, stage),
         stage = "first" => ~Aio!Fresh
  PROVE  [Aio!Policy!Next]_(Aio!Policy!vars)
<1>0. UNCHANGED <<keys, age>>
  BY DEF Aio!LoadJwks, Aio!store
<1>1. CASE Aio!Join(c, k, stage) \/ Aio!UseWindow(c, k, stage)
  BY <1>0, <1>1, AioPolicyStutter DEF Aio!Join, Aio!UseWindow, Aio!gates, AioPoliced
<1>2. CASE Aio!RefuseBackingOff(c, stage)
  <2>1. fetch.st = "none" /\ backoff > 0 /\ UNCHANGED <<failures, backoff, fetch>>
    BY <1>2 DEF Aio!RefuseBackingOff, Aio!Decides, Aio!Running
  <2>2. CASE stage = "forced" /\ Aio!Fresh
    <3>1. Aio!WindowOver /\ forcedAge' = 0
      BY <1>2, <2>2 DEF Aio!RefuseBackingOff, Aio!Decides, Aio!Stamps
    <3>2. Aio!Policy!Waste
      BY <1>0, <2>1, <2>2, <3>1 DEF Aio!Running, Aio!Policy!Waste, Aio!Policy!Fresh, Aio!Policy!WindowOver,
           Aio!Fresh, Aio!WindowOver
    <3> QED
      BY <3>2 DEF Aio!Policy!Next
  <2>3. CASE ~(stage = "forced" /\ Aio!Fresh)
    <3>1. forcedAge' = forcedAge
      BY <1>2, <2>3 DEF Aio!RefuseBackingOff, Aio!Stamps
    <3> QED
      BY <1>0, <2>1, <3>1, AioPolicyStutter DEF AioPoliced
  <2> QED
    BY <2>2, <2>3
<1>3. CASE Aio!StartFetch(c, k, stage)
  <2>1. fetch.st = "none" /\ fetch'.st = "sent" /\ backoff = 0 /\ UNCHANGED <<failures, backoff>>
    BY <1>3, StartTask DEF Aio!StartFetch, Aio!Decides, Aio!Running
  <2>2. CASE stage = "forced" /\ Aio!Fresh
    <3>1. Aio!WindowOver /\ forcedAge' = 0
      BY <1>3, <2>2 DEF Aio!StartFetch, Aio!Decides, Aio!Stamps
    <3>2. Aio!Policy!Refetch
      BY <1>0, <2>1, <2>2, <3>1 DEF Aio!Running, Aio!Policy!Refetch, Aio!Policy!Fresh,
           Aio!Policy!WindowOver, Aio!Fresh, Aio!WindowOver
    <3> QED
      BY <3>2 DEF Aio!Policy!Next
  <2>3. CASE ~(stage = "forced" /\ Aio!Fresh)
    <3>1. forcedAge' = forcedAge /\ ~Aio!Fresh
      BY <1>3, <2>3 DEF Aio!StartFetch, Aio!Stamps, Aio!Awaiting
    <3>2. Aio!Policy!Load
      BY <1>0, <2>1, <3>1 DEF Aio!Running, Aio!Policy!Load, Aio!Policy!Fresh, Aio!Fresh
    <3> QED
      BY <3>2 DEF Aio!Policy!Next
  <2> QED
    BY <2>2, <2>3
<1> QED
  BY <1>1, <1>2, <1>3 DEF Aio!LoadJwks

LEMMA PolicyCaller ==
  ASSUME TypeInv, NEW c \in Callers, AioCallersSteps(c)
  PROVE  [Aio!Policy!Next]_(Aio!Policy!vars)
<1>1. CASE UNCHANGED <<Aio!store, Aio!gates, fetch, Aio!server, window>>
  BY <1>1, AioPolicyStutter DEF AioPoliced, Aio!store, Aio!gates
<1>2. ASSUME NEW k \in Kids, Aio!Validate(c, k) PROVE [Aio!Policy!Next]_(Aio!Policy!vars)
  BY <1>1, <1>2, KeyOfACall, PolicyLoad DEF TypeInv
<1>3. CASE Aio!LoadForced(c)
  <2>1. kid[c] \in Kids
    BY <1>3 DEF Aio!LoadForced, TypeInv, KidKept, Aio!TypeOK, Aio!Outcomes
  <2> QED
    BY <1>3, <2>1, PolicyLoad DEF Aio!LoadForced, Aio!Awaiting
<1> QED
  BY <1>1, <1>2, <1>3 DEF AioCallersSteps, Aio!Resume, Aio!Raise, Aio!Found, Aio!NotFound, Aio!Cancel

LEMMA PolicyTask ==
  ASSUME Aio!TypeOK, Aio!RefetchJwks
  PROVE  [Aio!Policy!Next]_(Aio!Policy!vars)
<1>1. CASE Aio!Reply
  <2>1. fetch.st = "sent" /\ fetch'.st = "replied" /\ UNCHANGED <<keys, age, forcedAge, failures, backoff>>
    BY <1>1, ReplyTask DEF Aio!Reply, Aio!store, Aio!gates
  <2> QED
    BY <2>1 DEF Aio!Running, Aio!Policy!vars
<1>2. CASE Aio!FetchFails
  <2>1. fetch.st # "none" /\ fetch'.st = "none"
    BY <1>2 DEF Aio!FetchFails, Aio!Done, Aio!NoTask
  <2>2. /\ failures' = Aio!Smaller(failures + 1, MaxFailures) /\ backoff' \in Aio!Delays(failures')
        /\ UNCHANGED <<keys, age, forcedAge>>
    BY <1>2 DEF Aio!FetchFails, Aio!store
  <2>3. Aio!Policy!Fail
    BY <2>1, <2>2 DEF Aio!Running, Aio!Policy!Fail, Aio!Policy!Smaller, Aio!Policy!Delays, Aio!Policy!RawDelay,
       Aio!Smaller, Aio!Delays, Aio!RawDelay
  <2> QED
    BY <2>3 DEF Aio!Policy!Next
<1>3. CASE Aio!Succeed
  <2>1. fetch.st # "none" /\ fetch'.st = "none"
    BY <1>3 DEF Aio!Succeed, Aio!Done, Aio!NoTask
  <2>2. /\ keys' \in (SUBSET Kids) \ {{}} /\ age' = 0 /\ forcedAge' = forcedAge
        /\ failures' = 0 /\ backoff' = 0
    BY <1>3 DEF Aio!Succeed, Aio!TypeOK
  <2>3. Aio!Policy!Obtain
    BY <2>1, <2>2 DEF Aio!Running, Aio!Policy!Obtain
  <2> QED
    BY <2>3 DEF Aio!Policy!Next
<1> QED
  BY <1>1, <1>2, <1>3 DEF Aio!RefetchJwks

LEMMA AioPolicyTick ==
  ASSUME Aio!TypeOK, Aio!Tick
  PROVE  Aio!Policy!Tick
<1>1. fetch'.st = fetch.st
  BY TickTask
<1> QED
  BY <1>1 DEF Aio!Running, Aio!Policy!Tick, Aio!Policy!Smaller, Aio!Policy!Larger, Aio!Tick, Aio!Smaller,
       Aio!Larger

LEMMA AioPolicyStep ==
  ASSUME TypeInv, [Aio!Next]_Aio!vars
  PROVE  [Aio!Policy!Next]_(Aio!Policy!vars)
<1>1. CASE UNCHANGED AioPoliced
  BY <1>1, AioPolicyStutter
<1>2. CASE Aio!Tick
  BY <1>2, AioPolicyTick DEF Aio!Policy!Next, TypeInv
<1> QED
  BY <1>1, <1>2, PolicyCaller, PolicyTask DEF TypeInv, AioPoliced, Aio!vars, Aio!Next, AioCallersSteps,
       Aio!Rotate, Aio!store, Aio!gates

(* Whatever the coroutines do and however many are cancelled, the provider  *)
(* sees requests only when the policy allows one, and a failed one takes no *)
(* key away.                                                                *)
THEOREM AioImplementsPolicy == Aio!Spec => Aio!ImplementsPolicy
BY AioPolicyInit, AioPolicyStep, TypesInductive, PTL DEF Aio!Spec, Aio!ImplementsPolicy, Aio!Policy!Spec

-----------------------------------------------------------------------------
(* Why what is cached is recent: a set on its way was published no longer   *)
(* ago than its exchange is old, and a cached one than it is old, plus one  *)
(* exchange.  A set that a coroutine was woken with is used before time     *)
(* passes.                                                                  *)
Recent(k, bound) == k \in idp \/ since[k] <= bound
AioRecentKeys ==
  /\ Aio!Fresh => \A k \in keys : Recent(k, age + FetchMax)
  /\ fetch.st = "replied" => \A k \in fetch.set : Recent(k, fetch.age)
  /\ \A c \in Callers : pc[c] \in Aio!Ready => \A k \in woken[c] : Recent(k, FetchMax)

LEMMA AioRecentInit == Aio!Init => AioRecentKeys
BY DEF Aio!Init, AioRecentKeys, Aio!NoTask, Aio!Ready, Aio!Outcomes

(* The steps of a coroutine leave the cache and the provider alone; the one *)
(* that touches the task starts it, and none makes a coroutine ready.       *)
LEMMA AioCallersStepsSpare ==
  ASSUME TypeInv, NEW c \in Callers, AioCallersSteps(c)
  PROVE  /\ UNCHANGED <<keys, age, idp, since>> /\ (fetch' = fetch \/ fetch'.st = "sent")
         /\ \A d \in Callers : pc'[d] \in Aio!Ready => pc[d] \in Aio!Ready /\ woken'[d] = woken[d]
<1>1. UNCHANGED <<keys, age, idp, since>>
  BY DEF AioCallersSteps, Aio!Resume, Aio!Validate, Aio!LoadForced, Aio!Raise, Aio!Found, Aio!NotFound,
       Aio!Cancel, Aio!LoadJwks, Aio!store, Aio!server
<1>2. fetch' = fetch \/ fetch'.st = "sent"
  BY StartTask DEF AioCallersSteps, Aio!Resume, Aio!Validate, Aio!LoadForced, Aio!Raise, Aio!Found,
       Aio!NotFound, Aio!Cancel, Aio!LoadJwks,
     Aio!Join, Aio!UseWindow, Aio!RefuseBackingOff
<1>3. PICK j, state : Settles(c, j, state)
  BY CallersSettle DEF TypeInv
<1>4. state \notin Aio!Ready
  BY <1>3 DEF Settles, Aio!Awaiting, Aio!Outcomes, Aio!Ready
<1>5. \A d \in Callers : pc'[d] \in Aio!Ready => pc[d] \in Aio!Ready /\ woken'[d] = woken[d]
  BY <1>3, <1>4 DEF Settles, Aio!Become, TypeInv, Aio!TypeOK
<1> QED
  BY <1>1, <1>2, <1>5

LEMMA RecentTask ==
  ASSUME Aio!TypeOK, AioRecentKeys, Aio!RefetchJwks
  PROVE  AioRecentKeys'
<1>0. UNCHANGED <<idp, since>>
  BY DEF Aio!RefetchJwks, Aio!Reply, Aio!FetchFails, Aio!Succeed, Aio!server
<1>1. CASE Aio!Reply
  <2>1. UNCHANGED <<keys, age, pc, woken>> /\ (fetch'.set = idp \/ fetch'.set = {})
    BY <1>1, ReplyTask DEF Aio!Reply, Aio!store, Aio!calls
  <2> QED
    BY <1>0, <2>1 DEF AioRecentKeys, Recent, Aio!Fresh
<1>2. CASE Aio!FetchFails
  <2>1. UNCHANGED <<keys, age>> /\ fetch'.st = "none"
    BY <1>2 DEF Aio!FetchFails, Aio!Done, Aio!NoTask, Aio!store
  <2>2. ASSUME NEW c \in Callers, pc'[c] \in Aio!Ready PROVE woken'[c] = {}
    BY <1>2, <2>2 DEF Aio!FetchFails, Aio!Wake, Aio!LoopIdle
  <2> QED
    BY <1>0, <2>1, <2>2 DEF AioRecentKeys, Recent, Aio!Fresh
<1>3. CASE Aio!Succeed
  <2>1. keys' = fetch.set /\ age' = 0 /\ fetch'.st = "none" /\ fetch.st = "replied"
    BY <1>3 DEF Aio!Succeed, Aio!Done, Aio!NoTask
  <2>2. fetch.age \in 0..FetchMax /\ \A k \in fetch.set : since[k] \in 0..Horizon
    BY DEF Aio!TypeOK
  <2>3. \A k \in fetch.set : k \in idp \/ since[k] <= FetchMax
    BY <2>1, <2>2, PythonAssumption DEF AioRecentKeys, Recent
  <2>4. ASSUME NEW c \in Callers, pc'[c] \in Aio!Ready PROVE woken'[c] = fetch.set
    BY <1>3, <2>4 DEF Aio!Succeed, Aio!Wake, Aio!LoopIdle
  <2> QED
    BY <1>0, <2>1, <2>3, <2>4, PythonAssumption DEF AioRecentKeys, Recent
<1> QED
  BY <1>1, <1>2, <1>3 DEF Aio!RefetchJwks

LEMMA AioRecentTick ==
  ASSUME Aio!TypeOK, AioRecentKeys, Aio!Tick
  PROVE  AioRecentKeys'
<1>1. UNCHANGED <<keys, idp, pc, woken>> /\ age' = Aio!Smaller(age + 1, Lifetime)
  BY DEF Aio!Tick, Aio!calls
<1>2. \A k \in Kids : since[k] \in Nat /\ since'[k] \in Nat /\ since'[k] <= since[k] + 1
  BY PythonAssumption DEF Aio!Tick, Aio!TypeOK, Aio!Smaller
<1>3. Aio!Fresh' => \A k \in keys' : k \in idp' \/ since'[k] <= age' + FetchMax
  BY <1>1, <1>2, PythonAssumption DEF AioRecentKeys, Recent, Aio!Fresh, Aio!Smaller, Aio!TypeOK
<1>4. ASSUME fetch'.st = "replied", NEW k \in fetch'.set PROVE k \in idp' \/ since'[k] <= fetch'.age
  <2>1. fetch.st = "replied" /\ fetch'.set = fetch.set /\ fetch'.age = fetch.age + 1
    BY <1>4, TickTask
  <2>2. k \in Kids /\ fetch.age \in 0..FetchMax
    BY <1>4, <2>1 DEF Aio!TypeOK
  <2>3. k \in idp \/ since[k] <= fetch.age
    BY <1>4, <2>1 DEF AioRecentKeys, Recent
  <2> QED
    BY <1>1, <1>2, <2>1, <2>2, <2>3, PythonAssumption
<1>5. \A c \in Callers : pc'[c] \notin Aio!Ready
  BY <1>1 DEF Aio!Tick, Aio!LoopIdle
<1> QED
  BY <1>3, <1>4, <1>5 DEF AioRecentKeys, Recent

LEMMA AioRecentRotate ==
  ASSUME Aio!TypeOK, AioRecentKeys, NEW S \in SUBSET Kids, Aio!Rotate(S)
  PROVE  AioRecentKeys'
<1>1. UNCHANGED <<keys, age, fetch, pc, woken>>
  BY DEF Aio!Rotate, Aio!store, Aio!calls
<1>2. ASSUME NEW k \in Kids, NEW bound \in Nat, Recent(k, bound)
      PROVE  k \in idp' \/ since'[k] <= bound
  BY <1>2 DEF Aio!Rotate, Recent
<1>3. Aio!Fresh' => \A k \in keys' : k \in idp' \/ since'[k] <= age' + FetchMax
  <2>1. age + FetchMax \in Nat
    BY PythonAssumption DEF Aio!TypeOK
  <2> QED
    BY <1>1, <1>2, <2>1 DEF AioRecentKeys, Aio!Fresh, Aio!TypeOK
<1>4. fetch'.st = "replied" => \A k \in fetch'.set : k \in idp' \/ since'[k] <= fetch'.age
  <2>1. fetch.age \in Nat /\ fetch.set \subseteq Kids
    BY PythonAssumption DEF Aio!TypeOK
  <2> QED
    BY <1>1, <1>2, <2>1 DEF AioRecentKeys
<1>5. \A c \in Callers : pc'[c] \in Aio!Ready => \A k \in woken'[c] : k \in idp' \/ since'[k] <= FetchMax
  <2>1. FetchMax \in Nat /\ \A c \in Callers : woken[c] \subseteq Kids
    BY PythonAssumption DEF Aio!TypeOK
  <2> QED
    BY <1>1, <1>2, <2>1 DEF AioRecentKeys
<1> QED
  BY <1>3, <1>4, <1>5 DEF AioRecentKeys, Recent

LEMMA AioRecentStep == TypeInv /\ AioRecentKeys /\ [Aio!Next]_Aio!vars => AioRecentKeys'
<1> SUFFICES ASSUME TypeInv, AioRecentKeys, [Aio!Next]_Aio!vars PROVE AioRecentKeys'
  OBVIOUS
<1>0. Aio!TypeOK
  BY DEF TypeInv
<1>1. CASE UNCHANGED Aio!vars
  BY <1>1 DEF AioRecentKeys, Recent, Aio!Fresh, Aio!vars
<1>2. ASSUME NEW c \in Callers, AioCallersSteps(c) PROVE AioRecentKeys'
  <2>1. UNCHANGED <<keys, age, idp, since>> /\ (fetch' = fetch \/ fetch'.st = "sent")
    BY <1>2, AioCallersStepsSpare
  <2>2. \A d \in Callers : pc'[d] \in Aio!Ready => pc[d] \in Aio!Ready /\ woken'[d] = woken[d]
    BY <1>2, AioCallersStepsSpare
  <2> QED
    BY <2>1, <2>2 DEF AioRecentKeys, Recent, Aio!Fresh
<1>3. ASSUME NEW S \in (SUBSET Kids) \ {{}}, Aio!Rotate(S) PROVE AioRecentKeys'
  BY <1>0, <1>3, AioRecentRotate
<1> QED
  BY <1>0, <1>1, <1>2, <1>3, RecentTask, AioRecentTick DEF Aio!Next, AioCallersSteps

-----------------------------------------------------------------------------
(* Why the window rejects no key without a reason: how its decision ended,  *)
(* and that after a success it misses only keys published since it opened.  *)
AioWindowRuns   == window = "running" <=> fetch.st # "none" /\ fetch.kind = "forced"
AioWindowCovers == fetch.st # "none" /\ ~Aio!WindowOver => fetch.age <= forcedAge
AioSetIsWhole   ==
  fetch.st = "replied" => fetch.set = {} \/ \A k \in idp \ fetch.set : since[k] <= fetch.age
AioWindowIsJust ==
  /\ window = "none" => Aio!WindowOver
  /\ window = "ok" /\ ~Aio!WindowOver => \A k \in idp \ keys : since[k] <= forcedAge
AioWindowInv == AioWindowRuns /\ AioWindowCovers /\ AioSetIsWhole /\ AioWindowIsJust

LEMMA AioWindowInit == Aio!Init => AioWindowInv
BY PythonAssumption DEF Aio!Init, Aio!NoTask, AioWindowInv, AioWindowRuns, AioWindowCovers, AioSetIsWhole,
     AioWindowIsJust, Aio!WindowOver

LEMMA AioWindowSame ==
  ASSUME AioWindowInv, UNCHANGED <<keys, forcedAge, fetch, idp, since, window>>
  PROVE  AioWindowInv'
BY DEF AioWindowInv, AioWindowRuns, AioWindowCovers, AioSetIsWhole, AioWindowIsJust, Aio!WindowOver

LEMMA WindowLoad ==
  ASSUME Aio!TypeOK, AioWindowInv, NEW c \in Callers, NEW k, NEW stage, Aio!LoadJwks(c, k, stage)
  PROVE  AioWindowInv'
<1>0. UNCHANGED <<keys, idp, since>>
  BY DEF Aio!LoadJwks, Aio!store, Aio!server
<1>1. CASE UNCHANGED <<forcedAge, fetch, window>>
  BY <1>0, <1>1, AioWindowSame
<1>2. CASE Aio!RefuseBackingOff(c, stage)
  <2>1. fetch.st = "none" /\ UNCHANGED fetch
    BY <1>2 DEF Aio!RefuseBackingOff, Aio!Decides, Aio!Running
  <2>2. CASE stage = "forced" /\ Aio!Fresh
    BY <1>0, <1>2, <2>1, <2>2
       DEF Aio!RefuseBackingOff, Aio!Stamps, AioWindowInv, AioWindowRuns, AioWindowCovers, AioSetIsWhole,
            AioWindowIsJust
  <2>3. CASE ~(stage = "forced" /\ Aio!Fresh)
    BY <1>1, <1>2, <2>1, <2>3 DEF Aio!RefuseBackingOff, Aio!Stamps
  <2> QED
    BY <2>2, <2>3
<1>3. CASE Aio!StartFetch(c, k, stage)
  <2>1. fetch.st = "none"
    BY <1>3 DEF Aio!StartFetch, Aio!Decides, Aio!Running
  <2>2. /\ fetch'.st = "sent" /\ fetch'.age = 0
        /\ fetch'.kind = IF stage = "forced" /\ Aio!Fresh THEN "forced" ELSE "load"
    BY <1>3, StartTask
  <2>3. /\ forcedAge' = IF stage = "forced" /\ Aio!Fresh THEN 0 ELSE forcedAge
        /\ window' = IF stage = "forced" /\ Aio!Fresh THEN "running" ELSE window
    BY <1>3 DEF Aio!StartFetch, Aio!Stamps
  <2>4. AioWindowRuns' /\ AioSetIsWhole'
    BY <2>1, <2>2, <2>3 DEF AioWindowInv, AioWindowRuns, AioSetIsWhole
  <2>5. AioWindowCovers'
    BY <2>2, <2>3, PythonAssumption DEF AioWindowCovers, Aio!TypeOK
  <2>6. AioWindowIsJust'
    BY <1>0, <2>3 DEF AioWindowInv, AioWindowIsJust, Aio!WindowOver
  <2> QED
    BY <2>4, <2>5, <2>6 DEF AioWindowInv
<1> QED
  BY <1>1, <1>2, <1>3 DEF Aio!LoadJwks, Aio!Join, Aio!UseWindow, Aio!gates

LEMMA AioWindowCaller ==
  ASSUME Aio!TypeOK, AioWindowInv, NEW c \in Callers, AioCallersSteps(c)
  PROVE  AioWindowInv'
<1>1. CASE UNCHANGED <<Aio!store, Aio!gates, fetch, Aio!server, window>>
  BY <1>1, AioWindowSame DEF Aio!store, Aio!gates, Aio!server
<1> QED
  BY <1>1, KeyOfACall, WindowLoad DEF AioCallersSteps, Aio!Resume, Aio!Raise, Aio!Found, Aio!NotFound,
       Aio!LoadForced, Aio!Cancel

(* A successful exchange leaves out only keys published since it began. *)
LEMMA AioWholeInTheWindow ==
  ASSUME Aio!TypeOK, AioWindowInv, fetch.st = "replied", fetch.set # {}, ~Aio!WindowOver, NEW k \in idp \ fetch.set
  PROVE  since[k] <= forcedAge
<1>1. since[k] \in Nat /\ fetch.age \in Nat /\ forcedAge \in Nat
  BY PythonAssumption DEF Aio!TypeOK
<1>2. fetch.age <= forcedAge
  BY DEF AioWindowInv, AioWindowCovers
<1>3. since[k] <= fetch.age
  BY DEF AioWindowInv, AioSetIsWhole
<1> QED
  BY <1>1, <1>2, <1>3

LEMMA WindowTask ==
  ASSUME Aio!TypeOK, AioWindowInv, Aio!RefetchJwks
  PROVE  AioWindowInv'
<1>0. UNCHANGED <<forcedAge, idp, since>>
  BY DEF Aio!RefetchJwks, Aio!Reply, Aio!FetchFails, Aio!Succeed, Aio!server, Aio!gates
<1>1. CASE Aio!Reply
  <2>1. /\ fetch.st = "sent" /\ fetch'.st = "replied" /\ fetch'.age = fetch.age /\ fetch'.kind = fetch.kind
        /\ fetch'.set = idp \/ fetch'.set = {}
        /\ UNCHANGED <<keys, window>>
    BY <1>1, ReplyTask DEF Aio!Reply, Aio!store
  <2> QED
    BY <1>0, <2>1 DEF AioWindowInv, AioWindowRuns, AioWindowCovers, AioSetIsWhole, AioWindowIsJust,
         Aio!WindowOver
<1>2. CASE Aio!FetchFails
  <2>1. /\ fetch.st # "none" /\ fetch'.st = "none" /\ UNCHANGED keys
        /\ window' = IF fetch.kind = "forced" THEN "failed" ELSE window
    BY <1>2 DEF Aio!FetchFails, Aio!Done, Aio!NoTask, Aio!store
  <2> QED
    BY <1>0, <2>1 DEF AioWindowInv, AioWindowRuns, AioWindowCovers, AioSetIsWhole, AioWindowIsJust,
         Aio!WindowOver
<1>3. CASE Aio!Succeed
  <2>1. /\ fetch.st = "replied" /\ fetch'.st = "none" /\ keys' = fetch.set /\ fetch.set # {}
        /\ window' = IF fetch.kind = "forced" THEN "ok" ELSE window
    BY <1>3 DEF Aio!Succeed, Aio!Done, Aio!NoTask
  <2>2. AioWindowIsJust'
    BY <1>0, <2>1, AioWholeInTheWindow DEF AioWindowInv, AioWindowIsJust, Aio!WindowOver
  <2> QED
    BY <1>0, <2>1, <2>2 DEF AioWindowInv, AioWindowRuns, AioWindowCovers, AioSetIsWhole
<1> QED
  BY <1>1, <1>2, <1>3 DEF Aio!RefetchJwks

LEMMA AioWindowTick ==
  ASSUME Aio!TypeOK, AioWindowInv, Aio!Tick
  PROVE  AioWindowInv'
<1>1. UNCHANGED <<keys, idp, window>> /\ forcedAge' = Aio!Smaller(forcedAge + 1, MinRefetch)
  BY DEF Aio!Tick
<1>2. /\ fetch'.st = fetch.st /\ fetch'.set = fetch.set /\ fetch'.kind = fetch.kind
      /\ fetch.st # "none" => fetch'.age = fetch.age + 1
  BY TickTask
<1>3. \A k \in Kids : since[k] \in Nat /\ since'[k] \in Nat /\ since'[k] <= since[k] + 1
  BY PythonAssumption DEF Aio!Tick, Aio!TypeOK, Aio!Smaller
<1>4. /\ forcedAge \in Nat /\ fetch.age \in Nat /\ idp \subseteq Kids
      /\ ~Aio!WindowOver' => ~Aio!WindowOver /\ forcedAge' = forcedAge + 1
      /\ Aio!WindowOver => Aio!WindowOver'
  BY <1>1, PythonAssumption DEF Aio!TypeOK, Aio!WindowOver, Aio!Smaller
<1>5. AioWindowRuns' /\ AioWindowCovers'
  BY <1>1, <1>2, <1>4 DEF AioWindowInv, AioWindowRuns, AioWindowCovers
<1>6. AioSetIsWhole'
  <2>1. ASSUME fetch'.st = "replied", fetch'.set # {}, NEW k \in idp' \ fetch'.set
        PROVE  since'[k] <= fetch'.age
    <3>1. since[k] <= fetch.age
      BY <1>1, <1>2, <2>1 DEF AioWindowInv, AioSetIsWhole
    <3> QED
      BY <1>1, <1>2, <1>3, <1>4, <2>1, <3>1
  <2> QED
    BY <2>1 DEF AioSetIsWhole
<1>7. AioWindowIsJust'
  <2>1. ASSUME window = "ok", ~Aio!WindowOver', NEW k \in idp' \ keys' PROVE since'[k] <= forcedAge'
    <3>1. since[k] <= forcedAge
      BY <1>1, <1>4, <2>1 DEF AioWindowInv, AioWindowIsJust
    <3> QED
      BY <1>1, <1>3, <1>4, <2>1, <3>1
  <2> QED
    BY <1>1, <1>4, <2>1 DEF AioWindowInv, AioWindowIsJust
<1> QED
  BY <1>5, <1>6, <1>7 DEF AioWindowInv

LEMMA AioWindowRotate ==
  ASSUME Aio!TypeOK, AioWindowInv, NEW S \in SUBSET Kids, Aio!Rotate(S)
  PROVE  AioWindowInv'
<1>1. UNCHANGED <<keys, forcedAge, fetch, window>> /\ idp' = S
  BY DEF Aio!Rotate, Aio!store, Aio!gates
<1>2. \A k \in S : IF k \in idp THEN since'[k] = since[k] ELSE since'[k] = 0
  BY DEF Aio!Rotate
<1>3. forcedAge >= 0 /\ fetch.age >= 0
  BY PythonAssumption DEF Aio!TypeOK
<1>4. AioSetIsWhole'
  BY <1>1, <1>2, <1>3 DEF AioWindowInv, AioSetIsWhole
<1>5. AioWindowIsJust'
  BY <1>1, <1>2, <1>3 DEF AioWindowInv, AioWindowIsJust, Aio!WindowOver
<1> QED
  BY <1>1, <1>4, <1>5 DEF AioWindowInv, AioWindowRuns, AioWindowCovers, Aio!WindowOver

LEMMA AioWindowStep == Aio!TypeOK /\ AioWindowInv /\ [Aio!Next]_Aio!vars => AioWindowInv'
<1> SUFFICES ASSUME Aio!TypeOK, AioWindowInv, [Aio!Next]_Aio!vars PROVE AioWindowInv'
  OBVIOUS
<1>1. CASE UNCHANGED Aio!vars
  BY <1>1, AioWindowSame DEF Aio!vars
<1>2. ASSUME NEW S \in (SUBSET Kids) \ {{}}, Aio!Rotate(S) PROVE AioWindowInv'
  BY <1>2, AioWindowRotate
<1> QED
  BY <1>1, <1>2, AioWindowCaller, WindowTask, AioWindowTick DEF Aio!Next, AioCallersSteps

-----------------------------------------------------------------------------
(* Which steps answer a coroutine.  An answer that _load_jwks gives is that *)
(* of the window.                                                           *)
LEMMA LoadAnswers ==
  ASSUME Aio!TypeOK, NEW c \in Callers, NEW k \in Kids, NEW stage \in Aio!Awaiting, Aio!LoadJwks(c, k, stage)
  PROVE  /\ pc'[c] = "accepted" => Aio!Fresh /\ k \in keys
         /\ pc'[c] = "no_key" => Aio!UseWindow(c, k, stage)
BY DEF Aio!LoadJwks, Aio!Join, Aio!UseWindow, Aio!RefuseBackingOff, Aio!StartFetch, Aio!Return, Aio!Become,
     Aio!TypeOK, Aio!Awaiting

LEMMA ValidateAnswers ==
  ASSUME Aio!TypeOK, NEW c \in Callers, NEW k \in Kids, Aio!Validate(c, k)
  PROVE  /\ pc'[c] = "accepted" => Aio!Fresh /\ k \in keys
         /\ pc'[c] = "no_key" => ~Aio!Running
<1>1. CASE Aio!Fresh /\ k \in keys /\ Aio!Return(c, "accepted")
  BY <1>1 DEF Aio!Return, Aio!Become, Aio!TypeOK
<1>2. CASE \E stage \in Aio!Awaiting : Aio!LoadJwks(c, k, stage)
  BY <1>2, LoadAnswers DEF Aio!UseWindow
<1> QED
  BY <1>1, <1>2, KeyOfACall

(* What a coroutine that was awaiting, or had been woken, is told. *)
LEMMA WhoAnswers ==
  ASSUME TypeInv, Aio!Next, NEW c \in Callers, Aio!Ends(c, "accepted") \/ Aio!Ends(c, "no_key")
  PROVE  \/ \E k \in Kids : Aio!Validate(c, k)
         \/ Aio!LoadForced(c)
         \/ Aio!Found(c) /\ pc'[c] = "accepted"
         \/ Aio!NotFound(c)
<1>1. ASSUME NEW d \in Callers, AioCallersSteps(d) PROVE d = c
  <2>1. PICK j, state : Settles(d, j, state)
    BY <1>1, CallersSettle DEF TypeInv
  <2> QED
    BY <2>1 DEF Settles, Aio!Become, Aio!Ends, TypeInv, Aio!TypeOK
<1>2. ~Aio!Raise(c) /\ ~Aio!Cancel(c)
  BY DEF Aio!Raise, Aio!Cancel, Aio!Return, Aio!Become, Aio!Ends, TypeInv, Aio!TypeOK
<1>3. Aio!Found(c) => pc'[c] = "accepted"
  BY DEF Aio!Found, Aio!Return, Aio!Become, TypeInv, Aio!TypeOK
<1>4. ASSUME Aio!FetchFails \/ Aio!Succeed PROVE FALSE
  <2>1. pc'[c] = IF Aio!Awaited(c) THEN Aio!ReadyIn[pc[c]] ELSE pc[c]
    BY <1>4 DEF Aio!FetchFails, Aio!Succeed, Aio!Wake
  <2> QED
    BY <2>1 DEF Aio!Ends, Aio!Awaited, Aio!Awaiting, Aio!ReadyIn
<1>5. ASSUME UNCHANGED pc PROVE FALSE
  BY <1>5 DEF Aio!Ends
<1> QED
  BY <1>1, <1>2, <1>3, <1>4, <1>5 DEF Aio!Next, AioCallersSteps, Aio!Resume, Aio!RefetchJwks, Aio!Reply,
       Aio!Tick, Aio!Rotate, Aio!calls

LEMMA AioAcceptedIsRecent ==
  ASSUME TypeInv, AioRecentKeys, Aio!Next, NEW c \in Callers, NEW k \in Kids,
         (Aio!Ends(c, "accepted") /\ kid[c] = k) \/ (Aio!Validate(c, k) /\ pc'[c] = "accepted")
  PROVE  k \in idp \/ since[k] < Lifetime + FetchMax
<1>0. since[k] \in Nat /\ age \in Nat
  BY PythonAssumption DEF TypeInv, Aio!TypeOK
<1>1. CASE Aio!Fresh /\ k \in keys
  BY <1>0, <1>1, PythonAssumption DEF AioRecentKeys, Recent, Aio!Fresh
<1>2. CASE pc[c] \in Aio!Ready /\ k \in woken[c]
  BY <1>0, <1>2, PythonAssumption DEF AioRecentKeys, Recent
<1>3. CASE Aio!Validate(c, k) /\ pc'[c] = "accepted"
  BY <1>1, <1>3, ValidateAnswers DEF TypeInv
<1>4. CASE Aio!Ends(c, "accepted") /\ kid[c] = k
  <2>1. pc[c] \notin Aio!Outcomes
    BY <1>4, PythonAssumption DEF TypeInv, KidKept
  <2>2. CASE Aio!LoadForced(c)
    BY <1>1, <1>4, <2>2, LoadAnswers DEF TypeInv, Aio!LoadForced, Aio!Ends, Aio!Awaiting
  <2>3. CASE Aio!Found(c)
    BY <1>2, <1>4, <2>3 DEF Aio!Found
  <2>4. ~Aio!NotFound(c)
    BY <1>4 DEF Aio!NotFound, Aio!Return, Aio!Become, Aio!Ends, TypeInv, Aio!TypeOK
  <2> QED
    BY <1>4, <2>1, <2>2, <2>3, <2>4, WhoAnswers DEF Aio!Validate
<1> QED
  BY <1>3, <1>4

LEMMA AioRejectedIsExplained ==
  ASSUME TypeInv, AioWindowInv, Aio!Next, NEW c \in Callers, NEW k \in Kids
  PROVE  (Aio!RejectsPublished(c, k) => window \in {"failed", "refused"}) /\ ~Aio!RejectedInFlight(c)
<1>1. ASSUME Aio!RejectsPublished(c, k) PROVE window \in {"failed", "refused"}
  <2>1. fetch.st = "none" /\ ~Aio!WindowOver
    BY <1>1 DEF Aio!RejectsPublished, Aio!UseWindow, Aio!Running
  <2>2. k \notin keys
    BY <1>1 DEF Aio!RejectsPublished, Aio!UseWindow, Aio!Return, Aio!Become, TypeInv, Aio!TypeOK
  <2>3. window \notin {"none", "running"}
    BY <2>1 DEF AioWindowInv, AioWindowRuns, AioWindowIsJust
  <2>4. since[k] >= MinRefetch /\ since[k] \in Nat /\ forcedAge \in Nat
    BY <1>1, PythonAssumption DEF Aio!RejectsPublished, TypeInv, Aio!TypeOK
  <2>5. window # "ok"
    BY <1>1, <2>1, <2>2, <2>4, PythonAssumption DEF AioWindowInv, AioWindowIsJust, Aio!WindowOver,
         Aio!RejectsPublished
  <2> QED
    BY <2>3, <2>5 DEF TypeInv, Aio!TypeOK
<1>2. ASSUME Aio!RejectedInFlight(c) PROVE FALSE
  <2>1. Aio!Running /\ pc[c] # "forced_ready" /\ Aio!Ends(c, "no_key")
    BY <1>2 DEF Aio!RejectedInFlight, Aio!Running
  <2>2. ASSUME NEW j \in Kids, Aio!Validate(c, j) PROVE FALSE
    BY <2>1, <2>2, ValidateAnswers DEF TypeInv, Aio!Ends
  <2>3. CASE Aio!LoadForced(c)
    <3>1. kid[c] \in Kids
      BY <2>3 DEF Aio!LoadForced, TypeInv, KidKept, Aio!TypeOK, Aio!Outcomes
    <3> QED
      BY <2>1, <2>3, <3>1, LoadAnswers DEF TypeInv, Aio!LoadForced, Aio!UseWindow, Aio!Ends, Aio!Awaiting
  <2> QED
    BY <2>1, <2>2, <2>3, WhoAnswers DEF Aio!NotFound, Aio!Ends
<1> QED
  BY <1>1, <1>2

(* A validation is never given a key withdrawn longer ago than the lifetime *)
(* of a set and one exchange; the window never denies it a published key    *)
(* but after a refetch that failed or that the backoff refused; and it is   *)
(* not denied one while a refetch that may bring it is under way.           *)
THEOREM AioAnswersJust == Aio!Spec => Aio!AnswersAreJust
<1>1. TypeInv /\ AioRecentKeys /\ [Aio!Next]_Aio!vars =>
        [\A c \in Callers, k \in Kids :
           (Aio!Ends(c, "accepted") /\ kid[c] = k) \/ (Aio!Validate(c, k) /\ pc'[c] = "accepted")
             => k \in idp \/ since[k] < Lifetime + FetchMax]_Aio!vars
  BY AioAcceptedIsRecent
<1>2. TypeInv /\ AioWindowInv /\ [Aio!Next]_Aio!vars =>
        [\A c \in Callers, k \in Kids :
           /\ Aio!RejectsPublished(c, k) => window \in {"failed", "refused"}
           /\ ~Aio!RejectedInFlight(c)]_Aio!vars
  BY AioRejectedIsExplained
<1>3. TypeInv => Aio!TypeOK
  BY DEF TypeInv
<1> QED
  BY <1>1, <1>2, <1>3, TypesInductive, AioRecentInit, AioRecentStep, AioWindowInit, AioWindowStep, PTL
     DEF Aio!Spec, Aio!AnswersAreJust, Aio!WithdrawnKeysExpire, Aio!RefusalsAreExplained

=============================================================================
