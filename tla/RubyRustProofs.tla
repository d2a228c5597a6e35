--------------------------- MODULE RubyRustProofs ---------------------------
(***************************************************************************)
(* Proofs about the Ruby and the Rust key stores, for any number of        *)
(* threads or tasks and key ids and any lifetime, window, timeout and      *)
(* backoff: first the store of the Ruby SDK, then that of the Rust SDK,    *)
(* whose definitions are those called Rust!...                             *)
(***************************************************************************)
EXTENDS RubyJwks, TLAPS

Exchanges == [st : {"none", "sent", "replied", "loaded"}, set : SUBSET Kids, age : 0..FetchMax]

-----------------------------------------------------------------------------
(* The saturating clocks, and what the steps of the exchange do to it. *)

LEMMA DelaysBounded == \A n : Delays(n) \subseteq 0..BackoffCap
BY DEF Delays

LEMMA AgesStayInRange ==
  ASSUME NEW x, NEW bound \in Nat, x \in 0..bound
  PROVE  Smaller(x + 1, bound) \in 0..bound /\ Larger(x - 1, 0) \in 0..bound
BY DEF Smaller, Larger

LEMMA IdleExchange == Idle \in Exchanges
BY RubyAssumption DEF Idle, Exchanges

LEMMA ExchangeSent ==
  LET t == [Idle EXCEPT !.st = "sent"]
  IN  t \in Exchanges /\ t.st = "sent" /\ t.set = {} /\ t.age = 0
BY RubyAssumption DEF Idle, Exchanges

LEMMA ExchangeReplied ==
  ASSUME NEW t \in Exchanges, NEW set \in SUBSET Kids
  PROVE  LET u == [t EXCEPT !.st = "replied", !.set = set]
         IN  u \in Exchanges /\ u.st = "replied" /\ u.set = set /\ u.age = t.age
BY DEF Exchanges

LEMMA ExchangeLoaded ==
  ASSUME NEW t \in Exchanges
  PROVE  LET u == [t EXCEPT !.st = "loaded"]
         IN  u \in Exchanges /\ u.st = "loaded" /\ u.set = t.set /\ u.age = t.age
BY DEF Exchanges

LEMMA ExchangeOlder ==
  ASSUME NEW t \in Exchanges, t.age < FetchMax
  PROVE  LET u == [t EXCEPT !.age = t.age + 1]
         IN  u \in Exchanges /\ u.st = t.st /\ u.set = t.set /\ u.age = t.age + 1
BY RubyAssumption DEF Exchanges

(* The fields of the exchange after each step. *)
LEMMA StartedFields ==
  ASSUME NEW c \in Callers, StartFetch(c)
  PROVE  fetch' \in Exchanges /\ fetch'.st = "sent" /\ fetch'.set = {} /\ fetch'.age = 0
BY ExchangeSent DEF StartFetch

LEMMA RepliedFields ==
  ASSUME TypeOK, Reply
  PROVE  /\ fetch' \in Exchanges /\ fetch'.st = "replied" /\ fetch'.age = fetch.age
         /\ fetch'.set = idp \/ fetch'.set = {}
<1>1. PICK set \in {idp, {}} : fetch' = [fetch EXCEPT !.st = "replied", !.set = set]
  BY DEF Reply
<1>2. fetch \in Exchanges /\ set \in SUBSET Kids
  BY <1>1 DEF TypeOK, Exchanges
<1> QED
  BY <1>1, <1>2, ExchangeReplied

LEMMA LoadedFields ==
  ASSUME TypeOK, Load
  PROVE  fetch' \in Exchanges /\ fetch'.st = "loaded" /\ fetch'.set = fetch.set /\ fetch'.age = fetch.age
<1>1. fetch \in Exchanges
  BY DEF TypeOK, Exchanges
<1> QED
  BY <1>1, ExchangeLoaded DEF Load

LEMMA TickFields ==
  ASSUME TypeOK, Tick
  PROVE  /\ fetch' \in Exchanges /\ fetch'.st = fetch.st /\ fetch'.set = fetch.set
         /\ fetch.st # "none" => fetch'.age = fetch.age + 1 /\ fetch.st \in {"sent", "replied"}
<1>1. fetch \in Exchanges
  BY DEF TypeOK, Exchanges
<1>2. CASE fetch.st = "none"
  BY <1>1, <1>2 DEF Tick
<1>3. CASE fetch.st # "none"
  BY <1>1, <1>3, ExchangeOlder DEF Tick
<1> QED
  BY <1>2, <1>3

-----------------------------------------------------------------------------
(* Every action keeps the types. *)
CallersSteps(c) == (\E k \in Kids : Call(c, k)) \/ KeySet(c)
CallTypes ==
  /\ pc \in [Callers -> Outcomes \cup {"first", "second"}] /\ kid \in [Callers -> Kids \cup {NoKid}]

LEMMA TypeInit == Init => TypeOK
BY RubyAssumption, BackoffAssumption, IdleExchange DEF Init, TypeOK, Exchanges, Outcomes

LEMMA ResolveTypes ==
  ASSUME TypeOK, NEW c, NEW set, Resolve(c, set)
  PROVE  CallTypes'
BY DEF TypeOK, CallTypes, Resolve, Return, Outcomes

LEMMA TypeCaller ==
  ASSUME TypeOK, NEW c \in Callers, CallersSteps(c)
  PROVE  TypeOK'
<1> USE RubyAssumption, BackoffAssumption DEF TypeOK, Outcomes, store, mutex, server
<1>1. CASE \E k \in Kids : Call(c, k)
  BY <1>1 DEF Call
<1>2. CASE UseCache(c) \/ RefuseByWindow(c)
  <2>1. CallTypes'
    BY <1>2, ResolveTypes DEF UseCache, RefuseByWindow
  <2> QED
    BY <1>2, <2>1 DEF CallTypes, UseCache, RefuseByWindow
<1>3. CASE RefuseBackingOff(c)
  BY <1>3 DEF RefuseBackingOff, Return
<1>4. CASE StartFetch(c)
  <2>1. fetch' \in Exchanges
    BY <1>4, StartedFields
  <2> QED
    BY <1>4, <2>1 DEF StartFetch, Exchanges
<1> QED
  BY <1>1, <1>2, <1>3, <1>4 DEF CallersSteps, KeySet

LEMMA ReleaseTypes ==
  ASSUME TypeOK, NEW ending \in {"ok", "failed"}, Ended(ending), Release
  PROVE  /\ window' \in {"none", "running", "ok", "failed"}
         /\ fetch' \in Exchanges /\ holder' \in Callers \cup {NoCaller}
BY IdleExchange DEF TypeOK, Ended, Release

LEMMA ReturnTypes ==
  ASSUME TypeOK, NEW outcome \in Outcomes, NEW c, Return(c, outcome)
  PROVE  CallTypes'
BY DEF TypeOK, CallTypes, Return

LEMMA TypeExchange ==
  ASSUME TypeOK, Exchange \/ Interrupt
  PROVE  TypeOK'
<1> USE RubyAssumption, BackoffAssumption DEF TypeOK, store, server
<1>1. CASE Reply
  BY <1>1, RepliedFields DEF Reply, Exchanges
<1>2. CASE FetchFails
  <2>1. failures' \in 0..MaxFailures
    BY <1>2 DEF FetchFails, Smaller
  <2>2. backoff' \in 0..BackoffCap
    BY <1>2, DelaysBounded DEF FetchFails
  <2>3. CallTypes'
    BY <1>2, ReturnTypes DEF FetchFails, Outcomes
  <2>4. Ended("failed") /\ Release
    BY <1>2 DEF FetchFails
  <2> QED
    BY <1>2, <2>1, <2>2, <2>3, <2>4, ReleaseTypes DEF FetchFails, CallTypes, Exchanges
<1>3. CASE Load
  <2>1. fetch' \in Exchanges
    BY <1>3, LoadedFields
  <2> QED
    BY <1>3, <2>1 DEF Load, Exchanges
<1>4. CASE Install
  <2>1. CallTypes'
    BY <1>4, ResolveTypes DEF Install
  <2>2. Ended("ok") /\ Release
    BY <1>4 DEF Install
  <2> QED
    BY <1>4, <2>1, <2>2, ReleaseTypes DEF Install, CallTypes, Exchanges
<1>5. CASE Interrupt
  <2>1. CallTypes'
    BY <1>5, ReturnTypes DEF Interrupt, Outcomes
  <2>2. Ended("failed") /\ Release
    BY <1>5 DEF Interrupt
  <2> QED
    BY <1>5, <2>1, <2>2, ReleaseTypes DEF Interrupt, CallTypes, Exchanges
<1> QED
  BY <1>1, <1>2, <1>3, <1>4, <1>5 DEF Exchange

LEMMA TypeEnvironment ==
  ASSUME TypeOK, Tick \/ (\E S \in (SUBSET Kids) \ {{}} : Rotate(S))
  PROVE  TypeOK'
<1> USE RubyAssumption, BackoffAssumption DEF TypeOK, store, mutex, server
<1>1. CASE Tick
  <2>1. /\ age' \in 0..Lifetime /\ forcedAge' \in 0..MinRefetch /\ backoff' \in 0..BackoffCap
        /\ since' \in [Kids -> 0..Horizon]
    BY <1>1, AgesStayInRange DEF Tick
  <2>2. fetch' \in Exchanges
    BY <1>1, TickFields
  <2> QED
    BY <1>1, <2>1, <2>2 DEF Tick, Exchanges
<1>2. CASE \E S \in (SUBSET Kids) \ {{}} : Rotate(S)
  BY <1>2 DEF Rotate
<1> QED
  BY <1>1, <1>2

(* The key store keeps its types. *)
THEOREM TypeCorrect == Spec => []TypeOK
<1>1. TypeOK /\ [Next]_vars => TypeOK'
  <2> SUFFICES ASSUME TypeOK, [Next]_vars PROVE TypeOK'
    OBVIOUS
  <2>1. CASE UNCHANGED vars
    BY <2>1 DEF TypeOK, vars
  <2> QED
    BY <2>1, TypeCaller, TypeExchange, TypeEnvironment DEF Next, CallersSteps
<1> QED
  BY <1>1, TypeInit, PTL DEF Spec

(* The mutex is held exactly while an exchange runs, by a thread that is in *)
(* one of the two calls of the loader.                                      *)
LockHeld ==
  /\ holder = NoCaller <=> fetch.st = "none"
  /\ holder # NoCaller => pc[holder] \in {"first", "second"}

LEMMA LockInit == Init => LockHeld
BY DEF Init, Idle, LockHeld

LEMMA LockStep == TypeOK /\ LockHeld /\ [Next]_vars => LockHeld'
<1> SUFFICES ASSUME TypeOK, LockHeld, [Next]_vars PROVE LockHeld'
  OBVIOUS
<1> USE DEF LockHeld
<1>1. CASE UNCHANGED <<holder, fetch, pc>>
  BY <1>1
<1>2. ASSUME NEW c \in Callers, NEW k \in Kids, Call(c, k) PROVE LockHeld'
  BY <1>2 DEF Call, TypeOK, Outcomes, mutex
<1>3. ASSUME NEW c \in Callers, UseCache(c) \/ RefuseByWindow(c) \/ RefuseBackingOff(c) PROVE LockHeld'
  BY <1>3 DEF UseCache, RefuseByWindow, RefuseBackingOff, MustFetch, Enters, mutex
<1>4. ASSUME NEW c \in Callers, StartFetch(c) PROVE LockHeld'
  BY <1>4, StartedFields, RubyAssumption DEF StartFetch, MustFetch, Enters
<1>5. CASE Reply
  BY <1>5, RepliedFields DEF Reply
<1>6. CASE Load
  BY <1>6, LoadedFields DEF Load
<1>7. CASE FetchFails \/ Install \/ Interrupt
  BY <1>7 DEF FetchFails, Install, Interrupt, Release, Idle
<1>8. CASE Tick
  BY <1>8, TickFields DEF Tick
<1> QED
  BY <1>1, <1>2, <1>3, <1>4, <1>5, <1>6, <1>7, <1>8 DEF Next, KeySet, Exchange, Rotate, vars, mutex

-----------------------------------------------------------------------------
(* What follows holds as long as no thread is interrupted between the two   *)
(* assignments of a load: the lifetime would restart for the set held.      *)
Atomic == "loaded" \notin InterruptAt

(* The key store implements the policy: a set is obtained when its lifetime *)
(* starts, a moment before it is assigned, and an interrupt abandons the    *)
(* request.                                                                 *)
Policed == <<keys, age, forcedAge, failures, backoff, fetch>>

LEMMA PolicyInit == Init => Policy!Init
BY DEF Init, Idle, Policy!Init

LEMMA PolicyStutter ==
  ASSUME UNCHANGED Policed
  PROVE  UNCHANGED Policy!vars
BY DEF Policed, Policy!vars

LEMMA PolicyStart ==
  ASSUME LockHeld, NEW c \in Callers, StartFetch(c)
  PROVE  Policy!Next
<1>1. fetch.st = "none" /\ fetch'.st = "sent" /\ backoff = 0 /\ UNCHANGED <<keys, age, failures, backoff>>
  BY StartedFields DEF StartFetch, MustFetch, Enters, LockHeld, store
<1>2. CASE Live
  <2>1. WindowOver /\ forcedAge' = 0
    BY <1>2 DEF StartFetch, MustFetch
  <2>2. Policy!Refetch
    BY <1>1, <1>2, <2>1 DEF Policy!Refetch, Policy!Fresh, Policy!WindowOver, Live, WindowOver
  <2> QED
    BY <2>2 DEF Policy!Next
<1>3. CASE ~Live
  <2>1. forcedAge' = forcedAge \/ forcedAge' = 0
    BY DEF StartFetch
  <2>2. Policy!Load
    BY <1>1, <1>3, <2>1 DEF Policy!Load, Policy!Fresh, Live
  <2> QED
    BY <2>2 DEF Policy!Next
<1> QED
  BY <1>2, <1>3

LEMMA PolicyExchange ==
  ASSUME Atomic, TypeOK, Exchange \/ Interrupt
  PROVE  [Policy!Next]_(Policy!vars)
<1>1. CASE Reply
  <2>1. fetch.st = "sent" /\ fetch'.st = "replied" /\ UNCHANGED <<keys, age, forcedAge, failures, backoff>>
    BY <1>1, RepliedFields DEF Reply, store
  <2> QED
    BY <2>1 DEF Policy!vars
<1>2. CASE FetchFails
  <2>1. fetch.st \in {"sent", "replied"} /\ fetch'.st = "none"
    BY <1>2 DEF FetchFails, Release, Idle
  <2>2. /\ failures' = Smaller(failures + 1, MaxFailures) /\ backoff' \in Delays(failures')
        /\ UNCHANGED <<keys, age, forcedAge>>
    BY <1>2 DEF FetchFails
  <2>3. Policy!Fail
    BY <2>1, <2>2 DEF Policy!Fail, Policy!Smaller, Policy!Delays, Policy!RawDelay, Smaller, Delays, RawDelay
  <2> QED
    BY <2>3 DEF Policy!Next
<1>3. CASE Load
  <2>1. fetch.st = "replied" /\ fetch'.st = "loaded" /\ fetch'.set = fetch.set
    BY <1>3, LoadedFields DEF Load
  <2>2. /\ fetch.set \in (SUBSET Kids) \ {{}} /\ age' = 0 /\ failures' = 0 /\ backoff' = 0
        /\ forcedAge' = forcedAge
    BY <1>3 DEF Load, TypeOK
  <2>3. Policy!Obtain
    BY <2>1, <2>2 DEF Policy!Obtain
  <2> QED
    BY <2>3 DEF Policy!Next
<1>4. CASE Install
  <2>1. fetch.st = "loaded" /\ fetch'.st = "none" /\ keys' = fetch.set
    BY <1>4 DEF Install, Release, Idle
  <2>2. UNCHANGED <<age, forcedAge, failures, backoff>>
    BY <1>4 DEF Install
  <2> QED
    BY <2>1, <2>2 DEF Policy!vars
<1>5. CASE Interrupt
  <2>1. fetch.st \in {"sent", "replied"} /\ fetch'.st = "none"
    BY <1>5, RubyAssumption DEF Interrupt, Release, Idle, Atomic
  <2>2. UNCHANGED <<keys, age, forcedAge, failures, backoff>>
    BY <1>5 DEF Interrupt, store
  <2>3. Policy!Abandon
    BY <2>1, <2>2 DEF Policy!Abandon
  <2> QED
    BY <2>3 DEF Policy!Next
<1> QED
  BY <1>1, <1>2, <1>3, <1>4, <1>5 DEF Exchange

LEMMA PolicyTick ==
  ASSUME TypeOK, Tick
  PROVE  Policy!Tick
<1>1. fetch'.st = fetch.st /\ fetch.st # "loaded"
  BY TickFields DEF Tick
<1> QED
  BY <1>1 DEF Policy!Tick, Policy!Smaller, Policy!Larger, Tick, Smaller, Larger

LEMMA PolicyStep ==
  ASSUME Atomic, TypeOK, LockHeld, [Next]_vars
  PROVE  [Policy!Next]_(Policy!vars)
<1>1. CASE UNCHANGED Policed
  BY <1>1, PolicyStutter
<1>2. ASSUME NEW c \in Callers, StartFetch(c) PROVE [Policy!Next]_(Policy!vars)
  BY <1>2, PolicyStart
<1>3. CASE Tick
  BY <1>3, PolicyTick DEF Policy!Next
<1> QED
  BY <1>1, <1>2, <1>3, PolicyExchange DEF Policed, vars, Next, KeySet, Call, UseCache, RefuseByWindow,
     RefuseBackingOff, Rotate, store, mutex

(* Whatever the threads do and whenever one is interrupted while it waits   *)
(* for the provider, the provider sees requests only when the policy allows *)
(* one, and a failed one takes no key away.                                 *)
THEOREM RubyImplementsPolicy == ASSUME Atomic PROVE Spec => ImplementsPolicy
<1>1. TypeOK /\ LockHeld /\ [Next]_vars => [Policy!Next]_(Policy!vars)
  BY Atomic, PolicyStep
<1> QED
  BY <1>1, PolicyInit, TypeCorrect, LockInit, LockStep, PTL DEF Spec, ImplementsPolicy, Policy!Spec

-----------------------------------------------------------------------------
(* Why an accepted key is recent: a key that is held, or on its way, and is *)
(* not the provider's any longer was withdrawn at most one exchange before  *)
(* the set it came with was obtained.                                       *)
Answered == fetch.st \in {"replied", "loaded"}
RecentKeys ==
  /\ fetch.st # "loaded" /\ Live => \A k \in keys : k \in idp \/ since[k] <= age + FetchMax
  /\ Answered => \A k \in fetch.set : k \in idp \/ since[k] <= fetch.age

LEMMA RecentInit == Init => RecentKeys
BY DEF Init, Idle, RecentKeys, Answered

LEMMA CallersStepsSpare ==
  ASSUME LockHeld, NEW c \in Callers, CallersSteps(c)
  PROVE  /\ UNCHANGED <<keys, age, idp, since>>
         /\ fetch.st # "none" => UNCHANGED fetch
         /\ fetch.st = "none" => fetch'.st \in {"none", "sent"}
<1>1. CASE StartFetch(c)
  BY <1>1, StartedFields DEF StartFetch, MustFetch, Enters, LockHeld, store, server
<1>2. CASE ~StartFetch(c)
  BY <1>2 DEF CallersSteps, KeySet, Call, UseCache, RefuseByWindow, RefuseBackingOff, store, server, mutex
<1> QED
  BY <1>1, <1>2

LEMMA RecentExchange ==
  ASSUME Atomic, TypeOK, RecentKeys, Exchange \/ Interrupt
  PROVE  RecentKeys'
<1>0. UNCHANGED <<idp, since>>
  BY DEF Exchange, Reply, FetchFails, Load, Install, Interrupt, server
<1>1. CASE Reply
  <2>1. fetch.st = "sent" /\ fetch'.st = "replied" /\ UNCHANGED <<keys, age>>
    BY <1>1, RepliedFields DEF Reply, store
  <2>2. fetch'.set = idp \/ fetch'.set = {}
    BY <1>1, RepliedFields
  <2> QED
    BY <1>0, <2>1, <2>2 DEF RecentKeys, Live, Answered
<1>2. CASE FetchFails \/ Interrupt
  <2>1. fetch.st # "loaded" /\ fetch'.st = "none" /\ UNCHANGED <<keys, age>>
    BY <1>2, RubyAssumption DEF Atomic, FetchFails, Interrupt, Release, Idle, store
  <2> QED
    BY <1>0, <2>1 DEF RecentKeys, Live, Answered
<1>3. CASE Load
  <2>1. /\ fetch.st = "replied" /\ fetch'.st = "loaded"
        /\ fetch'.set = fetch.set /\ fetch'.age = fetch.age
    BY <1>3, LoadedFields DEF Load
  <2> QED
    BY <1>0, <2>1 DEF RecentKeys, Answered
<1>4. CASE Install
  <2>1. fetch.st = "loaded" /\ fetch'.st = "none" /\ keys' = fetch.set /\ UNCHANGED age
    BY <1>4 DEF Install, Release, Idle
  <2>2. fetch.age \in 0..FetchMax /\ age \in Nat /\ \A k \in fetch.set : since[k] \in Nat
    BY RubyAssumption DEF TypeOK
  <2>3. \A k \in fetch.set : k \in idp \/ since[k] <= fetch.age
    BY <2>1 DEF RecentKeys, Answered
  <2>4. \A k \in keys' : k \in idp' \/ since'[k] <= age' + FetchMax
    BY <1>0, <2>1, <2>2, <2>3, RubyAssumption
  <2> QED
    BY <2>1, <2>4 DEF RecentKeys, Answered
<1> QED
  BY <1>1, <1>2, <1>3, <1>4 DEF Exchange

LEMMA RecentTick ==
  ASSUME TypeOK, RecentKeys, Tick
  PROVE  RecentKeys'
<1>1. UNCHANGED <<keys, idp>> /\ age' = Smaller(age + 1, Lifetime) /\ fetch.st # "loaded"
  BY DEF Tick
<1>2. \A k \in Kids : since[k] \in Nat /\ since'[k] \in Nat /\ since'[k] <= since[k] + 1
  BY RubyAssumption DEF Tick, TypeOK, Smaller
<1>3. Live' => \A k \in keys' : k \in idp' \/ since'[k] <= age' + FetchMax
  BY <1>1, <1>2, RubyAssumption DEF RecentKeys, Live, Smaller, TypeOK
<1>4. ASSUME Answered', NEW k \in fetch'.set PROVE k \in idp' \/ since'[k] <= fetch'.age
  <2>1. fetch'.st = fetch.st /\ fetch'.set = fetch.set /\ fetch'.age = fetch.age + 1
    BY <1>4, TickFields DEF Answered
  <2>2. k \in Kids /\ fetch.age \in 0..FetchMax
    BY <1>4, <2>1 DEF TypeOK
  <2>3. k \in idp \/ since[k] <= fetch.age
    BY <1>4, <2>1 DEF RecentKeys, Answered
  <2> QED
    BY <1>1, <1>2, <2>1, <2>2, <2>3, RubyAssumption
<1> QED
  BY <1>3, <1>4 DEF RecentKeys

LEMMA RecentRotate ==
  ASSUME TypeOK, RecentKeys, NEW S \in SUBSET Kids, Rotate(S)
  PROVE  RecentKeys'
<1>1. UNCHANGED <<keys, age, fetch>> /\ idp' = S
  BY DEF Rotate, store, mutex
<1>2. \A k \in Kids \ S : IF k \in idp THEN since'[k] = 0 ELSE since'[k] = since[k]
  BY DEF Rotate
<1>3. fetch'.st # "loaded" /\ Live' => \A k \in keys' : k \in idp' \/ since'[k] <= age' + FetchMax
  BY <1>1, <1>2, RubyAssumption DEF RecentKeys, Live, TypeOK
<1>4. ASSUME Answered', NEW k \in fetch'.set PROVE k \in idp' \/ since'[k] <= fetch'.age
  <2>1. k \in Kids /\ fetch.age \in 0..FetchMax
    BY <1>1, <1>4 DEF TypeOK
  <2> QED
    BY <1>1, <1>2, <1>4, <2>1, RubyAssumption DEF RecentKeys, Answered
<1> QED
  BY <1>3, <1>4 DEF RecentKeys

LEMMA RecentStep == ASSUME Atomic PROVE TypeOK /\ LockHeld /\ RecentKeys /\ [Next]_vars => RecentKeys'
<1> SUFFICES ASSUME TypeOK, LockHeld, RecentKeys, [Next]_vars PROVE RecentKeys'
  OBVIOUS
<1>1. CASE UNCHANGED vars
  BY <1>1 DEF RecentKeys, Live, Answered, vars
<1>2. ASSUME NEW c \in Callers, CallersSteps(c) PROVE RecentKeys'
  BY <1>2, CallersStepsSpare DEF RecentKeys, Live, Answered
<1>3. ASSUME NEW S \in (SUBSET Kids) \ {{}}, Rotate(S) PROVE RecentKeys'
  BY <1>3, RecentRotate
<1> QED
  BY Atomic, <1>1, <1>2, <1>3, RecentExchange, RecentTick DEF Next, CallersSteps

-----------------------------------------------------------------------------
(* Why the window rejects no key without a reason: how the refetch that     *)
(* opened it ended, and that after a success the set held is no older than  *)
(* the window and misses only keys published since it opened.               *)
WindowRuns   == window = "running" <=> holder # NoCaller /\ pc[holder] = "second"
WindowCovers == fetch.st # "none" /\ ~WindowOver => fetch.age <= forcedAge
SetIsWhole   ==
  /\ Answered => fetch.set = {} \/ \A k \in idp \ fetch.set : since[k] <= fetch.age
  /\ fetch.st = "loaded" => fetch.set # {} /\ age = 0
WindowIsJust ==
  /\ window = "none" => WindowOver
  /\ window = "ok" /\ ~WindowOver => age <= forcedAge /\ \A k \in idp \ keys : since[k] <= forcedAge
WindowInv == WindowRuns /\ WindowCovers /\ SetIsWhole /\ WindowIsJust

LEMMA WindowInit == Init => WindowInv
BY RubyAssumption
   DEF Init, Idle, WindowInv, WindowRuns, WindowCovers, SetIsWhole, WindowIsJust, WindowOver, Answered

LEMMA WindowSame ==
  ASSUME WindowInv, UNCHANGED <<keys, age, forcedAge, fetch, idp, since, window>>, WindowRuns'
  PROVE  WindowInv'
BY DEF WindowInv, WindowRuns, WindowCovers, SetIsWhole, WindowIsJust, WindowOver, Answered

LEMMA WindowStarted ==
  ASSUME TypeOK, LockHeld, WindowInv, NEW c \in Callers, StartFetch(c)
  PROVE  WindowInv'
<1>1. fetch.st = "none" /\ holder = NoCaller /\ UNCHANGED <<keys, age, idp, since, pc>>
  BY DEF StartFetch, MustFetch, Enters, LockHeld, store, server
<1>2. fetch'.st = "sent" /\ fetch'.age = 0
  BY StartedFields
<1>3. /\ forcedAge' = (IF Forced(c) THEN 0 ELSE forcedAge)
      /\ window' = (IF Forced(c) THEN "running" ELSE window)
      /\ holder' = c
  BY DEF StartFetch
<1>4. WindowRuns' /\ SetIsWhole'
  BY <1>1, <1>2, <1>3, RubyAssumption DEF WindowInv, WindowRuns, SetIsWhole, Answered, Forced
<1>5. WindowCovers'
  BY <1>2, <1>3, RubyAssumption DEF WindowCovers, TypeOK
<1>6. WindowIsJust'
  BY <1>1, <1>3 DEF WindowInv, WindowIsJust, WindowOver
<1> QED
  BY <1>4, <1>5, <1>6 DEF WindowInv

LEMMA WindowCaller ==
  ASSUME TypeOK, LockHeld, WindowInv, NEW c \in Callers, CallersSteps(c)
  PROVE  WindowInv'
<1>1. CASE \E k \in Kids : Call(c, k)
  <2>1. /\ UNCHANGED <<keys, age, forcedAge, fetch, idp, since, window, holder>>
        /\ pc[c] \in Outcomes /\ pc' = [pc EXCEPT ![c] = "first"]
    BY <1>1 DEF Call, store, mutex, server
  <2>2. holder # NoCaller => holder # c /\ pc'[holder] = pc[holder]
    BY <2>1 DEF LockHeld, Outcomes, TypeOK
  <2>3. WindowRuns'
    BY <2>1, <2>2 DEF WindowInv, WindowRuns
  <2> QED
    BY <2>1, <2>3, WindowSame
<1>2. CASE UseCache(c) \/ RefuseByWindow(c) \/ RefuseBackingOff(c)
  <2>1. UNCHANGED <<keys, age, forcedAge, fetch, idp, since, window, holder>> /\ holder = NoCaller
    BY <1>2 DEF UseCache, RefuseByWindow, RefuseBackingOff, MustFetch, Enters, store, mutex, server
  <2>2. WindowRuns'
    BY <2>1 DEF WindowInv, WindowRuns
  <2> QED
    BY <2>1, <2>2, WindowSame
<1> QED
  BY <1>1, <1>2, WindowStarted DEF CallersSteps, KeySet

(* A successful exchange leaves out only keys published since it began. *)
LEMMA WholeInTheWindow ==
  ASSUME TypeOK, WindowInv, fetch.st = "loaded", ~WindowOver, NEW k \in idp \ fetch.set
  PROVE  since[k] <= forcedAge
<1>1. since[k] \in Nat /\ fetch.age \in Nat /\ forcedAge \in Nat
  BY RubyAssumption DEF TypeOK
<1>2. fetch.age <= forcedAge
  BY DEF WindowInv, WindowCovers
<1>3. since[k] <= fetch.age
  BY DEF WindowInv, SetIsWhole, Answered
<1> QED
  BY <1>1, <1>2, <1>3

LEMMA WindowExchange ==
  ASSUME TypeOK, LockHeld, WindowInv, Exchange \/ Interrupt
  PROVE  WindowInv'
<1>0. UNCHANGED <<forcedAge, idp, since>>
  BY DEF Exchange, Reply, FetchFails, Load, Install, Interrupt, server
<1>1. CASE Reply
  <2>1. /\ fetch.st = "sent" /\ fetch'.st = "replied" /\ fetch'.age = fetch.age
        /\ fetch'.set = idp \/ fetch'.set = {}
        /\ UNCHANGED <<keys, age, window, holder, pc>>
    BY <1>1, RepliedFields DEF Reply, store
  <2> QED
    BY <1>0, <2>1 DEF WindowInv, WindowRuns, WindowCovers, SetIsWhole, WindowIsJust, WindowOver
<1>2. CASE FetchFails \/ Interrupt
  <2>1. /\ fetch.st # "none" /\ fetch'.st = "none" /\ UNCHANGED <<keys, age>> /\ holder' = NoCaller
        /\ window' = IF Forced(holder) THEN "failed" ELSE window
    BY <1>2, RubyAssumption DEF FetchFails, Interrupt, Ended, Release, Idle, store
  <2> QED
    BY <1>0, <2>1 DEF LockHeld, Forced, WindowInv, WindowRuns, WindowCovers, SetIsWhole, WindowIsJust,
       WindowOver, Answered
<1>3. CASE Load
  <2>1. /\ fetch.st = "replied" /\ fetch'.st = "loaded"
        /\ fetch'.age = fetch.age /\ fetch'.set = fetch.set
        /\ fetch.set # {} /\ age' = 0 /\ UNCHANGED <<keys, window, holder, pc>>
    BY <1>3, LoadedFields DEF Load
  <2>2. WindowRuns' /\ WindowCovers' /\ SetIsWhole'
    BY <1>0, <2>1 DEF WindowInv, WindowRuns, WindowCovers, SetIsWhole, WindowOver, Answered
  <2>3. WindowIsJust'
    BY <1>0, <2>1, RubyAssumption DEF WindowInv, WindowIsJust, WindowOver, TypeOK
  <2> QED
    BY <2>2, <2>3 DEF WindowInv
<1>4. CASE Install
  <2>1. /\ fetch.st = "loaded" /\ fetch'.st = "none" /\ holder' = NoCaller
        /\ keys' = fetch.set /\ UNCHANGED age /\ age = 0
        /\ window' = IF Forced(holder) THEN "ok" ELSE window
    BY <1>4 DEF Install, Ended, Release, Idle, WindowInv, SetIsWhole
  <2>2. ~WindowOver => age <= forcedAge /\ \A k \in idp \ fetch.set : since[k] <= forcedAge
    BY <2>1, WholeInTheWindow, RubyAssumption DEF TypeOK
  <2>3. WindowIsJust'
    BY <1>0, <2>1, <2>2 DEF LockHeld, Forced, WindowInv, WindowIsJust, WindowOver
  <2> QED
    BY <1>0, <2>1, <2>3 DEF LockHeld, Forced, WindowInv, WindowRuns, WindowCovers, SetIsWhole, Answered
<1> QED
  BY <1>1, <1>2, <1>3, <1>4 DEF Exchange

LEMMA WindowTick ==
  ASSUME TypeOK, WindowInv, Tick
  PROVE  WindowInv'
<1>1. /\ UNCHANGED <<keys, idp, window, holder, pc>>
      /\ age' = Smaller(age + 1, Lifetime) /\ forcedAge' = Smaller(forcedAge + 1, MinRefetch)
  BY DEF Tick
<1>2. /\ fetch'.st = fetch.st /\ fetch'.set = fetch.set /\ fetch.st # "loaded"
      /\ fetch.st # "none" => fetch'.age = fetch.age + 1
  BY TickFields DEF Tick
<1>3. \A k \in Kids : since[k] \in Nat /\ since'[k] \in Nat /\ since'[k] <= since[k] + 1
  BY RubyAssumption DEF Tick, TypeOK, Smaller
<1>4. /\ forcedAge \in Nat /\ fetch.age \in Nat /\ age \in Nat /\ age' <= age + 1 /\ age' \in Nat
      /\ idp \subseteq Kids
      /\ ~WindowOver' => ~WindowOver /\ forcedAge' = forcedAge + 1
      /\ WindowOver => WindowOver'
  BY <1>1, RubyAssumption DEF TypeOK, WindowOver, Smaller
<1>5. WindowRuns' /\ WindowCovers'
  BY <1>1, <1>2, <1>4 DEF WindowInv, WindowRuns, WindowCovers
<1>6. SetIsWhole'
  <2>1. ASSUME Answered', fetch'.set # {}, NEW k \in idp' \ fetch'.set PROVE since'[k] <= fetch'.age
    <3>1. Answered /\ fetch'.age = fetch.age + 1
      BY <1>2, <2>1 DEF Answered
    <3>2. since[k] <= fetch.age
      BY <1>1, <1>2, <2>1, <3>1 DEF WindowInv, SetIsWhole
    <3> QED
      BY <1>1, <1>3, <1>4, <2>1, <3>1, <3>2
  <2> QED
    BY <1>2, <2>1 DEF SetIsWhole
<1>7. WindowIsJust'
  <2>1. ASSUME window = "ok", ~WindowOver', NEW k \in idp' \ keys' PROVE since'[k] <= forcedAge'
    <3>1. since[k] <= forcedAge
      BY <1>1, <1>4, <2>1 DEF WindowInv, WindowIsJust
    <3> QED
      BY <1>1, <1>3, <1>4, <2>1, <3>1
  <2>2. ASSUME window = "ok", ~WindowOver' PROVE age' <= forcedAge'
    BY <1>4, <2>2 DEF WindowInv, WindowIsJust
  <2> QED
    BY <1>1, <1>4, <2>1, <2>2 DEF WindowInv, WindowIsJust
<1> QED
  BY <1>5, <1>6, <1>7 DEF WindowInv

LEMMA WindowRotate ==
  ASSUME TypeOK, WindowInv, NEW S \in SUBSET Kids, Rotate(S)
  PROVE  WindowInv'
<1>1. UNCHANGED <<keys, age, forcedAge, fetch, window, holder, pc>> /\ idp' = S
  BY DEF Rotate, store, mutex
<1>2. \A k \in S : IF k \in idp THEN since'[k] = since[k] ELSE since'[k] = 0
  BY DEF Rotate
<1>3. forcedAge >= 0 /\ fetch.age >= 0
  BY RubyAssumption DEF TypeOK
<1>4. SetIsWhole'
  BY <1>1, <1>2, <1>3 DEF WindowInv, SetIsWhole, Answered
<1>5. WindowIsJust'
  BY <1>1, <1>2, <1>3 DEF WindowInv, WindowIsJust, WindowOver
<1> QED
  BY <1>1, <1>4, <1>5 DEF WindowInv, WindowRuns, WindowCovers, WindowOver

LEMMA WindowStep == TypeOK /\ LockHeld /\ WindowInv /\ [Next]_vars => WindowInv'
<1> SUFFICES ASSUME TypeOK, LockHeld, WindowInv, [Next]_vars PROVE WindowInv'
  OBVIOUS
<1>1. CASE UNCHANGED vars
  BY <1>1, WindowSame DEF vars, WindowInv, WindowRuns
<1>2. ASSUME NEW S \in (SUBSET Kids) \ {{}}, Rotate(S) PROVE WindowInv'
  BY <1>2, WindowRotate
<1> QED
  BY <1>1, <1>2, WindowCaller, WindowExchange, WindowTick DEF Next, CallersSteps

-----------------------------------------------------------------------------
(* Which steps accept a key id. *)
LEMMA WhoAccepts ==
  ASSUME TypeOK, LockHeld, Next, NEW c \in Callers, Ends(c, "accepted")
  PROVE  \/ fetch.st = "none" /\ Live /\ kid[c] \in keys
         \/ fetch.st = "loaded" /\ kid[c] \in fetch.set
<1>1. ASSUME NEW d \in Callers, NEW set, Resolve(d, set) PROVE kid[c] \in set
  BY <1>1 DEF Resolve, Return, Ends, TypeOK
<1>2. ASSUME NEW d, NEW state \in {"first", "backing_off", "fetch_failed", "interrupted"},
             pc' = [pc EXCEPT ![d] = state]
      PROVE  FALSE
  BY <1>2 DEF Ends, TypeOK
<1>3. CASE UNCHANGED pc
  BY <1>3 DEF Ends
<1>4. ASSUME NEW d \in Callers, UseCache(d) \/ RefuseByWindow(d)
      PROVE  fetch.st = "none" /\ Live /\ kid[c] \in keys
  <2>1. fetch.st = "none"
    BY <1>4 DEF UseCache, RefuseByWindow, Enters, LockHeld
  <2>2. CASE UseCache(d)
    BY <1>1, <2>1, <2>2 DEF UseCache
  <2>3. CASE RefuseByWindow(d)
    <3>1. kid[c] \in IF Live THEN keys ELSE {}
      BY <1>1, <2>3 DEF RefuseByWindow
    <3> QED
      BY <2>1, <3>1
  <2> QED
    BY <1>4, <2>2, <2>3
<1>5. CASE Install
  <2>1. fetch.st = "loaded" /\ Resolve(holder, fetch.set) /\ holder \in Callers
    BY <1>5 DEF Install, LockHeld, TypeOK
  <2> QED
    BY <1>1, <2>1
<1>6. ASSUME NEW d \in Callers, (\E k \in Kids : Call(d, k)) \/ RefuseBackingOff(d) \/ StartFetch(d)
      PROVE  FALSE
  BY <1>2, <1>3, <1>6 DEF Call, RefuseBackingOff, StartFetch, Return, Ends
<1>7. CASE FetchFails \/ Interrupt
  BY <1>2, <1>7 DEF FetchFails, Interrupt, Return
<1> QED
  BY <1>3, <1>4, <1>5, <1>6, <1>7 DEF Next, KeySet, Exchange, Reply, Load, Tick, Rotate

LEMMA AcceptedIsRecent ==
  ASSUME TypeOK, LockHeld, RecentKeys, Next, NEW c \in Callers, Ends(c, "accepted")
  PROVE  kid[c] \in idp \/ since[kid[c]] < Lifetime + FetchMax
<1>1. CASE fetch.st = "none" /\ Live /\ kid[c] \in keys
  <2>1. kid[c] \in Kids /\ since[kid[c]] \in Nat /\ age \in Nat /\ age < Lifetime
    BY <1>1, RubyAssumption DEF Live, TypeOK
  <2> QED
    BY <1>1, <2>1, RubyAssumption DEF RecentKeys
<1>2. CASE fetch.st = "loaded" /\ kid[c] \in fetch.set
  <2>1. kid[c] \in Kids /\ fetch.age \in 0..FetchMax /\ since[kid[c]] \in Nat
    BY <1>2, RubyAssumption DEF TypeOK
  <2>2. kid[c] \in idp \/ since[kid[c]] <= fetch.age
    BY <1>2 DEF RecentKeys, Answered
  <2> QED
    BY <2>1, <2>2, RubyAssumption
<1> QED
  BY <1>1, <1>2, WhoAccepts

(* A window no longer than a lifetime cannot outlive the set it brought. *)
Outlasts == MinRefetch <= Lifetime

LEMMA RefusedIsExplained ==
  ASSUME Outlasts, TypeOK, LockHeld, WindowInv, NEW c \in Callers,
         RefuseByWindow(c), pc'[c] = "no_key", kid[c] \in idp, since[kid[c]] >= MinRefetch
  PROVE  window = "failed"
<1>1. holder = NoCaller /\ ~WindowOver
  BY DEF RefuseByWindow, Enters
<1>2. window \notin {"none", "running"}
  BY <1>1 DEF WindowInv, WindowRuns, WindowIsJust
<1>3. kid[c] \notin IF Live THEN keys ELSE {}
  BY DEF RefuseByWindow, Resolve, Return, TypeOK
<1>4. /\ since[kid[c]] \in Nat /\ forcedAge \in Nat /\ age \in Nat
      /\ forcedAge < since[kid[c]] /\ forcedAge < Lifetime
  BY <1>1, RubyAssumption DEF Outlasts, WindowOver, TypeOK
<1>5. window # "ok"
  <2>1. ASSUME window = "ok" PROVE FALSE
    <3>1. age <= forcedAge /\ \A k \in idp \ keys : since[k] <= forcedAge
      BY <1>1, <2>1 DEF WindowInv, WindowIsJust
    <3>2. Live
      BY <1>4, <3>1, RubyAssumption DEF Live
    <3>3. kid[c] \notin keys
      BY <1>3, <3>2
    <3> QED
      BY <1>4, <3>1, <3>3
  <2> QED
    BY <2>1
<1> QED
  BY <1>2, <1>5 DEF TypeOK

(* A validation is never given a key withdrawn longer ago than the lifetime *)
(* of a set and one exchange, and the window never denies it a published    *)
(* key but after a refetch that failed or was interrupted.                  *)
THEOREM AnswersJust == ASSUME Atomic, Outlasts PROVE Spec => AnswersAreJust
<1>1. TypeOK /\ LockHeld /\ RecentKeys /\ [Next]_vars =>
        [\A c \in Callers : Ends(c, "accepted") =>
           kid[c] \in idp \/ since[kid[c]] < Lifetime + FetchMax]_vars
  BY AcceptedIsRecent
<1>2. TypeOK /\ LockHeld /\ WindowInv /\ [Next]_vars =>
        [\A c \in Callers :
           RefuseByWindow(c) /\ pc'[c] = "no_key" /\ kid[c] \in idp /\ since[kid[c]] >= MinRefetch
             => window = "failed"]_vars
  BY Outlasts, RefusedIsExplained
<1>3. TypeOK /\ LockHeld /\ RecentKeys /\ [Next]_vars => RecentKeys'
  BY Atomic, RecentStep
<1> QED
  BY <1>1, <1>2, <1>3, TypeCorrect, LockInit, LockStep, RecentInit, WindowInit, WindowStep, PTL
     DEF Spec, AnswersAreJust, WithdrawnKeysExpire, RefusalsAreExplained

-----------------------------------------------------------------------------
(* The Rust key store.  Its state is named as the Ruby store's, without    *)
(* the mutex held across a fetch and with the caller that awaits the       *)
(* detached task; its constants are the same, without the interrupts.      *)
VARIABLE starter
Rust == INSTANCE RustJwks

Tasks == [st : {"none", "sent", "replied", "installed"}, set : SUBSET Kids,
          age : 0..FetchMax, kind : {"load", "forced"}]

-----------------------------------------------------------------------------
(* The saturating clocks, and what the steps of the detached task do to it. *)

LEMMA RustDelaysBounded == \A n : Rust!Delays(n) \subseteq 0..BackoffCap
BY DEF Rust!Delays

LEMMA RustAgesStayInRange ==
  ASSUME NEW x, NEW bound \in Nat, x \in 0..bound
  PROVE  Rust!Smaller(x + 1, bound) \in 0..bound /\ Rust!Larger(x - 1, 0) \in 0..bound
BY DEF Rust!Smaller, Rust!Larger

LEMMA NoTaskType == Rust!NoTask \in Tasks
BY RubyAssumption DEF Rust!NoTask, Tasks

LEMMA TaskStarted ==
  ASSUME NEW t \in Tasks, NEW kind \in {"load", "forced"}
  PROVE  LET u == [t EXCEPT !.st = "sent", !.kind = kind]
         IN  u \in Tasks /\ u.st = "sent" /\ u.kind = kind /\ u.set = t.set /\ u.age = t.age
BY DEF Tasks

LEMMA TaskSent ==
  ASSUME NEW kind \in {"load", "forced"}
  PROVE  LET t == [Rust!NoTask EXCEPT !.st = "sent", !.kind = kind]
         IN  t \in Tasks /\ t.st = "sent" /\ t.kind = kind /\ t.set = {} /\ t.age = 0
<1>1. Rust!NoTask.set = {} /\ Rust!NoTask.age = 0
  BY DEF Rust!NoTask
<1> QED
  BY <1>1, NoTaskType, TaskStarted

LEMMA TaskReplied ==
  ASSUME NEW t \in Tasks, NEW set \in SUBSET Kids
  PROVE  LET u == [t EXCEPT !.st = "replied", !.set = set]
         IN  u \in Tasks /\ u.st = "replied" /\ u.set = set /\ u.age = t.age /\ u.kind = t.kind
BY DEF Tasks

LEMMA TaskInstalled ==
  ASSUME NEW t \in Tasks
  PROVE  LET u == [t EXCEPT !.st = "installed"]
         IN  u \in Tasks /\ u.st = "installed" /\ u.set = t.set /\ u.age = t.age /\ u.kind = t.kind
BY DEF Tasks

LEMMA TaskOlder ==
  ASSUME NEW t \in Tasks, t.age < FetchMax
  PROVE  LET u == [t EXCEPT !.age = t.age + 1]
         IN  u \in Tasks /\ u.st = t.st /\ u.set = t.set /\ u.age = t.age + 1 /\ u.kind = t.kind
BY RubyAssumption DEF Tasks

(* The fields of the task after each step. *)
LEMMA ReplyTask ==
  ASSUME Rust!TypeOK, Rust!Reply
  PROVE  /\ fetch \in Tasks /\ fetch' \in Tasks
         /\ fetch'.st = "replied" /\ fetch'.age = fetch.age /\ fetch'.kind = fetch.kind
         /\ fetch'.set = idp \/ fetch'.set = {}
<1>1. PICK set \in {idp, {}} : fetch' = [fetch EXCEPT !.st = "replied", !.set = set]
  BY DEF Rust!Reply
<1>2. fetch \in Tasks /\ set \in SUBSET Kids
  BY <1>1 DEF Rust!TypeOK, Tasks
<1> QED
  BY <1>1, <1>2, TaskReplied

LEMMA InstallTask ==
  ASSUME Rust!TypeOK, Rust!Install
  PROVE  /\ fetch \in Tasks /\ fetch' \in Tasks
         /\ fetch'.st = "installed" /\ fetch'.set = fetch.set
         /\ fetch'.age = fetch.age /\ fetch'.kind = fetch.kind
<1>1. fetch \in Tasks
  BY DEF Rust!TypeOK, Tasks
<1> QED
  BY <1>1, TaskInstalled DEF Rust!Install

LEMMA TickTask ==
  ASSUME Rust!TypeOK, Rust!Tick
  PROVE  /\ fetch \in Tasks /\ fetch' \in Tasks
         /\ fetch'.st = fetch.st /\ fetch'.set = fetch.set /\ fetch'.kind = fetch.kind
         /\ fetch.st # "none" => fetch'.age = fetch.age + 1 /\ fetch.st \in {"sent", "replied"}
<1>1. fetch \in Tasks
  BY DEF Rust!TypeOK, Tasks
<1>2. CASE Rust!GateFree
  BY <1>1, <1>2 DEF Rust!Tick, Rust!GateFree
<1>3. CASE ~Rust!GateFree
  BY <1>1, <1>3, TaskOlder DEF Rust!Tick, Rust!GateFree
<1> QED
  BY <1>2, <1>3

LEMMA StartTask ==
  ASSUME NEW c \in Callers, Rust!StartFetch(c)
  PROVE  /\ fetch' \in Tasks /\ fetch'.st = "sent" /\ fetch'.set = {} /\ fetch'.age = 0
         /\ fetch'.kind = IF Rust!Fresh THEN "forced" ELSE "load"
<1>1. fetch' = [Rust!NoTask EXCEPT !.st = "sent", !.kind = IF Rust!Fresh THEN "forced" ELSE "load"]
  BY DEF Rust!StartFetch
<1> QED
  BY <1>1, TaskSent

-----------------------------------------------------------------------------
(* Every action keeps the types. *)
RustCallersSteps(c) == (\E k \in Kids : Rust!Call(c, k)) \/ Rust!LookUp(c) \/ Rust!Gated(c) \/ Rust!Cancel(c)

LEMMA RustTypeInit == Rust!Init => Rust!TypeOK
BY RubyAssumption, BackoffAssumption, NoTaskType DEF Rust!Init, Rust!TypeOK, Tasks, Rust!Outcomes

LEMMA RustTypeCaller ==
  ASSUME Rust!TypeOK, NEW c \in Callers, RustCallersSteps(c)
  PROVE  Rust!TypeOK'
<1> USE RubyAssumption, BackoffAssumption DEF Rust!TypeOK, Rust!Outcomes, Rust!store, Rust!gate, Rust!task, Rust!calls, Rust!server, Rust!Return
<1>1. CASE \E k \in Kids : Rust!Call(c, k)
  BY <1>1 DEF Rust!Call
<1>2. CASE Rust!LookUp(c)
  BY <1>2 DEF Rust!LookUp
<1>3. CASE Rust!FindAgain(c)
  BY <1>3 DEF Rust!FindAgain
<1>4. CASE Rust!RefuseRateLimited(c)
  BY <1>4 DEF Rust!RefuseRateLimited
<1>5. CASE Rust!RefuseBackingOff(c)
  BY <1>5 DEF Rust!RefuseBackingOff, Rust!Stamps
<1>6. CASE Rust!StartFetch(c)
  <2>1. fetch' \in Tasks
    BY <1>6, StartTask
  <2> QED
    BY <1>6, <2>1 DEF Rust!StartFetch, Rust!Stamps, Tasks
<1>7. CASE Rust!Cancel(c)
  BY <1>7 DEF Rust!Cancel
<1> QED
  BY <1>1, <1>2, <1>3, <1>4, <1>5, <1>6, <1>7 DEF RustCallersSteps, Rust!Gated

LEMMA TypeFinish ==
  ASSUME Rust!TypeOK, NEW outcome \in Rust!Outcomes, NEW ending \in {"ok", "failed"}, Rust!Finish(outcome, ending)
  PROVE  /\ pc' \in [Callers -> Rust!Outcomes \cup {"calling", "missed", "waiting"}]
         /\ kid' \in [Callers -> Kids \cup {NoKid}]
         /\ window' \in {"none", "refused", "running", "ok", "failed"}
         /\ fetch' \in Tasks /\ starter' \in Callers \cup {NoCaller}
BY NoTaskType DEF Rust!TypeOK, Rust!Finish, Rust!Return, Rust!calls

LEMMA TypeTask ==
  ASSUME Rust!TypeOK, Rust!Task
  PROVE  Rust!TypeOK'
<1> USE RubyAssumption, BackoffAssumption DEF Rust!TypeOK, Rust!store, Rust!gate, Rust!calls, Rust!server
<1>1. CASE Rust!Reply
  BY <1>1, ReplyTask DEF Rust!Reply, Tasks
<1>2. CASE Rust!FetchFails
  <2>1. failures' \in 0..MaxFailures
    BY <1>2 DEF Rust!FetchFails, Rust!Smaller
  <2>2. backoff' \in 0..BackoffCap
    BY <1>2, RustDelaysBounded DEF Rust!FetchFails
  <2>3. Rust!Finish("fetch_failed", "failed")
    BY <1>2 DEF Rust!FetchFails
  <2> QED
    BY <1>2, <2>1, <2>2, <2>3, TypeFinish DEF Rust!FetchFails, Rust!Outcomes, Tasks
<1>3. CASE Rust!Install
  <2>1. fetch' \in Tasks /\ fetch.set \in SUBSET Kids
    BY <1>3, InstallTask
  <2> QED
    BY <1>3, <2>1 DEF Rust!Install, Tasks
<1>4. CASE Rust!Succeed
  <2>1. PICK outcome \in {"accepted", "no_key"} : Rust!Finish(outcome, "ok")
    BY <1>4 DEF Rust!Succeed
  <2>2. outcome \in Rust!Outcomes
    BY DEF Rust!Outcomes
  <2> QED
    BY <1>4, <2>1, <2>2, TypeFinish DEF Rust!Succeed, Tasks
<1> QED
  BY <1>1, <1>2, <1>3, <1>4 DEF Rust!Task

LEMMA RustTypeEnvironment ==
  ASSUME Rust!TypeOK, Rust!Tick \/ (\E S \in (SUBSET Kids) \ {{}} : Rust!Rotate(S))
  PROVE  Rust!TypeOK'
<1> USE RubyAssumption, BackoffAssumption DEF Rust!TypeOK, Rust!store, Rust!gate, Rust!task, Rust!calls, Rust!server
<1>1. CASE Rust!Tick
  <2>1. /\ age' \in 0..Lifetime /\ forcedAge' \in 0..MinRefetch /\ backoff' \in 0..BackoffCap
        /\ since' \in [Kids -> 0..Horizon]
    BY <1>1, RustAgesStayInRange DEF Rust!Tick
  <2>2. fetch' \in Tasks
    BY <1>1, TickTask
  <2> QED
    BY <1>1, <2>1, <2>2 DEF Rust!Tick, Tasks
<1>2. CASE \E S \in (SUBSET Kids) \ {{}} : Rust!Rotate(S)
  BY <1>2 DEF Rust!Rotate
<1> QED
  BY <1>1, <1>2

(* The Rust key store keeps its types. *)
THEOREM RustTypeCorrect == Rust!Spec => []Rust!TypeOK
<1>1. Rust!TypeOK /\ [Rust!Next]_Rust!vars => Rust!TypeOK'
  <2> SUFFICES ASSUME Rust!TypeOK, [Rust!Next]_Rust!vars PROVE Rust!TypeOK'
    OBVIOUS
  <2>1. CASE UNCHANGED Rust!vars
    BY <2>1 DEF Rust!TypeOK, Rust!vars
  <2> QED
    BY <2>1, RustTypeCaller, TypeTask, RustTypeEnvironment DEF Rust!Next, RustCallersSteps
<1> QED
  BY <1>1, RustTypeInit, PTL DEF Rust!Spec

-----------------------------------------------------------------------------
(* The key store implements the policy: a refetch that the backoff refuses  *)
(* is the policy's waste, a set is obtained when it is written.             *)
RustPoliced == <<keys, age, forcedAge, failures, backoff, fetch>>

LEMMA RustPolicyInit == Rust!Init => Rust!Policy!Init
BY DEF Rust!Init, Rust!NoTask, Rust!Installed, Rust!Policy!Init

LEMMA RustPolicyStutter ==
  ASSUME UNCHANGED RustPoliced
  PROVE  UNCHANGED Rust!Policy!vars
BY DEF RustPoliced, Rust!Installed, Rust!Policy!vars

LEMMA RustPolicyStart ==
  ASSUME NEW c \in Callers, Rust!StartFetch(c)
  PROVE  Rust!Policy!Next
<1>1. fetch.st = "none" /\ fetch'.st = "sent" /\ backoff = 0 /\ UNCHANGED <<keys, age, failures, backoff>>
  BY StartTask DEF Rust!StartFetch, Rust!Decides, Rust!Locks, Rust!GateFree, Rust!store
<1>2. ~Rust!Installed /\ ~Rust!Installed'
  BY <1>1 DEF Rust!Installed
<1>3. CASE Rust!Fresh
  <2>1. Rust!WindowOver /\ forcedAge' = 0
    BY <1>3 DEF Rust!StartFetch, Rust!Decides, Rust!Stamps
  <2>2. Rust!Policy!Refetch
    BY <1>1, <1>2, <1>3, <2>1 DEF Rust!Policy!Refetch, Rust!Policy!Fresh, Rust!Policy!WindowOver, Rust!Fresh, Rust!WindowOver
  <2> QED
    BY <2>2 DEF Rust!Policy!Next
<1>4. CASE ~Rust!Fresh
  <2>1. forcedAge' = forcedAge
    BY <1>4 DEF Rust!StartFetch, Rust!Stamps
  <2>2. Rust!Policy!Load
    BY <1>1, <1>2, <1>4, <2>1 DEF Rust!Policy!Load, Rust!Policy!Fresh, Rust!Fresh
  <2> QED
    BY <2>2 DEF Rust!Policy!Next
<1> QED
  BY <1>3, <1>4

LEMMA PolicyWaste ==
  ASSUME NEW c \in Callers, Rust!RefuseBackingOff(c)
  PROVE  [Rust!Policy!Next]_(Rust!Policy!vars)
<1>1. fetch.st = "none" /\ backoff > 0 /\ UNCHANGED <<keys, age, failures, backoff, fetch>>
  BY DEF Rust!RefuseBackingOff, Rust!Decides, Rust!Locks, Rust!GateFree, Rust!store, Rust!task
<1>2. ~Rust!Installed /\ ~Rust!Installed'
  BY <1>1 DEF Rust!Installed
<1>3. CASE Rust!Fresh
  <2>1. Rust!WindowOver /\ forcedAge' = 0
    BY <1>3 DEF Rust!RefuseBackingOff, Rust!Decides, Rust!Stamps
  <2>2. Rust!Policy!Waste
    BY <1>1, <1>2, <1>3, <2>1 DEF Rust!Policy!Waste, Rust!Policy!Fresh, Rust!Policy!WindowOver, Rust!Fresh, Rust!WindowOver
  <2> QED
    BY <2>2 DEF Rust!Policy!Next
<1>4. CASE ~Rust!Fresh
  <2>1. forcedAge' = forcedAge
    BY <1>4 DEF Rust!RefuseBackingOff, Rust!Stamps
  <2> QED
    BY <1>1, <2>1, RustPolicyStutter DEF RustPoliced
<1> QED
  BY <1>3, <1>4

LEMMA PolicyTask ==
  ASSUME Rust!TypeOK, Rust!Task
  PROVE  [Rust!Policy!Next]_(Rust!Policy!vars)
<1>1. CASE Rust!Reply
  <2>1. fetch.st = "sent" /\ fetch'.st = "replied" /\ UNCHANGED <<keys, age, forcedAge, failures, backoff>>
    BY <1>1, ReplyTask DEF Rust!Reply, Rust!store, Rust!gate
  <2> QED
    BY <2>1 DEF Rust!Installed, Rust!Policy!vars
<1>2. CASE Rust!FetchFails
  <2>1. fetch.st \in {"sent", "replied"} /\ fetch'.st = "none"
    BY <1>2 DEF Rust!FetchFails, Rust!Finish, Rust!NoTask
  <2>2. /\ failures' = Rust!Smaller(failures + 1, MaxFailures) /\ backoff' \in Rust!Delays(failures')
        /\ UNCHANGED <<keys, age, forcedAge>>
    BY <1>2 DEF Rust!FetchFails, Rust!store
  <2>3. Rust!Policy!Fail
    BY <2>1, <2>2 DEF Rust!Installed, Rust!Policy!Fail, Rust!Policy!Smaller, Rust!Policy!Delays, Rust!Policy!RawDelay,
       Rust!Smaller, Rust!Delays, Rust!RawDelay
  <2> QED
    BY <2>3 DEF Rust!Policy!Next
<1>3. CASE Rust!Install
  <2>1. fetch.st = "replied" /\ fetch'.st = "installed"
    BY <1>3, InstallTask DEF Rust!Install
  <2>2. keys' \in (SUBSET Kids) \ {{}} /\ age' = 0 /\ forcedAge' = forcedAge
    BY <1>3 DEF Rust!Install, Rust!TypeOK, Rust!gate
  <2>3. Rust!Policy!Obtain
    BY <2>1, <2>2 DEF Rust!Installed, Rust!Policy!Obtain
  <2> QED
    BY <2>3 DEF Rust!Policy!Next
<1>4. CASE Rust!Succeed
  <2>1. fetch.st = "installed" /\ fetch'.st = "none"
    BY <1>4 DEF Rust!Succeed, Rust!Finish, Rust!NoTask
  <2>2. failures' = 0 /\ backoff' = 0 /\ UNCHANGED <<keys, age, forcedAge>>
    BY <1>4 DEF Rust!Succeed, Rust!store
  <2> QED
    BY <2>1, <2>2 DEF Rust!Installed, Rust!Policy!vars
<1> QED
  BY <1>1, <1>2, <1>3, <1>4 DEF Rust!Task

LEMMA RustPolicyTick ==
  ASSUME Rust!TypeOK, Rust!Tick
  PROVE  Rust!Policy!Tick
<1>1. fetch'.st = fetch.st /\ fetch.st # "installed"
  BY TickTask DEF Rust!Tick, Rust!GateFree
<1> QED
  BY <1>1 DEF Rust!Installed, Rust!Policy!Tick, Rust!Policy!Smaller, Rust!Policy!Larger, Rust!Tick, Rust!Smaller, Rust!Larger

LEMMA RustPolicyStep ==
  ASSUME Rust!TypeOK, [Rust!Next]_Rust!vars
  PROVE  [Rust!Policy!Next]_(Rust!Policy!vars)
<1>1. CASE UNCHANGED RustPoliced
  BY <1>1, RustPolicyStutter
<1>2. ASSUME NEW c \in Callers, Rust!StartFetch(c) \/ Rust!RefuseBackingOff(c) PROVE [Rust!Policy!Next]_(Rust!Policy!vars)
  BY <1>2, RustPolicyStart, PolicyWaste
<1>3. CASE Rust!Tick
  BY <1>3, RustPolicyTick DEF Rust!Policy!Next
<1> QED
  BY <1>1, <1>2, <1>3, PolicyTask DEF RustPoliced, Rust!vars, Rust!Next, Rust!Gated, Rust!Call, Rust!LookUp, Rust!FindAgain,
     Rust!RefuseRateLimited, Rust!Cancel, Rust!Rotate, Rust!store, Rust!gate, Rust!task

(* Whatever the tasks do and however often a caller is cancelled, the       *)
(* provider sees requests only when the policy allows one, and a failed one *)
(* takes no key away.                                                       *)
THEOREM RustImplementsPolicy == Rust!Spec => Rust!ImplementsPolicy
BY RustPolicyInit, RustPolicyStep, RustTypeCorrect, PTL DEF Rust!Spec, Rust!ImplementsPolicy, Rust!Policy!Spec

-----------------------------------------------------------------------------
(* Why what is cached is recent: a set on its way was published no longer   *)
(* ago than its exchange is old, and a cached one than it is old, plus one  *)
(* exchange.                                                                *)
RustAnswered   == fetch.st \in {"replied", "installed"}
RustRecentKeys ==
  /\ Rust!Fresh => \A k \in keys : k \in idp \/ since[k] <= age + FetchMax
  /\ RustAnswered => \A k \in fetch.set : k \in idp \/ since[k] <= fetch.age

LEMMA RustRecentInit == Rust!Init => RustRecentKeys
BY DEF Rust!Init, RustRecentKeys, RustAnswered, Rust!NoTask

(* The steps of a caller leave the cache and the provider alone; the one    *)
(* that touches the task starts it.                                         *)
LEMMA RustCallersStepsSpare ==
  ASSUME NEW c \in Callers, RustCallersSteps(c)
  PROVE  UNCHANGED <<keys, age, idp, since>> /\ (fetch' = fetch \/ fetch'.st = "sent")
BY StartTask DEF RustCallersSteps, Rust!Gated, Rust!Call, Rust!LookUp, Rust!FindAgain, Rust!RefuseRateLimited, Rust!RefuseBackingOff,
   Rust!StartFetch, Rust!Cancel, Rust!store, Rust!task, Rust!server

LEMMA RecentTask ==
  ASSUME Rust!TypeOK, RustRecentKeys, Rust!Task
  PROVE  RustRecentKeys'
<1>0. UNCHANGED <<idp, since>>
  BY DEF Rust!Task, Rust!Reply, Rust!FetchFails, Rust!Install, Rust!Succeed, Rust!server
<1>1. CASE Rust!Reply
  <2>1. UNCHANGED <<keys, age>> /\ (fetch'.set = idp \/ fetch'.set = {})
    BY <1>1, ReplyTask DEF Rust!Reply, Rust!store
  <2> QED
    BY <1>0, <2>1 DEF RustRecentKeys, Rust!Fresh
<1>2. CASE Rust!FetchFails \/ Rust!Succeed
  <2>1. UNCHANGED <<keys, age>> /\ fetch'.st = "none"
    BY <1>2 DEF Rust!FetchFails, Rust!Succeed, Rust!Finish, Rust!NoTask, Rust!store
  <2> QED
    BY <1>0, <2>1 DEF RustRecentKeys, Rust!Fresh, RustAnswered
<1>3. CASE Rust!Install
  <2>1. keys' = fetch.set /\ age' = 0 /\ fetch'.set = fetch.set /\ fetch'.age = fetch.age /\ fetch.st = "replied"
    BY <1>3, InstallTask DEF Rust!Install
  <2>2. \A k \in fetch.set : k \in idp \/ since[k] <= fetch.age
    BY <2>1 DEF RustRecentKeys, RustAnswered
  <2>3. fetch.age \in 0..FetchMax /\ \A k \in fetch.set : since[k] \in 0..Horizon
    BY DEF Rust!TypeOK
  <2>4. \A k \in fetch.set : k \in idp \/ since[k] <= FetchMax
    BY <2>2, <2>3, RubyAssumption
  <2> QED
    BY <1>0, <2>1, <2>2, <2>4, RubyAssumption DEF RustRecentKeys
<1> QED
  BY <1>1, <1>2, <1>3 DEF Rust!Task

LEMMA RustRecentTick ==
  ASSUME Rust!TypeOK, RustRecentKeys, Rust!Tick
  PROVE  RustRecentKeys'
<1>1. UNCHANGED <<keys, idp>> /\ age' = Rust!Smaller(age + 1, Lifetime)
  BY DEF Rust!Tick
<1>2. \A k \in Kids : since[k] \in Nat /\ since'[k] \in Nat /\ since'[k] <= since[k] + 1
  BY RubyAssumption DEF Rust!Tick, Rust!TypeOK, Rust!Smaller
<1>3. Rust!Fresh' => \A k \in keys' : k \in idp' \/ since'[k] <= age' + FetchMax
  BY <1>1, <1>2, RubyAssumption DEF RustRecentKeys, Rust!Fresh, Rust!Smaller, Rust!TypeOK
<1>4. ASSUME RustAnswered', NEW k \in fetch'.set PROVE k \in idp' \/ since'[k] <= fetch'.age
  <2>1. fetch'.st = fetch.st /\ fetch'.set = fetch.set /\ fetch'.age = fetch.age + 1
    BY <1>4, TickTask DEF RustAnswered
  <2>2. k \in Kids /\ fetch.age \in 0..FetchMax
    BY <1>4, <2>1 DEF Rust!TypeOK
  <2>3. k \in idp \/ since[k] <= fetch.age
    BY <1>4, <2>1 DEF RustRecentKeys, RustAnswered
  <2> QED
    BY <1>1, <1>2, <2>1, <2>2, <2>3, RubyAssumption
<1> QED
  BY <1>3, <1>4 DEF RustRecentKeys

LEMMA RustRecentRotate ==
  ASSUME Rust!TypeOK, RustRecentKeys, NEW S \in SUBSET Kids, Rust!Rotate(S)
  PROVE  RustRecentKeys'
<1>1. UNCHANGED <<keys, age, fetch>> /\ idp' = S
  BY DEF Rust!Rotate, Rust!store, Rust!task
<1>2. \A k \in Kids \ S : IF k \in idp THEN since'[k] = 0 ELSE since'[k] = since[k]
  BY DEF Rust!Rotate
<1>3. Rust!Fresh' => \A k \in keys' : k \in idp' \/ since'[k] <= age' + FetchMax
  BY <1>1, <1>2, RubyAssumption DEF RustRecentKeys, Rust!Fresh, Rust!TypeOK
<1>4. ASSUME RustAnswered', NEW k \in fetch'.set PROVE k \in idp' \/ since'[k] <= fetch'.age
  <2>1. k \in Kids /\ fetch.age \in 0..FetchMax
    BY <1>1, <1>4 DEF Rust!TypeOK
  <2> QED
    BY <1>1, <1>2, <1>4, <2>1, RubyAssumption DEF RustRecentKeys, RustAnswered
<1> QED
  BY <1>3, <1>4 DEF RustRecentKeys

LEMMA RustRecentStep == Rust!TypeOK /\ RustRecentKeys /\ [Rust!Next]_Rust!vars => RustRecentKeys'
<1> SUFFICES ASSUME Rust!TypeOK, RustRecentKeys, [Rust!Next]_Rust!vars PROVE RustRecentKeys'
  OBVIOUS
<1>1. CASE UNCHANGED Rust!vars
  BY <1>1 DEF RustRecentKeys, Rust!Fresh, RustAnswered, Rust!vars
<1>2. ASSUME NEW c \in Callers, RustCallersSteps(c) PROVE RustRecentKeys'
  BY <1>2, RustCallersStepsSpare DEF RustRecentKeys, Rust!Fresh, RustAnswered
<1>3. ASSUME NEW S \in (SUBSET Kids) \ {{}}, Rust!Rotate(S) PROVE RustRecentKeys'
  BY <1>3, RustRecentRotate
<1> QED
  BY <1>1, <1>2, <1>3, RecentTask, RustRecentTick DEF Rust!Next, RustCallersSteps

-----------------------------------------------------------------------------
(* Why the window refuses no key without a reason: how its decision ended,  *)
(* and that after a success it misses only keys published since it opened.  *)
RustWindowRuns   == window = "running" <=> fetch.st # "none" /\ fetch.kind = "forced"
RustWindowCovers == fetch.st # "none" /\ ~Rust!WindowOver => fetch.age <= forcedAge
RustSetIsWhole   ==
  /\ RustAnswered => fetch.set = {} \/ \A k \in idp \ fetch.set : since[k] <= fetch.age
  /\ fetch.st = "installed" => keys = fetch.set /\ keys # {}
RustWindowIsJust ==
  /\ window = "none" => Rust!WindowOver
  /\ window = "ok" /\ ~Rust!WindowOver => \A k \in idp \ keys : since[k] <= forcedAge
RustWindowInv == RustWindowRuns /\ RustWindowCovers /\ RustSetIsWhole /\ RustWindowIsJust

LEMMA RustWindowInit == Rust!Init => RustWindowInv
BY RubyAssumption
   DEF Rust!Init, Rust!NoTask, RustWindowInv, RustWindowRuns, RustWindowCovers, RustSetIsWhole, RustWindowIsJust, Rust!WindowOver, RustAnswered

LEMMA RustWindowSame ==
  ASSUME RustWindowInv, UNCHANGED <<keys, forcedAge, fetch, idp, since, window>>
  PROVE  RustWindowInv'
BY DEF RustWindowInv, RustWindowRuns, RustWindowCovers, RustSetIsWhole, RustWindowIsJust, Rust!WindowOver, RustAnswered

LEMMA WindowRefused ==
  ASSUME RustWindowInv, NEW c \in Callers, Rust!RefuseBackingOff(c)
  PROVE  RustWindowInv'
<1>1. fetch.st = "none" /\ UNCHANGED <<keys, fetch, idp, since>>
  BY DEF Rust!RefuseBackingOff, Rust!Decides, Rust!Locks, Rust!GateFree, Rust!store, Rust!task, Rust!server
<1>2. CASE Rust!Fresh
  BY <1>1, <1>2 DEF Rust!RefuseBackingOff, Rust!Stamps, RustWindowInv, RustWindowRuns, RustWindowCovers, RustSetIsWhole,
     RustWindowIsJust, RustAnswered
<1>3. CASE ~Rust!Fresh
  BY <1>1, <1>3, RustWindowSame DEF Rust!RefuseBackingOff, Rust!Stamps
<1> QED
  BY <1>2, <1>3

LEMMA RustWindowStarted ==
  ASSUME Rust!TypeOK, RustWindowInv, NEW c \in Callers, Rust!StartFetch(c)
  PROVE  RustWindowInv'
<1>1. fetch.st = "none" /\ UNCHANGED <<keys, idp, since>>
  BY DEF Rust!StartFetch, Rust!Decides, Rust!Locks, Rust!GateFree, Rust!store, Rust!server
<1>2. fetch'.st = "sent" /\ fetch'.age = 0 /\ fetch'.kind = IF Rust!Fresh THEN "forced" ELSE "load"
  BY StartTask
<1>3. forcedAge' = (IF Rust!Fresh THEN 0 ELSE forcedAge) /\ window' = (IF Rust!Fresh THEN "running" ELSE window)
  BY DEF Rust!StartFetch, Rust!Stamps
<1>4. RustWindowRuns' /\ RustSetIsWhole'
  BY <1>1, <1>2, <1>3 DEF RustWindowInv, RustWindowRuns, RustSetIsWhole, RustAnswered
<1>5. RustWindowCovers'
  BY <1>2, <1>3, RubyAssumption DEF RustWindowCovers, Rust!TypeOK
<1>6. RustWindowIsJust'
  BY <1>1, <1>3 DEF RustWindowInv, RustWindowIsJust, Rust!WindowOver
<1> QED
  BY <1>4, <1>5, <1>6 DEF RustWindowInv

LEMMA RustWindowCaller ==
  ASSUME Rust!TypeOK, RustWindowInv, NEW c \in Callers, RustCallersSteps(c)
  PROVE  RustWindowInv'
<1>1. CASE UNCHANGED <<keys, forcedAge, fetch, idp, since, window>>
  BY <1>1, RustWindowSame
<1> QED
  BY <1>1, WindowRefused, RustWindowStarted
     DEF RustCallersSteps, Rust!Gated, Rust!Call, Rust!LookUp, Rust!FindAgain, Rust!RefuseRateLimited, Rust!Cancel, Rust!store, Rust!gate, Rust!task, Rust!server

LEMMA WindowTask ==
  ASSUME Rust!TypeOK, RustWindowInv, Rust!Task
  PROVE  RustWindowInv'
<1>0. UNCHANGED <<forcedAge, idp, since>>
  BY DEF Rust!Task, Rust!Reply, Rust!FetchFails, Rust!Install, Rust!Succeed, Rust!server, Rust!gate
<1>1. CASE Rust!Reply
  <2>1. /\ fetch.st = "sent" /\ fetch'.st = "replied" /\ fetch'.age = fetch.age /\ fetch'.kind = fetch.kind
        /\ fetch'.set = idp \/ fetch'.set = {}
        /\ UNCHANGED <<keys, window>>
    BY <1>1, ReplyTask DEF Rust!Reply, Rust!store
  <2> QED
    BY <1>0, <2>1 DEF RustWindowInv, RustWindowRuns, RustWindowCovers, RustSetIsWhole, RustWindowIsJust, Rust!WindowOver
<1>2. CASE Rust!FetchFails
  <2>1. /\ fetch.st # "none" /\ fetch'.st = "none" /\ UNCHANGED keys
        /\ window' = IF fetch.kind = "forced" THEN "failed" ELSE window
    BY <1>2 DEF Rust!FetchFails, Rust!Finish, Rust!NoTask, Rust!store
  <2> QED
    BY <1>0, <2>1 DEF RustWindowInv, RustWindowRuns, RustWindowCovers, RustSetIsWhole, RustWindowIsJust, Rust!WindowOver, RustAnswered
<1>3. CASE Rust!Install
  <2>1. /\ fetch.st = "replied" /\ fetch'.st = "installed"
        /\ fetch'.age = fetch.age /\ fetch'.kind = fetch.kind /\ fetch'.set = fetch.set
        /\ keys' = fetch.set /\ fetch.set # {} /\ UNCHANGED window
    BY <1>3, InstallTask DEF Rust!Install
  <2>2. \A k \in idp \ fetch.set : since[k] <= fetch.age
    BY <2>1 DEF RustWindowInv, RustSetIsWhole, RustAnswered
  <2>3. RustWindowRuns' /\ RustWindowCovers' /\ RustSetIsWhole'
    BY <1>0, <2>1, <2>2 DEF RustWindowInv, RustWindowRuns, RustWindowCovers, RustSetIsWhole, Rust!WindowOver
  <2>4. ASSUME ~Rust!WindowOver, NEW k \in idp \ fetch.set PROVE since[k] <= forcedAge
    <3>1. since[k] \in Nat /\ fetch.age \in Nat /\ forcedAge \in Nat
      BY RubyAssumption DEF Rust!TypeOK
    <3>2. fetch.age <= forcedAge
      BY <2>1, <2>4 DEF RustWindowInv, RustWindowCovers
    <3> QED
      BY <2>2, <3>1, <3>2
  <2>5. RustWindowIsJust'
    BY <1>0, <2>1, <2>4 DEF RustWindowInv, RustWindowIsJust, Rust!WindowOver
  <2> QED
    BY <2>3, <2>5 DEF RustWindowInv
<1>4. CASE Rust!Succeed
  <2>1. /\ fetch.st = "installed" /\ fetch'.st = "none" /\ UNCHANGED keys
        /\ window' = IF fetch.kind = "forced" THEN "ok" ELSE window
    BY <1>4 DEF Rust!Succeed, Rust!Finish, Rust!NoTask, Rust!store
  <2>2. keys = fetch.set /\ \A k \in idp \ keys : since[k] <= fetch.age
    BY <2>1 DEF RustWindowInv, RustSetIsWhole, RustAnswered
  <2>3. ASSUME ~Rust!WindowOver, NEW k \in idp \ keys PROVE since[k] <= forcedAge
    <3>1. since[k] \in Nat /\ fetch.age \in Nat /\ forcedAge \in Nat
      BY RubyAssumption DEF Rust!TypeOK
    <3>2. fetch.age <= forcedAge
      BY <2>1, <2>3 DEF RustWindowInv, RustWindowCovers
    <3> QED
      BY <2>2, <3>1, <3>2
  <2> QED
    BY <1>0, <2>1, <2>3 DEF RustWindowInv, RustWindowRuns, RustWindowCovers, RustSetIsWhole, RustWindowIsJust, Rust!WindowOver, RustAnswered
<1> QED
  BY <1>1, <1>2, <1>3, <1>4 DEF Rust!Task

LEMMA RustWindowTick ==
  ASSUME Rust!TypeOK, RustWindowInv, Rust!Tick
  PROVE  RustWindowInv'
<1>1. UNCHANGED <<keys, idp, window>> /\ forcedAge' = Rust!Smaller(forcedAge + 1, MinRefetch)
  BY DEF Rust!Tick
<1>2. /\ fetch'.st = fetch.st /\ fetch'.set = fetch.set /\ fetch'.kind = fetch.kind
      /\ fetch.st # "none" => fetch'.age = fetch.age + 1 /\ fetch.st # "installed"
  BY TickTask
<1>3. \A k \in Kids : since[k] \in Nat /\ since'[k] \in Nat /\ since'[k] <= since[k] + 1
  BY RubyAssumption DEF Rust!Tick, Rust!TypeOK, Rust!Smaller
<1>4. /\ forcedAge \in Nat /\ fetch.age \in Nat /\ idp \subseteq Kids
      /\ ~Rust!WindowOver' => ~Rust!WindowOver /\ forcedAge' = forcedAge + 1
      /\ Rust!WindowOver => Rust!WindowOver'
  BY <1>1, RubyAssumption DEF Rust!TypeOK, Rust!WindowOver, Rust!Smaller
<1>5. RustWindowRuns' /\ RustWindowCovers'
  BY <1>1, <1>2, <1>4 DEF RustWindowInv, RustWindowRuns, RustWindowCovers
<1>6. RustSetIsWhole'
  <2>1. ASSUME RustAnswered', fetch'.set # {}, NEW k \in idp' \ fetch'.set PROVE since'[k] <= fetch'.age
    <3>1. RustAnswered /\ fetch'.age = fetch.age + 1
      BY <1>2, <2>1 DEF RustAnswered
    <3>2. since[k] <= fetch.age
      BY <1>1, <1>2, <2>1, <3>1 DEF RustWindowInv, RustSetIsWhole
    <3> QED
      BY <1>1, <1>3, <1>4, <2>1, <3>1, <3>2
  <2> QED
    BY <1>2, <2>1 DEF RustSetIsWhole
<1>7. RustWindowIsJust'
  <2>1. ASSUME window = "ok", ~Rust!WindowOver', NEW k \in idp' \ keys' PROVE since'[k] <= forcedAge'
    <3>1. since[k] <= forcedAge
      BY <1>1, <1>4, <2>1 DEF RustWindowInv, RustWindowIsJust
    <3> QED
      BY <1>1, <1>3, <1>4, <2>1, <3>1
  <2> QED
    BY <1>1, <1>4, <2>1 DEF RustWindowInv, RustWindowIsJust
<1> QED
  BY <1>5, <1>6, <1>7 DEF RustWindowInv

LEMMA RustWindowRotate ==
  ASSUME Rust!TypeOK, RustWindowInv, NEW S \in SUBSET Kids, Rust!Rotate(S)
  PROVE  RustWindowInv'
<1>1. UNCHANGED <<keys, forcedAge, fetch, window>> /\ idp' = S
  BY DEF Rust!Rotate, Rust!store, Rust!gate, Rust!task
<1>2. \A k \in S : IF k \in idp THEN since'[k] = since[k] ELSE since'[k] = 0
  BY DEF Rust!Rotate
<1>3. forcedAge >= 0 /\ fetch.age >= 0
  BY RubyAssumption DEF Rust!TypeOK
<1>4. RustSetIsWhole'
  BY <1>1, <1>2, <1>3 DEF RustWindowInv, RustSetIsWhole, RustAnswered
<1>5. RustWindowIsJust'
  BY <1>1, <1>2, <1>3 DEF RustWindowInv, RustWindowIsJust, Rust!WindowOver
<1> QED
  BY <1>1, <1>4, <1>5 DEF RustWindowInv, RustWindowRuns, RustWindowCovers, Rust!WindowOver

LEMMA RustWindowStep == Rust!TypeOK /\ RustWindowInv /\ [Rust!Next]_Rust!vars => RustWindowInv'
<1> SUFFICES ASSUME Rust!TypeOK, RustWindowInv, [Rust!Next]_Rust!vars PROVE RustWindowInv'
  OBVIOUS
<1>1. CASE UNCHANGED Rust!vars
  BY <1>1, RustWindowSame DEF Rust!vars
<1>2. ASSUME NEW S \in (SUBSET Kids) \ {{}}, Rust!Rotate(S) PROVE RustWindowInv'
  BY <1>2, RustWindowRotate
<1> QED
  BY <1>1, <1>2, RustWindowCaller, WindowTask, RustWindowTick DEF Rust!Next, RustCallersSteps

-----------------------------------------------------------------------------
(* Which steps answer a caller. *)
LEMMA RustWhoAccepts ==
  ASSUME Rust!TypeOK, Rust!Next, NEW c \in Callers, Rust!Ends(c, "accepted")
  PROVE  Rust!Cached(kid[c]) \/ (fetch.st = "installed" /\ kid[c] \in fetch.set)
<1>1. ASSUME NEW d \in Callers, RustCallersSteps(d) PROVE Rust!Cached(kid[c])
  BY <1>1 DEF RustCallersSteps, Rust!Gated, Rust!Call, Rust!LookUp, Rust!FindAgain, Rust!RefuseRateLimited, Rust!RefuseBackingOff, Rust!StartFetch,
     Rust!Cancel, Rust!Return, Rust!Ends, Rust!TypeOK
<1>2. CASE Rust!Succeed
  BY <1>2 DEF Rust!Succeed, Rust!Finish, Rust!Return, Rust!calls, Rust!Ends, Rust!TypeOK
<1>3. CASE Rust!FetchFails
  BY <1>3 DEF Rust!FetchFails, Rust!Finish, Rust!Return, Rust!calls, Rust!Ends, Rust!TypeOK
<1>4. CASE UNCHANGED pc
  BY <1>4 DEF Rust!Ends
<1> QED
  BY <1>1, <1>2, <1>3, <1>4 DEF Rust!Next, RustCallersSteps, Rust!Task, Rust!Reply, Rust!Install, Rust!Tick, Rust!Rotate, Rust!calls

LEMMA WhoRefuses ==
  ASSUME Rust!TypeOK, Rust!Next, NEW c \in Callers
  PROVE  /\ Rust!Ends(c, "rate_limited") => Rust!RefuseRateLimited(c)
         /\ Rust!Ends(c, "backing_off") => Rust!RefuseBackingOff(c)
<1>1. ASSUME NEW d \in Callers, RustCallersSteps(d), Rust!Ends(c, "rate_limited") \/ Rust!Ends(c, "backing_off")
      PROVE  d = c /\ (Rust!RefuseRateLimited(c) \/ Rust!RefuseBackingOff(c))
  BY <1>1 DEF RustCallersSteps, Rust!Gated, Rust!Call, Rust!LookUp, Rust!FindAgain, Rust!RefuseRateLimited, Rust!RefuseBackingOff, Rust!StartFetch,
     Rust!Cancel, Rust!Return, Rust!Ends, Rust!TypeOK
<1>2. Rust!RefuseRateLimited(c) => ~Rust!Ends(c, "backing_off")
  BY DEF Rust!RefuseRateLimited, Rust!Return, Rust!Ends, Rust!TypeOK
<1>3. Rust!RefuseBackingOff(c) => ~Rust!Ends(c, "rate_limited")
  BY DEF Rust!RefuseBackingOff, Rust!Return, Rust!Ends, Rust!TypeOK
<1>4. ASSUME Rust!Succeed \/ Rust!FetchFails PROVE ~Rust!Ends(c, "rate_limited") /\ ~Rust!Ends(c, "backing_off")
  BY <1>4 DEF Rust!Succeed, Rust!FetchFails, Rust!Finish, Rust!Return, Rust!calls, Rust!Ends, Rust!TypeOK
<1>5. ASSUME UNCHANGED pc PROVE ~Rust!Ends(c, "rate_limited") /\ ~Rust!Ends(c, "backing_off")
  BY <1>5 DEF Rust!Ends
<1> QED
  BY <1>1, <1>2, <1>3, <1>4, <1>5 DEF Rust!Next, RustCallersSteps, Rust!Task, Rust!Reply, Rust!Install, Rust!Tick, Rust!Rotate, Rust!calls

LEMMA RustAcceptedIsRecent ==
  ASSUME Rust!TypeOK, RustRecentKeys, Rust!Next, NEW c \in Callers, Rust!Ends(c, "accepted")
  PROVE  kid[c] \in idp \/ since[kid[c]] < Lifetime + FetchMax
<1>1. CASE Rust!Cached(kid[c])
  <2>1. kid[c] \in Kids /\ since[kid[c]] \in Nat /\ age \in Nat /\ age < Lifetime
    BY <1>1, RubyAssumption DEF Rust!Cached, Rust!Fresh, Rust!TypeOK
  <2> QED
    BY <1>1, <2>1, RubyAssumption DEF Rust!Cached, RustRecentKeys
<1>2. CASE fetch.st = "installed" /\ kid[c] \in fetch.set
  <2>1. kid[c] \in Kids /\ fetch.age \in 0..FetchMax /\ since[kid[c]] \in Nat
    BY <1>2, RubyAssumption DEF Rust!TypeOK
  <2>2. kid[c] \in idp \/ since[kid[c]] <= fetch.age
    BY <1>2 DEF RustRecentKeys, RustAnswered
  <2> QED
    BY <2>1, <2>2, RubyAssumption
<1> QED
  BY <1>1, <1>2, RustWhoAccepts

LEMMA RustRefusedIsExplained ==
  ASSUME Rust!TypeOK, RustWindowInv, Rust!Next, NEW c \in Callers
  PROVE  (Rust!Refused(c) => window \in {"failed", "refused"}) /\ ~Rust!DecidesOnAStaleMiss(c)
<1>1. ASSUME Rust!Refused(c) PROVE window \in {"failed", "refused"}
  <2>1. fetch.st = "none" /\ kid[c] \notin keys /\ ~Rust!WindowOver
    BY <1>1, WhoRefuses DEF Rust!Refused, Rust!RefuseRateLimited, Rust!Locks, Rust!GateFree
  <2>2. window \notin {"none", "running"}
    BY <2>1 DEF RustWindowInv, RustWindowRuns, RustWindowIsJust
  <2>3. since[kid[c]] >= MinRefetch /\ since[kid[c]] \in Nat /\ forcedAge \in Nat
    BY <1>1, RubyAssumption DEF Rust!Refused, Rust!TypeOK
  <2>4. window # "ok"
    BY <1>1, <2>1, <2>3, RubyAssumption DEF RustWindowInv, RustWindowIsJust, Rust!WindowOver, Rust!Refused
  <2> QED
    BY <2>2, <2>4 DEF Rust!TypeOK
<1>2. ~Rust!DecidesOnAStaleMiss(c)
  BY WhoRefuses DEF Rust!DecidesOnAStaleMiss, Rust!RefuseRateLimited, Rust!RefuseBackingOff, Rust!StartFetch, Rust!Decides, Rust!Cached
<1> QED
  BY <1>1, <1>2

(* A validation is never given a key withdrawn longer ago than the lifetime *)
(* of a set and one exchange, and the window never denies it a published    *)
(* key but after a refetch that failed or that the backoff refused, however *)
(* many callers were cancelled in between.                                  *)
THEOREM RustAnswersJust == Rust!Spec => Rust!AnswersAreJust
<1>1. Rust!TypeOK /\ RustRecentKeys /\ [Rust!Next]_Rust!vars =>
        [\A c \in Callers : Rust!Ends(c, "accepted") =>
           kid[c] \in idp \/ since[kid[c]] < Lifetime + FetchMax]_Rust!vars
  BY RustAcceptedIsRecent
<1>2. Rust!TypeOK /\ RustWindowInv /\ [Rust!Next]_Rust!vars =>
        [\A c \in Callers :
           /\ Rust!Refused(c) => window \in {"failed", "refused"}
           /\ ~Rust!DecidesOnAStaleMiss(c)]_Rust!vars
  BY RustRefusedIsExplained
<1> QED
  BY <1>1, <1>2, RustTypeCorrect, RustRecentInit, RustRecentStep, RustWindowInit, RustWindowStep, PTL
     DEF Rust!Spec, Rust!AnswersAreJust, Rust!WithdrawnKeysExpire, Rust!RefusalsAreExplained

=============================================================================
