--------------------------- MODULE NodeJwksProofs ---------------------------
(***************************************************************************)
(* Proofs about the Node key store, for any number of calls and key ids    *)
(* and any lifetime, window and backoff.                                   *)
(***************************************************************************)
EXTENDS NodeJwks, TLAPS

Exchanges == [st : {"none", "sent", "replied", "failed"}, set : SUBSET Kids, age : 0..FetchMax]

-----------------------------------------------------------------------------
(* The saturating clocks, and what the steps of a fetch do to it. *)

LEMMA DelaysBounded == \A n : Delays(n) \subseteq 0..BackoffCap
BY DEF Delays

LEMMA AgesStayInRange ==
  ASSUME NEW x, NEW bound \in Nat, x \in 0..bound
  PROVE  Smaller(x + 1, bound) \in 0..bound /\ Larger(x - 1, 0) \in 0..bound
BY DEF Smaller, Larger

LEMMA NoFetchFields == NoFetch \in Exchanges /\ NoFetch.st = "none"
BY NodeAssumption DEF NoFetch, Exchanges

LEMMA FetchSent ==
  LET t == [NoFetch EXCEPT !.st = "sent"]
  IN  t \in Exchanges /\ t.st = "sent" /\ t.age = 0
BY NodeAssumption DEF NoFetch, Exchanges

LEMMA FetchReplied ==
  ASSUME NEW t \in Exchanges, NEW set \in SUBSET Kids
  PROVE  LET u == [t EXCEPT !.st = "replied", !.set = set]
         IN  u \in Exchanges /\ u.st = "replied" /\ u.set = set /\ u.age = t.age
BY DEF Exchanges

LEMMA FetchFailed ==
  ASSUME NEW t \in Exchanges
  PROVE  LET u == [t EXCEPT !.st = "failed"] IN u \in Exchanges /\ u.st = "failed"
BY DEF Exchanges

LEMMA FetchOlder ==
  ASSUME NEW t \in Exchanges, t.age < FetchMax
  PROVE  LET u == [t EXCEPT !.age = t.age + 1]
         IN  u \in Exchanges /\ u.st = t.st /\ u.set = t.set /\ u.age = t.age + 1
BY NodeAssumption DEF Exchanges

LEMMA RepliedFields ==
  ASSUME TypeOK, Reply
  PROVE  /\ fetch' \in Exchanges /\ fetch'.st = "replied" /\ fetch'.age = fetch.age
         /\ fetch'.set = idp \/ fetch'.set = {}
<1>1. PICK set \in {idp, {}} : fetch' = [fetch EXCEPT !.st = "replied", !.set = set]
  BY DEF Reply
<1>2. fetch \in Exchanges /\ set \in SUBSET Kids
  BY <1>1 DEF TypeOK, Exchanges
<1> QED
  BY <1>1, <1>2, FetchReplied

LEMMA FailedFields ==
  ASSUME TypeOK, FetchFails
  PROVE  fetch' \in Exchanges /\ fetch'.st = "failed"
<1>1. fetch \in Exchanges
  BY DEF TypeOK, Exchanges
<1> QED
  BY <1>1, FetchFailed DEF FetchFails

LEMMA TickFields ==
  ASSUME TypeOK, Tick
  PROVE  /\ fetch' \in Exchanges /\ fetch'.st = fetch.st /\ fetch'.set = fetch.set
         /\ Pending => fetch.age < FetchMax /\ fetch'.age = fetch.age + 1
<1>1. fetch \in Exchanges
  BY DEF TypeOK, Exchanges
<1>2. CASE Pending
  BY <1>1, <1>2, FetchOlder DEF Tick
<1>3. CASE ~Pending
  BY <1>1, <1>3 DEF Tick
<1> QED
  BY <1>2, <1>3

-----------------------------------------------------------------------------
(* What a call that asks jose for a key does, before the fetch or resumed   *)
(* after one: it finds its key, shares or starts a fetch, or is refused.    *)
Asks(c)       == (\E k \in Kids : Validate(c, k)) \/ LookUpLoaded(c)
Entering(c)   == pc[c] \in Outcomes /\ LoopIdle /\ backoff = 0
Resumed(c)    == pc[c] = "first_ready"
Found(c, k)   ==
  /\ k \in keys /\ (Fresh \/ Resumed(c))
  /\ Become(c, k, "importing") /\ UNCHANGED <<store, gates, fetch, server>>
Joins(c, k)   == \E stage \in Loading : Join(c, k, stage)
Starts(c, k)  == \E stage \in Loading : Start(c, k, stage)
Refused(c, k) == k \notin keys /\ RefuseByWindow(c, k)
Asked(c, k)   ==
  /\ Entering(c) \/ Resumed(c)
  /\ Found(c, k) \/ Joins(c, k) \/ Starts(c, k) \/ Refused(c, k)

LEMMA AskSplit ==
  ASSUME NEW c \in Callers, Asks(c), Resumed(c) => kid[c] \in Kids
  PROVE  \E k \in Kids : Asked(c, k)
<1>1. ASSUME NEW k, LookUp(c, k), Fresh \/ Resumed(c)
      PROVE  Found(c, k) \/ Joins(c, k) \/ Starts(c, k) \/ Refused(c, k)
  BY <1>1 DEF LookUp, Found, Joins, Starts, Refused, Loading
<1>2. CASE LookUpLoaded(c)
  BY <1>1, <1>2 DEF LookUpLoaded, Resumed, Asked
<1>3. ASSUME NEW k \in Kids, Validate(c, k) PROVE Asked(c, k)
  <2>1. Entering(c)
    BY <1>3 DEF Validate, MayLookUp, Entering
  <2>2. CASE Fresh
    BY <1>1, <1>3, <2>1, <2>2 DEF Validate, Asked
  <2>3. CASE ~Fresh
    BY <1>3, <2>1, <2>3 DEF Validate, Asked, Joins, Starts, Loading
  <2> QED
    BY <2>2, <2>3
<1> QED
  BY <1>2, <1>3 DEF Asks

-----------------------------------------------------------------------------
(* Every action keeps the types. *)
Stages    == Outcomes \cup Loading \cup Ready \cup {"importing"}
CallTypes == pc \in [Callers -> Stages] /\ kid \in [Callers -> Kids \cup {NoKid}]

LEMMA BecomeTypes ==
  ASSUME TypeOK, NEW c, NEW k \in Kids \cup {NoKid}, NEW stage \in Stages, Become(c, k, stage)
  PROVE  CallTypes'
BY DEF TypeOK, CallTypes, Become, Stages

LEMMA TypeInit == Init => TypeOK
BY NodeAssumption, BackoffAssumption, NoFetchFields DEF Init, TypeOK, Exchanges, Outcomes

LEMMA TypeAsked ==
  ASSUME TypeOK, NEW c \in Callers, NEW k \in Kids \cup {NoKid},
         Found(c, k) \/ Joins(c, k) \/ Starts(c, k) \/ Refused(c, k)
  PROVE  TypeOK'
<1>1. CallTypes'
  BY BecomeTypes DEF Found, Joins, Join, Starts, Start, Refused, RefuseByWindow, Return, Stages, Outcomes, Loading
<1> USE NodeAssumption, BackoffAssumption DEF TypeOK, CallTypes, Stages, store, gates, server
<1>2. CASE Found(c, k) \/ Joins(c, k)
  BY <1>1, <1>2 DEF Found, Joins, Join
<1>3. CASE Starts(c, k)
  <2>1. fetch' \in Exchanges
    BY <1>3, FetchSent DEF Starts, Start
  <2> QED
    BY <1>1, <1>3, <2>1 DEF Starts, Start, Exchanges
<1>4. CASE Refused(c, k)
  BY <1>1, <1>4 DEF Refused, RefuseByWindow, Forget
<1> QED
  BY <1>2, <1>3, <1>4

LEMMA TypeCaller ==
  ASSUME TypeOK, NEW c \in Callers,
         (\E k \in Kids : RefuseBackingOff(c, k) \/ Validate(c, k)) \/ Resume(c) \/ Imported(c)
  PROVE  TypeOK'
<1>1. CASE LookUpLoaded(c)
  <2>1. LookUp(c, kid[c]) /\ Resumed(c) /\ kid[c] \in Kids \cup {NoKid}
    BY <1>1 DEF LookUpLoaded, Resumed, TypeOK
  <2>2. Found(c, kid[c]) \/ Joins(c, kid[c]) \/ Starts(c, kid[c]) \/ Refused(c, kid[c])
    BY <2>1 DEF LookUp, Found, Joins, Starts, Refused, Loading
  <2> QED
    BY <2>1, <2>2, TypeAsked
<1>2. ASSUME NEW k \in Kids, Validate(c, k) PROVE TypeOK'
  <2>1. Asks(c) /\ ~Resumed(c)
    BY <1>2 DEF Asks, Validate, Resumed, Outcomes
  <2> QED
    BY <2>1, AskSplit, TypeAsked DEF Asked
<1> USE NodeAssumption, BackoffAssumption DEF TypeOK, CallTypes, Stages, store, gates, server
<1>3. ASSUME NEW k \in Kids, RefuseBackingOff(c, k) PROVE TypeOK'
  <2>1. CallTypes'
    BY <1>3, BecomeTypes DEF RefuseBackingOff, Return, Outcomes
  <2> QED
    BY <1>3, <2>1 DEF RefuseBackingOff
<1>4. CASE LookUpAgain(c) \/ Imported(c)
  <2>1. CallTypes'
    BY <1>4, BecomeTypes DEF LookUpAgain, Imported, Return, Outcomes
  <2>2. failures' \in 0..MaxFailures /\ backoff' \in 0..BackoffCap /\ failed' \in 0..MaxFailures
    BY <1>4 DEF LookUpAgain, Imported, Forget
  <2> QED
    BY <1>4, <2>1, <2>2 DEF LookUpAgain, Imported
<1>5. CASE Forgiven(c)
  <2>1. CallTypes'
    BY <1>5, BecomeTypes DEF Forgiven, Return, Outcomes
  <2> QED
    BY <1>5, <2>1, NoFetchFields DEF Forgiven, Forget, Exchanges
<1>6. CASE Counted(c)
  <2>1. CallTypes'
    BY <1>6, BecomeTypes DEF Counted, Return, Outcomes
  <2>2. failures' \in 0..MaxFailures
    BY <1>6 DEF Counted, Smaller
  <2>3. backoff' \in 0..BackoffCap /\ rest' \in 0..BackoffCap
    BY <1>6, DelaysBounded DEF Counted
  <2> QED
    BY <1>6, <2>1, <2>2, <2>3, NoFetchFields DEF Counted, Exchanges
<1> QED
  BY <1>1, <1>2, <1>3, <1>4, <1>5, <1>6 DEF Resume

LEMMA TypeExchange ==
  ASSUME TypeOK, Exchange
  PROVE  TypeOK'
<1> USE NodeAssumption, BackoffAssumption DEF TypeOK, store, gates, calls, server
<1>1. CASE Reply
  BY <1>1, RepliedFields DEF Reply, Exchanges
<1>2. CASE FetchFails
  <2>1. failed' \in 0..MaxFailures
    BY <1>2 DEF FetchFails, Smaller
  <2>2. pc' \in [Callers -> Stages]
    BY <1>2 DEF FetchFails, Ready, Stages
  <2> QED
    BY <1>2, <2>1, <2>2, FailedFields DEF FetchFails, Exchanges, Stages
<1>3. CASE Succeed
  <2>1. pc' \in [Callers -> Stages]
    BY <1>3 DEF Succeed, Awaits, ReadyIn, Loading, Ready, Stages
  <2> QED
    BY <1>3, <2>1, NoFetchFields DEF Succeed, Exchanges, Stages
<1> QED
  BY <1>1, <1>2, <1>3 DEF Exchange

LEMMA TypeEnvironment ==
  ASSUME TypeOK, Tick \/ (\E S \in (SUBSET Kids) \ {{}} : Rotate(S))
  PROVE  TypeOK'
<1> USE NodeAssumption, BackoffAssumption DEF TypeOK, store, gates, calls, server
<1>1. CASE Tick
  <2>1. /\ age' \in 0..Lifetime /\ attemptAge' \in 0..MinRefetch /\ backoff' \in 0..BackoffCap
        /\ rest' \in 0..BackoffCap /\ since' \in [Kids -> 0..Horizon]
    BY <1>1, AgesStayInRange DEF Tick
  <2>2. fetch' \in Exchanges
    BY <1>1, TickFields
  <2> QED
    BY <1>1, <2>1, <2>2 DEF Tick, Exchanges
<1>2. CASE \E S \in (SUBSET Kids) \ {{}} : Rotate(S)
  BY <1>2 DEF Rotate
<1> QED
  BY <1>1, <1>2

(* The key store keeps its types. *)
THEOREM TypeCorrect == Spec => []TypeOK
<1>1. TypeOK /\ [Next]_vars => TypeOK'
  <2> SUFFICES ASSUME TypeOK, [Next]_vars PROVE TypeOK'
    OBVIOUS
  <2>1. CASE UNCHANGED vars
    BY <2>1 DEF TypeOK, vars
  <2> QED
    BY <2>1, TypeCaller, TypeExchange, TypeEnvironment DEF Next
<1> QED
  BY <1>1, TypeInit, PTL DEF Spec

-----------------------------------------------------------------------------
(* How the calls wait: a call inside a lookup has a key id; a fetch on its  *)
(* way has a call that awaits it, and one that failed has a call still to   *)
(* be told so; a call resumed by a success looks into a set just obtained.  *)
KidKept    == \A c \in Callers : pc[c] \notin Outcomes => kid[c] \in Kids
ReadyFresh == \A c \in Callers : pc[c] \in {"first_ready", "second_ready"} => age = 0
AwaitedBy  == Pending => \E c \in Callers : Awaits(c)
ToldTo     == fetch.st = "failed" => \E c \in Callers : pc[c] = "raised"
OneOutcome ==
  (\E c \in Callers : pc[c] = "raised") =>
    ~Pending /\ \A d \in Callers : pc[d] \notin {"first_ready", "second_ready"}
Sched      == KidKept /\ ReadyFresh /\ AwaitedBy /\ ToldTo /\ OneOutcome

LEMMA SchedInit == Init => Sched
BY NoFetchFields DEF Init, Sched, KidKept, ReadyFresh, AwaitedBy, ToldTo, OneOutcome, Pending, Outcomes

(* The stage of a call after its step, and that of the others. *)
LEMMA BecomeFields ==
  ASSUME TypeOK, NEW c \in Callers, NEW k, NEW stage, Become(c, k, stage)
  PROVE  /\ pc'[c] = stage /\ kid'[c] = k
         /\ \A d \in Callers \ {c} : pc'[d] = pc[d] /\ kid'[d] = kid[d]
BY DEF TypeOK, Become

LEMMA SchedSettled ==  \* a call that neither awaits a fetch nor was told of a failed one
  ASSUME TypeOK, Sched, NEW c \in Callers, pc[c] \notin Loading \cup {"raised"},
         NEW k \in Kids \cup {NoKid}, NEW stage \in Outcomes \cup {"importing"}, Become(c, k, stage),
         stage = "importing" => k \in Kids,
         UNCHANGED <<age, fetch>>
  PROVE  Sched'
<1>1. /\ pc'[c] = stage /\ kid'[c] = k
      /\ \A d \in Callers \ {c} : pc'[d] = pc[d] /\ kid'[d] = kid[d]
  BY BecomeFields
<1>2. KidKept' /\ ReadyFresh'
  BY <1>1 DEF Sched, KidKept, ReadyFresh, Outcomes
<1>3. AwaitedBy'
  BY <1>1 DEF Sched, AwaitedBy, Awaits, Pending
<1>4. ToldTo'
  BY <1>1 DEF Sched, ToldTo
<1>5. OneOutcome'
  BY <1>1 DEF Sched, OneOutcome, Pending, Outcomes
<1> QED
  BY <1>2, <1>3, <1>4, <1>5 DEF Sched

LEMMA SchedAsked ==
  ASSUME TypeOK, Sched, NEW c \in Callers, NEW k \in Kids, Asked(c, k)
  PROVE  Sched'
<1>1. pc[c] \notin Loading \cup {"raised"}
  BY DEF Asked, Entering, Resumed, Outcomes, Loading
<1>2. fetch.st # "failed" /\ \A d \in Callers : pc[d] # "raised"
  BY DEF Asked, Entering, Resumed, LoopIdle, Ready, Sched, ToldTo, OneOutcome
<1>3. CASE Found(c, k) \/ Refused(c, k)
  BY <1>1, <1>3, SchedSettled DEF Found, Refused, RefuseByWindow, Return, store, Outcomes
<1>4. CASE Joins(c, k) \/ Starts(c, k)
  <2>1. PICK stage \in Loading : Join(c, k, stage) \/ Start(c, k, stage)
    BY <1>4 DEF Joins, Starts
  <2>2. /\ pc'[c] = stage /\ kid'[c] = k
        /\ \A d \in Callers \ {c} : pc'[d] = pc[d] /\ kid'[d] = kid[d]
    BY <2>1, BecomeFields DEF Join, Start
  <2>3. UNCHANGED age /\ fetch'.st # "failed"
    BY <1>2, <2>1, FetchSent DEF Join, Start, store
  <2>4. KidKept' /\ ReadyFresh'
    BY <2>2, <2>3 DEF Sched, KidKept, ReadyFresh, Loading
  <2>5. Awaits(c)'
    BY <2>2 DEF Awaits
  <2>6. \A d \in Callers : pc'[d] # "raised"
    BY <1>2, <2>2 DEF Loading
  <2> QED
    BY <2>3, <2>4, <2>5, <2>6 DEF Sched, AwaitedBy, ToldTo, OneOutcome
<1> QED
  BY <1>3, <1>4 DEF Asked

LEMMA SchedCaller ==
  ASSUME TypeOK, Sched, NEW c \in Callers,
         (\E k \in Kids : RefuseBackingOff(c, k) \/ Validate(c, k)) \/ Resume(c) \/ Imported(c)
  PROVE  Sched'
<1>1. CASE Asks(c)
  <2>1. Resumed(c) => kid[c] \in Kids
    BY DEF Resumed, Sched, KidKept, Outcomes
  <2> QED
    BY <1>1, <2>1, AskSplit, SchedAsked
<1>2. ASSUME NEW k \in Kids, RefuseBackingOff(c, k) PROVE Sched'
  BY <1>2, SchedSettled DEF RefuseBackingOff, Return, store, Outcomes, Loading
<1>3. CASE LookUpAgain(c) \/ Imported(c)
  <2>1. kid[c] \in Kids /\ pc[c] \notin Loading \cup {"raised"}
    BY <1>3 DEF LookUpAgain, Imported, Sched, KidKept, Outcomes, Loading
  <2> QED
    BY <1>3, <2>1, SchedSettled DEF LookUpAgain, Imported, Return, store, Outcomes
<1>4. CASE Forgiven(c) \/ Counted(c)
  <2>1. pc[c] = "raised" /\ Become(c, NoKid, "fetch_failed") /\ UNCHANGED age /\ fetch'.st = "none"
    BY <1>4, NoFetchFields DEF Forgiven, Counted, Return, store
  <2>2. /\ pc'[c] = "fetch_failed"
        /\ \A d \in Callers \ {c} : pc'[d] = pc[d] /\ kid'[d] = kid[d]
    BY <2>1, BecomeFields
  <2>3. KidKept' /\ ReadyFresh'
    BY <2>1, <2>2 DEF Sched, KidKept, ReadyFresh, Outcomes
  <2>4. AwaitedBy' /\ ToldTo'
    BY <2>1 DEF AwaitedBy, ToldTo, Pending
  <2>5. OneOutcome'
    BY <2>1, <2>2 DEF Sched, OneOutcome, Pending
  <2> QED
    BY <2>3, <2>4, <2>5 DEF Sched
<1> QED
  BY <1>1, <1>2, <1>3, <1>4 DEF Resume, Asks

LEMMA SchedExchange ==
  ASSUME TypeOK, Sched, Exchange
  PROVE  Sched'
<1>1. CASE Reply
  <2>1. Pending /\ Pending' /\ fetch'.st = "replied" /\ UNCHANGED <<age, pc, kid>>
    BY <1>1, RepliedFields DEF Reply, Pending, store, calls
  <2> QED
    BY <2>1 DEF Sched, KidKept, ReadyFresh, AwaitedBy, Awaits, ToldTo, OneOutcome
<1>2. CASE FetchFails
  <2>1. LoopIdle /\ Pending /\ fetch'.st = "failed" /\ UNCHANGED <<age, kid>>
    BY <1>2, FailedFields DEF FetchFails, store
  <2>2. \A c \in Callers : pc'[c] = IF Awaits(c) THEN "raised" ELSE pc[c]
    BY <1>2 DEF FetchFails
  <2>3. PICK c \in Callers : Awaits(c)
    BY <2>1 DEF Sched, AwaitedBy
  <2>4. \A d \in Callers : pc'[d] \notin {"first_ready", "second_ready"}
    BY <2>1, <2>2 DEF LoopIdle, Ready
  <2>5. KidKept'
    BY <2>1, <2>2 DEF Sched, KidKept, Awaits, Loading, Outcomes
  <2>6. ToldTo'
    BY <2>2, <2>3 DEF ToldTo
  <2> QED
    BY <2>1, <2>4, <2>5, <2>6 DEF Sched, ReadyFresh, AwaitedBy, OneOutcome, Pending
<1>3. CASE Succeed
  <2>1. LoopIdle /\ age' = 0 /\ fetch'.st = "none" /\ UNCHANGED kid
    BY <1>3, NoFetchFields DEF Succeed
  <2>2. \A c \in Callers : pc'[c] = IF Awaits(c) THEN ReadyIn[pc[c]] ELSE pc[c]
    BY <1>3 DEF Succeed
  <2>3. \A c \in Callers : pc'[c] # "raised"
    BY <2>1, <2>2 DEF LoopIdle, Ready, Awaits, ReadyIn, Loading
  <2>4. KidKept'
    BY <2>1, <2>2 DEF Sched, KidKept, Awaits, Loading, Outcomes
  <2> QED
    BY <2>1, <2>3, <2>4 DEF Sched, ReadyFresh, AwaitedBy, ToldTo, OneOutcome, Pending
<1> QED
  BY <1>1, <1>2, <1>3 DEF Exchange

LEMMA SchedStep == TypeOK /\ Sched /\ [Next]_vars => Sched'
<1> SUFFICES ASSUME TypeOK, Sched, [Next]_vars PROVE Sched'
  OBVIOUS
<1> USE DEF Sched, KidKept, ReadyFresh, AwaitedBy, Awaits, ToldTo, OneOutcome, Pending
<1>1. CASE UNCHANGED vars
  BY <1>1 DEF vars
<1>2. CASE Tick
  <2>1. LoopIdle /\ UNCHANGED <<pc, kid>> /\ fetch'.st = fetch.st
    BY <1>2, TickFields DEF Tick, calls
  <2>2. ReadyFresh'
    BY <2>1 DEF LoopIdle, Ready
  <2> QED
    BY <2>1, <2>2
<1>3. ASSUME NEW S \in (SUBSET Kids) \ {{}}, Rotate(S) PROVE Sched'
  BY <1>3 DEF Rotate, store, calls
<1> QED
  BY <1>1, <1>2, <1>3, SchedCaller, SchedExchange DEF Next

-----------------------------------------------------------------------------
(* What follows holds as long as no time passes while jose imports a key it *)
(* has found: otherwise the set may expire under the lookup.                *)
Instant == ~SlowImport

(* Why an accepted key is recent: a key that is held, on its way or being   *)
(* imported and is not the provider's any longer was withdrawn at most one  *)
(* exchange before the set it came with was obtained.                       *)
Replied    == fetch.st = "replied"
SetRecent  == Fresh => \A k \in keys : k \in idp \/ since[k] <= age + FetchMax
NextRecent == Replied => \A k \in fetch.set : k \in idp \/ since[k] <= fetch.age
ImportJust ==
  \A c \in Callers : pc[c] = "importing" =>
    Fresh /\ kid[c] \in Kids /\ (kid[c] \in idp \/ since[kid[c]] < Lifetime + FetchMax)
RecentKeys == SetRecent /\ NextRecent /\ ImportJust

LEMMA RecentInit == Init => RecentKeys
BY NoFetchFields DEF Init, RecentKeys, SetRecent, NextRecent, ImportJust, Replied

LEMMA HeldIsJust ==
  ASSUME TypeOK, SetRecent, Fresh, NEW k \in keys
  PROVE  k \in Kids /\ (k \in idp \/ since[k] < Lifetime + FetchMax)
<1>1. k \in Kids /\ since[k] \in Nat /\ age \in Nat /\ age < Lifetime
  BY NodeAssumption DEF Fresh, TypeOK
<1> QED
  BY <1>1, NodeAssumption DEF SetRecent

(* A step of a call that takes a key only from a fresh set. *)
LEMMA RecentBecome ==
  ASSUME TypeOK, RecentKeys, NEW c \in Callers, NEW k, NEW stage, Become(c, k, stage),
         stage = "importing" => Fresh /\ k \in keys,
         UNCHANGED <<keys, age, idp, since>>, fetch' = fetch \/ ~Replied'
  PROVE  RecentKeys'
<1>1. /\ pc'[c] = stage /\ kid'[c] = k
      /\ \A d \in Callers \ {c} : pc'[d] = pc[d] /\ kid'[d] = kid[d]
  BY BecomeFields
<1>2. SetRecent' /\ NextRecent'
  BY DEF RecentKeys, SetRecent, NextRecent, Replied, Fresh
<1>3. stage = "importing" => k \in Kids /\ (k \in idp \/ since[k] < Lifetime + FetchMax)
  BY HeldIsJust DEF RecentKeys
<1>4. ImportJust'
  BY <1>1, <1>3 DEF RecentKeys, ImportJust, Fresh
<1> QED
  BY <1>2, <1>4 DEF RecentKeys

LEMMA ReadyIsFresh ==
  ASSUME Sched, NEW c \in Callers, pc[c] \in {"first_ready", "second_ready"}
  PROVE  age = 0 /\ Fresh
BY NodeAssumption DEF Sched, ReadyFresh, Fresh

LEMMA RecentCaller ==
  ASSUME TypeOK, Sched, RecentKeys, NEW c \in Callers,
         (\E k \in Kids : RefuseBackingOff(c, k) \/ Validate(c, k)) \/ Resume(c) \/ Imported(c)
  PROVE  RecentKeys'
<1>1. ASSUME NEW k \in Kids, Asked(c, k) PROVE RecentKeys'
  <2>1. CASE Found(c, k)
    <3>1. Fresh /\ k \in keys /\ Become(c, k, "importing") /\ UNCHANGED <<keys, age, idp, since, fetch>>
      BY <2>1, ReadyIsFresh DEF Found, Resumed, store, server
    <3> QED
      BY <3>1, RecentBecome
  <2>2. CASE Joins(c, k) \/ Starts(c, k)
    <3>1. PICK stage \in Loading : Join(c, k, stage) \/ Start(c, k, stage)
      BY <2>2 DEF Joins, Starts
    <3>2. Become(c, k, stage) /\ UNCHANGED <<keys, age, idp, since>> /\ (fetch' = fetch \/ ~Replied')
      BY <3>1, FetchSent DEF Join, Start, Replied, store, server
    <3>3. stage # "importing"
      BY DEF Loading
    <3> QED
      BY <3>2, <3>3, RecentBecome
  <2>3. CASE Refused(c, k)
    BY <2>3, RecentBecome DEF Refused, RefuseByWindow, Return, store, server
  <2> QED
    BY <1>1, <2>1, <2>2, <2>3 DEF Asked
<1>2. CASE Asks(c)
  <2>1. Resumed(c) => kid[c] \in Kids
    BY DEF Resumed, Sched, KidKept, Outcomes
  <2> QED
    BY <1>1, <1>2, <2>1, AskSplit
<1>3. ASSUME NEW k \in Kids, RefuseBackingOff(c, k) PROVE RecentKeys'
  BY <1>3, RecentBecome DEF RefuseBackingOff, Return, store, server
<1>4. CASE LookUpAgain(c)
  <2>1. Fresh /\ UNCHANGED <<keys, age, idp, since, fetch>>
    BY <1>4, ReadyIsFresh DEF LookUpAgain, store, server
  <2>2. CASE kid[c] \in keys
    BY <1>4, <2>1, <2>2, RecentBecome DEF LookUpAgain
  <2>3. CASE kid[c] \notin keys
    BY <1>4, <2>1, <2>3, RecentBecome DEF LookUpAgain, Return
  <2> QED
    BY <2>2, <2>3
<1>5. CASE Imported(c)
  BY <1>5, RecentBecome DEF Imported, Return, store, server
<1>6. CASE Forgiven(c) \/ Counted(c)
  <2>1. /\ Become(c, NoKid, "fetch_failed") /\ UNCHANGED <<keys, age, idp, since>> /\ ~Replied'
    BY <1>6, NoFetchFields DEF Forgiven, Counted, Return, Replied, store, server
  <2> QED
    BY <2>1, RecentBecome
<1> QED
  BY <1>2, <1>3, <1>4, <1>5, <1>6 DEF Resume, Asks

LEMMA RecentExchange ==
  ASSUME TypeOK, RecentKeys, Exchange
  PROVE  RecentKeys'
<1>1. CASE Reply
  <2>1. Replied' /\ (fetch'.set = idp \/ fetch'.set = {}) /\ UNCHANGED <<keys, age, idp, since, pc, kid>>
    BY <1>1, RepliedFields DEF Reply, Replied, store, calls, server
  <2> QED
    BY <2>1 DEF RecentKeys, SetRecent, NextRecent, ImportJust, Fresh
<1>2. CASE FetchFails
  <2>1. ~Replied' /\ UNCHANGED <<keys, age, idp, since, kid>>
    BY <1>2, FailedFields DEF FetchFails, Replied, store, server
  <2>2. \A c \in Callers : pc'[c] = "importing" => pc[c] = "importing"
    BY <1>2 DEF FetchFails
  <2> QED
    BY <2>1, <2>2 DEF RecentKeys, SetRecent, NextRecent, ImportJust, Fresh
<1>3. CASE Succeed
  <2>1. Replied /\ ~Replied' /\ keys' = fetch.set /\ age' = 0 /\ UNCHANGED <<idp, since, kid>>
    BY <1>3, NoFetchFields DEF Succeed, Replied, server
  <2>2. \A c \in Callers : pc'[c] = "importing" => pc[c] = "importing"
    BY <1>3 DEF Succeed, Awaits, ReadyIn, Loading
  <2>3. fetch.age \in 0..FetchMax /\ \A k \in fetch.set : since[k] \in Nat
    BY NodeAssumption DEF TypeOK
  <2>4. SetRecent'
    BY <2>1, <2>3, NodeAssumption DEF RecentKeys, SetRecent, NextRecent
  <2>5. Fresh'
    BY <2>1, NodeAssumption DEF Fresh
  <2> QED
    BY <2>1, <2>2, <2>4, <2>5 DEF RecentKeys, NextRecent, ImportJust
<1> QED
  BY <1>1, <1>2, <1>3 DEF Exchange

LEMMA RecentTick ==
  ASSUME Instant, TypeOK, RecentKeys, Tick
  PROVE  RecentKeys'
<1>1. UNCHANGED <<keys, idp, pc>> /\ age' = Smaller(age + 1, Lifetime)
  BY DEF Tick, calls
<1>2. \A k \in Kids : since[k] \in Nat /\ since'[k] \in Nat /\ since'[k] <= since[k] + 1
  BY NodeAssumption DEF Tick, TypeOK, Smaller
<1>3. SetRecent'
  BY <1>1, <1>2, NodeAssumption DEF RecentKeys, SetRecent, Fresh, Smaller, TypeOK
<1>4. ASSUME Replied', NEW k \in fetch'.set PROVE k \in idp' \/ since'[k] <= fetch'.age
  <2>1. Replied /\ fetch'.set = fetch.set /\ fetch'.age = fetch.age + 1
    BY <1>4, TickFields DEF Replied, Pending
  <2>2. k \in Kids /\ fetch.age \in 0..FetchMax
    BY <1>4, <2>1 DEF TypeOK
  <2>3. k \in idp \/ since[k] <= fetch.age
    BY <1>4, <2>1 DEF RecentKeys, NextRecent
  <2> QED
    BY <1>1, <1>2, <2>1, <2>2, <2>3, NodeAssumption
<1>5. \A c \in Callers : pc'[c] # "importing"
  BY <1>1 DEF Tick, Instant
<1> QED
  BY <1>3, <1>4, <1>5 DEF RecentKeys, NextRecent, ImportJust

LEMMA RecentRotate ==
  ASSUME TypeOK, RecentKeys, NEW S \in SUBSET Kids, Rotate(S)
  PROVE  RecentKeys'
<1>1. UNCHANGED <<keys, age, fetch, pc, kid>> /\ idp' = S
  BY DEF Rotate, store, calls
<1>2. \A k \in Kids \ S : IF k \in idp THEN since'[k] = 0 ELSE since'[k] = since[k]
  BY DEF Rotate
<1>3. SetRecent'
  BY <1>1, <1>2, NodeAssumption DEF RecentKeys, SetRecent, Fresh, TypeOK
<1>4. ASSUME Replied', NEW k \in fetch'.set PROVE k \in idp' \/ since'[k] <= fetch'.age
  <2>1. k \in Kids /\ fetch.age \in 0..FetchMax
    BY <1>1, <1>4 DEF TypeOK
  <2> QED
    BY <1>1, <1>2, <1>4, <2>1, NodeAssumption DEF RecentKeys, NextRecent, Replied
<1>5. ImportJust'
  BY <1>1, <1>2, NodeAssumption DEF RecentKeys, ImportJust, Fresh
<1> QED
  BY <1>3, <1>4, <1>5 DEF RecentKeys, NextRecent

LEMMA RecentStep == ASSUME Instant PROVE TypeOK /\ Sched /\ RecentKeys /\ [Next]_vars => RecentKeys'
<1> SUFFICES ASSUME TypeOK, Sched, RecentKeys, [Next]_vars PROVE RecentKeys'
  OBVIOUS
<1>1. CASE UNCHANGED vars
  BY <1>1 DEF RecentKeys, SetRecent, NextRecent, ImportJust, Replied, Fresh, vars
<1>2. ASSUME NEW S \in (SUBSET Kids) \ {{}}, Rotate(S) PROVE RecentKeys'
  BY <1>2, RecentRotate
<1> QED
  BY Instant, <1>1, <1>2, RecentCaller, RecentExchange, RecentTick DEF Next

-----------------------------------------------------------------------------
(* Why the window refuses no key without a reason: how the attempt that     *)
(* opened it ended, and that after a success it misses only keys published  *)
(* since it opened.                                                         *)
WindowRuns   == window = "running" <=> Pending
WindowCovers == Pending /\ ~WindowOver => fetch.age <= attemptAge
SetIsWhole   == Replied => fetch.set = {} \/ \A k \in idp \ fetch.set : since[k] <= fetch.age
WindowIsJust ==
  /\ window = "none" => WindowOver
  /\ window = "ok" /\ ~WindowOver => \A k \in idp \ keys : since[k] <= attemptAge
WindowInv == WindowRuns /\ WindowCovers /\ SetIsWhole /\ WindowIsJust

LEMMA WindowInit == Init => WindowInv
BY NodeAssumption, NoFetchFields
   DEF Init, WindowInv, WindowRuns, WindowCovers, SetIsWhole, WindowIsJust, WindowOver, Pending, Replied

LEMMA WindowSame ==
  ASSUME WindowInv, UNCHANGED <<keys, attemptAge, idp, since, window>>,
         fetch' = fetch \/ (~Pending /\ ~Pending')
  PROVE  WindowInv'
BY DEF WindowInv, WindowRuns, WindowCovers, SetIsWhole, WindowIsJust, WindowOver, Pending, Replied

LEMMA WindowAsked ==
  ASSUME TypeOK, WindowInv, NEW c \in Callers, NEW k \in Kids, Asked(c, k)
  PROVE  WindowInv'
<1>1. CASE Starts(c, k)
  <2>1. /\ fetch'.st = "sent" /\ fetch'.age = 0 /\ attemptAge' = 0 /\ window' = "running"
        /\ UNCHANGED <<keys, idp, since>>
    BY <1>1, FetchSent DEF Starts, Start, store, server
  <2> QED
    BY <2>1 DEF WindowInv, WindowRuns, WindowCovers, SetIsWhole, WindowIsJust, Pending, Replied
<1>2. CASE Found(c, k) \/ Joins(c, k) \/ Refused(c, k)
  BY <1>2, WindowSame DEF Found, Joins, Join, Refused, RefuseByWindow, store, gates, server
<1> QED
  BY <1>1, <1>2 DEF Asked

LEMMA WindowCaller ==
  ASSUME TypeOK, Sched, WindowInv, NEW c \in Callers,
         (\E k \in Kids : RefuseBackingOff(c, k) \/ Validate(c, k)) \/ Resume(c) \/ Imported(c)
  PROVE  WindowInv'
<1>1. CASE Asks(c)
  <2>1. Resumed(c) => kid[c] \in Kids
    BY DEF Resumed, Sched, KidKept, Outcomes
  <2> QED
    BY <1>1, <2>1, AskSplit, WindowAsked
<1>2. CASE (\E k \in Kids : RefuseBackingOff(c, k)) \/ LookUpAgain(c) \/ Imported(c)
  BY <1>2, WindowSame DEF RefuseBackingOff, LookUpAgain, Imported, store, gates, server
<1>3. CASE Forgiven(c) \/ Counted(c)
  <2>1. pc[c] = "raised" /\ fetch'.st = "none" /\ UNCHANGED <<keys, attemptAge, idp, since, window>>
    BY <1>3, NoFetchFields DEF Forgiven, Counted, store, server
  <2>2. ~Pending /\ ~Pending'
    BY <2>1 DEF Sched, OneOutcome, Pending
  <2> QED
    BY <2>1, <2>2, WindowSame
<1> QED
  BY <1>1, <1>2, <1>3 DEF Resume, Asks

LEMMA WindowExchange ==
  ASSUME TypeOK, WindowInv, Exchange
  PROVE  WindowInv'
<1>1. CASE Reply
  <2>1. /\ Pending /\ fetch'.st = "replied" /\ fetch'.age = fetch.age
        /\ fetch'.set = idp \/ fetch'.set = {}
        /\ UNCHANGED <<keys, attemptAge, idp, since, window>>
    BY <1>1, RepliedFields DEF Reply, Pending, store, gates, server
  <2> QED
    BY <2>1 DEF WindowInv, WindowRuns, WindowCovers, SetIsWhole, WindowIsJust, WindowOver, Pending
<1>2. CASE FetchFails
  <2>1. fetch'.st = "failed" /\ window' = "failed" /\ UNCHANGED <<keys, attemptAge, idp, since>>
    BY <1>2, FailedFields DEF FetchFails, store, server
  <2> QED
    BY <2>1 DEF WindowInv, WindowRuns, WindowCovers, SetIsWhole, WindowIsJust, Pending, Replied
<1>3. CASE Succeed
  <2>1. /\ Replied /\ Pending /\ fetch'.st = "none" /\ window' = "ok"
        /\ keys' = fetch.set /\ fetch.set # {} /\ UNCHANGED <<attemptAge, idp, since>>
    BY <1>3, NoFetchFields DEF Succeed, Replied, Pending, server
  <2>2. ASSUME ~WindowOver, NEW k \in idp \ fetch.set PROVE since[k] <= attemptAge
    <3>1. since[k] \in Nat /\ fetch.age \in Nat /\ attemptAge \in Nat
      BY NodeAssumption DEF TypeOK
    <3>2. since[k] <= fetch.age /\ fetch.age <= attemptAge
      BY <2>1, <2>2 DEF WindowInv, SetIsWhole, WindowCovers
    <3> QED
      BY <3>1, <3>2
  <2>3. WindowIsJust'
    BY <2>1, <2>2 DEF WindowIsJust, WindowOver
  <2> QED
    BY <2>1, <2>3 DEF WindowInv, WindowRuns, WindowCovers, SetIsWhole, Pending, Replied
<1> QED
  BY <1>1, <1>2, <1>3 DEF Exchange

LEMMA WindowTick ==
  ASSUME TypeOK, WindowInv, Tick
  PROVE  WindowInv'
<1>1. UNCHANGED <<keys, idp, window>> /\ attemptAge' = Smaller(attemptAge + 1, MinRefetch)
  BY DEF Tick
<1>2. /\ fetch'.st = fetch.st /\ fetch'.set = fetch.set
      /\ Pending => fetch'.age = fetch.age + 1
  BY TickFields
<1>3. \A k \in Kids : since[k] \in Nat /\ since'[k] \in Nat /\ since'[k] <= since[k] + 1
  BY NodeAssumption DEF Tick, TypeOK, Smaller
<1>4. /\ attemptAge \in Nat /\ fetch.age \in Nat /\ idp \subseteq Kids
      /\ ~WindowOver' => ~WindowOver /\ attemptAge' = attemptAge + 1
      /\ WindowOver => WindowOver'
  BY <1>1, NodeAssumption DEF TypeOK, WindowOver, Smaller
<1>5. WindowRuns' /\ WindowCovers'
  BY <1>1, <1>2, <1>4 DEF WindowInv, WindowRuns, WindowCovers, Pending
<1>6. SetIsWhole'
  <2>1. ASSUME Replied', fetch'.set # {}, NEW k \in idp' \ fetch'.set PROVE since'[k] <= fetch'.age
    <3>1. Replied /\ fetch'.age = fetch.age + 1
      BY <1>2, <2>1 DEF Replied, Pending
    <3>2. since[k] <= fetch.age
      BY <1>1, <1>2, <2>1, <3>1 DEF WindowInv, SetIsWhole
    <3> QED
      BY <1>1, <1>3, <1>4, <2>1, <3>1, <3>2
  <2> QED
    BY <1>2, <2>1 DEF SetIsWhole
<1>7. WindowIsJust'
  <2>1. ASSUME window = "ok", ~WindowOver', NEW k \in idp' \ keys' PROVE since'[k] <= attemptAge'
    <3>1. since[k] <= attemptAge
      BY <1>1, <1>4, <2>1 DEF WindowInv, WindowIsJust
    <3> QED
      BY <1>1, <1>3, <1>4, <2>1, <3>1
  <2> QED
    BY <1>1, <1>4, <2>1 DEF WindowInv, WindowIsJust
<1> QED
  BY <1>5, <1>6, <1>7 DEF WindowInv

LEMMA WindowRotate ==
  ASSUME TypeOK, WindowInv, NEW S \in SUBSET Kids, Rotate(S)
  PROVE  WindowInv'
<1>1. UNCHANGED <<keys, attemptAge, fetch, window>> /\ idp' = S
  BY DEF Rotate, store, gates
<1>2. \A k \in S : IF k \in idp THEN since'[k] = since[k] ELSE since'[k] = 0
  BY DEF Rotate
<1>3. attemptAge >= 0 /\ fetch.age >= 0
  BY NodeAssumption DEF TypeOK
<1>4. SetIsWhole'
  BY <1>1, <1>2, <1>3 DEF WindowInv, SetIsWhole, Replied
<1>5. WindowIsJust'
  BY <1>1, <1>2, <1>3 DEF WindowInv, WindowIsJust, WindowOver
<1> QED
  BY <1>1, <1>4, <1>5 DEF WindowInv, WindowRuns, WindowCovers, WindowOver, Pending

LEMMA WindowStep == TypeOK /\ Sched /\ WindowInv /\ [Next]_vars => WindowInv'
<1> SUFFICES ASSUME TypeOK, Sched, WindowInv, [Next]_vars PROVE WindowInv'
  OBVIOUS
<1>1. CASE UNCHANGED vars
  BY <1>1, WindowSame DEF vars
<1>2. ASSUME NEW S \in (SUBSET Kids) \ {{}}, Rotate(S) PROVE WindowInv'
  BY <1>2, WindowRotate
<1> QED
  BY <1>1, <1>2, WindowCaller, WindowExchange, WindowTick DEF Next

-----------------------------------------------------------------------------
LEMMA AcceptedIsRecent ==
  ASSUME TypeOK, RecentKeys, NEW c \in Callers, pc[c] = "importing"
  PROVE  kid[c] \in idp \/ since[kid[c]] < Lifetime + FetchMax
BY DEF RecentKeys, ImportJust

LEMMA RefusedIsExplained ==
  ASSUME TypeOK, WindowInv, NEW c \in Callers, NEW k \in Kids,
         RefusedUnasked(c, k), k \in idp, since[k] >= MinRefetch
  PROVE  window = "failed"
<1>1. ~Pending /\ Fresh /\ ~WindowOver /\ Become(c, NoKid, "no_key")
  BY DEF RefusedUnasked, RefuseByWindow, Return
<1>2. k \notin keys
  <2>1. LookUp(c, k)
    BY <1>1 DEF RefusedUnasked, Validate, LookUpLoaded
  <2>2. pc'[c] = "no_key"
    BY <1>1, BecomeFields
  <2>3. ~Become(c, k, "importing")
    BY <2>2, BecomeFields
  <2> QED
    BY <2>1, <2>3 DEF LookUp
<1>3. since[k] \in Nat /\ attemptAge \in Nat /\ attemptAge < since[k]
  BY <1>1, NodeAssumption DEF WindowOver, TypeOK
<1>4. window \notin {"none", "running", "ok"}
  BY <1>1, <1>2, <1>3 DEF WindowInv, WindowRuns, WindowIsJust
<1> QED
  BY <1>4 DEF TypeOK

(* A validation is never given a key withdrawn longer ago than the lifetime *)
(* of a set and one exchange, and the window never refuses it a published   *)
(* key but after an attempt that failed.                                    *)
THEOREM AnswersJust == ASSUME Instant PROVE Spec => AnswersAreJust
<1>1. TypeOK /\ RecentKeys /\ [Next]_vars =>
        [\A c \in Callers : pc[c] = "importing" /\ pc'[c] = "accepted" =>
           kid[c] \in idp \/ since[kid[c]] < Lifetime + FetchMax]_vars
  BY AcceptedIsRecent
<1>2. TypeOK /\ WindowInv /\ [Next]_vars =>
        [\A c \in Callers, k \in Kids :
           RefusedUnasked(c, k) /\ k \in idp /\ since[k] >= MinRefetch => window = "failed"]_vars
  BY RefusedIsExplained
<1>3. TypeOK /\ Sched /\ RecentKeys /\ [Next]_vars => RecentKeys'
  BY Instant, RecentStep
<1> QED
  BY <1>1, <1>2, <1>3, TypeCorrect, SchedInit, SchedStep, RecentInit, WindowInit, WindowStep, PTL
     DEF Spec, AnswersAreJust, WithdrawnKeysExpire, RefusalsAreExplained

-----------------------------------------------------------------------------
(* Why the backoff of a counted failure is kept: the counter is behind the  *)
(* fetches that failed, and what is left of the backoff can be forgotten    *)
(* only once a fetch has brought a fresh set.                               *)
CountBehind ==
  /\ failures <= failed
  /\ fetch.st = "failed" => failures < failed \/ failed = MaxFailures
RestCovered == IF Fresh THEN rest = 0 ELSE rest <= backoff
RestInv == CountBehind /\ RestCovered

LEMMA RestInit == Init => RestInv
BY NodeAssumption, BackoffAssumption, NoFetchFields DEF Init, RestInv, CountBehind, RestCovered

LEMMA RestForgotten ==
  ASSUME TypeOK, RestInv, Fresh, Forget, UNCHANGED <<age, rest>>, fetch'.st # "failed"
  PROVE  RestInv'
BY DEF RestInv, CountBehind, RestCovered, Fresh, Forget

LEMMA RestSame ==
  ASSUME RestInv, UNCHANGED <<age, failures, backoff, rest, failed>>, fetch' = fetch \/ fetch'.st # "failed"
  PROVE  RestInv'
BY DEF RestInv, CountBehind, RestCovered, Fresh

LEMMA RestCaller ==
  ASSUME TypeOK, Sched, RecentKeys, RestInv, NEW c \in Callers,
         (\E k \in Kids : RefuseBackingOff(c, k) \/ Validate(c, k)) \/ Resume(c) \/ Imported(c)
  PROVE  RestInv'
<1>1. ASSUME NEW k \in Kids, Asked(c, k) PROVE RestInv'
  <2>1. fetch.st # "failed"
    BY <1>1 DEF Asked, Entering, Resumed, LoopIdle, Ready, Sched, ToldTo, OneOutcome
  <2>2. CASE Found(c, k) \/ Joins(c, k)
    BY <2>2, RestSame DEF Found, Joins, Join, store, gates
  <2>3. CASE Starts(c, k)
    BY <2>3, FetchSent, RestSame DEF Starts, Start, store
  <2>4. CASE Refused(c, k)
    BY <2>1, <2>4, RestForgotten DEF Refused, RefuseByWindow, store
  <2> QED
    BY <1>1, <2>2, <2>3, <2>4 DEF Asked
<1>2. CASE Asks(c)
  <2>1. Resumed(c) => kid[c] \in Kids
    BY DEF Resumed, Sched, KidKept, Outcomes
  <2> QED
    BY <1>1, <1>2, <2>1, AskSplit
<1>3. ASSUME NEW k \in Kids, RefuseBackingOff(c, k) PROVE RestInv'
  BY <1>3, RestSame DEF RefuseBackingOff, store, gates
<1>4. CASE LookUpAgain(c)
  <2>1. Fresh /\ fetch.st # "failed" /\ UNCHANGED <<age, rest, fetch>>
    BY <1>4, ReadyIsFresh DEF LookUpAgain, Sched, ToldTo, OneOutcome, store
  <2>2. (UNCHANGED <<failures, backoff, failed>>) \/ Forget
    BY <1>4 DEF LookUpAgain
  <2> QED
    BY <2>1, <2>2, RestForgotten, RestSame
<1>5. CASE Imported(c)
  <2>1. Fresh /\ fetch.st # "failed"
    BY <1>5 DEF Imported, LoopIdle, Ready, Sched, ToldTo, RecentKeys, ImportJust
  <2> QED
    BY <1>5, <2>1, RestForgotten DEF Imported, store
<1>6. CASE Forgiven(c)
  BY <1>6, NoFetchFields, RestForgotten DEF Forgiven, store
<1>7. CASE Counted(c)
  <2>1. ~Fresh /\ fetch'.st = "none" /\ UNCHANGED <<age, failed>>
    BY <1>7, NoFetchFields DEF Counted, store
  <2>2. CASE fetch.st = "failed"
    <3>1. failures' = Smaller(failures + 1, MaxFailures) /\ rest' = backoff'
      BY <1>7, <2>2 DEF Counted
    <3>2. failures' <= failed'
      BY <2>1, <2>2, <3>1, NodeAssumption DEF RestInv, CountBehind, Smaller, TypeOK
    <3>3. backoff' \in Nat
      BY <1>7, <2>2, DelaysBounded DEF Counted
    <3> QED
      BY <2>1, <3>1, <3>2, <3>3 DEF RestInv, CountBehind, RestCovered, Fresh
  <2>3. CASE fetch.st # "failed"
    BY <1>7, <2>1, <2>3, RestSame DEF Counted
  <2> QED
    BY <2>2, <2>3
<1> QED
  BY <1>2, <1>3, <1>4, <1>5, <1>6, <1>7 DEF Resume, Asks

LEMMA RestExchange ==
  ASSUME TypeOK, RestInv, Exchange
  PROVE  RestInv'
<1>1. CASE Reply
  BY <1>1, RepliedFields, RestSame DEF Reply, store, gates
<1>2. CASE FetchFails
  <2>1. failed' = Smaller(failed + 1, MaxFailures) /\ UNCHANGED <<age, failures, backoff, rest>>
    BY <1>2 DEF FetchFails, store
  <2>2. CountBehind'
    BY <2>1, NodeAssumption DEF RestInv, CountBehind, Smaller, TypeOK
  <2> QED
    BY <2>1, <2>2 DEF RestInv, RestCovered, Fresh
<1>3. CASE Succeed
  <2>1. age' = 0 /\ rest' = 0 /\ fetch'.st = "none" /\ UNCHANGED <<failures, failed>>
    BY <1>3, NoFetchFields DEF Succeed
  <2>2. Fresh'
    BY <2>1, NodeAssumption DEF Fresh
  <2> QED
    BY <2>1, <2>2 DEF RestInv, CountBehind, RestCovered
<1> QED
  BY <1>1, <1>2, <1>3 DEF Exchange

LEMMA RestTick ==
  ASSUME TypeOK, RestInv, Tick
  PROVE  RestInv'
<1>1. /\ UNCHANGED <<failures, failed>> /\ fetch'.st = fetch.st
      /\ age' = Smaller(age + 1, Lifetime)
      /\ backoff' = Larger(backoff - 1, 0) /\ rest' = Larger(rest - 1, 0)
  BY TickFields DEF Tick
<1>2. RestCovered'
  BY <1>1, NodeAssumption, BackoffAssumption DEF RestInv, RestCovered, Fresh, Smaller, Larger, TypeOK
<1> QED
  BY <1>1, <1>2 DEF RestInv, CountBehind

LEMMA RestStep == TypeOK /\ Sched /\ RecentKeys /\ RestInv /\ [Next]_vars => RestInv'
<1> SUFFICES ASSUME TypeOK, Sched, RecentKeys, RestInv, [Next]_vars PROVE RestInv'
  OBVIOUS
<1>1. CASE UNCHANGED vars
  BY <1>1, RestSame DEF vars
<1>2. ASSUME NEW S \in (SUBSET Kids) \ {{}}, Rotate(S) PROVE RestInv'
  BY <1>2, RestSame DEF Rotate, store, gates
<1> QED
  BY <1>1, <1>2, RestCaller, RestExchange, RestTick DEF Next

LEMMA LeavesAtRest ==
  ASSUME TypeOK, Sched, RestInv, Next, Leaves
  PROVE  rest = 0
<1>1. ASSUME NEW c \in Callers, NEW k \in Kids, Asked(c, k) PROVE rest = 0
  <2>1. CASE Fresh
    BY <2>1 DEF RestInv, RestCovered
  <2>2. CASE ~Fresh
    <3>1. backoff = 0
      BY <1>1, <2>2, ReadyIsFresh DEF Asked, Entering, Resumed
    <3> QED
      BY <2>2, <3>1, BackoffAssumption DEF RestInv, RestCovered, TypeOK
  <2> QED
    BY <2>1, <2>2
<1>2. ASSUME NEW c \in Callers, Asks(c) PROVE rest = 0
  <2>1. Resumed(c) => kid[c] \in Kids
    BY DEF Resumed, Sched, KidKept, Outcomes
  <2> QED
    BY <1>1, <1>2, <2>1, AskSplit
<1>3. ASSUME fetch' = fetch \/ fetch'.st # "sent" PROVE FALSE
  BY <1>3 DEF Leaves
<1>4. ASSUME NEW c \in Callers,
             (\E k \in Kids : RefuseBackingOff(c, k)) \/ LookUpAgain(c) \/ Forgiven(c) \/ Counted(c) \/ Imported(c)
      PROVE  FALSE
  BY <1>3, <1>4, NoFetchFields DEF RefuseBackingOff, LookUpAgain, Forgiven, Counted, Imported
<1>5. CASE Exchange
  BY <1>3, <1>5, RepliedFields, FailedFields, NoFetchFields DEF Exchange, Succeed
<1>6. CASE Tick
  BY <1>6, TickFields DEF Leaves
<1>7. ASSUME NEW S \in (SUBSET Kids) \ {{}}, Rotate(S) PROVE FALSE
  BY <1>3, <1>7 DEF Rotate
<1> QED
  BY <1>2, <1>4, <1>5, <1>6, <1>7 DEF Next, Resume, Asks

(* Inside the backoff of a counted failure no request leaves, and a failed  *)
(* fetch is counted once however many lookups shared it.                    *)
THEOREM BackoffKept == ASSUME Instant PROVE Spec => RestIsKept
<1>1. TypeOK /\ Sched /\ RestInv /\ [Next]_vars => [Leaves => rest = 0]_vars
  BY LeavesAtRest
<1>2. RestInv => failures <= failed
  BY DEF RestInv, CountBehind
<1>3. TypeOK /\ Sched /\ RecentKeys /\ [Next]_vars => RecentKeys'
  BY Instant, RecentStep
<1> QED
  BY <1>1, <1>2, <1>3, TypeCorrect, SchedInit, SchedStep, RecentInit, RestInit, RestStep, PTL
     DEF Spec, RestIsKept

-----------------------------------------------------------------------------
(* The key store implements the policy if the deadline of an exchange is    *)
(* shorter than a lifetime: the failures before a success are then          *)
(* forgotten, by a lookup that it resumed, before the set expires.          *)
DeadlineFits == FetchMax < Lifetime
Owed    == failures # 0 \/ backoff # 0
Settles ==
  \/ \E c \in Callers : pc[c] \in Ready \cup {"importing"}
  \/ Pending /\ age <= fetch.age
DebtInv == Fresh /\ Owed => Settles

LEMMA DebtInit == Init => DebtInv
BY DEF Init, DebtInv, Owed

LEMMA DebtAsked ==
  ASSUME TypeOK, Sched, DebtInv, NEW c \in Callers, NEW k \in Kids, Asked(c, k)
  PROVE  DebtInv'
<1>1. UNCHANGED age
  BY DEF Asked, Found, Joins, Join, Starts, Start, Refused, RefuseByWindow, store
<1>2. CASE Found(c, k)
  <2>1. pc'[c] = "importing"
    BY <1>2, BecomeFields DEF Found
  <2> QED
    BY <2>1 DEF DebtInv, Settles
<1>3. CASE Refused(c, k)
  BY <1>3 DEF Refused, RefuseByWindow, Forget, DebtInv, Owed
<1>4. CASE Joins(c, k) \/ Starts(c, k)
  <2>1. PICK stage \in Loading : Join(c, k, stage) \/ Start(c, k, stage)
    BY <1>4 DEF Joins, Starts
  <2>2. UNCHANGED <<failures, backoff>>
    BY <2>1 DEF Join, Start, gates
  <2>3. CASE Resumed(c)
    <3>1. age' = 0
      BY <1>1, <2>3, ReadyIsFresh DEF Resumed
    <3>2. Pending' /\ fetch'.age \in Nat
      <4>1. fetch.age \in Nat
        BY NodeAssumption DEF TypeOK
      <4>2. CASE Join(c, k, stage)
        BY <4>1, <4>2 DEF Join, Pending
      <4>3. CASE Start(c, k, stage)
        BY <4>3, FetchSent DEF Start, Pending
      <4> QED
        BY <2>1, <4>2, <4>3
    <3> QED
      BY <3>1, <3>2 DEF DebtInv, Settles
  <2>4. CASE Entering(c)
    <3>1. ASSUME NEW d \in Callers, pc[d] \in Ready \cup {"importing"}
          PROVE  pc'[d] \in Ready \cup {"importing"}
      <4>1. d # c
        BY <2>4, <3>1 DEF Entering, Outcomes, Ready
      <4> QED
        BY <2>1, <3>1, <4>1, BecomeFields DEF Join, Start
    <3>2. Pending => UNCHANGED fetch
      BY <2>1 DEF Join, Start
    <3> QED
      BY <1>1, <2>2, <3>1, <3>2 DEF DebtInv, Owed, Settles, Fresh, Pending
  <2> QED
    BY <2>3, <2>4 DEF Asked
<1> QED
  BY <1>2, <1>3, <1>4 DEF Asked

LEMMA DebtCaller ==
  ASSUME TypeOK, Sched, DebtInv, NEW c \in Callers,
         (\E k \in Kids : RefuseBackingOff(c, k) \/ Validate(c, k)) \/ Resume(c) \/ Imported(c)
  PROVE  DebtInv'
<1>1. CASE Asks(c)
  <2>1. Resumed(c) => kid[c] \in Kids
    BY DEF Resumed, Sched, KidKept, Outcomes
  <2> QED
    BY <1>1, <2>1, AskSplit, DebtAsked
<1>2. ASSUME NEW k \in Kids, RefuseBackingOff(c, k) PROVE DebtInv'
  <2>1. /\ pc[c] \in Outcomes /\ Become(c, NoKid, "backing_off")
        /\ UNCHANGED <<age, failures, backoff, fetch>>
    BY <1>2 DEF RefuseBackingOff, Return, store, gates
  <2>2. ASSUME NEW d \in Callers, pc[d] \in Ready \cup {"importing"}
        PROVE  pc'[d] \in Ready \cup {"importing"}
    <3>1. d # c
      BY <2>1, <2>2 DEF Outcomes, Ready
    <3> QED
      BY <2>1, <2>2, <3>1, BecomeFields
  <2> QED
    BY <2>1, <2>2 DEF DebtInv, Owed, Settles, Fresh, Pending
<1>3. CASE LookUpAgain(c) /\ kid[c] \in keys
  <2>1. pc'[c] = "importing"
    BY <1>3, BecomeFields DEF LookUpAgain
  <2> QED
    BY <2>1 DEF DebtInv, Settles
<1>4. CASE (LookUpAgain(c) /\ kid[c] \notin keys) \/ Imported(c) \/ Forgiven(c)
  BY <1>4 DEF LookUpAgain, Imported, Forgiven, Forget, DebtInv, Owed
<1>5. CASE Counted(c)
  BY <1>5 DEF Counted, DebtInv, Fresh, store
<1> QED
  BY <1>1, <1>2, <1>3, <1>4, <1>5 DEF Resume, Asks

LEMMA DebtStep == ASSUME Instant, DeadlineFits PROVE TypeOK /\ Sched /\ DebtInv /\ [Next]_vars => DebtInv'
<1> SUFFICES ASSUME TypeOK, Sched, DebtInv, [Next]_vars PROVE DebtInv'
  OBVIOUS
<1>1. CASE UNCHANGED vars
  BY <1>1 DEF vars, DebtInv, Owed, Settles, Fresh, Pending
<1>2. CASE Reply
  <2>1. /\ Pending /\ Pending' /\ fetch'.age = fetch.age /\ UNCHANGED <<age, failures, backoff, pc>>
    BY <1>2, RepliedFields DEF Reply, Pending, store, gates, calls
  <2> QED
    BY <2>1 DEF DebtInv, Owed, Settles, Fresh
<1>3. CASE FetchFails \/ Succeed
  <2>1. PICK c \in Callers : Awaits(c)
    BY <1>3 DEF FetchFails, Succeed, Pending, Sched, AwaitedBy
  <2>2. pc'[c] \in Ready
    BY <1>3, <2>1 DEF FetchFails, Succeed, Awaits, ReadyIn, Loading, Ready
  <2> QED
    BY <2>2 DEF DebtInv, Settles
<1>4. CASE Tick
  <2>1. /\ UNCHANGED <<failures, pc>> /\ age' = Smaller(age + 1, Lifetime)
        /\ backoff' = Larger(backoff - 1, 0)
        /\ \A c \in Callers : pc[c] \notin Ready \cup {"importing"}
    BY <1>4, Instant DEF Tick, LoopIdle, Instant, calls
  <2>2. fetch'.st = fetch.st /\ (Pending => fetch'.age = fetch.age + 1)
    BY <1>4, TickFields
  <2>3. ASSUME Fresh', Owed' PROVE Settles'
    <3>1. Fresh /\ Owed /\ age' = age + 1
      BY <2>1, <2>3, NodeAssumption, BackoffAssumption DEF Fresh, Owed, Smaller, Larger, TypeOK
    <3>2. Pending /\ age <= fetch.age
      BY <2>1, <3>1 DEF DebtInv, Settles
    <3>3. age \in Nat /\ fetch.age \in Nat
      BY NodeAssumption DEF TypeOK
    <3> QED
      BY <2>2, <3>1, <3>2, <3>3 DEF Settles, Pending
  <2> QED
    BY <2>3 DEF DebtInv
<1>5. ASSUME NEW S \in (SUBSET Kids) \ {{}}, Rotate(S) PROVE DebtInv'
  BY <1>5 DEF Rotate, store, gates, calls, DebtInv, Owed, Settles, Fresh, Pending
<1> QED
  BY <1>1, <1>2, <1>3, <1>4, <1>5, DebtCaller DEF Next, Exchange

-----------------------------------------------------------------------------
(* The steps of the policy: an attempt, its outcome, its forgiven failure.  *)
Policed == <<keys, age, attemptAge, failures, backoff, fetch>>

LEMMA PolicyInit == Init => Policy!Init
BY NoFetchFields DEF Init, Policy!Init

LEMMA PolicyStutter ==
  ASSUME UNCHANGED Policed
  PROVE  UNCHANGED Policy!vars
BY DEF Policed, Fresh, Policy!vars

LEMMA PolicyForget ==
  ASSUME Fresh, UNCHANGED <<keys, age, attemptAge>>, (fetch.st = "none") <=> (fetch'.st = "none")
  PROVE  UNCHANGED Policy!vars
BY DEF Fresh, Policy!vars

LEMMA PolicyStart ==
  ASSUME TypeOK, Sched, NEW c \in Callers, NEW k \in Kids, Asked(c, k), Starts(c, k)
  PROVE  Policy!Next
<1>1. /\ ~Pending /\ (Fresh => WindowOver) /\ attemptAge' = 0 /\ fetch'.st = "sent"
      /\ UNCHANGED <<keys, age, failures, backoff>>
  BY FetchSent DEF Starts, Start, store
<1>2. fetch.st # "failed"
  BY DEF Asked, Entering, Resumed, LoopIdle, Ready, Sched, ToldTo, OneOutcome
<1>3. fetch.st = "none"
  BY <1>1, <1>2 DEF Pending, TypeOK
<1>4. CASE Fresh
  <2>1. Policy!Refetch
    BY <1>1, <1>3, <1>4 DEF Policy!Refetch, Policy!Fresh, Policy!WindowOver, Fresh, WindowOver
  <2> QED
    BY <2>1 DEF Policy!Next
<1>5. CASE ~Fresh
  <2>1. backoff = 0
    BY <1>5, ReadyIsFresh DEF Asked, Entering, Resumed
  <2>2. Policy!Load
    BY <1>1, <1>3, <1>5, <2>1 DEF Policy!Load, Policy!Fresh, Fresh
  <2> QED
    BY <2>2 DEF Policy!Next
<1> QED
  BY <1>4, <1>5

LEMMA PolicyAsked ==
  ASSUME TypeOK, Sched, NEW c \in Callers, NEW k \in Kids, Asked(c, k)
  PROVE  [Policy!Next]_(Policy!vars)
<1>1. CASE Starts(c, k)
  BY <1>1, PolicyStart
<1>2. CASE Found(c, k) \/ Joins(c, k)
  BY <1>2, PolicyStutter DEF Found, Joins, Join, store, gates, Policed
<1>3. CASE Refused(c, k)
  BY <1>3, PolicyForget DEF Refused, RefuseByWindow, store
<1> QED
  BY <1>1, <1>2, <1>3 DEF Asked

LEMMA PolicyTold ==
  ASSUME TypeOK, Sched, NEW c \in Callers, Forgiven(c) \/ Counted(c)
  PROVE  [Policy!Next]_(Policy!vars)
<1>1. fetch'.st = "none" /\ fetch.st \in {"none", "failed"} /\ UNCHANGED <<keys, age, attemptAge>>
  BY NoFetchFields DEF Forgiven, Counted, Sched, OneOutcome, Pending, TypeOK, store
<1>2. CASE fetch.st = "none" /\ Forgiven(c)
  BY <1>1, <1>2, PolicyForget DEF Forgiven
<1>3. CASE fetch.st = "none" /\ Counted(c)
  BY <1>1, <1>3 DEF Counted, Fresh, Policy!vars
<1>4. CASE fetch.st = "failed" /\ Forgiven(c)
  <2>1. Policy!Forgive
    BY <1>1, <1>4 DEF Forgiven, Policy!Forgive, Policy!Fresh, Fresh
  <2> QED
    BY <2>1 DEF Policy!Next
<1>5. CASE fetch.st = "failed" /\ Counted(c)
  <2>1. /\ ~Fresh /\ failures' = Smaller(failures + 1, MaxFailures) /\ backoff' \in Delays(failures')
    BY <1>5 DEF Counted
  <2>2. Policy!Fail
    BY <1>1, <1>5, <2>1 DEF Fresh, Policy!Fail, Policy!Smaller, Policy!Delays, Policy!RawDelay,
       Smaller, Delays, RawDelay
  <2> QED
    BY <2>2 DEF Policy!Next
<1> QED
  BY <1>1, <1>2, <1>3, <1>4, <1>5

LEMMA PolicyCaller ==
  ASSUME TypeOK, Sched, RecentKeys, NEW c \in Callers,
         (\E k \in Kids : RefuseBackingOff(c, k) \/ Validate(c, k)) \/ Resume(c) \/ Imported(c)
  PROVE  [Policy!Next]_(Policy!vars)
<1>1. CASE Asks(c)
  <2>1. Resumed(c) => kid[c] \in Kids
    BY DEF Resumed, Sched, KidKept, Outcomes
  <2> QED
    BY <1>1, <2>1, AskSplit, PolicyAsked
<1>2. CASE \E k \in Kids : RefuseBackingOff(c, k)
  BY <1>2, PolicyStutter DEF RefuseBackingOff, store, gates, Policed
<1>3. CASE LookUpAgain(c) \/ Imported(c)
  <2>1. Fresh
    BY <1>3, ReadyIsFresh DEF LookUpAgain, Imported, RecentKeys, ImportJust
  <2> QED
    BY <1>3, <2>1, PolicyForget DEF LookUpAgain, Imported, store
<1> QED
  BY <1>1, <1>2, <1>3, PolicyTold DEF Resume, Asks

LEMMA PolicyExchange ==
  ASSUME TypeOK, Exchange
  PROVE  [Policy!Next]_(Policy!vars)
<1>1. CASE Reply \/ FetchFails
  <2>1. fetch.st # "none" /\ fetch'.st # "none" /\ UNCHANGED <<keys, age, attemptAge, failures, backoff>>
    BY <1>1, RepliedFields, FailedFields DEF Reply, FetchFails, Pending, store, gates
  <2> QED
    BY <2>1 DEF Fresh, Policy!vars
<1>2. CASE Succeed
  <2>1. /\ fetch.st # "none" /\ fetch'.st = "none" /\ keys' \in (SUBSET Kids) \ {{}} /\ age' = 0
        /\ UNCHANGED attemptAge
    BY <1>2, NoFetchFields DEF Succeed, TypeOK
  <2>2. Fresh'
    BY <2>1, NodeAssumption DEF Fresh
  <2>3. Policy!Obtain
    BY <2>1, <2>2 DEF Policy!Obtain
  <2> QED
    BY <2>3 DEF Policy!Next
<1> QED
  BY <1>1, <1>2 DEF Exchange

LEMMA PolicyTick ==
  ASSUME Instant, DeadlineFits, TypeOK, DebtInv, Tick
  PROVE  Policy!Tick
<1>1. /\ UNCHANGED <<keys, failures>> /\ age' = Smaller(age + 1, Lifetime)
      /\ attemptAge' = Smaller(attemptAge + 1, MinRefetch) /\ backoff' = Larger(backoff - 1, 0)
      /\ fetch'.st = fetch.st
      /\ \A c \in Callers : pc[c] \notin Ready \cup {"importing"}
  BY TickFields DEF Tick, LoopIdle, Instant
<1>2. ASSUME Fresh, ~Fresh' PROVE failures = 0 /\ backoff = 0
  <2>1. ASSUME Pending PROVE ~(age <= fetch.age)
    <3>1. fetch.age < FetchMax /\ fetch.age \in Nat /\ age \in Nat
      BY <2>1, TickFields, NodeAssumption DEF TypeOK
    <3>2. age + 1 >= Lifetime
      BY <1>1, <1>2, NodeAssumption DEF Fresh, Smaller, TypeOK
    <3> QED
      BY <3>1, <3>2, NodeAssumption DEF DeadlineFits
  <2> QED
    BY <1>1, <1>2, <2>1 DEF DebtInv, Owed, Settles
<1>3. ~Fresh => ~Fresh'
  BY <1>1, NodeAssumption DEF Fresh, Smaller, TypeOK
<1>4. Larger(0 - 1, 0) = 0
  BY DEF Larger
<1>5. (IF Fresh' THEN 0 ELSE failures') = (IF Fresh THEN 0 ELSE failures)
  BY <1>1, <1>2, <1>3
<1>6. (IF Fresh' THEN 0 ELSE backoff') = Larger((IF Fresh THEN 0 ELSE backoff) - 1, 0)
  BY <1>1, <1>2, <1>3, <1>4
<1> QED
  BY <1>1, <1>5, <1>6 DEF Policy!Tick, Policy!Smaller, Policy!Larger, Smaller, Larger

LEMMA PolicyStep ==
  ASSUME Instant, DeadlineFits, TypeOK, Sched, RecentKeys, DebtInv, [Next]_vars
  PROVE  [Policy!Next]_(Policy!vars)
<1>1. CASE UNCHANGED Policed
  BY <1>1, PolicyStutter
<1>2. CASE Tick
  BY <1>2, PolicyTick DEF Policy!Next
<1> QED
  BY <1>1, <1>2, PolicyCaller, PolicyExchange DEF Policed, vars, Next, Rotate, store, gates

(* Whatever the calls do, the provider sees requests only when the policy   *)
(* allows one, and a failed one takes no key away.                          *)
THEOREM NodeImplementsPolicy == ASSUME Instant, DeadlineFits PROVE Spec => ImplementsPolicy
<1>1. TypeOK /\ Sched /\ RecentKeys /\ DebtInv /\ [Next]_vars => [Policy!Next]_(Policy!vars)
  BY Instant, DeadlineFits, PolicyStep
<1>2. TypeOK /\ Sched /\ RecentKeys /\ [Next]_vars => RecentKeys'
  BY Instant, RecentStep
<1>3. TypeOK /\ Sched /\ DebtInv /\ [Next]_vars => DebtInv'
  BY Instant, DeadlineFits, DebtStep
<1> QED
  BY <1>1, <1>2, <1>3, PolicyInit, TypeCorrect, SchedInit, SchedStep, RecentInit, DebtInit, PTL
     DEF Spec, ImplementsPolicy, Policy!Spec

=============================================================================
