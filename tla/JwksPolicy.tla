----------------------------- MODULE JwksPolicy -----------------------------
(***************************************************************************)
(* What every key store of the SDK promises the identity provider: when a  *)
(* JWKS request may leave, and what its outcome changes.  It knows nothing *)
(* of callers, locks or tasks; the key stores of the languages implement   *)
(* it, each with its own concurrency.                                      *)
(***************************************************************************)
EXTENDS Backoff

CONSTANTS
  Kids,         \* key ids
  Lifetime,     \* how long a key set is used after the fetch that obtained it
  MinRefetch,   \* the window between two forced refetches
  MaxFailures,  \* bound of the failure counter
  Liberties     \* what an implementation does besides: "refusal_stamps", a refetch the
                \* backoff refuses opens the window; "load_stamps", so may a load;
                \* "abandons", a request may be dropped before its outcome; "forgives",
                \* a failed refetch of a set that is still fresh is not counted

VARIABLES
  keys, age,    \* the key set held and its age (Lifetime: none, or expired)
  forcedAge,    \* age of the window (MinRefetch: over)
  failures, backoff,
  request       \* "none", or "sent" while a request is in progress

vars == <<keys, age, forcedAge, failures, backoff, request>>

Fresh      == age < Lifetime
WindowOver == forcedAge >= MinRefetch

Init ==
  /\ keys = {} /\ age = Lifetime
  /\ forcedAge = MinRefetch /\ failures = 0 /\ backoff = 0
  /\ request = "none"

(* A cold or expired key set is loaded, whatever the window. *)
Load ==
  /\ request = "none" /\ ~Fresh /\ backoff = 0
  /\ request' = "sent"
  /\ forcedAge' = forcedAge \/ ("load_stamps" \in Liberties /\ forcedAge' = 0)
  /\ UNCHANGED <<keys, age, failures, backoff>>

(* An unknown key id forces a refetch of a fresh key set, once per window. *)
Refetch ==
  /\ request = "none" /\ Fresh /\ WindowOver /\ backoff = 0
  /\ request' = "sent" /\ forcedAge' = 0
  /\ UNCHANGED <<keys, age, failures, backoff>>

(* A refetch decided on and then refused by the backoff. *)
Waste ==
  /\ "refusal_stamps" \in Liberties
  /\ request = "none" /\ Fresh /\ WindowOver /\ backoff > 0
  /\ forcedAge' = 0
  /\ UNCHANGED <<keys, age, failures, backoff, request>>

Obtain ==
  /\ request # "none"
  /\ keys' \in (SUBSET Kids) \ {{}} /\ age' = 0
  /\ failures' = 0 /\ backoff' = 0
  /\ request' = "none"
  /\ UNCHANGED forcedAge

(* A failed request takes no key away. *)
Fail ==
  /\ request # "none"
  /\ failures' = Smaller(failures + 1, MaxFailures)
  /\ backoff' \in Delays(failures')
  /\ request' = "none"
  /\ UNCHANGED <<keys, age, forcedAge>>

Abandon ==
  /\ "abandons" \in Liberties
  /\ request # "none" /\ request' = "none"
  /\ UNCHANGED <<keys, age, forcedAge, failures, backoff>>

Forgive ==
  /\ "forgives" \in Liberties
  /\ request # "none" /\ Fresh /\ request' = "none"
  /\ UNCHANGED <<keys, age, forcedAge, failures, backoff>>

Tick ==
  /\ age' = Smaller(age + 1, Lifetime)
  /\ forcedAge' = Smaller(forcedAge + 1, MinRefetch)
  /\ backoff' = Larger(backoff - 1, 0)
  /\ UNCHANGED <<keys, failures, request>>

Next == Load \/ Refetch \/ Waste \/ Obtain \/ Fail \/ Abandon \/ Forgive \/ Tick

Spec == Init /\ [][Next]_vars
=============================================================================
