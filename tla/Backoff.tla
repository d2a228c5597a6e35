------------------------------ MODULE Backoff ------------------------------
(***************************************************************************)
(* Time in the key stores, and their backoff.  The code keeps instants and *)
(* subtracts them from a clock; the modules keep the differences, which    *)
(* saturate at the largest value a comparison of the code tells apart.     *)
(***************************************************************************)
EXTENDS Integers

CONSTANTS
  BackoffBase,  \* delay after the first failed fetch, before jitter
  BackoffCap    \* bound of the delay

ASSUME BackoffAssumption ==
  /\ BackoffBase \in Nat \ {0, 1}
  /\ BackoffCap \in Nat /\ BackoffCap >= BackoffBase

Smaller(a, b) == IF a < b THEN a ELSE b
Larger(a, b)  == IF a < b THEN b ELSE a

(* The base doubled once per further failure, capped, times a jitter in     *)
(* [0.5, 1.0) that is drawn once, when the failure is recorded.             *)
RawDelay(n) == Smaller(BackoffBase * 2^(n - 1), BackoffCap)
Delays(n)   == {d \in 0..BackoffCap : 2 * d >= RawDelay(n) /\ d < RawDelay(n)}
=============================================================================
