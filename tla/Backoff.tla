------------------------------- MODULE Backoff -------------------------------
(***************************************************************************)
(* The arithmetic of app/xray/reconnect.py: how long a node that keeps     *)
(* failing is left alone.  Durations are whole seconds.                    *)
(***************************************************************************)
EXTENDS Integers

CONSTANTS Base,         \* NODE_RECONNECT_BACKOFF_BASE
          Cap,          \* NODE_RECONNECT_BACKOFF_CAP
          Threshold     \* NODE_RECONNECT_CIRCUIT_THRESHOLD

ASSUME BackoffAssumption ==
    /\ Base \in Nat
    /\ Cap \in Nat
    /\ Threshold \in Nat

\* The code clamps the exponent so that the power stays representable.
MaxExponent == 30

\* The powers of two the formula uses are natural numbers and double at each
\* step.  Stated because the provers know nothing about ^ ; TLC evaluates it on
\* every run.
ASSUME PowersAssumption ==
    /\ \A e \in 0..MaxExponent : 2^e \in Nat
    /\ \A e \in 0..(MaxExponent - 1) : 2^(e + 1) = 2 * 2^e

Lesser(a, b) == IF a <= b THEN a ELSE b

\* Mutant: the cap is forgotten.
BackoffUncapped(k) == Base * 2^Lesser(k - 1, MaxExponent)

\* Seconds to wait after the k-th consecutive failure.
BackoffAfter(k) == Lesser(Base * 2^Lesser(k - 1, MaxExponent), Cap)

\* The circuit is open from the Threshold-th consecutive failure on.
CircuitOpenAt(k) == k >= Threshold
==============================================================================
