------------------------ MODULE ReconnectPolicy_proofs ------------------------
(***************************************************************************)
(* Proofs about ReconnectPolicy, for every setting of the three parameters *)
(* and any number of threads.                                              *)
(***************************************************************************)
EXTENDS ReconnectPolicy, TLAPS

\* The wait after a failure is a whole number of seconds, at most the cap.
LEMMA BackoffBounds ==
    ASSUME NEW k \in Nat, k >= 1
    PROVE  BackoffAfter(k) \in Nat /\ BackoffAfter(k) <= Cap
  <1> DEFINE e == Lesser(k - 1, MaxExponent)
  <1>1. e \in 0..MaxExponent
    BY DEF Lesser, MaxExponent
  <1>2. 2^e \in Nat
    BY <1>1, PowersAssumption
  <1>3. Base * 2^e \in Nat
    <2> DEFINE w == 2^e
    <2> HIDE DEF w
    <2>1. w \in Nat
      BY <1>2 DEF w
    <2>2. Base * w \in Nat
      BY <2>1, BackoffAssumption
    <2> QED
      BY <2>2 DEF w
  <1> QED
    BY <1>3, BackoffAssumption DEF BackoffAfter, Lesser

\* One more failure never shortens the wait: the exponent stays or grows by one,
\* and the cap keeps the order.
LEMMA BackoffGrows ==
    ASSUME NEW k \in Nat, k >= 1
    PROVE  BackoffAfter(k + 1) >= BackoffAfter(k)
  <1> DEFINE e == Lesser(k - 1, MaxExponent)
             d == Lesser((k + 1) - 1, MaxExponent)
             low == 2^e
             high == 2^d
  <1>1. e \in 0..MaxExponent /\ d \in 0..MaxExponent
    BY DEF Lesser, MaxExponent
  <1>2. d = e \/ (e \in 0..(MaxExponent - 1) /\ d = e + 1)
    BY DEF Lesser, MaxExponent
  <1>3. low \in Nat /\ high \in Nat
    BY <1>1, PowersAssumption
  <1>4. high = low \/ high = 2 * low
    BY <1>2, PowersAssumption
  <1>5. BackoffAfter(k) = Lesser(Base * low, Cap) /\ BackoffAfter(k + 1) = Lesser(Base * high, Cap)
    BY DEF BackoffAfter
  <1> HIDE DEF low, high
  <1>6. Base * low \in Nat /\ (Base * high = Base * low \/ Base * high = 2 * (Base * low))
    BY <1>3, <1>4, BackoffAssumption
  <1> DEFINE x == Base * low
             y == Base * high
  <1> HIDE DEF x, y
  <1>7. x \in Nat /\ (y = x \/ y = 2 * x)
    BY <1>6 DEF x, y
  <1>8. Lesser(y, Cap) >= Lesser(x, Cap)
    BY <1>7, BackoffAssumption DEF Lesser
  <1> QED
    BY <1>5, <1>8 DEF x, y

--------------------------------------------------------------------------------

\* Every variable keeps its type.
THEOREM PolicyTyping == Spec => []TypeOK
  <1>1. Init => TypeOK
    BY BackoffAssumption DEF Init, TypeOK, NoTime
  <1>2. TypeOK /\ [Next]_vars => TypeOK'
    <2> SUFFICES ASSUME TypeOK, [Next]_vars PROVE TypeOK'
      OBVIOUS
    <2> USE DEF TypeOK, NoTime
    <2>1. ASSUME NEW c \in Callers, ReadClock(c) PROVE TypeOK'
      BY <2>1 DEF ReadClock
    <2>2. ASSUME NEW c \in Callers, OnFailure(c) PROVE TypeOK'
      <3>1. failures' \in Nat /\ failures' >= 1
        BY <2>2 DEF OnFailure
      <3>2. backoff' \in Nat
        BY <2>2, <3>1, BackoffBounds DEF OnFailure
      <3>3. nextRetry' \in Nat
        BY <2>2, <3>2 DEF OnFailure
      <3> QED
        BY <2>2, <3>1, <3>2, <3>3 DEF OnFailure
    <2>3. CASE OnSuccess
      BY <2>3, BackoffAssumption DEF OnSuccess
    <2>4. CASE Elapse
      BY <2>4 DEF Elapse
    <2>5. CASE UNCHANGED vars
      BY <2>5 DEF vars
    <2> QED
      BY <2>1, <2>2, <2>3, <2>4, <2>5 DEF Next
  <1> QED
    BY <1>1, <1>2, PTL DEF Spec

\* The count, the wait and the retry time always tell the same story.
THEOREM PolicyFieldsAgree == Spec => []FieldsAgree
  <1>1. Init => FieldsAgree
    BY DEF Init, FieldsAgree
  <1>2. TypeOK /\ FieldsAgree /\ [Next]_vars => FieldsAgree'
    <2> SUFFICES ASSUME TypeOK, FieldsAgree, [Next]_vars PROVE FieldsAgree'
      OBVIOUS
    <2> USE DEF TypeOK, FieldsAgree
    <2>1. ASSUME NEW c \in Callers, ReadClock(c) PROVE FieldsAgree'
      BY <2>1 DEF ReadClock
    <2>2. ASSUME NEW c \in Callers, OnFailure(c) PROVE FieldsAgree'
      <3>1. failures' \in Nat /\ failures' >= 1
        BY <2>2 DEF OnFailure
      <3>2. backoff' \in Nat
        BY <2>2, <3>1, BackoffBounds DEF OnFailure
      <3>3. nextRetry' # NoTime
        BY <2>2, <3>2 DEF OnFailure, NoTime
      <3> QED
        BY <2>2, <3>1, <3>3 DEF OnFailure
    <2>3. CASE OnSuccess
      BY <2>3 DEF OnSuccess
    <2>4. CASE Elapse
      BY <2>4 DEF Elapse
    <2>5. CASE UNCHANGED vars
      BY <2>5 DEF vars
    <2> QED
      BY <2>1, <2>2, <2>3, <2>4, <2>5 DEF Next
  <1> QED
    BY <1>1, <1>2, PolicyTyping, PTL DEF Spec

\* A stamp that waits to be recorded was read in the past.
StampsArePast == \A c \in Callers : stamp[c] <= now

\* A node is never put off for more than Cap seconds from the present.  The
\* invariant needs the age of the stamps, since on_failure adds to a stamp.
THEOREM PolicyRetryWithinCap == Spec => []RetryWithinCap
  <1> DEFINE Inv == StampsArePast /\ RetryWithinCap
  <1>1. Init => Inv
    BY BackoffAssumption DEF Init, StampsArePast, RetryWithinCap, NoTime
  <1>2. TypeOK /\ Inv /\ [Next]_vars => Inv'
    <2> SUFFICES ASSUME TypeOK, Inv, [Next]_vars PROVE Inv'
      OBVIOUS
    <2> USE BackoffAssumption DEF TypeOK, StampsArePast, RetryWithinCap, NoTime
    <2>1. ASSUME NEW c \in Callers, ReadClock(c) PROVE Inv'
      BY <2>1 DEF ReadClock
    <2>2. ASSUME NEW c \in Callers, OnFailure(c) PROVE Inv'
      <3>1. failures' \in Nat /\ failures' >= 1
        BY <2>2 DEF OnFailure
      <3>2. backoff' \in Nat /\ backoff' <= Cap
        BY <2>2, <3>1, BackoffBounds DEF OnFailure
      <3>3. stamp[c] \in Nat /\ stamp[c] <= now /\ now' = now
        BY <2>2 DEF OnFailure
      <3>4. nextRetry' = stamp[c] + backoff'
        BY <2>2 DEF OnFailure
      <3>5. nextRetry' <= now' + Cap
        BY <3>2, <3>3, <3>4
      <3>6. \A d \in Callers : stamp'[d] <= now'
        BY <2>2 DEF OnFailure
      <3> QED
        BY <3>5, <3>6
    <2>3. CASE OnSuccess
      BY <2>3 DEF OnSuccess
    <2>4. CASE Elapse
      BY <2>4 DEF Elapse
    <2>5. CASE UNCHANGED vars
      BY <2>5 DEF vars
    <2> QED
      BY <2>1, <2>2, <2>3, <2>4, <2>5 DEF Next
  <1> QED
    BY <1>1, <1>2, PolicyTyping, PTL DEF Spec

\* Between two successes the wait only grows.
THEOREM PolicyPace == Spec => PaceNeverQuickens
  <1>1. TypeOK /\ FieldsAgree /\ [Next]_vars
            => [failures' > 0 => (backoff' >= backoff \/ failures = 0)]_vars
    <2> SUFFICES ASSUME TypeOK, FieldsAgree, [Next]_vars,
                        failures' > 0, failures # 0
                 PROVE  backoff' >= backoff
      BY DEF vars
    <2> USE DEF TypeOK, FieldsAgree
    <2>1. ASSUME NEW c \in Callers, ReadClock(c) PROVE backoff' >= backoff
      BY <2>1 DEF ReadClock
    <2>2. ASSUME NEW c \in Callers, OnFailure(c) PROVE backoff' >= backoff
      <3>1. failures \in Nat /\ failures >= 1
        OBVIOUS
      <3>2. backoff = BackoffAfter(failures) /\ backoff' = BackoffAfter(failures + 1)
        BY <2>2 DEF OnFailure
      <3> QED
        BY <3>1, <3>2, BackoffGrows
    <2>3. CASE OnSuccess
      BY <2>3 DEF OnSuccess
    <2>4. CASE Elapse
      BY <2>4 DEF Elapse
    <2>5. CASE UNCHANGED vars
      BY <2>5 DEF vars
    <2> QED
      BY <2>1, <2>2, <2>3, <2>4, <2>5 DEF Next
  <1> QED
    BY <1>1, PolicyTyping, PolicyFieldsAgree, PTL DEF Spec, PaceNeverQuickens
==============================================================================
