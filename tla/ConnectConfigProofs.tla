------------------------ MODULE ConnectConfigProofs ------------------------
(***************************************************************************)
(* Proofs about ConnectConfig, for any width of u64 and any settings.      *)
(***************************************************************************)
EXTENDS ConnectConfig, TLAPS

(* A setting that was accepted, as the descriptor has it. *)
Described ==
    /\ timeout \in Timeouts
    /\ descriptor # None =>
        /\ descriptor.timeout = ConnectTimeout(timeout)
        /\ timeout # None => IsDuration(timeout)

(* What each phase knows of the session. *)
SessionInv ==
    /\ pc \in {"configured", "described", "failed", "panicked"} => session = "none"
    /\ pc = "in use" => session = "pinned"

LEMMA DurationIsNat ==
  ASSUME NEW t \in Timeouts, t # None, IsDuration(t)
  PROVE  /\ t.number \in Nat
         /\ ParseDuration(t) \in Nat
         /\ t.unit # "ms" => SecondsIn(t.unit) \in Nat \ {0}
<1>1. t.number \in Nat
  BY TimeoutsAssumption
<1>2. t.unit # "ms" => SecondsIn(t.unit) \in Nat \ {0}
  BY DEF IsDuration, SecondsIn
<1>3. CASE t.unit = "ms"
  BY <1>1, <1>2, <1>3 DEF ParseDuration
<1>4. CASE t.unit # "ms"
  <2> DEFINE n == t.number * SecondsIn(t.unit)
  <2>1. n \in Nat
    BY <1>1, <1>2, <1>4
  <2> HIDE DEF n
  <2>2. n % U64 \in Nat
    BY <2>1, U64Assumption
  <2> QED
    BY <1>1, <1>2, <1>4, <2>2 DEF ParseDuration, n
<1> QED
  BY <1>3, <1>4

(* ConnectTimeout is never 0, the value that would mean: without limit.    *)
LEMMA TimeoutIsPositive ==
  ASSUME NEW t \in Timeouts, t # None => IsDuration(t)
  PROVE  ConnectTimeout(t) \in Nat \ {0}
  BY DurationIsNat DEF ConnectTimeout

LEMMA InitHolds == Init => Described /\ SessionInv
  BY DEF Init, Described, SessionInv

LEMMA NextKeeps ==
  Described /\ SessionInv /\ [Next]_vars => Described' /\ SessionInv'
<1> SUFFICES ASSUME Described, SessionInv, [Next]_vars
             PROVE  Described' /\ SessionInv'
  OBVIOUS
<1> USE DEF Described, SessionInv, settings
<1>1. CASE BuildDescriptor
  BY <1>1 DEF BuildDescriptor
<1>2. CASE BuildDescriptorFails
  BY <1>2 DEF BuildDescriptorFails
<1>3. CASE Panic
  BY <1>3 DEF Panic
<1>4. CASE Connect
  BY <1>4 DEF Connect
<1>5. CASE Pin
  BY <1>5 DEF Pin
<1>6. CASE PinFails
  BY <1>6 DEF PinFails
<1>7. CASE UNCHANGED vars
  BY <1>7 DEF vars
<1> QED
  BY <1>1, <1>2, <1>3, <1>4, <1>5, <1>6, <1>7 DEF Next

LEMMA Invariance == Spec => [](Described /\ SessionInv)
  BY InitHolds, NextKeeps, PTL DEF Spec

---------------------------------------------------------------------------
(* A session in use is pinned, and none is left behind by an error.        *)
THEOREM SessionsPinned == Spec => []SessionsArePinned
<1>1. SessionInv => SessionsArePinned
  BY DEF SessionInv, SessionsArePinned
<1> QED
  BY <1>1, Invariance, PTL

(* No setting that is accepted makes connecting wait longer than it says,  *)
(* or without limit, also where its multiplication wraps.                  *)
THEOREM WaitBounded == Spec => []WaitsNoLonger
<1>1. Described => WaitsNoLonger
  <2> SUFFICES ASSUME Described, descriptor # None, timeout # None
               PROVE  WaitsNoLonger
    BY DEF WaitsNoLonger
  <2> DEFINE n == timeout.number
             p == ParseDuration(timeout)
  <2>1. /\ n \in Nat /\ p \in Nat
        /\ timeout.unit # "ms" => SecondsIn(timeout.unit) \in Nat \ {0}
    BY DurationIsNat DEF Described
  <2>2. descriptor.timeout = IF p = 0 THEN 1 ELSE p
    BY DEF Described, ConnectTimeout
  <2>3. CASE timeout.unit = "ms"
    <3>1. p * 1000 <= n
      <4>1. p = n \div 1000
        BY <2>3 DEF ParseDuration
      <4> HIDE DEF n, p
      <4>2. (n \div 1000) * 1000 <= n
        BY <2>1, Z3
      <4> QED
        BY <4>1, <4>2
    <3> QED
      BY <2>1, <2>2, <2>3, <3>1 DEF WaitsNoLonger
  <2>4. CASE timeout.unit # "ms"
    <3> DEFINE s == n * SecondsIn(timeout.unit)
    <3>1. s \in Nat
      BY <2>1, <2>4
    <3>2. p = s % U64
      BY <2>4 DEF ParseDuration
    <3>3. p <= s
      <4> HIDE DEF n, p, s
      <4>1. CASE s < U64
        BY <3>1, <3>2, <4>1, U64Assumption
      <4>2. CASE s >= U64
        <5>1. p < U64
          BY <3>1, <3>2, U64Assumption
        <5> QED
          BY <2>1, <3>1, <4>2, <5>1, U64Assumption
      <4> QED
        BY <3>1, <4>1, <4>2, U64Assumption
    <3> QED
      BY <2>1, <2>2, <2>4, <3>1, <3>3 DEF WaitsNoLonger
  <2> QED
    BY <2>3, <2>4
<1> QED
  BY <1>1, Invariance, PTL

(* The descriptor waits for what was written, to the second, for every     *)
(* setting that does not wrap.                                             *)
THEOREM TimeoutKept == Spec => []TimeoutAsWritten
<1>1. Described => TimeoutAsWritten
  <2> SUFFICES ASSUME Described, descriptor # None, timeout # None, ~Overflows(timeout)
               PROVE  descriptor.timeout * 1000 - Milliseconds(timeout) \in -999..1000
    BY DEF TimeoutAsWritten
  <2> DEFINE n == timeout.number
             p == ParseDuration(timeout)
  <2>1. /\ n \in Nat /\ p \in Nat
        /\ timeout.unit # "ms" => SecondsIn(timeout.unit) \in Nat \ {0}
    BY DurationIsNat DEF Described
  <2>2. descriptor.timeout = IF p = 0 THEN 1 ELSE p
    BY DEF Described, ConnectTimeout
  <2>3. CASE timeout.unit = "ms"
    <3>1. p = n \div 1000 /\ Milliseconds(timeout) = n
      BY <2>1, <2>3 DEF ParseDuration, Milliseconds
    <3> HIDE DEF n, p
    <3>2. n - (n \div 1000) * 1000 \in 0..999
      BY <2>1, Z3
    <3> QED
      BY <2>1, <2>2, <3>1, <3>2
  <2>4. CASE timeout.unit # "ms"
    <3> DEFINE s == n * SecondsIn(timeout.unit)
    <3>1. s \in Nat /\ s < U64
      BY <2>1, <2>4, U64Assumption DEF Overflows
    <3>2. p = s % U64
      BY <2>4 DEF ParseDuration
    <3>3. Milliseconds(timeout) = s * 1000
      BY <2>1, <2>4 DEF Milliseconds
    <3> HIDE DEF n, p, s
    <3>4. p = s
      BY <3>1, <3>2, U64Assumption
    <3> QED
      BY <2>2, <3>1, <3>3, <3>4
  <2> QED
    BY <2>3, <2>4
<1> QED
  BY <1>1, Invariance, PTL
=============================================================================
