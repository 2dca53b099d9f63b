--------------------------- MODULE StopTimerProofs ---------------------------
(***************************************************************************)
(* Theorems about StopTimer, for every resolution of the clock and all     *)
(* timeouts, negative ones included.                                       *)
(***************************************************************************)
EXTENDS StopTimer, TLAPS

(* A running timer holds the cut reading of its start. *)
StartPoint == m_is_running => m_start_point = started \div PerMs /\ started <= now

IInv == TypeOK /\ StartPoint

(* What cutting to milliseconds does to a reading *)
LEMMA Cut ==
  ASSUME NEW t \in Nat
  PROVE  /\ t \div PerMs \in Nat
         /\ PerMs * (t \div PerMs) <= t
         /\ t < PerMs * (t \div PerMs) + PerMs
BY TimerAssumption

LEMMA Inductive == Spec => []IInv
<1>1. Init => IInv
  <2> SUFFICES ASSUME Init PROVE IInv
    OBVIOUS
  <2>1. m_is_running \in BOOLEAN
    BY DEF Init
  <2> QED BY <2>1, TimerAssumption DEF Init, IInv, TypeOK, StartPoint
<1>2. IInv /\ [Next]_vars => IInv'
  <2> SUFFICES ASSUME IInv, [Next]_vars PROVE IInv'
    OBVIOUS
  <2>1. m_is_running' \in BOOLEAN
    BY Zenon DEF IInv, TypeOK, Next, vars, SetTimeout, Reset, Stop, Start, Tick
  <2>2. CurrentTime \in Nat
    BY Cut DEF IInv, TypeOK, CurrentTime
  <2>3. TypeOK'
    BY <2>1, <2>2, TimerAssumption
    DEF IInv, TypeOK, Next, vars, SetTimeout, Reset, Stop, Start, Tick
  <2>4. StartPoint'
    <3> USE DEF IInv, TypeOK, StartPoint
    <3>1. ASSUME NEW t, SetTimeout(t) PROVE StartPoint'
      BY <3>1 DEF SetTimeout
    <3>2. CASE Reset \/ Stop
      BY <3>2 DEF Reset, Stop
    <3>3. ASSUME NEW t, Start(t) PROVE StartPoint'
      BY <3>3 DEF Start, CurrentTime
    <3>4. CASE Tick
      BY <3>4 DEF Tick
    <3>5. CASE UNCHANGED vars
      BY <3>5 DEF vars
    <3> QED BY <3>1, <3>2, <3>3, <3>4, <3>5 DEF Next
  <2> QED BY <2>3, <2>4 DEF IInv
<1> QED BY <1>1, <1>2, PTL DEF Spec

(* The elapsed time the timer computes is off by less than a millisecond. *)
LEMMA ElapsedBounds ==
  ASSUME IInv, m_is_running
  PROVE  /\ ElapsedTime \in Int /\ m_timeout_duration \in Int
         /\ now \in Nat /\ started \in Nat /\ PerMs \in Nat /\ PerMs > 0
         /\ PerMs * ElapsedTime < (now - started) + PerMs
         /\ now - started < PerMs * ElapsedTime + PerMs
<1> DEFINE a == now \div PerMs
           b == started \div PerMs
<1>1. now \in Nat /\ started \in Nat /\ m_timeout_duration \in Int /\ PerMs \in Nat /\ PerMs > 0
  BY TimerAssumption DEF IInv, TypeOK
<1>2. ElapsedTime = a - b
  BY DEF ElapsedTime, CurrentTime, IInv, StartPoint
<1>3. /\ a \in Nat /\ PerMs * a <= now /\ now < PerMs * a + PerMs
      /\ b \in Nat /\ PerMs * b <= started /\ started < PerMs * b + PerMs
  BY <1>1, Cut
<1> HIDE DEF a, b
<1>4. PerMs * (a - b) = PerMs * a - PerMs * b
  BY <1>1, <1>3
<1>5. PerMs * a \in Int /\ PerMs * b \in Int
  BY <1>1, <1>3
<1> QED BY <1>1, <1>2, <1>3, <1>4, <1>5

(* Multiplying a comparison by the number of ticks in a millisecond *)
LEMMA Scale ==
  ASSUME NEW p \in Nat, p > 0, NEW x \in Int, NEW y \in Int
  PROVE  /\ x > y => p * x >= p * y + p
         /\ x <= y => p * x <= p * y
         /\ p * x \in Int
OBVIOUS

(* What the milliseconds of a running timer say about the time that has    *)
(* really passed *)
LEMMA TimerBounds == IInv => NeverEarly /\ NeverLate /\ LeftTimeAccurate
<1> SUFFICES ASSUME IInv, m_is_running PROVE NeverEarly /\ NeverLate /\ LeftTimeAccurate
  BY DEF NeverEarly, NeverLate, LeftTimeAccurate, IsRunningAndElapsed
<1> DEFINE e == ElapsedTime
           d == m_timeout_duration
           p == PerMs
           r == now - started
<1>1. /\ e \in Int /\ d \in Int /\ r \in Int /\ p \in Nat /\ p > 0
      /\ p * e < r + p /\ r < p * e + p
  BY ElapsedBounds
<1>2. NeverEarly <=> ((d = 0 \/ e > d) /\ d # 0 => r > d * p)
  BY DEF NeverEarly, IsRunningAndElapsed, IsElapsed
<1>3. NeverLate <=> (r >= (d + 2) * p - 1 => d = 0 \/ e > d)
  BY DEF NeverLate, IsRunningAndElapsed, IsElapsed
<1>4. LeftTimeAccurate <=> (d - e) * p - (d * p - r) \in 1 - p .. p - 1
  BY DEF LeftTimeAccurate, LeftTime
<1> HIDE DEF e, d, p, r
<1>5. /\ e > d => p * e >= p * d + p
      /\ e <= d => p * e <= p * d
      /\ p * e \in Int /\ p * d \in Int
  BY <1>1, Scale
<1>6. d * p = p * d /\ (d + 2) * p = p * d + 2 * p /\ (d - e) * p = p * d - p * e
  BY <1>1
<1>7. NeverEarly
  BY <1>1, <1>2, <1>5, <1>6
<1>8. NeverLate
  BY <1>1, <1>3, <1>5, <1>6
<1>9. LeftTimeAccurate
  BY <1>1, <1>4, <1>5, <1>6
<1> QED BY <1>7, <1>8, <1>9

(* An elapsed timeout is never reported early: IsElapsed() compares with   *)
(* ">" what two truncated readings of the clock differ by.                 *)
THEOREM EarlyCorrect == Spec => []NeverEarly
  BY TimerBounds, Inductive, PTL

(* IsElapsed() is less than two milliseconds late. *)
THEOREM LateCorrect == Spec => []NeverLate
  BY TimerBounds, Inductive, PTL

(* LeftTime() is within a millisecond of the time really left. *)
THEOREM LeftCorrect == Spec => []LeftTimeAccurate
  BY TimerBounds, Inductive, PTL

(* An elapsed timeout stays reported while the timer is left alone. *)
THEOREM ElapsedStaysCorrect == Spec => ElapsedStays
<1>1. IInv /\ IInv' /\ [Next]_vars =>
        [IsRunningAndElapsed /\ UNCHANGED <<m_is_running, started, m_timeout_duration>> =>
           IsRunningAndElapsed']_vars
  <2> SUFFICES ASSUME IInv, IInv', [Next]_vars, IsRunningAndElapsed,
                      UNCHANGED <<m_is_running, started, m_timeout_duration>>
               PROVE  IsRunningAndElapsed'
    OBVIOUS
  <2>1. m_is_running /\ m_is_running'
    BY DEF IsRunningAndElapsed
  <2>2. now \in Nat /\ now' \in Nat /\ now <= now'
    BY DEF IInv, TypeOK, Next, vars, SetTimeout, Reset, Stop, Start, Tick
  <2>3. m_start_point' = m_start_point /\ m_start_point \in Nat /\ m_timeout_duration \in Int
    BY <2>1 DEF IInv, StartPoint, TypeOK
  <2> DEFINE a == now \div PerMs
             b == now' \div PerMs
  <2>4. /\ a \in Nat /\ PerMs * a <= now
        /\ b \in Nat /\ now' < PerMs * b + PerMs /\ PerMs \in Nat /\ PerMs > 0
    <3>1. \A t \in Nat : /\ t \div PerMs \in Nat /\ PerMs * (t \div PerMs) <= t
                         /\ t < PerMs * (t \div PerMs) + PerMs
      BY Cut
    <3>2. a \in Nat /\ PerMs * a <= now
      BY <2>2, <3>1
    <3>3. b \in Nat /\ now' < PerMs * b + PerMs
      BY <2>2, <3>1
    <3> QED BY <3>2, <3>3, TimerAssumption
  <2>5. ElapsedTime = a - m_start_point /\ ElapsedTime' = b - m_start_point
    BY <2>1, <2>3 DEF ElapsedTime, CurrentTime
  <2> HIDE DEF a, b
  <2>6. a <= b
    <3>1. a > b => PerMs * a >= PerMs * b + PerMs
      BY <2>4, Scale
    <3>2. PerMs * a \in Int /\ PerMs * b \in Int
      BY <2>4
    <3> QED BY <2>2, <2>4, <3>1, <3>2
  <2> QED
    BY <2>1, <2>3, <2>4, <2>5, <2>6 DEF IsRunningAndElapsed, IsElapsed
<1> QED BY <1>1, Inductive, PTL DEF Spec, ElapsedStays
=============================================================================
