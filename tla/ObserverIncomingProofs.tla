----------------------- MODULE ObserverIncomingProofs -----------------------
(***************************************************************************)
(* Theorems about ObserverIncoming, for all durations.                     *)
(***************************************************************************)
EXTENDS ObserverIncoming, SequenceTheorems, TLAPS

(***************************************************************************)
(* The inductive invariant.  Each measure together with what is left of    *)
(* the current wait stays within its bound: a wait begins with at most one *)
(* interval left and the measure at zero, or, for the silence, within the  *)
(* pause that was asked for.  So it is when run() ends, and a restart need *)
(* not begin to measure afresh.                                            *)
(***************************************************************************)
Waits ==
  /\ left <= m_interval
  /\ at # "wait" => left = 0
  /\ m_mode = "Stress" => m_interval = StressInterval

StopMeasure ==
  /\ ~stopToken => passed["stop"] = 0
  /\ passed["stop"] + left <= SlowInterval

CommandMeasure ==
  /\ m_cmdBuffer = << >> => passed["command"] = 0
  /\ passed["command"] + left <= SlowInterval

StressMeasure ==
  /\ m_mode = "Normal" \/ m_stressUntil > 0 => passed["stress"] = 0
  /\ at \in {"loop", "pause", "off"} => passed["stress"] = 0
  /\ m_mode = "Stress" => passed["stress"] + left <= StressInterval

EventMeasure ==
  /\ at \in {"loop", "off"} => passed["event"] <= asked
  /\ m_pauseUntil > 0 => passed["event"] + m_pauseUntil <= asked
  /\ passed["event"] + left <= asked + SlowInterval

IInv == TypeOK /\ Waits /\ StopMeasure /\ CommandMeasure /\ StressMeasure /\ EventMeasure

(* The durations are positive and ordered as in the code. *)
LEMMA Durations ==
  /\ StressInterval \in Nat /\ NormalInterval \in Nat /\ SlowInterval \in Nat
  /\ StressTime \in Nat /\ PauseTime \in Nat /\ ResumeTime \in Nat
  /\ StressTime > 0 /\ StressInterval > 0
  /\ StressInterval <= NormalInterval /\ NormalInterval <= SlowInterval
BY ObserverAssumption

LEMMA DurationType == \A c : Duration(c) \in Nat
BY Durations DEF Duration

(* The measures that end with a command, besides "command" when it is the  *)
(* last one                                                                *)
Ends(k, m) == k = m \/ (k = "command" /\ Tail(m_cmdBuffer) = << >>)

(* How Awake applies a command, in terms of the fields it touches *)
LEMMA ApplyCases ==
  ASSUME TypeOK, NEW c \in Types, ApplyCommand(c), Measured(c)
  PROVE  \/ /\ m_pauseUntil' = Duration(c) /\ asked' = Duration(c)
            /\ UNCHANGED <<m_mode, m_interval, m_stressUntil>>
            /\ passed' = [k \in Measures |-> IF Ends(k, "event") THEN 0 ELSE passed[k]]
         \/ /\ UNCHANGED <<m_pauseUntil, asked>>
            /\ passed' = [k \in Measures |-> IF Ends(k, "stress") THEN 0 ELSE passed[k]]
            /\ \/ m_mode' = "Stress" /\ m_interval' = StressInterval /\ m_stressUntil' = StressTime
               \/ m_mode' = "Normal" /\ m_interval' = NormalInterval /\ UNCHANGED m_stressUntil
BY DEF ApplyCommand, Measured, Pause, Types, Ends

LEMMA TypeStep == TypeOK /\ [Next]_vars => TypeOK'
<1> SUFFICES ASSUME TypeOK, [Next]_vars PROVE TypeOK'
  OBVIOUS
<1>a. stopToken' \in BOOLEAN
  BY Zenon DEF TypeOK, Next, vars, fields, SendCommand, Wait, Leave, Spurious, Awake, TestStress,
       TestPause, Stop, Restart, Tick
<1>b. m_cmdBuffer' \in Seq(Types)
  <2>1. m_cmdBuffer \in Seq(Types)
    BY DEF TypeOK
  <2>2. \/ UNCHANGED m_cmdBuffer
        \/ \E c \in Types : m_cmdBuffer' = Append(m_cmdBuffer, c)
        \/ m_cmdBuffer # << >> /\ m_cmdBuffer' = Tail(m_cmdBuffer)
    BY DEF Next, vars, SendCommand, Wait, Leave, Spurious, Awake, TestStress, TestPause, Stop,
       Restart, Tick
  <2> QED BY <2>1, <2>2, HeadTailProperties, AppendProperties
<1> DEFINE Others ==
      /\ m_mode \in {"Normal", "Stress"}
      /\ m_interval \in {StressInterval, NormalInterval, SlowInterval}
      /\ m_pauseUntil \in Nat /\ m_stressUntil \in Nat /\ left \in Nat /\ asked \in Nat
      /\ at \in {"off", "loop", "wait", "stress", "pause"}
      /\ passed \in [Measures -> Nat]
<1>c. Others
  BY DEF TypeOK
<1>d. Others' => TypeOK'
  BY <1>a, <1>b DEF TypeOK
<1> USE <1>c, Durations
<1>1. ASSUME NEW c \in Types, SendCommand(c) PROVE TypeOK'
  BY <1>1, <1>d DEF SendCommand, fields
<1>2. CASE Wait \/ Leave \/ Spurious \/ Stop
  BY <1>2, <1>d DEF Wait, Leave, Spurious, Stop, fields
<1>3. CASE Awake
  <2>1. CASE m_cmdBuffer = << >>
    BY <1>3, <1>d, <2>1 DEF Awake, fields
  <2>2. CASE m_cmdBuffer # << >>
    <3>1. Head(m_cmdBuffer) \in Types
      BY <2>2, HeadTailProperties DEF TypeOK
    <3>2. /\ ApplyCommand(Head(m_cmdBuffer)) /\ Measured(Head(m_cmdBuffer))
          /\ UNCHANGED left /\ at' = "stress"
      BY <1>3, <2>2 DEF Awake
    <3> QED BY <1>d, <3>1, <3>2, ApplyCases, DurationType
  <2> QED BY <2>1, <2>2
<1>4. CASE TestStress
  BY <1>4, <1>d DEF TestStress
<1>5. CASE TestPause
  BY <1>5, <1>d DEF TestPause, fields
<1>6. CASE Restart
  BY <1>6, <1>d DEF Restart, fields
<1>7. CASE Tick
  <2>1. \A n \in Nat : Minus1(n) \in Nat
    BY DEF Minus1
  <2>2. passed' \in [Measures -> Nat]
    BY <1>7 DEF Tick
  <2> QED BY <1>7, <1>d, <2>1, <2>2 DEF Tick
<1>8. CASE UNCHANGED vars
  BY <1>8, <1>d DEF vars, fields
<1> QED
  BY <1>1, <1>2, <1>3, <1>4, <1>5, <1>6, <1>7, <1>8 DEF Next

(* The durations, measures and deadlines as numbers *)
LEMMA Numbers ==
  TypeOK => /\ left \in Nat /\ asked \in Nat /\ m_pauseUntil \in Nat /\ m_stressUntil \in Nat
            /\ m_interval \in Nat /\ m_interval > 0 /\ m_interval <= SlowInterval
            /\ passed["command"] \in Nat /\ passed["event"] \in Nat
            /\ passed["stress"] \in Nat /\ passed["stop"] \in Nat
            /\ passed \in [Measures -> Nat]
BY Durations DEF TypeOK, Measures

(* The buffer is filled for no longer than the wait in which its first     *)
(* command came.                                                           *)
LEMMA CommandStep == IInv /\ [Next]_vars => CommandMeasure'
<1> SUFFICES ASSUME IInv, [Next]_vars PROVE CommandMeasure'
  OBVIOUS
<1> DEFINE n == passed["command"]
<1>a. /\ n \in Nat /\ left \in Nat /\ m_interval \in Nat /\ SlowInterval \in Nat
      /\ m_interval <= SlowInterval
      /\ m_cmdBuffer = << >> => n = 0
      /\ n + left <= SlowInterval
      /\ at # "wait" => left = 0
  BY Numbers, Durations DEF IInv, CommandMeasure, Waits
<1>1. ASSUME UNCHANGED <<m_cmdBuffer, passed>>, left' = left \/ left' = 0
      PROVE  CommandMeasure'
  BY <1>a, <1>1 DEF CommandMeasure
<1>2. ASSUME UNCHANGED passed, m_cmdBuffer' # << >>, left' = left \/ left' = 0
      PROVE  CommandMeasure'
  BY <1>a, <1>2 DEF CommandMeasure
<1>3. ASSUME NEW c \in Types, SendCommand(c) PROVE CommandMeasure'
  <2>1. m_cmdBuffer' # << >> \/ UNCHANGED m_cmdBuffer
    BY <1>3, AppendProperties DEF SendCommand, IInv, TypeOK
  <2>2. UNCHANGED passed /\ (left' = left \/ left' = 0)
    BY <1>3 DEF SendCommand
  <2> QED BY <1>1, <1>2, <2>1, <2>2
<1>4. CASE Wait
  <2>1. CASE m_cmdBuffer = << >>
    <3>1. n = 0 /\ left' = m_interval /\ UNCHANGED passed
      BY <1>4, <1>a, <2>1 DEF Wait
    <3> QED BY <1>a, <3>1 DEF CommandMeasure
  <2>2. CASE m_cmdBuffer # << >>
    BY <1>1, <1>4, <2>2 DEF Wait
  <2> QED BY <2>1, <2>2
<1>5. CASE Leave \/ Spurious \/ Stop
  BY <1>1, <1>5 DEF Leave, Spurious, Stop
<1>6. CASE Awake
  <2>1. CASE m_cmdBuffer = << >>
    BY <1>1, <1>6, <2>1 DEF Awake
  <2>2. CASE m_cmdBuffer # << >>
    <3>1. Head(m_cmdBuffer) \in Types
      BY <2>2, HeadTailProperties DEF IInv, TypeOK
    <3>2. /\ ApplyCommand(Head(m_cmdBuffer)) /\ Measured(Head(m_cmdBuffer))
          /\ left' = left /\ left = 0 /\ m_cmdBuffer' = Tail(m_cmdBuffer)
      BY <1>6, <2>2 DEF Awake
    <3>3. passed'["command"] = IF m_cmdBuffer' = << >> THEN 0 ELSE n
      BY <3>1, <3>2, ApplyCases DEF IInv, Ends, Measures
    <3> QED BY <1>a, <3>2, <3>3 DEF CommandMeasure
  <2> QED BY <2>1, <2>2
<1>7. CASE TestStress
  <2>1. passed'["command"] = n /\ UNCHANGED <<m_cmdBuffer, left>>
    BY <1>7, Numbers DEF TestStress, Measures, IInv
  <2> QED BY <1>a, <2>1 DEF CommandMeasure
<1>8. CASE TestPause
  <2>1. passed'["command"] = n /\ UNCHANGED <<m_cmdBuffer, left>>
    BY <1>8, Numbers DEF TestPause, Measures, IInv
  <2> QED BY <1>a, <2>1 DEF CommandMeasure
<1>9. CASE Restart
  <2>1. passed'["command"] = n /\ UNCHANGED <<m_cmdBuffer, left>>
    BY <1>9, Numbers DEF Restart, Measures, IInv
  <2> QED BY <1>a, <2>1 DEF CommandMeasure
<1>10. CASE Tick
  <2>1. passed'["command"] = n + (IF Runs("command") THEN 1 ELSE 0)
    BY <1>10 DEF Tick, Measures
  <2>2. left' = Minus1(left) /\ m_cmdBuffer' = m_cmdBuffer
    BY <1>10 DEF Tick
  <2>3. CASE at = "off"
    BY <1>a, <2>1, <2>2, <2>3 DEF Runs, Minus1, CommandMeasure
  <2>4. CASE at = "wait" /\ left > 0
    <3>1. left' = left - 1
      BY <1>a, <2>2, <2>4 DEF Minus1
    <3>2. CASE m_cmdBuffer = << >>
      BY <1>a, <2>1, <2>2, <3>1, <3>2 DEF Runs, CommandMeasure
    <3>3. CASE m_cmdBuffer # << >>
      BY <1>a, <2>1, <2>2, <2>4, <3>1, <3>3 DEF Runs, CommandMeasure
    <3> QED BY <3>2, <3>3
  <2> QED BY <1>10, <2>3, <2>4 DEF Tick
<1>11. CASE UNCHANGED vars
  BY <1>1, <1>11 DEF vars
<1> QED
  BY <1>3, <1>4, <1>5, <1>6, <1>7, <1>8, <1>9, <1>10, <1>11 DEF Next

LEMMA MeasureStep == IInv /\ [Next]_vars =>
                       (Waits /\ StopMeasure /\ StressMeasure /\ EventMeasure)'
<1> SUFFICES ASSUME IInv, [Next]_vars
             PROVE  (Waits /\ StopMeasure /\ StressMeasure /\ EventMeasure)'
  OBVIOUS
<1>a. TypeOK /\ m_mode \in {"Normal", "Stress"}
  BY DEF IInv, TypeOK
<1>b. m_interval' \in {StressInterval, NormalInterval, SlowInterval}
  BY TypeStep, <1>a DEF TypeOK
<1> USE <1>a, <1>b, Numbers, Durations
    DEF IInv, Waits, StopMeasure, StressMeasure, EventMeasure, Measures
<1>1. CASE Spurious \/ \E c \in Types : SendCommand(c)
  <2>2. left' = 0 \/ left' = left
    BY <1>1 DEF Spurious, SendCommand
  <2>3. UNCHANGED <<m_mode, m_interval, m_pauseUntil, m_stressUntil, at, passed, asked>>
    BY <1>1 DEF Spurious, SendCommand, fields
  <2>4. stopToken' = stopToken
    BY <1>1 DEF Spurious, SendCommand
  <2>5. Waits' /\ StopMeasure'
    BY <2>2, <2>3, <2>4
  <2>7. StressMeasure' /\ EventMeasure'
    BY <2>2, <2>3
  <2> QED BY <2>5, <2>7
<1>2. CASE Wait
  <2>1. /\ at = "loop" /\ at' = "wait" /\ UNCHANGED <<m_cmdBuffer, fields, passed, asked>>
        /\ left' = 0 \/ left' = m_interval
        /\ passed["stop"] = 0
    BY <1>2 DEF Wait
  <2>2. stopToken' = stopToken
    BY <1>2 DEF Wait
  <2>3. Waits' /\ StopMeasure'
    BY <2>1, <2>2 DEF fields
  <2>5. StressMeasure'
    <3>1. passed["stress"] = 0 /\ UNCHANGED <<m_mode, m_stressUntil, passed>> /\ at' = "wait"
      BY <2>1 DEF fields
    <3>2. left' \in Nat /\ (m_mode = "Stress" => left' <= StressInterval)
      BY <2>1
    <3> QED BY <3>1, <3>2
  <2>6. EventMeasure'
    BY <2>1 DEF fields
  <2> QED BY <2>3, <2>5, <2>6
<1>3. CASE Leave \/ Stop
  <2>1. /\ UNCHANGED <<m_cmdBuffer, fields, left, passed, asked>>
        /\ at' = at \/ (at = "loop" /\ at' = "off")
    BY <1>3 DEF Leave, Stop
  <2>2. ~stopToken' => ~stopToken
    BY <1>3 DEF Leave, Stop
  <2> QED BY <2>1, <2>2 DEF fields
<1>4. CASE Awake
  <2>1. CASE m_cmdBuffer = << >>
    BY <1>4, <2>1 DEF Awake, fields
  <2>2. CASE m_cmdBuffer # << >>
    <3>1. Head(m_cmdBuffer) \in Types
      BY <2>2, HeadTailProperties DEF TypeOK
    <3>2. /\ ApplyCommand(Head(m_cmdBuffer)) /\ Measured(Head(m_cmdBuffer))
          /\ UNCHANGED <<left, stopToken>> /\ at' = "stress" /\ left = 0 /\ at = "wait"
      BY <1>4, <2>2 DEF Awake
    <3> QED BY <3>1, <3>2, ApplyCases, DurationType DEF Ends
  <2> QED BY <2>1, <2>2
<1>5. CASE TestStress
  BY <1>5 DEF TestStress, StressOver
<1>6. CASE TestPause
  BY <1>6 DEF TestPause, fields
<1>7. CASE Restart
  BY <1>7 DEF Restart, fields
<1>8. CASE Tick
  <2>1. \A k \in Measures : passed'[k] = passed[k] + (IF Runs(k) THEN 1 ELSE 0)
    BY <1>8 DEF Tick
  <2>2. CASE at = "off"
    BY <1>8, <2>1, <2>2 DEF Tick, Runs, Minus1
  <2>3. CASE at = "wait" /\ left > 0
    <3>1. /\ left' = left - 1
          /\ m_pauseUntil' = IF m_pauseUntil = 0 THEN 0 ELSE m_pauseUntil - 1
          /\ m_stressUntil' = IF m_stressUntil = 0 THEN 0 ELSE m_stressUntil - 1
          /\ UNCHANGED <<m_cmdBuffer, m_mode, m_interval, at, asked>>
      BY <1>8, <2>3 DEF Tick, Minus1
    <3>2. stopToken' = stopToken
      BY <1>8 DEF Tick
    <3>3. passed'["event"] = passed["event"] + 1
      BY <2>1, <2>3 DEF Runs
    <3>4. passed'["stop"] = IF stopToken THEN passed["stop"] + 1 ELSE passed["stop"]
      BY <2>1, <2>3 DEF Runs
    <3>6. passed'["stress"] = IF m_mode = "Stress" /\ m_stressUntil = 0
                              THEN passed["stress"] + 1 ELSE passed["stress"]
      BY <2>1, <2>3 DEF Runs
    <3>a. Waits'
      BY <2>3, <3>1
    <3>7. EventMeasure'
      <4>1. passed'["event"] + left' <= asked' + SlowInterval
        BY <3>1, <3>3
      <4>2. ASSUME m_pauseUntil' > 0 PROVE passed'["event"] + m_pauseUntil' <= asked'
        <5>1. m_pauseUntil > 0 /\ m_pauseUntil' = m_pauseUntil - 1 /\ asked' = asked
          BY <3>1, <4>2
        <5>2. passed["event"] + m_pauseUntil <= asked
          BY <5>1
        <5> QED BY <3>3, <5>1, <5>2
      <4> QED BY <2>3, <3>1, <4>1, <4>2
    <3>8. StopMeasure'
      BY <2>3, <3>1, <3>2, <3>4
    <3>10. StressMeasure'
      BY <2>3, <3>1, <3>6
    <3> QED BY <3>a, <3>7, <3>8, <3>10
  <2> QED BY <1>8, <2>2, <2>3 DEF Tick
<1>9. CASE UNCHANGED vars
  BY <1>9 DEF vars, fields
<1> QED
  BY <1>1, <1>2, <1>3, <1>4, <1>5, <1>6, <1>7, <1>8, <1>9 DEF Next

LEMMA Inductive == Spec => []IInv
<1>1. Init => IInv
  <2> SUFFICES ASSUME Init PROVE IInv
    OBVIOUS
  <2>1. m_cmdBuffer \in Seq(Types)
    BY DEF Init
  <2>a. stopToken \in BOOLEAN
    BY DEF Init
  <2>2. TypeOK
    BY <2>1, <2>a, Durations DEF Init, TypeOK
  <2> QED
    BY <2>2, Durations
    DEF Init, IInv, Waits, StopMeasure, CommandMeasure, StressMeasure, EventMeasure, Measures
<1>2. IInv /\ [Next]_vars => IInv'
  BY TypeStep, CommandStep, MeasureStep DEF IInv
<1> QED BY <1>1, <1>2, PTL DEF Spec

(* The numbers of a reachable state, for the theorems below *)
LEMMA Facts ==
  ASSUME IInv
  PROVE  TypeOK /\ m_mode \in {"Normal", "Stress"}
BY DEF IInv, TypeOK

(* For all durations, buffer sizes and sequences of commands, stops and    *)
(* restarts: a command the ring accepted is taken within the interval the  *)
(* observer waits (testThreads.hpp:61, wait_pop_for with m_interval), be   *)
(* it accepted while the observer runs or while it is stopped.             *)
THEOREM CommandCorrect == Spec => []CommandInTime
<1>1. IInv => CommandInTime
  BY Facts, Numbers, Durations DEF IInv, CommandMeasure, CommandInTime
<1> QED BY <1>1, Inductive, PTL

(* The observer is silent no longer than the pause that was asked for and  *)
(* an interval, whichever commands arrive meanwhile.                       *)
THEOREM EventCorrect == Spec => []EventInTime
<1>1. IInv => EventInTime
  BY Facts, Numbers, Durations DEF IInv, EventMeasure, EventInTime
<1> QED BY <1>1, Inductive, PTL

(* Stress mode ends in time, a pause in the middle of it included. *)
THEOREM StressCorrect == Spec => []StressInTime
<1>1. IInv => StressInTime
  BY Facts, Numbers, Durations DEF IInv, StressMeasure, StressInTime
<1> QED BY <1>1, Inductive, PTL

(* A requested stop ends run() in time, in every mode and during a pause. *)
THEOREM StopCorrect == Spec => []StopInTime
<1>1. IInv => StopInTime
  BY Facts, Numbers, Durations DEF IInv, StopMeasure, StopInTime
<1> QED BY <1>1, Inductive, PTL
=============================================================================
