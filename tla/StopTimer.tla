------------------------------ MODULE StopTimer ------------------------------
(***************************************************************************)
(* stopTimer (time/stopTimer.hpp).  The steady clock runs finer than the   *)
(* timer, which cuts every reading to milliseconds: now counts ticks, of   *)
(* which there are PerMs in a millisecond.                                 *)
(***************************************************************************)
EXTENDS Integers

CONSTANTS
  PerMs,      \* ticks of the clock in a millisecond
  Timeouts,   \* timeouts in milliseconds
  MaxTime     \* bound on now

ASSUME TimerAssumption ==
  /\ PerMs \in Nat \ {0} /\ MaxTime \in Nat
  /\ Timeouts \subseteq Int

VARIABLES
  m_start_point, m_timeout_duration, m_is_running,
  now,
  started     \* the tick of the last Start, which the timer does not know

vars == <<m_start_point, m_timeout_duration, m_is_running, now, started>>

TypeOK ==
  /\ m_start_point \in Nat /\ m_timeout_duration \in Int
  /\ m_is_running \in BOOLEAN
  /\ now \in Nat /\ started \in Nat

(* stopTimer() and stopTimer(timeout) *)
Init ==
  /\ m_start_point = 0 /\ m_is_running = FALSE
  /\ m_timeout_duration \in Timeouts \cup {0}
  /\ now = 0 /\ started = 0

-----------------------------------------------------------------------------
CurrentTime == now \div PerMs

ElapsedTime == IF m_is_running THEN CurrentTime - m_start_point ELSE 0

(* Mutant of IsElapsed: not strict. *)
IsElapsedNotStrict == m_timeout_duration = 0 \/ ElapsedTime >= m_timeout_duration

(* Mutant of IsElapsed: true in one millisecond only. *)
IsElapsedOnce == m_timeout_duration = 0 \/ ElapsedTime = m_timeout_duration + 1

(* The value of IsElapsed(), which has one while the timer is running *)
IsElapsed == m_timeout_duration = 0 \/ ElapsedTime > m_timeout_duration

IsRunningAndElapsed == m_is_running /\ IsElapsed

(* Mutant of LeftTime: the start is forgotten. *)
LeftTimeSinceBoot == IF m_is_running THEN m_timeout_duration - CurrentTime ELSE 0

LeftTime == IF m_is_running THEN m_timeout_duration - ElapsedTime ELSE 0

-----------------------------------------------------------------------------
(* Mutant of SetTimeout: it starts the timer anew. *)
SetTimeoutRestarts(t) ==
  /\ m_timeout_duration' = t
  /\ m_start_point' = CurrentTime
  /\ UNCHANGED <<m_is_running, now, started>>

SetTimeout(t) ==
  /\ m_timeout_duration' = t
  /\ UNCHANGED <<m_start_point, m_is_running, now, started>>

Reset ==
  /\ m_is_running' = FALSE /\ m_start_point' = 0
  /\ UNCHANGED <<m_timeout_duration, now, started>>

Stop ==
  /\ m_is_running' = FALSE
  /\ UNCHANGED <<m_start_point, m_timeout_duration, now, started>>

(* Start(), which keeps the timeout, and Start(new_timeout) *)
Start(t) ==
  /\ m_is_running' = TRUE /\ m_start_point' = CurrentTime
  /\ m_timeout_duration' = t
  /\ started' = now
  /\ UNCHANGED now

Tick ==
  /\ now < MaxTime
  /\ now' = now + 1
  /\ UNCHANGED <<m_start_point, m_timeout_duration, m_is_running, started>>

Next ==
  \/ \E t \in Timeouts : SetTimeout(t)
  \/ Reset \/ Stop
  \/ \E t \in Timeouts \cup {m_timeout_duration} : Start(t)
  \/ Tick

Spec == Init /\ [][Next]_vars
-----------------------------------------------------------------------------
(* Properties *)

(* stopTimer.hpp:106: "true if timeout elapsed".  Whatever the cuts to     *)
(* milliseconds at the start and now, and whenever the timeout was set,    *)
(* the timer does not report an elapsed timeout before its time.           *)
NeverEarly ==
  IsRunningAndElapsed /\ m_timeout_duration # 0 =>
    now - started > m_timeout_duration * PerMs

(* The strict comparison of cut readings delays the report: by less than   *)
(* two milliseconds.                                                       *)
NeverLate ==
  m_is_running /\ now - started >= (m_timeout_duration + 2) * PerMs - 1 =>
    IsRunningAndElapsed

(* LeftTime() is less than a millisecond away from the time really left.   *)
LeftTimeAccurate ==
  m_is_running =>
    LeftTime * PerMs - (m_timeout_duration * PerMs - (now - started))
      \in 1 - PerMs .. PerMs - 1

(* Once reported, an elapsed timeout stays reported until the timer is     *)
(* stopped or started again or gets another timeout.                       *)
ElapsedStays ==
  [][IsRunningAndElapsed /\ UNCHANGED <<m_is_running, started, m_timeout_duration>> =>
       IsRunningAndElapsed']_vars
=============================================================================
