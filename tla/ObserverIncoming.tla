-------------------------- MODULE ObserverIncoming --------------------------
(***************************************************************************)
(* ObserverIncomingThread (testThreads.hpp) in time: the commands main     *)
(* sends it (threadManager.hpp), its intervals, its pause and its stress   *)
(* mode, across stops and restarts.                                        *)
(*                                                                         *)
(* Time passes in Ticks.  A deadline is kept as the time left to it, with  *)
(* 0 for one that is over: the code only ever compares it with now().  The *)
(* steps of the thread take no time: a Tick comes only while it waits or   *)
(* does not run.  m_cmdBuffer is a BoundedQueue, which the ring buffer     *)
(* implements.                                                             *)
(*                                                                         *)
(*   at  "off", "loop" (about to look at the token), "wait" (in            *)
(*       wait_pop_for), "stress", "pause" (about to test that deadline)    *)
(***************************************************************************)
EXTENDS Naturals, Sequences

CONSTANTS
  StressInterval, NormalInterval, SlowInterval, \* 10 ms, 500 ms and 2000 ms
  StressTime,                                   \* 30 s
  PauseTime, ResumeTime,                        \* of the keys p and o: 60 s and 1 s
  Room                                          \* what m_cmdBuffer holds: 7

ASSUME ObserverAssumption ==
  /\ {StressInterval, NormalInterval, SlowInterval, StressTime, PauseTime,
      ResumeTime, Room} \subseteq Nat \ {0}
  /\ StressInterval <= NormalInterval /\ NormalInterval <= SlowInterval

Types == {"StopObserving", "StartObserving", "StressMode", "SetNormalMode"}

(* What the properties measure, in Ticks of the running observer: a stop   *)
(* suspends the first three and a restart goes on with them.               *)
Measures == {"command",  \* since the buffer is not empty
             "event",    \* since its last event or command to pause or resume
             "stress",   \* in stress mode after the end of its time
             "stop"}     \* since the stop request

VARIABLES
  m_cmdBuffer, m_mode, m_interval,
  m_pauseUntil, m_stressUntil, \* time left
  stopToken, at,
  left,                        \* of the current wait
  passed,                      \* see Measures
  asked                        \* the pause asked for since the last event

fields == <<m_mode, m_interval, m_pauseUntil, m_stressUntil>>
vars == <<m_cmdBuffer, fields, stopToken, at, left, passed, asked>>

TypeOK ==
  /\ m_cmdBuffer \in Seq(Types)
  /\ m_mode \in {"Normal", "Stress"}
  /\ m_interval \in {StressInterval, NormalInterval, SlowInterval}
  /\ {m_pauseUntil, m_stressUntil, left, asked} \subseteq Nat
  /\ stopToken \in BOOLEAN
  /\ at \in {"off", "loop", "wait", "stress", "pause"}
  /\ passed \in [Measures -> Nat]

Init ==
  /\ m_cmdBuffer = << >>
  /\ m_mode = "Normal" /\ m_interval = SlowInterval
  /\ m_pauseUntil = 0 /\ m_stressUntil = 0
  /\ stopToken = FALSE /\ at = "loop" /\ left = 0
  /\ passed = [k \in Measures |-> 0] /\ asked = 0

-----------------------------------------------------------------------------
(* sendObserverCommand, called by main whether the observer runs or not: a *)
(* full buffer refuses the command.  A waiting observer is woken, unless   *)
(* the notification falls between a test of the buffer and the block that  *)
(* follows: when the wait begins, or after a spurious wake-up.             *)
SendCommand(c) ==
  /\ IF Len(m_cmdBuffer) < Room
     THEN /\ m_cmdBuffer' = Append(m_cmdBuffer, c)
          /\ left' \in {0, left}
     ELSE UNCHANGED <<m_cmdBuffer, left>>
  /\ UNCHANGED <<fields, stopToken, at, passed, asked>>

(* Mutant of Wait: a paused observer waits until the pause is over. *)
WaitOutPause ==
  /\ at = "loop" /\ ~stopToken
  /\ at' = "wait"
  /\ left' = IF m_cmdBuffer # << >> THEN 0
             ELSE IF m_pauseUntil > m_interval THEN m_pauseUntil ELSE m_interval
  /\ UNCHANGED <<m_cmdBuffer, fields, stopToken, passed, asked>>

(* Mutant of Wait: the buffer is not looked at before the block. *)
WaitBlind ==
  /\ at = "loop" /\ ~stopToken
  /\ at' = "wait"
  /\ left' = m_interval
  /\ UNCHANGED <<m_cmdBuffer, fields, stopToken, passed, asked>>

(* The loop goes on: wait_pop_for(m_interval), which does not block when   *)
(* there is a command.                                                     *)
Wait ==
  /\ at = "loop" /\ ~stopToken
  /\ at' = "wait"
  /\ left' = IF m_cmdBuffer # << >> THEN 0 ELSE m_interval
  /\ UNCHANGED <<m_cmdBuffer, fields, stopToken, passed, asked>>

Leave ==
  /\ at = "loop" /\ stopToken
  /\ at' = "off"
  /\ UNCHANGED <<m_cmdBuffer, fields, stopToken, left, passed, asked>>

Duration(c) == IF c = "StopObserving" THEN PauseTime ELSE ResumeTime

(* Mutant of Pause: a new pause is added to the one under way. *)
PauseLonger(c) ==
  /\ m_pauseUntil' = m_pauseUntil + Duration(c)
  /\ UNCHANGED <<m_mode, m_interval, m_stressUntil>>

(* StopObserving and StartObserving: no event for that long from now on *)
Pause(c) ==
  /\ m_pauseUntil' = Duration(c)
  /\ UNCHANGED <<m_mode, m_interval, m_stressUntil>>

ApplyCommand(c) ==
  \/ c \in {"StopObserving", "StartObserving"} /\ Pause(c)
  \/ /\ c = "StressMode"
     /\ m_mode' = "Stress" /\ m_interval' = StressInterval
     /\ m_stressUntil' = StressTime
     /\ UNCHANGED m_pauseUntil
  \/ /\ c = "SetNormalMode"
     /\ m_mode' = "Normal" /\ m_interval' = NormalInterval
     /\ UNCHANGED <<m_pauseUntil, m_stressUntil>>

(* A spurious wake-up: the test of the buffer finds the missed command. *)
Spurious ==
  /\ at = "wait" /\ m_cmdBuffer # << >>
  /\ left' = 0
  /\ UNCHANGED <<m_cmdBuffer, fields, stopToken, at, passed, asked>>

(* What applying c means for the measures *)
Measured(c) ==
  LET pauses == c \in {"StopObserving", "StartObserving"}
      begins == {IF pauses THEN "event" ELSE "stress"}
                  \cup (IF Tail(m_cmdBuffer) = << >> THEN {"command"} ELSE {})
  IN  /\ passed' = [k \in Measures |-> IF k \in begins THEN 0 ELSE passed[k]]
      /\ asked' = IF pauses THEN Duration(c) ELSE asked

(* wait_pop_for returned: with a command, which is applied, or without *)
Awake ==
  /\ at = "wait" /\ left = 0
  /\ at' = "stress"
  /\ IF m_cmdBuffer # << >>
     THEN /\ ApplyCommand(Head(m_cmdBuffer)) /\ Measured(Head(m_cmdBuffer))
          /\ m_cmdBuffer' = Tail(m_cmdBuffer)
     ELSE UNCHANGED <<m_cmdBuffer, fields, passed, asked>>
  /\ UNCHANGED <<stopToken, left>>

(* Mutant of StressOver: looked at only when there is no pause. *)
StressOverUnpaused == m_mode = "Stress" /\ m_stressUntil = 0 /\ m_pauseUntil = 0

StressOver == m_mode = "Stress" /\ m_stressUntil = 0

(* Stress mode ends by itself and the interval is the long one again. *)
TestStress ==
  /\ at = "stress"
  /\ at' = "pause"
  /\ IF StressOver
     THEN /\ m_mode' = "Normal" /\ m_interval' = SlowInterval
          /\ passed' = [passed EXCEPT !["stress"] = 0]
     ELSE UNCHANGED <<m_mode, m_interval, passed>>
  /\ UNCHANGED <<m_cmdBuffer, m_pauseUntil, m_stressUntil, stopToken, left, asked>>

(* Paused, it continues; otherwise it sends its event. *)
TestPause ==
  /\ at = "pause"
  /\ at' = "loop"
  /\ IF m_pauseUntil > 0
     THEN UNCHANGED <<passed, asked>>
     ELSE passed' = [passed EXCEPT !["event"] = 0] /\ asked' = 0
  /\ UNCHANGED <<m_cmdBuffer, fields, stopToken, left>>

-----------------------------------------------------------------------------
(* stopAllThreads(): its wakeUp() reaches nobody here. *)
Stop ==
  /\ ~stopToken
  /\ stopToken' = TRUE
  /\ UNCHANGED <<m_cmdBuffer, fields, at, left, passed, asked>>

(* restartAllThreads(): run() starts again, with the fields and the        *)
(* commands as they are, those sent meanwhile included.                    *)
Restart ==
  /\ at = "off"
  /\ stopToken' = FALSE /\ at' = "loop"
  /\ passed' = [passed EXCEPT !["stop"] = 0]
  /\ UNCHANGED <<m_cmdBuffer, fields, left, asked>>

Minus1(n) == IF n = 0 THEN 0 ELSE n - 1

(* Which measures run *)
Runs(k) ==
  /\ at = "wait"
  /\ k = "command" => m_cmdBuffer # << >>
  /\ k = "stress" => m_mode = "Stress" /\ m_stressUntil = 0
  /\ k = "stop" => stopToken

Tick ==
  /\ at = "off" \/ (at = "wait" /\ left > 0)
  /\ left' = Minus1(left)
  /\ m_pauseUntil' = Minus1(m_pauseUntil) /\ m_stressUntil' = Minus1(m_stressUntil)
  /\ passed' = [k \in Measures |-> passed[k] + (IF Runs(k) THEN 1 ELSE 0)]
  /\ UNCHANGED <<m_cmdBuffer, m_mode, m_interval, stopToken, at, asked>>

-----------------------------------------------------------------------------
Next ==
  \/ \E c \in Types : SendCommand(c)
  \/ Wait \/ Leave \/ Spurious \/ Awake \/ TestStress \/ TestPause
  \/ Stop \/ Restart \/ Tick

Spec == Init /\ [][Next]_vars
-----------------------------------------------------------------------------
(* Properties *)

(* testThreads.hpp:59: the observer is to fire "immediately if a command   *)
(* arrives".  With a notification it may miss, a command it has accepted   *)
(* waits one interval at most, paused or not, however many lie before it:  *)
(* the buffer is never filled for longer while the observer runs, and what *)
(* it accepted while it was stopped is taken as soon as it runs again.     *)
CommandInTime == passed["command"] <= SlowInterval

(* No sequence of commands silences the observer for longer than the last  *)
(* pause or resume command said, and one interval.                         *)
EventInTime == passed["event"] <= asked + SlowInterval

(* threadManager.hpp:57: "switch to 10 ms interval for 30 s, then revert". *)
(* Stress mode outlives its time by one short interval at most, also when  *)
(* the observer is paused and when it was stopped in stress mode.          *)
StressInTime == passed["stress"] <= StressInterval

(* stopAllThreads() waits for the observer one interval at most: nothing   *)
(* wakes it, but no pause prolongs its wait.                               *)
StopInTime == passed["stop"] <= SlowInterval
=============================================================================
