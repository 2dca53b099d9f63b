---------------------------- MODULE WorkerProofs ----------------------------
(***************************************************************************)
(* Worker: waitPop loses no wake-up, for any number of senders and posts.  *)
(***************************************************************************)
EXTENDS Worker, TLAPS

(* Between waitPop's test and its sleep the mutex keeps the senders out,   *)
(* so a queue that was empty stays so.                                     *)
NoPushBeforeSleep == waiting = "waitPop" /\ at = "block" => queue = 0

IInv == TypeOK /\ NoPushBeforeSleep /\ NoLostWakeup

LEMMA InitIInv == Init => IInv
<1> SUFFICES ASSUME Init PROVE IInv
  OBVIOUS
<1>1. stop \in BOOLEAN
  BY Zenon DEF Init
<1>2. TypeOK
  BY <1>1 DEF Init, TypeOK
<1>3. NoPushBeforeSleep /\ NoLostWakeup
  BY DEF Init, NoPushBeforeSleep, NoLostWakeup
<1> QED BY <1>2, <1>3 DEF IInv

(* Steps of run() change at, and no queue but in Take. *)
LEMMA RunIInv ==
  ASSUME IInv,
         \/ LoopHead \/ Test \/ Block \/ Reacquire \/ Timeout \/ Expire
         \/ Handled \/ Spurious
  PROVE  IInv'
<1>1. TypeOK'
  BY DEF IInv, TypeOK, LoopHead, Test, Block, Reacquire, Timeout, Expire,
         Handled, Spurious, Goes
<1>2. NoPushBeforeSleep'
  <2>1. CASE Test
    BY <2>1 DEF IInv, TypeOK, Test, Predicate, Goes, NoPushBeforeSleep
  <2>2. CASE ~Test
    BY <2>2 DEF IInv, NoPushBeforeSleep, LoopHead, Block, Reacquire,
                Timeout, Expire, Handled, Spurious, Goes
  <2> QED BY <2>1, <2>2
<1>3. NoLostWakeup'
  <2>1. CASE Block
    BY <2>1 DEF IInv, TypeOK, Block, Goes, NoPushBeforeSleep, NoLostWakeup
  <2>2. CASE ~Block
    BY <2>2 DEF IInv, NoLostWakeup, LoopHead, Test, Reacquire, Timeout,
                Expire, Handled, Spurious, Goes
  <2> QED BY <2>1, <2>2
<1> QED BY <1>1, <1>2, <1>3 DEF IInv

LEMMA TakeIInv == ASSUME IInv, Take PROVE IInv'
  BY DEF IInv, TypeOK, NoPushBeforeSleep, NoLostWakeup, Take

(* A push finds the mutex free, and its sender is about to notify. *)
LEMMA PostIInv ==
  ASSUME IInv, NEW s \in Senders, Post(s)
  PROVE  IInv'
<1>1. TypeOK'
  BY DEF IInv, TypeOK, Post
<1>2. NoPushBeforeSleep'
  BY DEF IInv, NoPushBeforeSleep, Post, Locked
<1>3. NoLostWakeup'
  BY DEF IInv, NoLostWakeup, Post
<1> QED BY <1>1, <1>2, <1>3 DEF IInv

(* A notification wakes the task: it is no longer asleep. *)
LEMMA NotifyIInv ==
  ASSUME IInv, NEW s \in Senders, Notify(s)
  PROVE  IInv'
  BY DEF IInv, TypeOK, NoPushBeforeSleep, NoLostWakeup, Notify, Wakes

LEMMA StopIInv ==
  ASSUME IInv, RequestStop \/ Stopping
  PROVE  IInv'
  BY DEF IInv, TypeOK, NoPushBeforeSleep, NoLostWakeup, RequestStop,
         Stopping, WakeUp, Join, Wakes

LEMMA NextIInv == IInv /\ [Next]_vars => IInv'
<1> SUFFICES ASSUME IInv, [Next]_vars PROVE IInv'
  OBVIOUS
<1>1. CASE UNCHANGED vars
  BY <1>1 DEF vars, IInv, TypeOK, NoPushBeforeSleep, NoLostWakeup
<1>2. CASE Run
  <2>1. CASE Notify(Self)
    BY <2>1, NotifyIInv DEF Senders
  <2>2. CASE ~Notify(Self)
    BY <1>2, <2>2, RunIInv, TakeIInv DEF Run
  <2> QED BY <2>1, <2>2
<1>3. CASE Spurious
  BY <1>3, RunIInv
<1>4. CASE RequestStop \/ Stopping
  BY <1>4, StopIInv
<1>5. CASE \E s \in Senders : Post(s) \/ Notify(s)
  BY <1>5, PostIInv, NotifyIInv
<1> QED BY <1>1, <1>2, <1>3, <1>4, <1>5 DEF Next, Stopped

(* No sleep of waitPop on a queue with an element goes without a           *)
(* notification to come: threadSafeQueue.hpp's push, which locks and then  *)
(* notifies, and wait, which tests under the lock, fit together.           *)
THEOREM WakeupCorrect == Spec => []NoLostWakeup
<1>1. Init => IInv
  BY InitIInv
<1>2. IInv /\ [Next]_vars => IInv'
  BY NextIInv
<1>3. IInv => NoLostWakeup
  BY DEF IInv
<1> QED BY <1>1, <1>2, <1>3, PTL DEF Spec
=============================================================================
