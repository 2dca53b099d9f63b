------------------------------- MODULE Worker -------------------------------
(***************************************************************************)
(* A task whose run() sleeps on a condition variable until there is a      *)
(* message or a stop request, in one of the two ways the library offers:   *)
(*                                                                         *)
(*   "waitFor"  workerBase::waitFor with a timeout; the messages are in    *)
(*              the task's messageQueue_ and onPostMessageReceived, if     *)
(*              there is one, calls wakeUp(), which does not lock          *)
(*              m_waitMutex                                                *)
(*   "waitPop"  ThreadSafeQueue::waitPop, with the stop token as its stop  *)
(*              condition; push() locks m_mutex and calls notify_one()     *)
(*                                                                         *)
(* The run() is the one README.md:44 describes, while (!stop_requested())  *)
(* { wait; take one message }, and the task may post to itself, as Task    *)
(* is wired to.                                                            *)
(*                                                                         *)
(*   at  "loop"    about to look at the stop token                         *)
(*       "test"    about to evaluate the wait's predicate                  *)
(*       "block"   it was false: about to sleep                            *)
(*       "asleep", "woken" (notified, or for no reason), "expired"         *)
(*       "take"    the wait has returned                                   *)
(*       "handle"  has a message;  "off"                                   *)
(***************************************************************************)
EXTENDS Naturals

CONSTANTS
  Self,        \* the task as a sender
  Clients,     \* the other threads that send to it
  MaxPosts     \* bound on posted

Senders == Clients \cup {Self}

ASSUME WorkerAssumption == Self \notin Clients /\ MaxPosts \in Nat

VARIABLES
  waiting,     \* which of the two waits run() uses
  at,
  queue,       \* messages in the queue
  posted, taken,
  notifying,   \* the senders between their push and their notification
  stop,        \* stop_requested()
  stopper      \* in stopAndWait(): "idle", "wakeUp", "join", "done"

vars == <<waiting, at, queue, posted, taken, notifying, stop, stopper>>

TypeOK ==
  /\ waiting \in {"waitFor", "waitPop"}
  /\ at \in {"loop", "test", "block", "asleep", "woken", "expired", "take",
             "handle", "off"}
  /\ queue \in Nat /\ posted \in Nat /\ taken \in Nat
  /\ notifying \subseteq Senders
  /\ stop \in BOOLEAN /\ stopper \in {"idle", "wakeUp", "join", "done"}

Init ==
  /\ waiting \in {"waitFor", "waitPop"}
  /\ at = "loop" /\ queue = 0 /\ posted = 0 /\ taken = 0
  /\ notifying = {} /\ stop = FALSE /\ stopper = "idle"

(* The task holds m_mutex, which the senders need too.  Nobody but the     *)
(* task locks m_waitMutex.                                                 *)
Locked == waiting = "waitPop" /\ at \in {"test", "block", "take"}

-----------------------------------------------------------------------------
(* The senders *)

(* Mutant of Post: the push does not take the mutex. *)
PostUnlocked(s) ==
  /\ posted < MaxPosts
  /\ s \notin notifying /\ (s = Self => at = "handle")
  /\ queue' = queue + 1 /\ posted' = posted + 1
  /\ \/ notifying' = notifying \cup {s}
     \/ waiting = "waitFor" /\ UNCHANGED notifying
  /\ UNCHANGED <<waiting, at, taken, stop, stopper>>

(* Send, or ThreadSafeQueue::push: the message is in the queue; with no    *)
(* callback, Send ends here.                                               *)
Post(s) ==
  /\ posted < MaxPosts /\ ~Locked
  /\ s \notin notifying /\ (s = Self => at = "handle")
  /\ queue' = queue + 1 /\ posted' = posted + 1
  /\ \/ notifying' = notifying \cup {s}
     \/ waiting = "waitFor" /\ UNCHANGED notifying
  /\ UNCHANGED <<waiting, at, taken, stop, stopper>>

Wakes == at' = IF at = "asleep" THEN "woken" ELSE at

(* Mutant of Notify: only the first message of a queue is announced. *)
NotifyFirst(s) ==
  /\ s \in notifying
  /\ notifying' = notifying \ {s}
  /\ IF queue = 1 THEN Wakes ELSE UNCHANGED at
  /\ UNCHANGED <<waiting, queue, posted, taken, stop, stopper>>

(* ... then notify_one(), or onPostMessageReceived with wakeUp() *)
Notify(s) ==
  /\ s \in notifying
  /\ notifying' = notifying \ {s}
  /\ Wakes
  /\ UNCHANGED <<waiting, queue, posted, taken, stop, stopper>>

-----------------------------------------------------------------------------
(* run() *)

Goes(to) ==
  at' = to /\ UNCHANGED <<waiting, queue, posted, taken, notifying, stop, stopper>>

LoopHead == at = "loop" /\ Goes(IF stop THEN "off" ELSE "test")

Predicate == stop \/ queue > 0

Test == at = "test" /\ Goes(IF Predicate THEN "take" ELSE "block")

(* The mutex is released in the same step. *)
Block == at = "block" /\ Goes("asleep")

(* A notification that is not one, which the standard allows *)
Spurious == at = "asleep" /\ Goes("woken")

(* The mutex is locked again. *)
Reacquire == at = "woken" /\ Goes("test")

(* Mutant of Timeout: there is none. *)
TimeoutNever == FALSE /\ Goes("expired")

(* Only waitFor has a timeout. *)
Timeout == at = "asleep" /\ waiting = "waitFor" /\ Goes("expired")

(* wait_for evaluates the predicate a last time, for its result only. *)
Expire == at = "expired" /\ Goes("take")

(* try_pop(), or the rest of waitPop *)
Take ==
  /\ at = "take"
  /\ IF queue > 0
     THEN queue' = queue - 1 /\ taken' = taken + 1 /\ at' = "handle"
     ELSE at' = "loop" /\ UNCHANGED <<queue, taken>>
  /\ UNCHANGED <<waiting, posted, notifying, stop, stopper>>

(* What run() does with the message may end with a Send to itself. *)
Handled == at = "handle" /\ Self \notin notifying /\ Goes("loop")

-----------------------------------------------------------------------------
(* stopAndWait(): request_stop(), wakeUp(), join() *)

RequestStop ==
  /\ stopper = "idle"
  /\ stop' = TRUE /\ stopper' = "wakeUp"
  /\ UNCHANGED <<waiting, at, queue, posted, taken, notifying>>

(* wakeUp() notifies m_waitCv, which is not what waitPop waits on. *)
WakeUp ==
  /\ stopper = "wakeUp"
  /\ IF waiting = "waitFor" THEN Wakes ELSE UNCHANGED at
  /\ stopper' = "join"
  /\ UNCHANGED <<waiting, queue, posted, taken, notifying, stop>>

Join ==
  /\ stopper = "join" /\ at = "off"
  /\ stopper' = "done"
  /\ UNCHANGED <<waiting, at, queue, posted, taken, notifying, stop>>

Stopped == stopper = "done" /\ UNCHANGED vars

-----------------------------------------------------------------------------
Run ==
  \/ LoopHead \/ Test \/ Block \/ Reacquire \/ Timeout \/ Expire \/ Take
  \/ Handled \/ Notify(Self)

Stopping == WakeUp \/ Join

Next ==
  \/ Run \/ Spurious \/ RequestStop \/ Stopping \/ Stopped
  \/ \E s \in Senders : Post(s) \/ Notify(s)

Spec == Init /\ [][Next]_vars

(* The task runs and its timeouts expire; a sender and a stopper that have *)
(* begun go on.  No post, no stop and no spurious wake-up is promised.     *)
FairSpec ==
  /\ Spec /\ WF_vars(Run) /\ WF_vars(Stopping)
  /\ \A s \in Clients : WF_vars(Notify(s))
-----------------------------------------------------------------------------
(* Properties *)

(* threadSafeQueue.hpp:69: waitPop blocks "until either an element becomes *)
(* available or the provided stop condition is met".  It never sleeps on a *)
(* queue with an element unless a push is about to notify it, whatever     *)
(* falls between its test and its sleep.                                   *)
NoLostWakeup ==
  waiting = "waitPop" /\ at = "asleep" /\ queue > 0 => notifying # {}

(* Every message is taken, unless a stop comes first: in waitFor, whose    *)
(* notification may fall between the test and the sleep or be left out,    *)
(* as well as in waitPop, which has no timeout.                            *)
MailTaken == \A i \in 1 .. MaxPosts : posted >= i ~> taken >= i \/ stop

(* workerBase.hpp:104: stopAndWait() "blocks until the worker thread       *)
(* finishes".  It does, also when wakeUp() comes too early for the sleep,  *)
(* and only a task that sleeps in waitPop on an empty queue keeps it       *)
(* waiting, since nothing notifies that a stop was requested.              *)
StopEnds ==
  stopper # "idle" ~>
    \/ stopper = "done"
    \/ waiting = "waitPop" /\ at = "asleep" /\ queue = 0
=============================================================================
