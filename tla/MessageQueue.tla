---------------------------- MODULE MessageQueue ----------------------------
(***************************************************************************)
(* messaging::MessageQueue (messaging/messageQueue.hpp): a std::queue      *)
(* guarded by m_mutex, with m_conditionVariable for the consumers that     *)
(* block in wait() and wait_for().                                         *)
(*                                                                         *)
(* A critical section whose thread takes no other step while it holds the  *)
(* mutex (push, try_pop, clear) is one action, enabled when the mutex is   *)
(* free.  wait and wait_for hold the mutex across the evaluation of the    *)
(* predicate and the decision to block, so their steps are separate: that  *)
(* window is where a wake-up could be lost.  The notification of push      *)
(* comes after the unlock and is a step of its own.                        *)
(*                                                                         *)
(* Where a consumer is (pc):                                               *)
(*   "idle"     outside the queue                                          *)
(*   "entered"  holds m_mutex, about to evaluate !m_queue.empty()          *)
(*   "block"    holds m_mutex, the predicate was false, about to block     *)
(*   "asleep"   blocked on m_conditionVariable, m_mutex released           *)
(*   "woken"    left the wait set, must reacquire m_mutex                  *)
(* A producer is "idle" or at "notify": it pushed and has not notified.    *)
(***************************************************************************)
EXTENDS Naturals, Sequences, FiniteSets

CONSTANTS
  Producers,    \* threads that call push
  Consumers,    \* threads that call wait, wait_for, try_pop and clear
  Messages,     \* the payloads
  NoMessage,    \* the empty shared_ptr
  NoThread,     \* owner of an unlocked mutex
  MaxQueue      \* bound on the length of m_queue (the code has none)

ASSUME QueueAssumption ==
  /\ IsFiniteSet(Producers) /\ IsFiniteSet(Consumers)
  /\ Producers \cap Consumers = {}
  /\ NoMessage \notin Messages
  /\ NoThread \notin Consumers
  /\ MaxQueue \in Nat

VARIABLES
  m_mutex,      \* the consumer that holds the mutex between steps, or NoThread
  m_queue,      \* the messages
  pc,           \* where each thread is
  op,           \* the call each consumer made last
  timedOut,     \* the consumers whose deadline passed in their current wait_for
  ret           \* what each consumer's last call returned

vars == <<m_mutex, m_queue, pc, op, timedOut, ret>>

Threads == Producers \cup Consumers
Calls == {"none", "wait", "wait_for", "try_pop"}
ConsumerPC == {"idle", "entered", "block", "asleep", "woken"}

TypeOK ==
  /\ m_mutex \in Consumers \cup {NoThread}
  /\ m_queue \in Seq(Messages)
  /\ pc \in [Threads -> ConsumerPC \cup {"notify"}]
  /\ \A c \in Consumers : pc[c] \in ConsumerPC
  /\ \A p \in Producers : pc[p] \in {"idle", "notify"}
  /\ op \in [Consumers -> Calls]
  /\ timedOut \subseteq Consumers
  /\ ret \in [Consumers -> Messages \cup {NoMessage}]

Init ==
  /\ m_mutex = NoThread
  /\ m_queue = << >>
  /\ pc = [t \in Threads |-> "idle"]
  /\ op = [c \in Consumers |-> "none"]
  /\ timedOut = {}
  /\ ret = [c \in Consumers |-> NoMessage]

Asleep == {c \in Consumers : pc[c] = "asleep"}

-----------------------------------------------------------------------------
(* Producers *)

(* Mutant of Push: the message is appended without taking the mutex. *)
PushUnlocked(p, m) ==
  /\ pc[p] = "idle"
  /\ Len(m_queue) < MaxQueue
  /\ m_queue' = Append(m_queue, m)
  /\ pc' = [pc EXCEPT ![p] = "notify"]
  /\ UNCHANGED <<m_mutex, op, timedOut, ret>>

(* Mutant of Push: the pointer is enqueued after it was moved from. *)
PushMovedFrom(p, m) ==
  /\ pc[p] = "idle"
  /\ m_mutex = NoThread
  /\ Len(m_queue) < MaxQueue
  /\ m_queue' = Append(m_queue, NoMessage)
  /\ pc' = [pc EXCEPT ![p] = "notify"]
  /\ UNCHANGED <<m_mutex, op, timedOut, ret>>

(* push, both overloads: the locked block. *)
Push(p, m) ==
  /\ pc[p] = "idle"
  /\ m_mutex = NoThread
  /\ Len(m_queue) < MaxQueue
  /\ m_queue' = Append(m_queue, m)
  /\ pc' = [pc EXCEPT ![p] = "notify"]
  /\ UNCHANGED <<m_mutex, op, timedOut, ret>>

(* notify_one: one sleeping thread, if there is one, leaves the wait set. *)
NotifyOne(p) ==
  /\ pc[p] = "notify"
  /\ IF Asleep = {}
     THEN pc' = [pc EXCEPT ![p] = "idle"]
     ELSE \E c \in Asleep : pc' = [pc EXCEPT ![p] = "idle", ![c] = "woken"]
  /\ UNCHANGED <<m_mutex, m_queue, op, timedOut, ret>>

-----------------------------------------------------------------------------
(* Consumers *)

(* pop(): the front element, or the empty pointer from an empty queue. *)
PopInto(c) ==
  IF m_queue = << >>
  THEN ret' = [ret EXCEPT ![c] = NoMessage] /\ UNCHANGED m_queue
  ELSE ret' = [ret EXCEPT ![c] = Head(m_queue)] /\ m_queue' = Tail(m_queue)

TryPop(c) ==
  /\ pc[c] = "idle"
  /\ m_mutex = NoThread
  /\ PopInto(c)
  /\ op' = [op EXCEPT ![c] = "try_pop"]
  /\ UNCHANGED <<m_mutex, pc, timedOut>>

(* Entry of wait and wait_for: the unique_lock is taken. *)
Enter(c, o) ==
  /\ pc[c] = "idle"
  /\ m_mutex = NoThread
  /\ m_mutex' = c
  /\ pc' = [pc EXCEPT ![c] = "entered"]
  /\ op' = [op EXCEPT ![c] = o]
  /\ timedOut' = timedOut \ {c}
  /\ UNCHANGED <<m_queue, ret>>

(* The predicate is true: pop, unlock, return. *)
Take(c) ==
  /\ pc[c] = "entered"
  /\ m_queue # << >>
  /\ PopInto(c)
  /\ pc' = [pc EXCEPT ![c] = "idle"]
  /\ m_mutex' = NoThread
  /\ UNCHANGED <<op, timedOut>>

(* The predicate is false after the deadline: wait_for returns {}. *)
ReturnEmpty(c) ==
  /\ pc[c] = "entered"
  /\ m_queue = << >>
  /\ c \in timedOut
  /\ ret' = [ret EXCEPT ![c] = NoMessage]
  /\ pc' = [pc EXCEPT ![c] = "idle"]
  /\ m_mutex' = NoThread
  /\ UNCHANGED <<m_queue, op, timedOut>>

(* Mutant of DecideToBlock: the deadline is forgotten after a wake-up. *)
DecideToBlockAgain(c) ==
  /\ pc[c] = "entered"
  /\ m_queue = << >>
  /\ pc' = [pc EXCEPT ![c] = "block"]
  /\ timedOut' = timedOut \ {c}
  /\ UNCHANGED <<m_mutex, m_queue, op, ret>>

(* The predicate is false: the thread will block, still holding the mutex. *)
DecideToBlock(c) ==
  /\ pc[c] = "entered"
  /\ m_queue = << >>
  /\ c \notin timedOut
  /\ pc' = [pc EXCEPT ![c] = "block"]
  /\ UNCHANGED <<m_mutex, m_queue, op, timedOut, ret>>

(* condition_variable::wait: release the mutex and block, atomically. *)
Block(c) ==
  /\ pc[c] = "block"
  /\ pc' = [pc EXCEPT ![c] = "asleep"]
  /\ m_mutex' = NoThread
  /\ UNCHANGED <<m_queue, op, timedOut, ret>>

SpuriousWakeup(c) ==
  /\ pc[c] = "asleep"
  /\ pc' = [pc EXCEPT ![c] = "woken"]
  /\ UNCHANGED <<m_mutex, m_queue, op, timedOut, ret>>

(* The deadline of wait_for passes. *)
Timeout(c) ==
  /\ pc[c] = "asleep"
  /\ op[c] = "wait_for"
  /\ pc' = [pc EXCEPT ![c] = "woken"]
  /\ timedOut' = timedOut \cup {c}
  /\ UNCHANGED <<m_mutex, m_queue, op, ret>>

(* Mutant of Reacquire: the woken thread pops without evaluating the       *)
(* predicate again (an if in place of the predicate loop).                 *)
ReacquireNoRecheck(c) ==
  /\ pc[c] = "woken"
  /\ m_mutex = NoThread
  /\ PopInto(c)
  /\ pc' = [pc EXCEPT ![c] = "idle"]
  /\ UNCHANGED <<m_mutex, op, timedOut>>

(* Mutant of Reacquire: a thread whose deadline passed returns at once,    *)
(* without looking at the queue once more.                                 *)
ReacquireTimeoutReturns(c) ==
  /\ pc[c] = "woken"
  /\ m_mutex = NoThread
  /\ IF c \in timedOut
     THEN /\ pc' = [pc EXCEPT ![c] = "idle"]
          /\ ret' = [ret EXCEPT ![c] = NoMessage]
          /\ UNCHANGED m_mutex
     ELSE /\ pc' = [pc EXCEPT ![c] = "entered"]
          /\ m_mutex' = c
          /\ UNCHANGED ret
  /\ UNCHANGED <<m_queue, op, timedOut>>

(* A woken thread takes the mutex again and evaluates the predicate. *)
Reacquire(c) ==
  /\ pc[c] = "woken"
  /\ m_mutex = NoThread
  /\ m_mutex' = c
  /\ pc' = [pc EXCEPT ![c] = "entered"]
  /\ UNCHANGED <<m_queue, op, timedOut, ret>>

(* clear(): discards what is queued, notifies nobody. *)
Clear(c) ==
  /\ pc[c] = "idle"
  /\ m_mutex = NoThread
  /\ m_queue' = << >>
  /\ UNCHANGED <<m_mutex, pc, op, timedOut, ret>>

-----------------------------------------------------------------------------
(* The steps a thread inside a call takes by itself. *)
Inside(c) ==
  \/ Take(c) \/ ReturnEmpty(c) \/ DecideToBlock(c) \/ Block(c) \/ Reacquire(c)

ConsumerStep(c) ==
  \/ TryPop(c)
  \/ \E o \in {"wait", "wait_for"} : Enter(c, o)
  \/ Inside(c)
  \/ SpuriousWakeup(c)
  \/ Timeout(c)
  \/ Clear(c)

ProducerStep(p) ==
  \/ \E m \in Messages : Push(p, m)
  \/ NotifyOne(p)

Next ==
  \/ \E p \in Producers : ProducerStep(p)
  \/ \E c \in Consumers : ConsumerStep(c)

Spec == Init /\ [][Next]_vars

(* A thread that can run does run: a producer that pushed notifies, a      *)
(* consumer inside a call goes on.  A deadline is an absolute point in     *)
(* time, so blocking again after a spurious wake-up does not postpone it:  *)
(* strong fairness.  Nobody is obliged to call anything.                   *)
Fairness ==
  /\ \A p \in Producers : WF_vars(NotifyOne(p))
  /\ \A c \in Consumers : WF_vars(Inside(c)) /\ SF_vars(Timeout(c))

FairSpec == Spec /\ Fairness
-----------------------------------------------------------------------------
(* Properties *)

(* Wake-ups under way: notifications push still owes, and consumers that   *)
(* left the wait set and have yet to look at the queue.                    *)
Notifying == {p \in Producers : pc[p] = "notify"}
Awake == {c \in Consumers : pc[c] \in {"woken", "entered"}}

(* While a consumer sleeps in wait or wait_for, every queued message has a *)
(* wake-up under way, whatever other consumers popped, timed out or woke   *)
(* spuriously in between: notify_one after the unlock loses nothing.       *)
NoLostWakeup ==
  Asleep # {} => Len(m_queue) <= Cardinality(Notifying) + Cardinality(Awake)

(* wait() never returns the empty pointer, although another consumer may   *)
(* take the message between the notification and the moment the woken      *)
(* thread holds the mutex.                                                 *)
WaitReturnsMessage ==
  \A c \in Consumers : pc[c] = "idle" /\ op[c] = "wait" => ret[c] \in Messages

(* The mutex is held between steps exactly by the consumer that is about   *)
(* to evaluate the predicate or to block, and what it saw when it decided  *)
(* to block still holds.                                                   *)
LockDiscipline ==
  /\ \A c \in Consumers : (pc[c] \in {"entered", "block"}) <=> (m_mutex = c)
  /\ \A c \in Consumers : pc[c] = "block" => m_queue = << >>

(* Every operation takes effect at one instant on one FIFO, and a blocked  *)
(* caller is served as long as there are messages: MessageQueue implements *)
(* Mailbox.                                                                *)
MB == INSTANCE Mailbox WITH
        queue <- m_queue,
        calling <- [c \in Consumers |-> IF pc[c] = "idle" THEN "none" ELSE op[c]],
        got <- ret

ImplementsMailbox == MB!MSpec

(* A timed wait ends, with or without a message, however often the thread  *)
(* is woken too early and whatever others push, try_pop and clear, unless  *)
(* another thread in wait or wait_for keeps taking the mutex (std::mutex   *)
(* promises no fairness).                                                  *)
TimedWaitReturns ==
  \A c \in Consumers :
    <>[](m_mutex \in {c, NoThread}) =>
      (pc[c] # "idle" /\ op[c] = "wait_for" ~> pc[c] = "idle")
=============================================================================
