------------------------- MODULE MessageQueueProofs -------------------------
(***************************************************************************)
(* Theorems about MessageQueue, for any finite sets of producers and       *)
(* consumers, any set of messages and any bound on the queue.              *)
(***************************************************************************)
EXTENDS MessageQueue, FiniteSetTheorems, SequenceTheorems, TLAPS

(***************************************************************************)
(* What a consumer inside a call carries: the call it made, and a passed   *)
(* deadline only if that call is the timed one.  Needed because a          *)
(* wait() that returned through ReturnEmpty would return nothing.          *)
(***************************************************************************)
CallInv ==
  \A c \in Consumers : pc[c] # "idle" =>
    /\ op[c] \in {"wait", "wait_for"}
    /\ c \in timedOut => op[c] = "wait_for"

IInv == TypeOK /\ LockDiscipline /\ CallInv

(* pop() keeps the types, whether or not there is something to pop, and    *)
(* shortens a non-empty queue by one.                                      *)
LEMMA PopFacts ==
  ASSUME NEW c \in Consumers, TypeOK, PopInto(c)
  PROVE  /\ m_queue' \in Seq(Messages)
         /\ ret' \in [Consumers -> Messages \cup {NoMessage}]
         /\ m_queue # << >> => Len(m_queue') = Len(m_queue) - 1
         /\ m_queue = << >> => m_queue' = m_queue
         /\ m_queue # << >> => ret'[c] \in Messages
         /\ \A d \in Consumers \ {c} : ret'[d] = ret[d]
<1>1. CASE m_queue = << >>
  BY <1>1 DEF PopInto, TypeOK
<1>2. CASE m_queue # << >>
  <2>1. /\ Head(m_queue) \in Messages
        /\ Tail(m_queue) \in Seq(Messages)
        /\ Len(Tail(m_queue)) = Len(m_queue) - 1
    BY <1>2, HeadTailProperties DEF TypeOK
  <2> QED
    BY <1>2, <2>1 DEF PopInto, TypeOK
<1> QED
  BY <1>1, <1>2

(* The actions that leave TypeOK intact: every action of the queue keeps   *)
(* each variable in its type, starting from empty queue and idle threads.  *)
LEMMA TypeStep == TypeOK /\ [Next]_vars => TypeOK'
<1> SUFFICES ASSUME TypeOK, [Next]_vars PROVE TypeOK'
  OBVIOUS
<1> USE QueueAssumption DEF TypeOK, Threads, ConsumerPC, Calls
<1>1. ASSUME NEW p \in Producers, NEW m \in Messages, Push(p, m) PROVE TypeOK'
  BY <1>1 DEF Push
<1>2. ASSUME NEW p \in Producers, NotifyOne(p) PROVE TypeOK'
  BY <1>2 DEF NotifyOne, Asleep
<1>3. ASSUME NEW c \in Consumers, TryPop(c) PROVE TypeOK'
  BY <1>3, PopFacts DEF TryPop
<1>4. ASSUME NEW c \in Consumers, NEW o \in {"wait", "wait_for"}, Enter(c, o)
      PROVE TypeOK'
  BY <1>4 DEF Enter
<1>5. ASSUME NEW c \in Consumers, Take(c) PROVE TypeOK'
  BY <1>5, PopFacts DEF Take
<1>6. ASSUME NEW c \in Consumers,
             \/ ReturnEmpty(c) \/ DecideToBlock(c) \/ Block(c) \/ Reacquire(c)
      PROVE TypeOK'
  BY <1>6 DEF ReturnEmpty, DecideToBlock, Block, Reacquire
<1>7. ASSUME NEW c \in Consumers, SpuriousWakeup(c) \/ Timeout(c) PROVE TypeOK'
  BY <1>7 DEF SpuriousWakeup, Timeout
<1>8. ASSUME NEW c \in Consumers, Clear(c) PROVE TypeOK'
  BY <1>8, EmptySeq DEF Clear
<1>9. CASE UNCHANGED vars
  BY <1>9 DEF vars
<1> QED
  BY <1>1, <1>2, <1>3, <1>4, <1>5, <1>6, <1>7, <1>8, <1>9
  DEF Next, ProducerStep, ConsumerStep, Inside

LEMMA TypeInit == Init => TypeOK
  BY QueueAssumption, EmptySeq DEF Init, TypeOK, Threads, ConsumerPC, Calls

(* The queue keeps its types: messageQueue.hpp never enqueues or returns   *)
(* anything but a message or the empty pointer, for any number of threads. *)
THEOREM TypeCorrect == Spec => []TypeOK
<1> QED BY TypeInit, TypeStep, PTL DEF Spec

-----------------------------------------------------------------------------
(* The mutex is owned between steps by the one consumer that is about to   *)
(* evaluate the predicate or to block; nothing is pushed under its feet.   *)
LEMMA LockStep == TypeOK /\ LockDiscipline /\ [Next]_vars => LockDiscipline'
<1> SUFFICES ASSUME TypeOK, LockDiscipline, [Next]_vars PROVE LockDiscipline'
  OBVIOUS
<1> USE QueueAssumption DEF TypeOK, LockDiscipline, Threads, ConsumerPC
<1>1. ASSUME NEW p \in Producers, NEW m \in Messages, Push(p, m)
      PROVE LockDiscipline'
  BY <1>1 DEF Push
<1>2. ASSUME NEW p \in Producers, NotifyOne(p) PROVE LockDiscipline'
  BY <1>2 DEF NotifyOne, Asleep
<1>3. ASSUME NEW c \in Consumers, TryPop(c) PROVE LockDiscipline'
  BY <1>3, PopFacts DEF TryPop
<1>4. ASSUME NEW c \in Consumers, NEW o \in {"wait", "wait_for"}, Enter(c, o)
      PROVE LockDiscipline'
  BY <1>4 DEF Enter
<1>5. ASSUME NEW c \in Consumers, Take(c) PROVE LockDiscipline'
  BY <1>5 DEF Take
<1>6. ASSUME NEW c \in Consumers,
             \/ ReturnEmpty(c) \/ DecideToBlock(c) \/ Block(c) \/ Reacquire(c)
      PROVE LockDiscipline'
  BY <1>6 DEF ReturnEmpty, DecideToBlock, Block, Reacquire
<1>7. ASSUME NEW c \in Consumers, SpuriousWakeup(c) \/ Timeout(c) \/ Clear(c)
      PROVE LockDiscipline'
  BY <1>7 DEF SpuriousWakeup, Timeout, Clear
<1>8. CASE UNCHANGED vars
  BY <1>8 DEF vars
<1> QED
  BY <1>1, <1>2, <1>3, <1>4, <1>5, <1>6, <1>7, <1>8
  DEF Next, ProducerStep, ConsumerStep, Inside

LEMMA CallStep == TypeOK /\ CallInv /\ [Next]_vars => CallInv'
<1> SUFFICES ASSUME TypeOK, CallInv, [Next]_vars PROVE CallInv'
  OBVIOUS
<1> USE QueueAssumption DEF TypeOK, CallInv, Threads, ConsumerPC
<1>1. ASSUME NEW p \in Producers, NEW m \in Messages, Push(p, m) PROVE CallInv'
  BY <1>1 DEF Push
<1>2. ASSUME NEW p \in Producers, NotifyOne(p) PROVE CallInv'
  BY <1>2 DEF NotifyOne, Asleep
<1>3. ASSUME NEW c \in Consumers, TryPop(c) PROVE CallInv'
  BY <1>3 DEF TryPop
<1>4. ASSUME NEW c \in Consumers, NEW o \in {"wait", "wait_for"}, Enter(c, o)
      PROVE CallInv'
  BY <1>4 DEF Enter
<1>5. ASSUME NEW c \in Consumers, Inside(c) PROVE CallInv'
  BY <1>5 DEF Inside, Take, ReturnEmpty, DecideToBlock, Block, Reacquire
<1>6. ASSUME NEW c \in Consumers, SpuriousWakeup(c) \/ Timeout(c) \/ Clear(c)
      PROVE CallInv'
  BY <1>6 DEF SpuriousWakeup, Timeout, Clear
<1>7. CASE UNCHANGED vars
  BY <1>7 DEF vars
<1> QED
  BY <1>1, <1>2, <1>3, <1>4, <1>5, <1>6, <1>7
  DEF Next, ProducerStep, ConsumerStep

LEMMA Inductive == Spec => []IInv
<1>1. Init => IInv
  BY TypeInit, QueueAssumption DEF Init, IInv, LockDiscipline, CallInv, Threads
<1>2. IInv /\ [Next]_vars => IInv'
  BY TypeStep, LockStep, CallStep DEF IInv
<1> QED BY <1>1, <1>2, PTL DEF Spec

-----------------------------------------------------------------------------
(* wait() returns a message for every number of competing consumers: the   *)
(* predicate is evaluated under the mutex after each wake-up.              *)
THEOREM WaitCorrect == Spec => []WaitReturnsMessage
<1>1. Init => WaitReturnsMessage
  BY DEF Init, WaitReturnsMessage
<1>2. IInv /\ WaitReturnsMessage /\ [Next]_vars => WaitReturnsMessage'
  <2> SUFFICES ASSUME IInv, WaitReturnsMessage, [Next]_vars
               PROVE WaitReturnsMessage'
    OBVIOUS
  <2> USE QueueAssumption DEF IInv, TypeOK, CallInv, WaitReturnsMessage, Threads,
          ConsumerPC
  <2>1. ASSUME NEW p \in Producers, NEW m \in Messages, Push(p, m)
        PROVE WaitReturnsMessage'
    BY <2>1 DEF Push
  <2>2. ASSUME NEW p \in Producers, NotifyOne(p) PROVE WaitReturnsMessage'
    BY <2>2 DEF NotifyOne, Asleep
  <2>3. ASSUME NEW c \in Consumers, TryPop(c) PROVE WaitReturnsMessage'
    BY <2>3, PopFacts DEF TryPop
  <2>4. ASSUME NEW c \in Consumers, NEW o \in {"wait", "wait_for"}, Enter(c, o)
        PROVE WaitReturnsMessage'
    BY <2>4 DEF Enter
  <2>5. ASSUME NEW c \in Consumers, Take(c) PROVE WaitReturnsMessage'
    BY <2>5, PopFacts DEF Take
  <2>6. ASSUME NEW c \in Consumers,
               \/ ReturnEmpty(c) \/ DecideToBlock(c) \/ Block(c) \/ Reacquire(c)
        PROVE WaitReturnsMessage'
    BY <2>6 DEF ReturnEmpty, DecideToBlock, Block, Reacquire
  <2>7. ASSUME NEW c \in Consumers, SpuriousWakeup(c) \/ Timeout(c) \/ Clear(c)
        PROVE WaitReturnsMessage'
    BY <2>7 DEF SpuriousWakeup, Timeout, Clear
  <2>8. CASE UNCHANGED vars
    BY <2>8 DEF vars
  <2> QED
    BY <2>1, <2>2, <2>3, <2>4, <2>5, <2>6, <2>7, <2>8
    DEF Next, ProducerStep, ConsumerStep, Inside
<1> QED BY <1>1, <1>2, Inductive, PTL DEF Spec
-----------------------------------------------------------------------------
(* Wake-ups are counted with cardinalities of finite sets of threads. *)
LEMMA CountFacts ==
  /\ IsFiniteSet(Notifying) /\ IsFiniteSet(Awake)
  /\ Cardinality(Notifying) \in Nat /\ Cardinality(Awake) \in Nat
<1>1. Notifying \in SUBSET Producers /\ Awake \in SUBSET Consumers
  BY DEF Notifying, Awake
<1>2. IsFiniteSet(Notifying) /\ IsFiniteSet(Awake)
  BY <1>1, FS_Subset, QueueAssumption
<1> QED BY <1>2, FS_CardinalityType

(* No message waits behind a sleeping consumer without a wake-up under     *)
(* way: push may notify after it released the mutex, notify_one may pick   *)
(* any sleeper, and consumers may time out or steal, in any numbers.       *)
THEOREM WakeupCorrect == Spec => []NoLostWakeup
<1>1. Init => NoLostWakeup
  BY DEF Init, NoLostWakeup, Asleep, Threads
<1>2. IInv /\ NoLostWakeup /\ [Next]_vars => NoLostWakeup'
  <2> SUFFICES ASSUME IInv, NoLostWakeup, [Next]_vars
               PROVE NoLostWakeup'
    OBVIOUS
  <2> DEFINE N == Cardinality(Notifying)
             A == Cardinality(Awake)
             N1 == Cardinality(Notifying')
             A1 == Cardinality(Awake')
  <2> USE QueueAssumption DEF IInv, TypeOK, Threads, ConsumerPC
  <2>0. /\ N \in Nat /\ A \in Nat
        /\ IsFiniteSet(Notifying) /\ IsFiniteSet(Awake)
        /\ Len(m_queue) \in Nat
    BY CountFacts, LenProperties
  <2>01. N1 \in Nat /\ A1 \in Nat
    <3>1. Notifying' \in SUBSET Producers /\ Awake' \in SUBSET Consumers
      BY DEF Notifying, Awake
    <3> QED BY <3>1, FS_Subset, FS_CardinalityType
  <2> SUFFICES ASSUME Asleep' # {}
               PROVE  Len(m_queue') <= N1 + A1
    BY DEF NoLostWakeup
  <2>1. ASSUME NEW p \in Producers, NEW m \in Messages, Push(p, m)
        PROVE Len(m_queue') <= N1 + A1
    <3>1. Notifying' = Notifying \cup {p} /\ p \notin Notifying
      BY <2>1 DEF Push, Notifying
    <3>2. Awake' = Awake /\ Asleep' = Asleep
      BY <2>1 DEF Push, Awake, Asleep
    <3>3. Len(m_queue') = Len(m_queue) + 1
      BY <2>1, AppendProperties DEF Push
    <3>4. N1 = N + 1
      BY <2>0, <3>1, FS_AddElement
    <3> QED BY <2>0, <3>2, <3>3, <3>4 DEF NoLostWakeup
  <2>2. ASSUME NEW p \in Producers, NotifyOne(p)
        PROVE Len(m_queue') <= N1 + A1
    <3>1. PICK c \in Asleep : pc' = [pc EXCEPT ![p] = "idle", ![c] = "woken"]
      BY <2>2 DEF NotifyOne, Asleep
    <3>2. c # p
      BY <3>1 DEF Asleep
    <3>3. Notifying' = Notifying \ {p} /\ p \in Notifying
      BY <2>2, <3>1, <3>2 DEF NotifyOne, Notifying, Asleep
    <3>4. Awake' = Awake \cup {c} /\ c \notin Awake
      BY <2>2, <3>1, <3>2 DEF NotifyOne, Awake, Asleep
    <3>5. N1 = N - 1
      BY <2>0, <3>3, FS_RemoveElement
    <3>6. A1 = A + 1
      BY <2>0, <3>4, FS_AddElement
    <3>7. m_queue' = m_queue
      BY <2>2 DEF NotifyOne
    <3> QED BY <2>0, <3>1, <3>5, <3>6, <3>7 DEF NoLostWakeup
  <2>3. ASSUME NEW c \in Consumers, TryPop(c)
        PROVE Len(m_queue') <= N1 + A1
    <3>1. Len(m_queue') <= Len(m_queue)
      BY <2>0, <2>3, PopFacts DEF TryPop
    <3>2. Notifying' = Notifying /\ Awake' = Awake /\ Asleep' = Asleep
      BY <2>3 DEF TryPop, Notifying, Awake, Asleep
    <3>3. Len(m_queue') \in Nat
      BY <2>3, PopFacts, LenProperties DEF TryPop
    <3> QED BY <2>0, <3>1, <3>2, <3>3 DEF NoLostWakeup
  <2>4. ASSUME NEW c \in Consumers, Take(c)
        PROVE Len(m_queue') <= N1 + A1
    <3>1. Len(m_queue') = Len(m_queue) - 1
      BY <2>4, PopFacts DEF Take
    <3>2. Notifying' = Notifying /\ Asleep' = Asleep
      BY <2>4 DEF Take, Notifying, Asleep
    <3>3. Awake' = Awake \ {c} /\ c \in Awake
      BY <2>4 DEF Take, Awake
    <3>4. A1 = A - 1
      BY <2>0, <3>3, FS_RemoveElement
    <3> QED BY <2>0, <3>1, <3>2, <3>4 DEF NoLostWakeup
  <2>5. ASSUME NEW c \in Consumers,
               \/ \E o \in {"wait", "wait_for"} : Enter(c, o)
               \/ Reacquire(c) \/ SpuriousWakeup(c) \/ Timeout(c)
        PROVE Len(m_queue') <= N1 + A1
    <3>1. Notifying' = Notifying /\ m_queue' = m_queue
      BY <2>5 DEF Enter, Reacquire, SpuriousWakeup, Timeout, Notifying
    <3>2. Awake' = Awake \cup {c} /\ Asleep' \subseteq Asleep
      BY <2>5 DEF Enter, Reacquire, SpuriousWakeup, Timeout, Awake, Asleep
    <3>3. A1 = IF c \in Awake THEN A ELSE A + 1
      BY <2>0, <3>2, FS_AddElement
    <3> QED BY <2>0, <2>01, <3>1, <3>2, <3>3 DEF NoLostWakeup
  <2>6. ASSUME NEW c \in Consumers,
               \/ ReturnEmpty(c) \/ DecideToBlock(c) \/ Block(c) \/ Clear(c)
        PROVE Len(m_queue') <= N1 + A1
    <3>1. m_queue' = << >>
      BY <2>6 DEF ReturnEmpty, DecideToBlock, Block, Clear, LockDiscipline
    <3>2. Len(m_queue') = 0
      BY <3>1, EmptySeq
    <3> QED BY <2>01, <3>2
  <2>7. CASE UNCHANGED vars
    <3>1. /\ Notifying' = Notifying /\ Awake' = Awake /\ Asleep' = Asleep
          /\ m_queue' = m_queue
      BY <2>7 DEF vars, Notifying, Awake, Asleep
    <3> QED BY <3>1 DEF NoLostWakeup
  <2> QED
    BY <2>1, <2>2, <2>3, <2>4, <2>5, <2>6, <2>7
    DEF Next, ProducerStep, ConsumerStep, Inside
<1> QED BY <1>1, <1>2, Inductive, PTL DEF Spec

-----------------------------------------------------------------------------
(* Every step of the queue is a step of Mailbox or leaves it alone: push,  *)
(* the pops and clear take effect at one instant each, and everything      *)
(* between (locking, blocking, waking) is invisible to the callers.        *)
THEOREM RefinesMailbox == Spec => MB!MSafeSpec
<1> DEFINE Calling == [c \in Consumers |-> IF pc[c] = "idle" THEN "none" ELSE op[c]]
<1> USE QueueAssumption DEF TypeOK, Threads, ConsumerPC
<1>1. Init => MB!MInit
  BY DEF Init, MB!MInit
<1>2. IInv /\ [Next]_vars => [MB!MNext]_(MB!mvars)
  <2> SUFFICES ASSUME IInv, [Next]_vars
               PROVE  MB!MNext \/ UNCHANGED <<m_queue, Calling, ret>>
    BY DEF MB!mvars
  <2> USE DEF IInv
  <2>1. ASSUME NEW p \in Producers, NEW m \in Messages, Push(p, m)
        PROVE MB!Put(m)
    BY <2>1 DEF Push, MB!Put
  <2>2. ASSUME NEW p \in Producers, NotifyOne(p)
        PROVE UNCHANGED <<m_queue, Calling, ret>>
    BY <2>2 DEF NotifyOne, Asleep
  <2>3. ASSUME NEW c \in Consumers, TryPop(c)
        PROVE MB!TryTake(c)
    <3>1. Calling' = Calling
      BY <2>3 DEF TryPop
    <3> QED BY <2>3, <3>1 DEF TryPop, PopInto, MB!TryTake
  <2>4. ASSUME NEW c \in Consumers, NEW o \in {"wait", "wait_for"}, Enter(c, o)
        PROVE MB!Call(c, o)
    BY <2>4 DEF Enter, MB!Call
  <2>5. ASSUME NEW c \in Consumers, Take(c)
        PROVE MB!Deliver(c)
    BY <2>5 DEF Take, PopInto, CallInv, MB!Deliver
  <2>6. ASSUME NEW c \in Consumers, ReturnEmpty(c)
        PROVE MB!GiveUp(c)
    BY <2>6 DEF ReturnEmpty, CallInv, MB!GiveUp
  <2>7. ASSUME NEW c \in Consumers,
               \/ DecideToBlock(c) \/ Block(c) \/ Reacquire(c)
               \/ SpuriousWakeup(c) \/ Timeout(c)
        PROVE UNCHANGED <<m_queue, Calling, ret>>
    BY <2>7 DEF DecideToBlock, Block, Reacquire, SpuriousWakeup, Timeout
  <2>8. ASSUME NEW c \in Consumers, Clear(c)
        PROVE MB!Discard
    BY <2>8 DEF Clear, MB!Discard
  <2>9. CASE UNCHANGED vars
    BY <2>9 DEF vars
  <2> QED
    BY <2>1, <2>2, <2>3, <2>4, <2>5, <2>6, <2>7, <2>8, <2>9
    DEF Next, ProducerStep, ConsumerStep, Inside, MB!MNext
<1> QED BY <1>1, <1>2, Inductive, PTL DEF Spec, MB!MSafeSpec
=============================================================================
