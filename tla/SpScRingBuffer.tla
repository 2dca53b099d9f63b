--------------------------- MODULE SpScRingBuffer ---------------------------
(***************************************************************************)
(* SpScRingBuffer<T> (threading/spScRingBuffer.hpp) between its producer,  *)
(* which runs ObserverIncomingThread::sendCommand (push, then notifyOne),  *)
(* and its consumer, which runs wait_pop_for or pop.                       *)
(*                                                                         *)
(* Every access to an atomic and to a slot is a step of its own.  The      *)
(* consumer's acquire load of m_head may return an older value than the    *)
(* producer stored, and the producer's load of m_tail likewise: headSeen   *)
(* and tailSeen are the newest values that have become visible to the      *)
(* other side, and the Propagate actions make a store visible.  Release    *)
(* and acquire order the slot accesses around the index they publish, so   *)
(* a slot written before a visible head is read as written.  Each side     *)
(* always reads its own index exactly.                                     *)
(*                                                                         *)
(* m_waitMutex is locked by the consumer only (notifyOne does not take     *)
(* it), so it excludes nobody and is not part of the state.                *)
(*                                                                         *)
(*   ppc "idle", "loadTail", "write", "publish", "notify"                  *)
(*   cpc "idle", "pred" (about to evaluate the wait predicate), "block",   *)
(*       "asleep", "check" (the test after the wait), "pop", "read",       *)
(*       "advance"                                                         *)
(***************************************************************************)
EXTENDS Naturals, Sequences

CONSTANTS
  Values,       \* the commands
  Blank,        \* a value-initialised slot
  InitSizes     \* the arguments init() may be called with

ASSUME RingAssumption ==
  /\ InitSizes \subseteq Nat
  /\ Blank \notin Values

VARIABLES
  m_capacity, m_initialized, m_buffer,
  m_head, m_tail,        \* the atomics, as stored
  headSeen, tailSeen,    \* as visible to the consumer, to the producer
  ppc, value,            \* producer: position, the argument of push
  cpc, timedOut, out,    \* consumer: position, deadline passed, local copy
  popped                 \* what the last successful pop returned

producerVars == <<ppc, value>>
consumerVars == <<cpc, timedOut, out, popped>>
setupVars == <<m_capacity, m_initialized>>
vars == <<setupVars, m_buffer, m_head, m_tail, headSeen, tailSeen,
          producerVars, consumerVars>>

PPC == {"idle", "loadTail", "write", "publish", "notify"}
CPC == {"idle", "pred", "block", "asleep", "check", "pop", "read", "advance"}

Slots == 0 .. m_capacity - 1

TypeOK ==
  /\ m_capacity \in Nat
  /\ m_initialized \in BOOLEAN
  /\ m_initialized <=> m_capacity > 0
  /\ m_buffer \in [Slots -> Values \cup {Blank}]
  /\ {m_head, m_tail, headSeen, tailSeen} \subseteq
       IF m_initialized THEN Slots ELSE {0}
  /\ ppc \in PPC /\ value \in Values \cup {Blank}
  /\ cpc \in CPC /\ timedOut \in BOOLEAN
  /\ out \in Values \cup {Blank} /\ popped \in Values \cup {Blank}

Init ==
  /\ m_capacity = 0 /\ m_initialized = FALSE
  /\ m_buffer = [i \in Slots |-> Blank]
  /\ m_head = 0 /\ m_tail = 0 /\ headSeen = 0 /\ tailSeen = 0
  /\ ppc = "idle" /\ value = Blank
  /\ cpc = "idle" /\ timedOut = FALSE /\ out = Blank /\ popped = Blank

-----------------------------------------------------------------------------
(* Indices *)

(* i & m_mask, the mask being m_capacity - 1 for a power of two *)
Masked(i) == i % m_capacity

(* init() accepts a capacity with a single bit set. *)
IsPowerOfTwo(n) == \E k \in 0 .. n : n = 2^k

(* empty() as the consumer sees it *)
EmptySeen == ~m_initialized \/ m_tail = headSeen

(* full() as the producer sees it, also the test in push *)
FullSeen == m_initialized /\ Masked(m_head + 1) = tailSeen

-----------------------------------------------------------------------------
(* init(), called by the constructor of the owner, before any other thread *)
(* knows the buffer.  An argument that is zero or not a power of two       *)
(* leaves the buffer unchanged.                                            *)
InitBuffer(n) ==
  /\ ~m_initialized
  /\ n # 0
  /\ IsPowerOfTwo(n)
  /\ m_buffer' = [i \in 0 .. n - 1 |-> Blank]
  /\ m_capacity' = n
  /\ m_head' = 0 /\ m_tail' = 0 /\ headSeen' = 0 /\ tailSeen' = 0
  /\ m_initialized' = TRUE
  /\ UNCHANGED <<producerVars, consumerVars>>

(* A store of one side becomes visible to the other, one value at a time.  *)
PropagateHead ==
  /\ headSeen # m_head
  /\ headSeen' = Masked(headSeen + 1)
  /\ UNCHANGED <<setupVars, m_buffer, m_head, m_tail, tailSeen, producerVars,
                 consumerVars>>

PropagateTail ==
  /\ tailSeen # m_tail
  /\ tailSeen' = Masked(tailSeen + 1)
  /\ UNCHANGED <<setupVars, m_buffer, m_head, m_tail, headSeen, producerVars,
                 consumerVars>>

-----------------------------------------------------------------------------
(* Producer: sendCommand *)

ProducerGoes(to) ==
  /\ ppc' = to
  /\ UNCHANGED <<setupVars, m_tail, headSeen, tailSeen>>

(* push(v): an uninitialised buffer refuses it (no change). *)
PushCall(v) ==
  /\ ppc = "idle"
  /\ m_initialized
  /\ value' = v
  /\ ProducerGoes("loadTail")
  /\ UNCHANGED <<m_buffer, m_head, consumerVars>>

(* Mutant of PushLoadTail: the test for a full buffer is dropped. *)
PushNoFullTest ==
  /\ ppc = "loadTail"
  /\ ProducerGoes("write")
  /\ UNCHANGED <<m_buffer, m_head, value, consumerVars>>

(* Acquire load of m_tail; a full buffer makes push return false. *)
PushLoadTail ==
  /\ ppc = "loadTail"
  /\ ProducerGoes(IF FullSeen THEN "idle" ELSE "write")
  /\ UNCHANGED <<m_buffer, m_head, value, consumerVars>>

(* Mutant of PushWrite: the value goes to the slot after the one that is   *)
(* about to be published.                                                  *)
PushWriteNext ==
  /\ ppc = "write"
  /\ m_buffer' = [m_buffer EXCEPT ![Masked(m_head + 1)] = value]
  /\ ProducerGoes("publish")
  /\ UNCHANGED <<m_head, value, consumerVars>>

(* m_buffer[head] = value *)
PushWrite ==
  /\ ppc = "write"
  /\ m_buffer' = [m_buffer EXCEPT ![m_head] = value]
  /\ ProducerGoes("publish")
  /\ UNCHANGED <<m_head, value, consumerVars>>

(* Release store of m_head *)
PushPublish ==
  /\ ppc = "publish"
  /\ m_head' = Masked(m_head + 1)
  /\ ProducerGoes("notify")
  /\ UNCHANGED <<m_buffer, value, consumerVars>>

(* notifyOne(): reaches the consumer only if it is already asleep. *)
NotifyOne ==
  /\ ppc = "notify"
  /\ cpc' = IF cpc = "asleep" THEN "pred" ELSE cpc
  /\ ProducerGoes("idle")
  /\ UNCHANGED <<m_buffer, m_head, value, timedOut, out, popped>>

-----------------------------------------------------------------------------
(* Consumer: wait_pop_for and pop *)

ConsumerGoes(to) ==
  /\ cpc' = to
  /\ UNCHANGED <<setupVars, m_buffer, m_head, headSeen, tailSeen, producerVars>>

(* Both return false at once when the buffer is not initialised. *)
WaitPopCall ==
  /\ cpc = "idle"
  /\ m_initialized
  /\ timedOut' = FALSE
  /\ ConsumerGoes("pred")
  /\ UNCHANGED <<m_tail, out, popped>>

PopCall ==
  /\ cpc = "idle"
  /\ m_initialized
  /\ ConsumerGoes("pop")
  /\ UNCHANGED <<m_tail, timedOut, out, popped>>

(* The predicate !m_initialized || !empty(); after the deadline a false    *)
(* predicate ends the call.                                                *)
EvalPredicate ==
  /\ cpc = "pred"
  /\ ConsumerGoes(IF ~EmptySeen THEN "check"
                  ELSE IF timedOut THEN "idle" ELSE "block")
  /\ UNCHANGED <<m_tail, timedOut, out, popped>>

Block ==
  /\ cpc = "block"
  /\ ConsumerGoes("asleep")
  /\ UNCHANGED <<m_tail, timedOut, out, popped>>

SpuriousWakeup ==
  /\ cpc = "asleep"
  /\ ConsumerGoes("pred")
  /\ UNCHANGED <<m_tail, timedOut, out, popped>>

Timeout ==
  /\ cpc = "asleep"
  /\ timedOut' = TRUE
  /\ ConsumerGoes("pred")
  /\ UNCHANGED <<m_tail, out, popped>>

(* if (!m_initialized || empty()) return false *)
CheckAgain ==
  /\ cpc = "check"
  /\ ConsumerGoes(IF EmptySeen THEN "idle" ELSE "pop")
  /\ UNCHANGED <<m_tail, timedOut, out, popped>>

(* pop(): the acquire load of m_head *)
PopLoadHead ==
  /\ cpc = "pop"
  /\ ConsumerGoes(IF EmptySeen THEN "idle" ELSE "read")
  /\ UNCHANGED <<m_tail, timedOut, out, popped>>

(* out = m_buffer[tail] *)
PopRead ==
  /\ cpc = "read"
  /\ out' = m_buffer[m_tail]
  /\ ConsumerGoes("advance")
  /\ UNCHANGED <<m_tail, timedOut, popped>>

(* Mutant of PopAdvance: the mask is forgotten. *)
PopAdvanceUnmasked ==
  /\ cpc = "advance"
  /\ m_tail' = m_tail + 1
  /\ popped' = out
  /\ ConsumerGoes("idle")
  /\ UNCHANGED <<timedOut, out>>

(* Release store of m_tail; the call returns true with out. *)
PopAdvance ==
  /\ cpc = "advance"
  /\ m_tail' = Masked(m_tail + 1)
  /\ popped' = out
  /\ ConsumerGoes("idle")
  /\ UNCHANGED <<timedOut, out>>

-----------------------------------------------------------------------------
Producer ==
  \/ \E v \in Values : PushCall(v)
  \/ PushLoadTail \/ PushWrite \/ PushPublish \/ NotifyOne

(* The steps of a consumer inside a call *)
ConsumerInside ==
  \/ EvalPredicate \/ Block \/ CheckAgain \/ PopLoadHead \/ PopRead \/ PopAdvance

Next ==
  \/ \E n \in InitSizes : InitBuffer(n)
  \/ PropagateHead \/ PropagateTail
  \/ Producer
  \/ WaitPopCall \/ PopCall \/ SpuriousWakeup \/ Timeout
  \/ ConsumerInside

Spec == Init /\ [][Next]_vars

(* A store becomes visible in finite time; a thread inside a call goes on; *)
(* the observer thread calls wait_pop_for again and again; a deadline is   *)
(* absolute, so waking spuriously and blocking again does not postpone it. *)
Fairness ==
  /\ WF_vars(PropagateHead) /\ WF_vars(PropagateTail)
  /\ WF_vars(PushLoadTail \/ PushWrite \/ PushPublish \/ NotifyOne)
  /\ WF_vars(ConsumerInside)
  /\ WF_vars(WaitPopCall)
  /\ SF_vars(Timeout)

FairSpec == Spec /\ Fairness
-----------------------------------------------------------------------------
(* Properties *)

(* From index a forward to index b around the ring *)
Distance(a, b) == IF b >= a THEN b - a ELSE b - a + m_capacity

Contents ==
  [i \in 1 .. Distance(m_tail, m_head) |-> m_buffer[Masked(m_tail + i - 1)]]

(* Slots are never shared: the consumer only reads a published slot, and   *)
(* the producer only writes a slot whose publication leaves the buffer     *)
(* non-empty, so the two are never at the same slot, although each decides *)
(* from a possibly outdated index of the other.                            *)
NoSlotRace ==
  /\ cpc \in {"read", "advance"} => m_tail # m_head
  /\ ppc \in {"write", "publish"} => Masked(m_head + 1) # m_tail

(* Elements come out in the order they went in, none lost, duplicated or   *)
(* overwritten, at most m_capacity - 1 at a time, and whatever is pushed   *)
(* is eventually popped: the ring buffer implements BoundedQueue.          *)
BQ == INSTANCE BoundedQueue WITH
        queue <- Contents,
        limit <- IF m_initialized THEN m_capacity - 1 ELSE 0,
        taken <- popped

ImplementsBoundedQueue == BQ!BSpec

(* testThreads.hpp:59: the observer blocks "firing immediately if a        *)
(* command arrives", so it never sleeps on a published command that no     *)
(* notification is going to announce.                                      *)
DocFiresImmediately ==
  cpc = "asleep" /\ m_head # m_tail => ppc = "notify"
=============================================================================
