------------------------ MODULE SpScRingBufferProofs ------------------------
(***************************************************************************)
(* Theorems about SpScRingBuffer, for every capacity and set of values.    *)
(***************************************************************************)
EXTENDS SpScRingBuffer, SequenceTheorems, TLAPS

(***************************************************************************)
(* The inductive invariant.  Going around the ring one meets the tail the  *)
(* producer knows, the tail, the head the consumer knows and the head, in  *)
(* this order and within one lap less one slot: a view that lags is always *)
(* on the safe side.  The rest is what each thread remembers between the   *)
(* load it decided on and the store that follows.                          *)
(***************************************************************************)
RingOrder ==
  m_initialized =>
    Distance(tailSeen, m_tail) + Distance(m_tail, headSeen)
      + Distance(headSeen, m_head) < m_capacity

ProducerInv ==
  /\ ppc # "idle" => m_initialized /\ value \in Values
  /\ ppc \in {"write", "publish"} => Masked(m_head + 1) # tailSeen
  /\ ppc = "publish" => m_buffer[m_head] = value

ConsumerInv ==
  /\ cpc # "idle" => m_initialized
  /\ cpc \in {"read", "advance"} => m_tail # headSeen
  /\ cpc = "advance" => out = m_buffer[m_tail]

IInv == TypeOK /\ RingOrder /\ ProducerInv /\ ConsumerInv

-----------------------------------------------------------------------------
(* Masking an index of at most one lap is a conditional subtraction. *)
LEMMA MaskWrap ==
  ASSUME NEW n \in Nat, n > 0, NEW i \in 0 .. 2 * n - 1
  PROVE  i % n = IF i >= n THEN i - n ELSE i
<1>1. CASE i < n
  BY <1>1, Z3
<1>2. CASE i >= n
  BY <1>2, Z3
<1> QED BY <1>1, <1>2

(* The successor of a slot index. *)
LEMMA MaskNext ==
  ASSUME m_capacity \in Nat, m_capacity > 0, NEW i \in Slots
  PROVE  /\ Masked(i + 1) = IF i + 1 = m_capacity THEN 0 ELSE i + 1
         /\ Masked(i + 1) \in Slots
  BY MaskWrap DEF Masked, Slots

(* The producer's full test is exact on the ring order: when it does not   *)
(* report full there is room for one more element within the lap.          *)
LEMMA Room ==
  ASSUME TypeOK, m_initialized, RingOrder, Masked(m_head + 1) # tailSeen
  PROVE  Distance(tailSeen, m_tail) + Distance(m_tail, headSeen)
           + Distance(headSeen, m_head) + 1 < m_capacity
<1>1. /\ m_capacity \in Nat /\ m_capacity > 0
      /\ m_head \in Slots /\ m_tail \in Slots
      /\ headSeen \in Slots /\ tailSeen \in Slots
  BY DEF TypeOK
<1>2. Masked(m_head + 1) = IF m_head + 1 = m_capacity THEN 0 ELSE m_head + 1
  BY <1>1, MaskNext
<1> QED
  BY <1>1, <1>2 DEF RingOrder, Distance, Slots

-----------------------------------------------------------------------------
LEMMA TypeStep == TypeOK /\ ProducerInv /\ ConsumerInv /\ [Next]_vars => TypeOK'
<1> SUFFICES ASSUME TypeOK, ProducerInv, ConsumerInv, [Next]_vars PROVE TypeOK'
  OBVIOUS
<1> USE RingAssumption DEF TypeOK, PPC, CPC, producerVars, consumerVars, setupVars
<1>1. ASSUME NEW n \in InitSizes, InitBuffer(n) PROVE TypeOK'
  <2>1. n \in Nat /\ n > 0
    BY <1>1 DEF InitBuffer
  <2> QED BY <1>1, <2>1 DEF InitBuffer, Slots
<1>2. CASE PropagateHead
  <2>1. m_initialized
    BY <1>2 DEF PropagateHead
  <2> QED BY <1>2, <2>1, MaskNext DEF PropagateHead, Slots
<1>3. CASE PropagateTail
  <2>1. m_initialized
    BY <1>3 DEF PropagateTail
  <2> QED BY <1>3, <2>1, MaskNext DEF PropagateTail, Slots
<1>4. ASSUME NEW v \in Values, PushCall(v) PROVE TypeOK'
  BY <1>4 DEF PushCall, ProducerGoes, Slots
<1>5. CASE PushLoadTail
  BY <1>5 DEF PushLoadTail, ProducerGoes, Slots
<1>6. CASE PushWrite
  BY <1>6 DEF PushWrite, ProducerGoes, Slots
<1>7. CASE PushPublish
  <2>1. m_initialized
    BY <1>7 DEF PushPublish, ProducerInv
  <2> QED BY <1>7, <2>1, MaskNext DEF PushPublish, ProducerGoes, Slots
<1>8. CASE NotifyOne
  BY <1>8 DEF NotifyOne, ProducerGoes, Slots
<1>9. CASE WaitPopCall \/ PopCall \/ SpuriousWakeup \/ Timeout
  <2>1. timedOut' \in BOOLEAN
    BY <1>9 DEF WaitPopCall, PopCall, SpuriousWakeup, Timeout
  <2>2. cpc' \in {"pred", "pop"} /\ out' = out /\ popped' = popped /\ m_tail' = m_tail
    BY <1>9 DEF WaitPopCall, PopCall, SpuriousWakeup, Timeout, ConsumerGoes
  <2>3. UNCHANGED <<setupVars, m_buffer, m_head, headSeen, tailSeen, producerVars>>
    BY <1>9 DEF WaitPopCall, PopCall, SpuriousWakeup, Timeout, ConsumerGoes
  <2> QED BY <2>1, <2>2, <2>3 DEF Slots
<1>10. CASE EvalPredicate \/ Block \/ CheckAgain \/ PopLoadHead
  BY <1>10 DEF EvalPredicate, Block, CheckAgain, PopLoadHead, ConsumerGoes, Slots
<1>11. CASE PopRead
  <2>1. m_initialized
    BY <1>11 DEF PopRead, ConsumerInv
  <2> QED BY <1>11, <2>1 DEF PopRead, ConsumerGoes, Slots
<1>12. CASE PopAdvance
  <2>1. m_initialized
    BY <1>12 DEF PopAdvance, ConsumerInv
  <2> QED BY <1>12, <2>1, MaskNext DEF PopAdvance, ConsumerGoes, Slots
<1>13. CASE UNCHANGED vars
  BY <1>13 DEF vars, Slots
<1> QED
  BY <1>1, <1>2, <1>3, <1>4, <1>5, <1>6, <1>7, <1>8, <1>9, <1>10, <1>11, <1>12, <1>13
  DEF Next, Producer, ConsumerInside

(* The indices are slots as soon as the buffer is initialised. *)
LEMMA IndexFacts ==
  ASSUME TypeOK, m_initialized
  PROVE  /\ m_capacity \in Nat /\ m_capacity > 0
         /\ m_head \in Slots /\ m_tail \in Slots
         /\ headSeen \in Slots /\ tailSeen \in Slots
  BY DEF TypeOK

LEMMA RingStep == IInv /\ [Next]_vars => RingOrder'
<1> SUFFICES ASSUME IInv, [Next]_vars PROVE RingOrder'
  OBVIOUS
<1> USE DEF IInv, setupVars
<1>1. ASSUME NEW n \in InitSizes, InitBuffer(n) PROVE RingOrder'
  <2>1. n \in Nat /\ n > 0
    BY <1>1, RingAssumption DEF InitBuffer
  <2> QED BY <1>1, <2>1 DEF InitBuffer, RingOrder, Distance
<1>2. CASE PropagateHead
  <2>1. m_initialized
    BY <1>2 DEF PropagateHead, TypeOK
  <2>2. headSeen' = IF headSeen + 1 = m_capacity THEN 0 ELSE headSeen + 1
    BY <1>2, <2>1, IndexFacts, MaskNext DEF PropagateHead
  <2> QED
    BY <1>2, <2>1, <2>2, IndexFacts DEF PropagateHead, RingOrder, Distance, Slots
<1>3. CASE PropagateTail
  <2>1. m_initialized
    BY <1>3 DEF PropagateTail, TypeOK
  <2>2. tailSeen' = IF tailSeen + 1 = m_capacity THEN 0 ELSE tailSeen + 1
    BY <1>3, <2>1, IndexFacts, MaskNext DEF PropagateTail
  <2> QED
    BY <1>3, <2>1, <2>2, IndexFacts DEF PropagateTail, RingOrder, Distance, Slots
<1>4. CASE PushPublish
  <2>1. m_initialized /\ Masked(m_head + 1) # tailSeen
    BY <1>4 DEF PushPublish, ProducerInv
  <2>2. m_head' = IF m_head + 1 = m_capacity THEN 0 ELSE m_head + 1
    BY <1>4, <2>1, IndexFacts, MaskNext DEF PushPublish
  <2> QED
    BY <1>4, <2>1, <2>2, Room, IndexFacts
    DEF PushPublish, ProducerGoes, RingOrder, Distance, Slots
<1>5. CASE PopAdvance
  <2>1. m_initialized /\ m_tail # headSeen
    BY <1>5 DEF PopAdvance, ConsumerInv
  <2>2. m_tail' = IF m_tail + 1 = m_capacity THEN 0 ELSE m_tail + 1
    BY <1>5, <2>1, IndexFacts, MaskNext DEF PopAdvance
  <2> QED
    BY <1>5, <2>1, <2>2, IndexFacts
    DEF PopAdvance, ConsumerGoes, RingOrder, Distance, Slots
<1>6. CASE UNCHANGED <<setupVars, m_head, m_tail, headSeen, tailSeen>>
  BY <1>6 DEF RingOrder, Distance
<1>7. CASE \/ \E v \in Values : PushCall(v)
           \/ PushLoadTail \/ PushWrite \/ NotifyOne
  BY <1>6, <1>7 DEF PushCall, PushLoadTail, PushWrite, NotifyOne, ProducerGoes
<1>8. CASE \/ WaitPopCall \/ PopCall \/ SpuriousWakeup \/ Timeout
           \/ EvalPredicate \/ Block \/ CheckAgain \/ PopLoadHead \/ PopRead
  BY <1>6, <1>8 DEF WaitPopCall, PopCall, SpuriousWakeup, Timeout, EvalPredicate,
     Block, CheckAgain, PopLoadHead, PopRead, ConsumerGoes
<1>9. CASE UNCHANGED vars
  BY <1>6, <1>9 DEF vars
<1> QED
  BY <1>1, <1>2, <1>3, <1>4, <1>5, <1>7, <1>8, <1>9
  DEF Next, Producer, ConsumerInside

(* A store of the consumer that becomes visible can only open more room    *)
(* for the slot the producer chose.                                        *)
LEMMA ProducerStep == IInv /\ [Next]_vars => ProducerInv'
<1> SUFFICES ASSUME IInv, [Next]_vars PROVE ProducerInv'
  OBVIOUS
<1> USE DEF IInv, setupVars, producerVars, consumerVars
<1>1. ASSUME NEW n \in InitSizes, InitBuffer(n) PROVE ProducerInv'
  BY <1>1 DEF InitBuffer, ProducerInv
<1>2. CASE PropagateHead
  BY <1>2 DEF PropagateHead, ProducerInv, Masked
<1>3. CASE PropagateTail
  <2>1. m_initialized
    BY <1>3 DEF PropagateTail, TypeOK
  <2>2. ppc \in {"write", "publish"} => Masked(m_head + 1) # tailSeen'
    <3> SUFFICES ASSUME ppc \in {"write", "publish"}
                 PROVE  Masked(m_head + 1) # tailSeen'
      OBVIOUS
    <3>1. tailSeen' = IF tailSeen + 1 = m_capacity THEN 0 ELSE tailSeen + 1
      BY <1>3, <2>1, IndexFacts, MaskNext DEF PropagateTail
    <3>2. Masked(m_head + 1) = IF m_head + 1 = m_capacity THEN 0 ELSE m_head + 1
      BY <2>1, IndexFacts, MaskNext
    <3>3. tailSeen # m_tail
      BY <1>3 DEF PropagateTail
    <3> QED
      BY <2>1, <3>1, <3>2, <3>3, IndexFacts DEF RingOrder, Distance, Slots
  <2> QED BY <1>3, <2>1, <2>2 DEF PropagateTail, ProducerInv, Masked
<1>4. ASSUME NEW v \in Values, PushCall(v) PROVE ProducerInv'
  BY <1>4 DEF PushCall, ProducerGoes, ProducerInv
<1>5. CASE PushLoadTail
  BY <1>5 DEF PushLoadTail, ProducerGoes, FullSeen, ProducerInv, Masked
<1>6. CASE PushWrite
  <2>1. m_initialized /\ m_head \in Slots
    BY <1>6, IndexFacts DEF PushWrite, ProducerInv
  <2> QED BY <1>6, <2>1 DEF PushWrite, ProducerGoes, ProducerInv, Masked, TypeOK
<1>7. CASE PushPublish \/ NotifyOne
  BY <1>7 DEF PushPublish, NotifyOne, ProducerGoes, ProducerInv
<1>8. CASE UNCHANGED <<setupVars, m_buffer, m_head, tailSeen, producerVars>>
  BY <1>8 DEF ProducerInv, Masked
<1>9. CASE \/ WaitPopCall \/ PopCall \/ SpuriousWakeup \/ Timeout
           \/ EvalPredicate \/ Block \/ CheckAgain \/ PopLoadHead \/ PopRead
           \/ PopAdvance
  BY <1>8, <1>9 DEF WaitPopCall, PopCall, SpuriousWakeup, Timeout, EvalPredicate,
     Block, CheckAgain, PopLoadHead, PopRead, PopAdvance, ConsumerGoes
<1>10. CASE UNCHANGED vars
  BY <1>8, <1>10 DEF vars
<1> QED
  BY <1>1, <1>2, <1>3, <1>4, <1>5, <1>6, <1>7, <1>9, <1>10
  DEF Next, Producer, ConsumerInside

(* While an element is visible to the consumer its slot is not the one the *)
(* producer may write.                                                     *)
LEMMA Apart ==
  ASSUME TypeOK, m_initialized, RingOrder, m_tail # headSeen
  PROVE  m_tail # m_head
  BY IndexFacts DEF RingOrder, Distance, Slots

LEMMA ConsumerStep == IInv /\ [Next]_vars => ConsumerInv'
<1> SUFFICES ASSUME IInv, [Next]_vars PROVE ConsumerInv'
  OBVIOUS
<1> USE DEF IInv, setupVars, producerVars, consumerVars
<1>1. ASSUME NEW n \in InitSizes, InitBuffer(n) PROVE ConsumerInv'
  BY <1>1 DEF InitBuffer, ConsumerInv
<1>2. CASE PropagateHead
  <2>1. m_initialized
    BY <1>2 DEF PropagateHead, TypeOK
  <2>2. cpc \in {"read", "advance"} => m_tail # headSeen'
    <3>1. headSeen' = IF headSeen + 1 = m_capacity THEN 0 ELSE headSeen + 1
      BY <1>2, <2>1, IndexFacts, MaskNext DEF PropagateHead
    <3>2. headSeen # m_head
      BY <1>2 DEF PropagateHead
    <3> QED
      BY <2>1, <3>1, <3>2, IndexFacts DEF RingOrder, Distance, Slots, ConsumerInv
  <2> QED BY <1>2, <2>1, <2>2 DEF PropagateHead, ConsumerInv
<1>3. CASE PropagateTail
  BY <1>3 DEF PropagateTail, ConsumerInv
<1>4. CASE (\E v \in Values : PushCall(v)) \/ PushLoadTail \/ PushPublish
  BY <1>4 DEF PushCall, PushLoadTail, PushPublish, ProducerGoes, ConsumerInv
<1>5. CASE PushWrite
  <2>1. m_initialized /\ m_head \in Slots
    BY <1>5, IndexFacts DEF PushWrite, ProducerInv
  <2>2. cpc = "advance" => m_buffer'[m_tail] = m_buffer[m_tail]
    BY <1>5, <2>1, Apart, IndexFacts DEF PushWrite, ConsumerInv, TypeOK
  <2> QED BY <1>5, <2>2 DEF PushWrite, ProducerGoes, ConsumerInv
<1>6. CASE NotifyOne
  BY <1>6 DEF NotifyOne, ProducerGoes, ConsumerInv
<1>7. CASE \/ WaitPopCall \/ PopCall \/ SpuriousWakeup \/ Timeout
           \/ EvalPredicate \/ Block \/ CheckAgain
  BY <1>7 DEF WaitPopCall, PopCall, SpuriousWakeup, Timeout, EvalPredicate,
     Block, CheckAgain, ConsumerGoes, ConsumerInv
<1>8. CASE PopLoadHead
  BY <1>8 DEF PopLoadHead, ConsumerGoes, EmptySeen, ConsumerInv
<1>9. CASE PopRead \/ PopAdvance
  BY <1>9 DEF PopRead, PopAdvance, ConsumerGoes, ConsumerInv
<1>10. CASE UNCHANGED vars
  BY <1>10 DEF vars, ConsumerInv
<1> QED
  BY <1>1, <1>2, <1>3, <1>4, <1>5, <1>6, <1>7, <1>8, <1>9, <1>10
  DEF Next, Producer, ConsumerInside

LEMMA Inductive == Spec => []IInv
<1>1. Init => IInv
  <2> SUFFICES ASSUME Init PROVE IInv
    OBVIOUS
  <2>1. m_buffer \in [Slots -> Values \cup {Blank}]
    BY DEF Init, Slots
  <2>2. /\ ~m_initialized /\ m_initialized \in BOOLEAN
        /\ timedOut \in BOOLEAN
        /\ m_capacity = 0 /\ ppc = "idle" /\ cpc = "idle"
    BY DEF Init
  <2>3. {m_head, m_tail, headSeen, tailSeen} \subseteq {0}
    BY DEF Init
  <2>4. ppc \in PPC /\ cpc \in CPC /\ {value, out, popped} \subseteq {Blank}
    BY DEF Init, PPC, CPC
  <2>5. TypeOK
    BY <2>1, <2>2, <2>3, <2>4 DEF TypeOK
  <2> QED BY <2>2, <2>5 DEF IInv, RingOrder, ProducerInv, ConsumerInv
<1>2. IInv /\ [Next]_vars => IInv'
  BY TypeStep, RingStep, ProducerStep, ConsumerStep DEF IInv
<1> QED BY <1>1, <1>2, PTL DEF Spec

-----------------------------------------------------------------------------
(* The indices stay inside the ring and every slot holds a value, for      *)
(* every capacity init() accepts.                                          *)
THEOREM TypeCorrect == Spec => []TypeOK
<1>1. IInv => TypeOK
  BY DEF IInv
<1> QED BY <1>1, Inductive, PTL

(* push and pop never touch the same slot, for every capacity and however  *)
(* far each side's view of the other's index lags behind.                  *)
THEOREM SlotsCorrect == Spec => []NoSlotRace
<1>1. IInv => NoSlotRace
  <2> SUFFICES ASSUME IInv PROVE NoSlotRace
    OBVIOUS
  <2> USE DEF IInv
  <2>1. cpc \in {"read", "advance"} => m_tail # m_head
    BY Apart DEF ConsumerInv
  <2>2. ASSUME ppc \in {"write", "publish"} PROVE Masked(m_head + 1) # m_tail
    <3>1. m_initialized /\ Masked(m_head + 1) # tailSeen
      BY <2>2 DEF ProducerInv
    <3>2. Masked(m_head + 1) = IF m_head + 1 = m_capacity THEN 0 ELSE m_head + 1
      BY <3>1, IndexFacts, MaskNext
    <3> QED
      BY <3>1, <3>2, Room, IndexFacts DEF Distance, Slots
  <2> QED BY <2>1, <2>2 DEF NoSlotRace
<1> QED BY <1>1, Inductive, PTL

-----------------------------------------------------------------------------
(* Refinement.  What BoundedQueue calls limit. *)
Limit == IF m_initialized THEN m_capacity - 1 ELSE 0

(* The number of elements, and where the i-th one lies. *)
LEMMA ContentFacts ==
  ASSUME TypeOK, m_initialized, RingOrder
  PROVE  /\ Distance(m_tail, m_head) \in 0 .. m_capacity - 1
         /\ Distance(m_tail, m_head)
              = Distance(m_tail, headSeen) + Distance(headSeen, m_head)
         /\ \A i \in 1 .. Distance(m_tail, m_head) :
              /\ Masked(m_tail + i - 1) = IF m_tail + i - 1 >= m_capacity
                                          THEN m_tail + i - 1 - m_capacity
                                          ELSE m_tail + i - 1
              /\ Masked(m_tail + i - 1) \in Slots
              /\ Masked(m_tail + i - 1) # m_head
<1>1. /\ m_capacity \in Nat /\ m_capacity > 0
      /\ m_head \in 0 .. m_capacity - 1 /\ m_tail \in 0 .. m_capacity - 1
      /\ headSeen \in 0 .. m_capacity - 1 /\ tailSeen \in 0 .. m_capacity - 1
  BY IndexFacts DEF Slots
<1>2. /\ Distance(m_tail, m_head) \in 0 .. m_capacity - 1
      /\ Distance(m_tail, m_head)
           = Distance(m_tail, headSeen) + Distance(headSeen, m_head)
  BY <1>1 DEF RingOrder, Distance
<1>3. ASSUME NEW i \in 1 .. Distance(m_tail, m_head)
      PROVE  /\ Masked(m_tail + i - 1) = IF m_tail + i - 1 >= m_capacity
                                         THEN m_tail + i - 1 - m_capacity
                                         ELSE m_tail + i - 1
             /\ Masked(m_tail + i - 1) \in Slots
             /\ Masked(m_tail + i - 1) # m_head
  <2>1. i \in Nat /\ i >= 1 /\ i <= Distance(m_tail, m_head)
    BY <1>2
  <2>2. m_tail + i - 1 \in 0 .. 2 * m_capacity - 1
    BY <1>1, <1>2, <2>1
  <2>3. Masked(m_tail + i - 1) = IF m_tail + i - 1 >= m_capacity
                                 THEN m_tail + i - 1 - m_capacity
                                 ELSE m_tail + i - 1
    BY <1>1, <2>2, MaskWrap DEF Masked
  <2> QED BY <1>1, <2>1, <2>2, <2>3 DEF Distance, Slots
<1> QED BY <1>2, <1>3

LEMMA ContentsSame ==
  ASSUME UNCHANGED <<m_capacity, m_buffer, m_head, m_tail>>
  PROVE  Contents' = Contents
  BY DEF Contents, Distance, Masked

LEMMA WriteKeeps == IInv /\ PushWrite => Contents' = Contents
<1> SUFFICES ASSUME IInv, PushWrite PROVE Contents' = Contents
  OBVIOUS
<1> USE DEF IInv
<1>1. m_initialized /\ m_head \in Slots
  BY IndexFacts DEF PushWrite, ProducerInv
<1>2. UNCHANGED <<m_capacity, m_head, m_tail>>
  BY DEF PushWrite, ProducerGoes, setupVars
<1>3. \A j \in Slots : j # m_head => m_buffer'[j] = m_buffer[j]
  BY DEF PushWrite, TypeOK
<1>4. \A i \in 1 .. Distance(m_tail, m_head) :
        m_buffer'[Masked(m_tail + i - 1)] = m_buffer[Masked(m_tail + i - 1)]
  BY <1>1, <1>3, ContentFacts
<1> QED BY <1>2, <1>4 DEF Contents, Distance, Masked

LEMMA PublishAppends ==
  IInv /\ PushPublish => /\ Contents' = Append(Contents, value)
                         /\ Len(Contents) < Limit
                         /\ value \in Values
<1> SUFFICES ASSUME IInv, PushPublish
             PROVE  /\ Contents' = Append(Contents, value)
                    /\ Len(Contents) < Limit
                    /\ value \in Values
  OBVIOUS
<1> USE DEF IInv
<1>1. /\ m_initialized /\ Masked(m_head + 1) # tailSeen
      /\ m_buffer[m_head] = value /\ value \in Values
  BY DEF PushPublish, ProducerInv
<1>2. m_head' = IF m_head + 1 = m_capacity THEN 0 ELSE m_head + 1
  BY <1>1, IndexFacts, MaskNext DEF PushPublish
<1>3. UNCHANGED <<m_capacity, m_tail, m_buffer>>
  BY DEF PushPublish, ProducerGoes, setupVars
<1> DEFINE d == Distance(m_tail, m_head)
<1>4. d \in Nat /\ d + 1 < m_capacity
  <2>1. /\ Distance(tailSeen, m_tail) \in Nat
        /\ d = Distance(m_tail, headSeen) + Distance(headSeen, m_head)
        /\ d \in Nat /\ m_capacity \in Nat
        /\ Distance(m_tail, headSeen) \in Nat /\ Distance(headSeen, m_head) \in Nat
    BY <1>1, ContentFacts, IndexFacts DEF Distance, Slots
  <2>2. Distance(tailSeen, m_tail) + Distance(m_tail, headSeen)
          + Distance(headSeen, m_head) + 1 < m_capacity
    BY <1>1, Room
  <2> QED BY <2>1, <2>2
<1>5. Distance(m_tail, m_head)' = d + 1
  BY <1>1, <1>2, <1>3, <1>4, IndexFacts DEF Distance, Slots
<1>6. Masked(m_tail + (d + 1) - 1) = m_head
  <2>1. m_tail + (d + 1) - 1 \in 0 .. 2 * m_capacity - 1
    BY <1>1, <1>4, IndexFacts DEF Slots
  <2>2. Masked(m_tail + (d + 1) - 1) = IF m_tail + (d + 1) - 1 >= m_capacity
                                       THEN m_tail + (d + 1) - 1 - m_capacity
                                       ELSE m_tail + (d + 1) - 1
    <3>1. m_capacity \in Nat /\ m_capacity > 0 /\ m_tail \in Int
      BY <1>1, IndexFacts DEF Slots
    <3>2. d \in Int
      BY <1>4
    <3> HIDE DEF d
    <3> QED BY <2>1, <3>1, <3>2, MaskWrap DEF Masked
  <2> QED BY <1>1, <1>4, <2>2, IndexFacts DEF Distance, Slots
<1>7. Contents' = [i \in 1 .. d + 1 |-> m_buffer[Masked(m_tail + i - 1)]]
  BY <1>3, <1>5 DEF Contents, Masked
<1>8. Contents = [i \in 1 .. d |-> m_buffer[Masked(m_tail + i - 1)]]
  BY DEF Contents
<1> HIDE DEF d
<1>9. Len(Contents) = d
  BY <1>4, <1>8
<1>10. Contents' = Append(Contents, value)
  <2> DEFINE f(i) == m_buffer[Masked(m_tail + i - 1)]
  <2>1. f(d + 1) = value
    BY <1>1, <1>6
  <2>2. Contents = [i \in 1 .. d |-> f(i)] /\ Contents' = [i \in 1 .. d + 1 |-> f(i)]
    BY <1>7, <1>8
  <2> HIDE DEF f
  <2> QED BY <1>4, <2>1, <2>2
<1> QED BY <1>1, <1>4, <1>9, <1>10, IndexFacts DEF Limit

LEMMA AdvanceTakes ==
  IInv /\ PopAdvance => /\ Contents # << >>
                        /\ Contents' = Tail(Contents)
                        /\ popped' = Head(Contents)
<1> SUFFICES ASSUME IInv, PopAdvance
             PROVE  /\ Contents # << >>
                    /\ Contents' = Tail(Contents)
                    /\ popped' = Head(Contents)
  OBVIOUS
<1> USE DEF IInv
<1>1. /\ m_initialized /\ m_tail # headSeen
      /\ out = m_buffer[m_tail] /\ popped' = out
  BY DEF PopAdvance, ConsumerInv
<1>2. m_tail' = IF m_tail + 1 = m_capacity THEN 0 ELSE m_tail + 1
  BY <1>1, IndexFacts, MaskNext DEF PopAdvance
<1>3. UNCHANGED <<m_capacity, m_head, m_buffer>>
  BY DEF PopAdvance, ConsumerGoes, setupVars
<1>4. m_tail # m_head
  BY <1>1, Apart
<1> DEFINE d == Distance(m_tail, m_head)
<1>5. d \in Nat /\ d > 0 /\ d < m_capacity /\ Distance(m_tail, m_head)' = d - 1
  BY <1>1, <1>2, <1>3, <1>4, IndexFacts DEF Distance, Slots
<1>6. Masked(m_tail + 1 - 1) = m_tail
  BY <1>1, <1>5, ContentFacts, IndexFacts DEF Slots
<1>7. ASSUME NEW i \in 1 .. d - 1
      PROVE  Masked(m_tail' + i - 1) = Masked(m_tail + (i + 1) - 1)
  <2>1. i \in Nat /\ i >= 1 /\ i < d /\ i + 1 \in 1 .. d
    BY <1>5
  <2>2. Masked(m_tail + (i + 1) - 1) = IF m_tail + (i + 1) - 1 >= m_capacity
                                       THEN m_tail + (i + 1) - 1 - m_capacity
                                       ELSE m_tail + (i + 1) - 1
    BY <1>1, <2>1, ContentFacts
  <2>3. m_tail' + i - 1 \in 0 .. 2 * m_capacity - 1
    BY <1>1, <1>2, <1>5, <2>1, IndexFacts DEF Slots
  <2>4. Masked(m_tail' + i - 1) = IF m_tail' + i - 1 >= m_capacity
                                  THEN m_tail' + i - 1 - m_capacity
                                  ELSE m_tail' + i - 1
    <3>1. m_capacity \in Nat /\ m_capacity > 0 /\ m_tail' \in Int /\ i \in Int
      BY <1>1, <1>2, <2>1, IndexFacts DEF Slots
    <3>2. ASSUME NEW t \in Int, t + i - 1 \in 0 .. 2 * m_capacity - 1
          PROVE  Masked(t + i - 1) = IF t + i - 1 >= m_capacity
                                     THEN t + i - 1 - m_capacity
                                     ELSE t + i - 1
      BY <3>1, <3>2, MaskWrap DEF Masked
    <3> QED BY <2>3, <3>1, <3>2 DEF Masked
  <2> QED BY <1>1, <1>2, <1>5, <2>1, <2>2, <2>4, IndexFacts DEF Slots
<1>8. Contents' = [i \in 1 .. d - 1 |-> m_buffer[Masked(m_tail + (i + 1) - 1)]]
  <2>1. Contents' = [i \in 1 .. d - 1 |-> m_buffer[Masked(m_tail' + i - 1)]]
    BY <1>3, <1>5 DEF Contents, Masked
  <2> QED BY <1>7, <2>1
<1>9. Contents = [i \in 1 .. d |-> m_buffer[Masked(m_tail + i - 1)]]
  BY DEF Contents
<1> HIDE DEF d
<1> DEFINE f(i) == m_buffer[Masked(m_tail + i - 1)]
<1>10. Contents = [i \in 1 .. d |-> f(i)] /\ Contents' = [i \in 1 .. d - 1 |-> f(i + 1)]
  BY <1>8, <1>9
<1>11. f(1) = popped'
  BY <1>1, <1>6
<1> HIDE DEF f
<1> QED BY <1>5, <1>10, <1>11

(* The ring buffer behaves like a bounded FIFO of m_capacity - 1 elements  *)
(* on which push and pop take effect at one instant, for every capacity.   *)
THEOREM RefinesBoundedQueue == Spec => BQ!BSafeSpec
<1>1. Init => BQ!BInit
  <2> SUFFICES ASSUME Init PROVE BQ!BInit
    OBVIOUS
  <2>1. Distance(m_tail, m_head) = 0
    BY DEF Init, Distance
  <2>2. Contents = << >>
    BY <2>1 DEF Contents
  <2> QED BY <2>2 DEF Init, BQ!BInit
<1>2. IInv /\ [Next]_vars => [BQ!BNext]_(BQ!bvars)
  <2> SUFFICES ASSUME IInv, [Next]_vars PROVE BQ!BNext \/ UNCHANGED BQ!bvars
    OBVIOUS
  <2> USE DEF setupVars, producerVars, consumerVars
  <2>a. ASSUME Contents' = Contents, UNCHANGED <<m_capacity, m_initialized, popped>>
        PROVE  UNCHANGED BQ!bvars
    BY <2>a DEF BQ!bvars
  <2>1. ASSUME NEW n \in InitSizes, InitBuffer(n) PROVE BQ!SetUp
    <3>1. n \in Nat /\ n > 0
      BY <2>1, RingAssumption DEF InitBuffer
    <3>2. Distance(m_tail, m_head) = 0 /\ Distance(m_tail, m_head)' = 0
      BY <2>1, <3>1 DEF InitBuffer, IInv, TypeOK, Distance
    <3>3. Contents = << >> /\ Contents' = << >>
      BY <3>2 DEF Contents
    <3> QED BY <2>1, <3>1, <3>3 DEF InitBuffer, BQ!SetUp
  <2>2. CASE PushWrite
    BY <2>a, <2>2, WriteKeeps DEF PushWrite, ProducerGoes
  <2>3. CASE PushPublish
    <3>1. UNCHANGED <<m_capacity, m_initialized, popped>>
      BY <2>3 DEF PushPublish, ProducerGoes
    <3>2. BQ!Put(value)
      BY <2>3, <3>1, PublishAppends DEF Limit, BQ!Put
    <3> QED BY <2>3, <3>2, PublishAppends DEF BQ!BNext
  <2>4. CASE PopAdvance
    <3>1. UNCHANGED <<m_capacity, m_initialized>>
      BY <2>4 DEF PopAdvance, ConsumerGoes
    <3> QED BY <2>4, <3>1, AdvanceTakes DEF BQ!TakeFirst, BQ!BNext
  <2>5. ASSUME UNCHANGED <<m_capacity, m_initialized, m_buffer, m_head, m_tail, popped>>
        PROVE  UNCHANGED BQ!bvars
    BY <2>a, <2>5, ContentsSame
  <2>6. CASE PropagateHead \/ PropagateTail
    BY <2>5, <2>6 DEF PropagateHead, PropagateTail
  <2>7. CASE (\E v \in Values : PushCall(v)) \/ PushLoadTail \/ NotifyOne
    BY <2>5, <2>7 DEF PushCall, PushLoadTail, NotifyOne, ProducerGoes
  <2>8. CASE \/ WaitPopCall \/ PopCall \/ SpuriousWakeup \/ Timeout
             \/ EvalPredicate \/ Block \/ CheckAgain \/ PopLoadHead \/ PopRead
    BY <2>5, <2>8 DEF WaitPopCall, PopCall, SpuriousWakeup, Timeout, EvalPredicate,
       Block, CheckAgain, PopLoadHead, PopRead, ConsumerGoes
  <2>9. CASE UNCHANGED vars
    BY <2>5, <2>9 DEF vars
  <2> QED
    BY <2>1, <2>2, <2>3, <2>4, <2>6, <2>7, <2>8, <2>9
    DEF Next, Producer, ConsumerInside, BQ!BNext
<1> QED BY <1>1, <1>2, Inductive, PTL DEF Spec, BQ!BSafeSpec
=============================================================================
