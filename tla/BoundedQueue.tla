---------------------------- MODULE BoundedQueue ----------------------------
(***************************************************************************)
(* What the ring buffer promises its one producer and its one consumer: a  *)
(* FIFO that holds at most limit elements, where an element is put and     *)
(* taken at one instant, and what is put is eventually taken.              *)
(***************************************************************************)
EXTENDS Naturals, Sequences

CONSTANTS Values, Blank

VARIABLES queue,    \* the elements put and not yet taken
          limit,    \* how many it may hold; 0 until the queue is set up
          taken     \* the element taken last

bvars == <<queue, limit, taken>>

BInit == queue = << >> /\ limit = 0 /\ taken = Blank

SetUp ==
  /\ limit = 0
  /\ limit' \in Nat
  /\ UNCHANGED <<queue, taken>>

Put(v) ==
  /\ Len(queue) < limit
  /\ queue' = Append(queue, v)
  /\ UNCHANGED <<limit, taken>>

TakeFirst ==
  /\ queue # << >>
  /\ taken' = Head(queue)
  /\ queue' = Tail(queue)
  /\ UNCHANGED limit

BNext == SetUp \/ (\E v \in Values : Put(v)) \/ TakeFirst

BSafeSpec == BInit /\ [][BNext]_bvars
BSpec == BSafeSpec /\ WF_bvars(TakeFirst)
=============================================================================
