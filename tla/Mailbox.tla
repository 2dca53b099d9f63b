------------------------------ MODULE Mailbox ------------------------------
(***************************************************************************)
(* What a MessageQueue promises the threads that share it, without mutex,  *)
(* condition variable or wake-ups: a FIFO of messages on which every       *)
(* operation takes effect at one instant.                                  *)
(*                                                                         *)
(*   queue       the messages not yet taken                                *)
(*   calling[c]  the blocking call thread c is inside, or "none"           *)
(*   got[c]      the value the last pop of c returned; NoMessage is the    *)
(*               empty shared_ptr                                          *)
(***************************************************************************)
EXTENDS Naturals, Sequences

CONSTANTS Consumers, Messages, NoMessage

VARIABLES queue, calling, got

mvars == <<queue, calling, got>>

MInit ==
  /\ queue = << >>
  /\ calling = [c \in Consumers |-> "none"]
  /\ got = [c \in Consumers |-> NoMessage]

Put(m) ==
  /\ queue' = Append(queue, m)
  /\ UNCHANGED <<calling, got>>

Call(c, o) ==
  /\ calling[c] = "none"
  /\ calling' = [calling EXCEPT ![c] = o]
  /\ UNCHANGED <<queue, got>>

(* A blocked caller receives the oldest message. *)
Deliver(c) ==
  /\ calling[c] # "none"
  /\ queue # << >>
  /\ got' = [got EXCEPT ![c] = Head(queue)]
  /\ queue' = Tail(queue)
  /\ calling' = [calling EXCEPT ![c] = "none"]

(* Only a timed call may come back with nothing, and only when there is    *)
(* nothing to give.                                                        *)
GiveUp(c) ==
  /\ calling[c] = "wait_for"
  /\ queue = << >>
  /\ got' = [got EXCEPT ![c] = NoMessage]
  /\ calling' = [calling EXCEPT ![c] = "none"]
  /\ UNCHANGED queue

(* try_pop: one instant, never blocks. *)
TryTake(c) ==
  /\ calling[c] = "none"
  /\ IF queue = << >>
     THEN got' = [got EXCEPT ![c] = NoMessage] /\ UNCHANGED queue
     ELSE got' = [got EXCEPT ![c] = Head(queue)] /\ queue' = Tail(queue)
  /\ UNCHANGED calling

Discard ==
  /\ queue' = << >>
  /\ UNCHANGED <<calling, got>>

MNext ==
  \/ \E m \in Messages : Put(m)
  \/ \E c \in Consumers : \/ \E o \in {"wait", "wait_for"} : Call(c, o)
                          \/ Deliver(c)
                          \/ GiveUp(c)
                          \/ TryTake(c)
  \/ Discard

MSafeSpec == MInit /\ [][MNext]_mvars

(* Progress: a message is not left lying while some thread is blocked in a *)
(* call that would take it.                                                *)
MSpec == MSafeSpec /\ WF_mvars(\E c \in Consumers : Deliver(c))
=============================================================================
