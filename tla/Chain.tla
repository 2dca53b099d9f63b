-------------------------------- MODULE Chain --------------------------------
(***************************************************************************)
(* The five threads of testThreads.hpp, linked as                          *)
(* ThreadManager::initTestChain links them, with main stopping and         *)
(* restarting them all.                                                    *)
(*                                                                         *)
(*   ObserverIncoming -File-> ApplicationObserver -App-> Processing        *)
(*        |     ^                  |                        ^    |         *)
(*        |     +------Mirror------+                        | Processed    *)
(*        +-----------------------Direct--------------------+    |         *)
(*                         Result <-Transformed- Transformation <-         *)
(*                                                                         *)
(* A queue is a Mailbox, which MessageQueue implements: a push and a pop   *)
(* are one step.  An iteration of run() is: look at the stop token, wait   *)
(* for a message with a timeout, and, if it is of the kind the task        *)
(* handles, send its outputs one after the other.  A message is its kind   *)
(* and the number of the file event it stems from; the texts, sizes and    *)
(* times it also carries decide nothing.  Whether the observer emits an    *)
(* event in an iteration (it may be paused) is left open here.  The        *)
(* observer's own counter starts again at a restart; here the events keep  *)
(* being numbered on, so that they can be told apart.                      *)
(*                                                                         *)
(*   at[t]  "off", "loop" (about to look at the token), "wait", "send"     *)
(***************************************************************************)
EXTENDS Integers, Sequences

CONSTANT MaxEvents     \* bound: file events emitted

ASSUME ChainAssumption == MaxEvents \in Nat

OI == "ObserverIncoming"
AO == "ApplicationObserver"
PT == "Processing"
TT == "Transformation"
RT == "Result"
Tasks == {OI, AO, PT, TT, RT}

VARIABLES
  queue,       \* each task's messageQueue_
  at, event,   \* each task's position and the event it works on
  sends,       \* the sends it still has to do: <<target, kind>>
  stopToken,   \* a stop was requested on the manager's source
  emitted,     \* file events so far
  done         \* the events ResultThread has reported

taskVars == <<at, event, sends>>
vars == <<queue, taskVars, stopToken, emitted, done>>

(* setNext, setDirectToProcessing and setMirror, in the order of the sends *)
Outputs ==
  [t \in Tasks |->
     CASE t = OI -> << <<AO, "File">>, <<PT, "Direct">> >>
       [] t = AO -> << <<OI, "Mirror">>, <<PT, "App">> >>
       [] t = PT -> << <<TT, "Processed">> >>
       [] t = TT -> << <<RT, "Transformed">> >>
       [] t = RT -> << >>]

(* The type the task's dynamic_pointer_cast asks for *)
Handles ==
  [t \in Tasks \ {OI} |->
     CASE t = AO -> "File" [] t = PT -> "App" [] t = TT -> "Processed"
       [] t = RT -> "Transformed"]

Init ==
  /\ queue = [t \in Tasks |-> << >>]
  /\ at = [t \in Tasks |-> "loop"]
  /\ event = [t \in Tasks |-> 0]
  /\ sends = [t \in Tasks |-> << >>]
  /\ stopToken = FALSE /\ emitted = 0 /\ done = << >>

-----------------------------------------------------------------------------
Goes(t, to) == at' = [at EXCEPT ![t] = to]

(* Mutant of LoopHead: a stop is seen in the middle of an iteration. *)
LoopHeadAnywhere(t) ==
  /\ at[t] = "loop" \/ (stopToken /\ at[t] # "off")
  /\ Goes(t, IF stopToken THEN "off" ELSE "wait")
  /\ UNCHANGED <<queue, event, sends, stopToken, emitted, done>>

(* while (!stopToken.stop_requested()) *)
LoopHead(t) ==
  /\ at[t] = "loop"
  /\ Goes(t, IF stopToken THEN "off" ELSE "wait")
  /\ UNCHANGED <<queue, event, sends, stopToken, emitted, done>>

(* ObserverIncoming: the interval has passed or a command came; paused, it *)
(* goes back to the loop, otherwise it makes the next event.               *)
Paused ==
  /\ at[OI] = "wait"
  /\ Goes(OI, "loop")
  /\ UNCHANGED <<queue, event, sends, stopToken, emitted, done>>

Emit ==
  /\ at[OI] = "wait"
  /\ emitted < MaxEvents
  /\ emitted' = emitted + 1
  /\ event' = [event EXCEPT ![OI] = emitted + 1]
  /\ sends' = [sends EXCEPT ![OI] = Outputs[OI]]
  /\ Goes(OI, "send")
  /\ UNCHANGED <<queue, stopToken, done>>

(* wait_for returned a message: a kind the task does not handle is         *)
(* dropped; ResultThread reports, the others start sending.                *)
Receive(t) ==
  /\ at[t] = "wait" /\ queue[t] # << >>
  /\ queue' = [queue EXCEPT ![t] = Tail(@)]
  /\ LET msg == Head(queue[t]) IN
       IF msg.kind = Handles[t]
       THEN /\ event' = [event EXCEPT ![t] = msg.id]
            /\ sends' = [sends EXCEPT ![t] = Outputs[t]]
            /\ Goes(t, IF t = RT THEN "loop" ELSE "send")
            /\ done' = IF t = RT THEN Append(done, msg.id) ELSE done
       ELSE Goes(t, "loop") /\ UNCHANGED <<event, sends, done>>
  /\ UNCHANGED <<stopToken, emitted>>

(* wait_for timed out *)
NoMessage(t) ==
  /\ at[t] = "wait" /\ queue[t] = << >>
  /\ Goes(t, "loop")
  /\ UNCHANGED <<queue, event, sends, stopToken, emitted, done>>

(* Mutant of Send: the task goes back to its loop after its first send. *)
SendFirstOnly(t) ==
  /\ at[t] = "send"
  /\ LET target == Head(sends[t])[1]
         kind == Head(sends[t])[2]
     IN queue' = [queue EXCEPT ![target] = Append(@, [kind |-> kind, id |-> event[t]])]
  /\ sends' = [sends EXCEPT ![t] = << >>]
  /\ Goes(t, "loop")
  /\ UNCHANGED <<event, stopToken, emitted, done>>

(* Sender::Send *)
Send(t) ==
  /\ at[t] = "send"
  /\ LET target == Head(sends[t])[1]
         kind == Head(sends[t])[2]
     IN queue' = [queue EXCEPT ![target] = Append(@, [kind |-> kind, id |-> event[t]])]
  /\ sends' = [sends EXCEPT ![t] = Tail(@)]
  /\ Goes(t, IF Len(sends[t]) = 1 THEN "loop" ELSE "send")
  /\ UNCHANGED <<event, stopToken, emitted, done>>

-----------------------------------------------------------------------------
(* stopAllThreads() requests the stop; its joins wait for every "off". *)
StopAll ==
  /\ ~stopToken
  /\ stopToken' = TRUE
  /\ UNCHANGED <<queue, taskVars, emitted, done>>

(* restartAllThreads() after a stop: a new source, and every run() starts  *)
(* afresh; the queues are as they were.                                    *)
RestartAll ==
  /\ stopToken
  /\ \A t \in Tasks : at[t] = "off"
  /\ stopToken' = FALSE
  /\ at' = [t \in Tasks |-> "loop"]
  /\ event' = [t \in Tasks |-> 0]
  /\ sends' = [t \in Tasks |-> << >>]
  /\ UNCHANGED <<queue, emitted, done>>

-----------------------------------------------------------------------------
(* What a thread does by itself *)
Relay(t) == LoopHead(t) \/ Receive(t) \/ NoMessage(t) \/ Send(t)
Observe == LoopHead(OI) \/ Paused \/ Emit \/ Send(OI)

Next ==
  \/ Observe
  \/ \E t \in Tasks \ {OI} : Relay(t)
  \/ StopAll \/ RestartAll

Spec == Init /\ [][Next]_vars

(* Every thread runs: its waits have a timeout. *)
FairSpec ==
  Spec /\ WF_vars(Observe) /\ \A t \in Tasks \ {OI} : WF_vars(Relay(t))
-----------------------------------------------------------------------------
(* Properties *)

(* 1 while the task still has to pass its event on as kind *)
InHand(t, kind) == IF \E i \in DOMAIN sends[t] : sends[t][i][2] = kind THEN 1 ELSE 0

(* How far the events have got, counted from the observer: those up to     *)
(* SentFile have left its hands, those up to TakenFile its neighbour's     *)
(* queue, ...                                                              *)
SentFile == emitted - InHand(OI, "File")
TakenFile == SentFile - Len(queue[AO])
SentApp == TakenFile - InHand(AO, "App")

(* ... and counted back from the end: those up to SentTransformed are with *)
(* ResultThread, those up to TakenApp have left Processing's queue.        *)
SentTransformed == Len(done) + Len(queue[RT])
TakenProcessed == SentTransformed + InHand(TT, "Transformed")
SentProcessed == TakenProcessed + Len(queue[TT])
TakenApp == SentProcessed + InHand(PT, "Processed")

(* q holds the events that follow lo, one after the other *)
Row(q, kind, lo) == \A i \in DOMAIN q : q[i] = [kind |-> kind, id |-> lo + i]

(* So it does up to hi, with messages of other kinds in between. *)
MixedRow(q, kind, lo, hi) ==
  LET Positions == {i \in DOMAIN q : q[i].kind = kind} IN
    /\ lo <= hi
    /\ {q[i].id : i \in Positions} = lo + 1 .. hi
    /\ \A i, j \in Positions : i < j => q[i].id < q[j].id

(* Every event the observer made is in the chain exactly once, in order:   *)
(* nothing is lost, duplicated or overtaken between the threads, across    *)
(* any number of stops and restarts, and no DirectEvent reaches the end.   *)
(* From the end of the chain back, each place holds the events that follow *)
(* those of the place before, and the last holds the newest.               *)
NothingLostOrReordered ==
  /\ \A i \in DOMAIN done : done[i] = i
  /\ Row(queue[RT], "Transformed", Len(done))
  /\ InHand(TT, "Transformed") = 1 => event[TT] = TakenProcessed
  /\ Row(queue[TT], "Processed", TakenProcessed)
  /\ InHand(PT, "Processed") = 1 => event[PT] = TakenApp
  /\ MixedRow(queue[PT], "App", TakenApp, SentApp)
  /\ InHand(AO, "App") = 1 => event[AO] = TakenFile
  /\ Row(queue[AO], "File", TakenFile)
  /\ InHand(OI, "File") = 1 => event[OI] = emitted

(* An event reaches the end of the chain unless a stop comes first.        *)
EveryEventArrives ==
  \A i \in 1 .. MaxEvents : emitted >= i ~> Len(done) >= i \/ stopToken
=============================================================================
