---------------------------- MODULE DaemonProofs ----------------------------
(***************************************************************************)
(* Theorems about Daemon, for every place and number of signals.           *)
(***************************************************************************)
EXTENDS Daemon, TLAPS

(***************************************************************************)
(* The inductive invariant: every handler call that is still to come is    *)
(* covered by a signal of its kind.  One may be pending in m_State (or     *)
(* chosen and not yet reset, even if m_State was overwritten meanwhile),   *)
(* and, after the reset, one more in the handler that is about to run.     *)
(***************************************************************************)
Covered ==
  \A r \in Requests : performed[r] + InState(r) + InHandler(r) <= received[r]

IInv == TypeOK /\ Covered

LEMMA TypeStep == TypeOK /\ [Next]_vars => TypeOK'
<1> SUFFICES ASSUME TypeOK, [Next]_vars PROVE TypeOK'
  OBVIOUS
<1>a. isDaemon' \in BOOLEAN /\ handlerFailed' \in BOOLEAN
  BY Zenon DEF TypeOK, Next, Main, Ended, vars, counts, Goes, Polls, SignalHandler,
       ProcessCommandLine, MakeDaemon, MakeDaemonChild, StartAll, Poll, Reset,
       Handler, Result, Body, SetState, ReloadAll, CloseAll
<1>b. lost' \in BOOLEAN /\ late' \in BOOLEAN
  BY Zenon DEF TypeOK, Next, Main, Ended, vars, Quiet, Writes, SignalHandler,
       ProcessCommandLine, MakeDaemon, MakeDaemonChild, StartAll, Poll, Reset,
       Handler, Result, Body, SetState, ReloadAll, CloseAll
<1> USE <1>a, <1>b, DaemonAssumption
    DEF TypeOK, States, Requests, Signals, Gone, PC, counts, Goes, Polls, Quiet, Writes
<1>1. ASSUME NEW s \in Signals, SignalHandler(s) PROVE TypeOK'
  BY <1>1 DEF SignalHandler
<1>2. CASE ProcessCommandLine \/ MakeDaemon \/ MakeDaemonChild \/ Body \/ Result
           \/ Reset \/ CloseAll
  BY <1>2 DEF ProcessCommandLine, MakeDaemon, MakeDaemonChild, Body, Result, Reset, CloseAll
<1>3. CASE StartAll
  BY <1>3 DEF StartAll
<1>4. CASE Poll
  BY <1>4 DEF Poll
<1>5. CASE Handler
  BY <1>5 DEF Handler
<1>6. CASE SetState \/ ReloadAll
  BY <1>6 DEF SetState, ReloadAll
<1>7. CASE UNCHANGED vars
  BY <1>7 DEF vars
<1> QED
  BY <1>1, <1>2, <1>3, <1>4, <1>5, <1>6, <1>7 DEF Next, Main, Ended

LEMMA CoveredStep == IInv /\ [Next]_vars => Covered'
<1> SUFFICES ASSUME IInv, [Next]_vars, NEW r \in Requests
             PROVE  (performed[r] + InState(r) + InHandler(r) <= received[r])'
  BY DEF Covered
<1>a. /\ performed[r] \in Nat /\ received[r] \in Nat
      /\ performed[r] + InState(r) + InHandler(r) <= received[r]
      /\ received \in [Signals -> Nat] /\ performed \in [Requests -> Nat]
      /\ chosen \in Requests /\ r \in Signals
  BY DEF IInv, TypeOK, Covered, Signals
<1> USE DEF InState, InHandler, counts, Goes, Polls, Quiet, Writes
<1>1. ASSUME NEW s \in Signals, SignalHandler(s)
      PROVE  (performed[r] + InState(r) + InHandler(r) <= received[r])'
  <2>1. received'[r] = IF s = r THEN received[r] + 1 ELSE received[r]
    BY <1>a, <1>1 DEF SignalHandler
  <2> QED BY <1>a, <1>1, <2>1 DEF SignalHandler
<1>2. CASE ProcessCommandLine \/ MakeDaemon \/ MakeDaemonChild \/ StartAll \/ Body
           \/ Result \/ CloseAll
  BY <1>a, <1>2
  DEF ProcessCommandLine, MakeDaemon, MakeDaemonChild, StartAll, Body, Result, CloseAll, Requests
<1>3. CASE Poll
  BY <1>a, <1>3 DEF Poll
<1>4. CASE Reset
  BY <1>a, <1>4 DEF Reset, Requests
<1>5. CASE Handler
  <2>1. performed'[r] = IF chosen = r THEN performed[r] + 1 ELSE performed[r]
    BY <1>a, <1>5 DEF Handler
  <2> QED BY <1>a, <1>5, <2>1 DEF Handler, Requests
<1>6. CASE SetState
  <2>1. received'[r] = received[r]
    BY <1>a, <1>6 DEF SetState, Requests, Signals
  <2> QED BY <1>a, <1>6, <2>1 DEF SetState, Requests
<1>7. CASE ReloadAll
  <2>1. received'[r] = IF r = "Reload" THEN received[r] + 1 ELSE received[r]
    BY <1>a, <1>7 DEF ReloadAll, Signals
  <2> QED BY <1>a, <1>7, <2>1 DEF ReloadAll
<1>8. CASE UNCHANGED vars
  BY <1>a, <1>8 DEF vars
<1> QED
  BY <1>1, <1>2, <1>3, <1>4, <1>5, <1>6, <1>7, <1>8 DEF Next, Main, Ended

LEMMA Inductive == Spec => []IInv
<1>1. Init => IInv
  <2> SUFFICES ASSUME Init PROVE IInv
    OBVIOUS
  <2>1. received \in [Signals -> Nat] /\ performed \in [Requests -> Nat]
    BY DEF Init
  <2>2. TypeOK
    <3>1. sent \in 0 .. MaxSignals
      BY DaemonAssumption DEF Init
    <3>2. {isDaemon, handlerFailed, lost, late} \subseteq BOOLEAN
      BY DEF Init
    <3> QED BY <2>1, <3>1, <3>2 DEF Init, TypeOK, States, Requests, PC
  <2>3. ASSUME NEW r \in Requests
        PROVE  performed[r] + InState(r) + InHandler(r) <= received[r]
    <3>1. performed[r] = 0 /\ received[r] = 0
      BY DEF Init, Signals
    <3> QED BY <3>1 DEF Init, InState, InHandler, Requests
  <2> QED BY <2>2, <2>3 DEF IInv, Covered
<1>2. IInv /\ [Next]_vars => IInv'
  BY TypeStep, CoveredStep DEF IInv
<1> QED BY <1>1, <1>2, PTL DEF Spec

(* A reload or user handler never runs more often than it was asked for,   *)
(* however many signals come and wherever they interrupt main.             *)
THEOREM HandlersCorrect == Spec => []NoHandlerWithoutSignal
<1>1. IInv => NoHandlerWithoutSignal
  BY DEF IInv, TypeOK, Covered, InState, InHandler, NoHandlerWithoutSignal, Signals
<1> QED BY <1>1, Inductive, PTL

(***************************************************************************)
(* While nobody asked for the end, no handler failed and no request came   *)
(* too late for isRunning(), m_State holds Running or a request that the   *)
(* if-chain has not passed by, and after the reset it holds Running.       *)
(***************************************************************************)
Undisturbed == received["Stop"] = 0 /\ ~handlerFailed /\ ~late

StateInTime ==
  Undisturbed =>
    /\ pc \notin {"close", "ended"}
    /\ pc = "body" => m_State \in {"Running"} \cup Requests
    /\ pc = "poll" => \/ m_State = "Running"
                      \/ m_State = "Reload" /\ chosen = "Reload"
                      \/ m_State = "User1" /\ chosen \in {"Reload", "User1"}
                      \/ m_State = "User2"
    /\ pc \in {"handler", "result"} => m_State = "Running"

LEMMA InTimeStep == TypeOK /\ StateInTime /\ [Next]_vars => StateInTime'
<1> SUFFICES ASSUME TypeOK, StateInTime, [Next]_vars, Undisturbed' PROVE StateInTime'
  BY DEF StateInTime
<1>a. /\ received \in [Signals -> Nat] /\ chosen \in Requests /\ m_State \in States
      /\ received["Stop"] \in Nat
  BY DEF TypeOK, Signals
<1> USE <1>a
    DEF StateInTime, Undisturbed, Requests, Signals, counts, Goes, Polls, Quiet, Writes
<1>1. ASSUME NEW s \in Signals, SignalHandler(s) PROVE StateInTime'
  <2>1. ~late /\ ~(s \in Requests /\ Passed(s))
    BY <1>1, Zenon DEF SignalHandler
  <2>2. s # "Stop" /\ received["Stop"] = 0
    BY <1>1 DEF SignalHandler
  <2>3. pc' = pc /\ m_State' = s /\ chosen' = chosen /\ handlerFailed' = handlerFailed
    BY <1>1 DEF SignalHandler
  <2>4. Undisturbed
    BY <2>1, <2>2, <2>3
  <2> QED BY <2>1, <2>2, <2>3, <2>4 DEF Passed
<1>2. CASE ProcessCommandLine \/ MakeDaemon \/ MakeDaemonChild \/ StartAll
  BY <1>2 DEF ProcessCommandLine, MakeDaemon, MakeDaemonChild, StartAll
<1>3. CASE Poll
  BY <1>3 DEF Poll, States
<1>4. CASE Reset \/ Handler
  BY <1>4 DEF Reset, Handler
<1>5. CASE Result \/ Body \/ CloseAll
  BY <1>5 DEF Result, Body, CloseAll
<1>6. CASE SetState
  BY <1>6 DEF SetState
<1>7. CASE ReloadAll
  <2>1. pc' = "poll" /\ m_State' = "Reload" /\ chosen' = "Reload"
    BY <1>7 DEF ReloadAll
  <2> QED BY <2>1
<1>8. CASE UNCHANGED vars
  BY <1>8 DEF vars
<1> QED
  BY <1>1, <1>2, <1>3, <1>4, <1>5, <1>6, <1>7, <1>8 DEF Next, Main, Ended

(* However many signals come and wherever, the loop is left only because   *)
(* of a terminate request, a failed handler or a request that came after   *)
(* isRunning() had compared with it.                                       *)
THEOREM EndCorrect == Spec => []OnlyTerminateEnds
<1>1. Init => StateInTime
  BY DEF Init, StateInTime
<1>2. IInv => TypeOK
  BY DEF IInv
<1>3. TypeOK /\ StateInTime => OnlyTerminateEnds
  <2> SUFFICES ASSUME TypeOK, StateInTime PROVE OnlyTerminateEnds
    OBVIOUS
  <2>1. received["Stop"] \in Nat
    BY DEF TypeOK, Signals
  <2> QED BY <2>1 DEF StateInTime, Undisturbed, OnlyTerminateEnds
<1> QED BY <1>1, <1>2, <1>3, InTimeStep, Inductive, PTL DEF Spec

(***************************************************************************)
(* Nothing is lost as long as lost says so: a write to m_State finds no    *)
(* request there but the one that the reset has chosen.                    *)
(***************************************************************************)
ResetsChosen == ~lost /\ pc = "reset" => m_State = chosen

Kept == ResetsChosen /\ SignalsKept

LEMMA KeptStep == TypeOK /\ Kept /\ [Next]_vars => Kept'
<1> SUFFICES ASSUME TypeOK, Kept, [Next]_vars, ~lost' PROVE Kept'
  BY DEF Kept, ResetsChosen, SignalsKept
<1>a. /\ received \in [Signals -> Nat] /\ performed \in [Requests -> Nat]
      /\ chosen \in Requests /\ m_State \in States /\ received["Stop"] \in Nat
      /\ \A r \in Requests : /\ r \in Signals /\ r # "Stop" /\ r # "Running"
                             /\ received[r] \in Nat /\ performed[r] \in Nat
      /\ "Running" \notin Requests /\ "Stop" \notin Requests
  BY DEF TypeOK, Signals, Requests
<1>b. ~lost
  BY Zenon DEF Next, Main, Ended, vars, Quiet, Writes, SignalHandler,
       ProcessCommandLine, MakeDaemon, MakeDaemonChild, StartAll, Poll, Reset,
       Handler, Result, Body, SetState, ReloadAll, CloseAll
<1>c. /\ pc = "reset" => m_State = chosen
      /\ \A r \in Requests : received[r] = performed[r] + InState(r) + InHandler(r)
      /\ received["Stop"] > 0 => m_State = "Stop"
  BY <1>b DEF Kept, ResetsChosen, SignalsKept
<1>d. ASSUME NEW v, Writes(v)
      PROVE  /\ m_State' = v /\ (m_State = "Stop" => v = "Stop")
             /\ pc # "reset" => m_State \notin Requests
  <2>1. ~Replaces(v)
    BY <1>d, Zenon DEF Writes
  <2> QED BY <1>d, <2>1 DEF Writes, Replaces
<1> DEFINE Goal ==
      /\ pc' = "reset" => m_State' = chosen'
      /\ \A r \in Requests : received'[r] = performed'[r] + InState(r)' + InHandler(r)'
      /\ received'["Stop"] > 0 => m_State' = "Stop"
<1> SUFFICES Goal
  BY DEF Kept, ResetsChosen, SignalsKept
<1> USE DEF InState, InHandler, counts, Goes, Polls
<1>1. ASSUME NEW s \in Signals, SignalHandler(s) PROVE Goal
  <2>1. ~Replaces(s) /\ pc # "reset"
    BY <1>1, Zenon DEF SignalHandler
  <2>2. m_State \notin Requests /\ (m_State = "Stop" => s = "Stop")
    BY <2>1 DEF Replaces
  <2>3. /\ \A r \in Signals : received'[r] = IF r = s THEN received[r] + 1 ELSE received[r]
        /\ UNCHANGED <<pc, performed, chosen>> /\ m_State' = s
    BY <1>a, <1>1 DEF SignalHandler
  <2>4. received'["Stop"] > 0 => m_State' = "Stop"
    BY <1>a, <1>c, <2>2, <2>3 DEF Signals
  <2>5. ASSUME NEW r \in Requests
        PROVE  received'[r] = performed'[r] + InState(r)' + InHandler(r)'
    <3>1. InState(r) = 0 /\ InState(r)' = (IF r = s THEN 1 ELSE 0)
      BY <2>1, <2>2, <2>3
    <3>2. InHandler(r)' = InHandler(r) /\ InHandler(r) \in Nat
      BY <2>3
    <3>3. received[r] = performed[r] + InState(r) + InHandler(r)
      BY <1>c
    <3> HIDE DEF InState, InHandler
    <3> QED BY <1>a, <2>3, <3>1, <3>2, <3>3
  <2> QED BY <2>1, <2>3, <2>4, <2>5
<1>2. CASE ProcessCommandLine \/ MakeDaemon \/ MakeDaemonChild \/ Result \/ Body
  <2>1. /\ pc \notin {"reset", "handler"} /\ pc' \notin {"reset", "handler"}
        /\ UNCHANGED <<m_State, received, performed>>
    BY <1>2 DEF ProcessCommandLine, MakeDaemon, MakeDaemonChild, Result, Body, Quiet
  <2> QED BY <1>c, <2>1
<1>3. CASE StartAll \/ CloseAll
  <2>1. /\ pc \notin {"reset", "handler"} /\ pc' \notin {"reset", "handler"}
        /\ UNCHANGED <<received, performed>> /\ (Writes("Running") \/ Writes("Stop"))
    BY <1>3 DEF StartAll, CloseAll
  <2>2. m_State \notin Requests /\ m_State' \notin Requests
        /\ (m_State = "Stop" => m_State' = "Stop")
    BY <1>a, <1>d, <2>1
  <2> QED BY <1>c, <2>1, <2>2
<1>4. CASE Poll
  <2>1. /\ pc = "poll" /\ UNCHANGED <<m_State, received, performed>>
        /\ pc' \in {"poll", "reset", "result"}
        /\ pc' = "reset" => m_State = chosen /\ chosen' = chosen
    BY <1>4 DEF Poll, Quiet
  <2> QED BY <1>c, <2>1
<1>5. CASE Reset
  <2>1. /\ pc = "reset" /\ pc' = "handler" /\ m_State = chosen /\ m_State' = "Running"
        /\ UNCHANGED <<chosen, received, performed>>
    BY <1>c, <1>5 DEF Reset, Writes
  <2>2. received["Stop"] = 0
    BY <1>a, <1>c, <2>1
  <2> QED BY <1>a, <1>c, <2>1, <2>2
<1>6. CASE Handler
  <2>1. /\ pc = "handler" /\ pc' = "result" /\ UNCHANGED <<chosen, received>>
        /\ \A r \in Requests :
             performed'[r] = IF r = chosen THEN performed[r] + 1 ELSE performed[r]
    BY <1>a, <1>6 DEF Handler
  <2>2. \/ UNCHANGED m_State
        \/ m_State \notin Requests /\ m_State' = "Stop"
    BY <1>d, <1>6, <2>1 DEF Handler, Quiet
  <2>3. ASSUME NEW r \in Requests
        PROVE  received'[r] = performed'[r] + InState(r)' + InHandler(r)'
    <3>1. InState(r)' = InState(r) /\ InState(r) \in Nat
      BY <1>a, <2>1, <2>2
    <3>2. InHandler(r) = (IF r = chosen THEN 1 ELSE 0) /\ InHandler(r)' = 0
      BY <2>1
    <3>3. received[r] = performed[r] + InState(r) + InHandler(r)
      BY <1>c
    <3> HIDE DEF InState, InHandler
    <3> QED BY <1>a, <2>1, <3>1, <3>2, <3>3
  <2> QED BY <1>c, <2>1, <2>2, <2>3
<1>7. CASE SetState
  <2>1. /\ pc = "body" /\ pc' = "poll" /\ m_State' = "Stop" /\ m_State \notin Requests
        /\ UNCHANGED performed
    BY <1>d, <1>7 DEF SetState
  <2>2. \A r \in Requests : received'[r] = received[r]
    BY <1>a, <1>7 DEF SetState
  <2> QED BY <1>a, <1>c, <2>1, <2>2
<1>8. CASE ReloadAll
  <2>1. /\ pc = "body" /\ pc' = "poll" /\ m_State' = "Reload" /\ m_State \notin Requests
        /\ m_State # "Stop" /\ UNCHANGED performed
    BY <1>d, <1>8 DEF ReloadAll
  <2>2. \A r \in Signals :
          received'[r] = IF r = "Reload" THEN received[r] + 1 ELSE received[r]
    BY <1>a, <1>8 DEF ReloadAll, Signals
  <2>3. received'["Stop"] = 0
    BY <1>a, <1>c, <2>1, <2>2 DEF Signals
  <2> QED BY <1>a, <1>c, <2>1, <2>2, <2>3
<1>9. CASE UNCHANGED vars
  BY <1>c, <1>9 DEF vars
<1> QED
  BY <1>1, <1>2, <1>3, <1>4, <1>5, <1>6, <1>7, <1>8, <1>9 DEF Next, Main, Ended

(* For any number of signals wherever they come, the daemon's single state *)
(* word loses and doubles none before a request is written over or meets a *)
(* reset: each is served or still pending, and a stop stands.              *)
THEOREM SignalsCorrect == Spec => []SignalsKept
<1>1. Init => Kept
  <2> SUFFICES ASSUME Init PROVE Kept
    OBVIOUS
  <2>1. /\ pc = "args" /\ m_State = "Start" /\ received["Stop"] = 0
        /\ \A r \in Requests : /\ received[r] = 0 /\ performed[r] = 0
                               /\ InState(r) = 0 /\ InHandler(r) = 0
    BY DEF Init, Signals, Requests, InState, InHandler
  <2> QED BY <2>1 DEF Kept, ResetsChosen, SignalsKept
<1>2. IInv => TypeOK
  BY DEF IInv
<1>3. Kept => SignalsKept
  BY DEF Kept
<1> QED BY <1>1, <1>2, <1>3, KeptStep, Inductive, PTL DEF Spec
=============================================================================
