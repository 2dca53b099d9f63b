------------------------------- MODULE Program -------------------------------
(***************************************************************************)
(* main (main.cpp) with both of its parts: the ThreadManager and its       *)
(* workers, and the daemon D, whose position is dpc.  Each step of main is *)
(* a step of one of them or of both at once; the workers and the signal    *)
(* handler interleave with it, also while main waits in a join.  main's    *)
(* handlers for a reload and for the user signals do not fail, and the     *)
(* keys for the observer (see ObserverIncoming) change nothing here.       *)
(***************************************************************************)
EXTENDS ThreadManager

CONSTANTS SignalsAt, MaxSignals    \* see Daemon

VARIABLES dpc, m_State, isDaemon, chosen, sent, received, performed,
          handlerFailed, lost, late   \* see Daemon

D == INSTANCE Daemon WITH pc <- dpc, HandlersMayFail <- SpawnMayFail

daemonVars == <<m_State, dpc, isDaemon, chosen, sent, received, performed,
                handlerFailed, lost, late>>
allVars == <<vars, daemonVars>>

ProgramInit == Init /\ D!Init

-----------------------------------------------------------------------------
(* The options and makeDaemon, before there is any thread *)
Boot ==
  /\ D!ProcessCommandLine \/ D!MakeDaemon \/ D!MakeDaemonChild
  /\ UNCHANGED vars

(* Mutant of InitTestChain: called before makeDaemon. *)
InitTestChainEarly ==
  /\ dpc \in {"boot", "start"}
  /\ ConstructNext \/ Constructed
  /\ UNCHANGED daemonVars

(* initTestChain() *)
InitTestChain ==
  /\ dpc = "start"
  /\ ConstructNext \/ Constructed
  /\ UNCHANGED daemonVars

(* startAll(), whose handler is threadManager.start(): it fails when that  *)
(* does.                                                                   *)
Start ==
  /\ StartAll /\ D!StartAll
  /\ dpc' = "failed" <=> pc' = "stopAll"

(* isRunning() *)
IsRunning ==
  /\ D!Poll \/ D!Reset \/ D!Handler \/ D!Result
  /\ UNCHANGED <<handlerFailed, vars>>

(* The pause of a background daemon, or no key that matters here; the q key *)
NoKey == pc = "loop" /\ D!Body /\ UNCHANGED vars
QuitKey == pc = "loop" /\ D!SetState /\ UNCHANGED vars

(* The keys r, s and t: the call begins, ... *)
Key ==
  /\ dpc = "body" /\ ~isDaemon
  /\ RestartAll \/ StopAll("keep", "stop") \/ StopAll("clear", "terminate")
  /\ UNCHANGED daemonVars

(* ... goes on from task to task ... *)
KeyContinues ==
  /\ dpc = "body"
  /\ RestartNext \/ JoinNext
  /\ UNCHANGED daemonVars

(* ... and returns to the loop. *)
KeyDone == (Restarted \/ AllJoined) /\ D!Body

(* Mutant of LeaveLoop: main closes without the stop on the manager's      *)
(* source and on its worker.                                               *)
LeaveLoopNoStop ==
  /\ dpc = "close" /\ pc = "loop"
  /\ pc' = "close"
  /\ UNCHANGED <<workerVars, sourceVars, m_tasks, objectVars, todo, andThen, daemonVars>>

(* The loop is left: the stop on the manager's source and closeAll(), ... *)
LeaveLoop == dpc = "close" /\ Quit /\ UNCHANGED daemonVars

(* ... which returns (the Stop it writes first is read by nobody any more) *)
Close == Closed /\ D!CloseAll

(* The destructor of threadManager *)
Destroy ==
  /\ dpc \in D!Gone
  /\ JoinNext \/ AllJoined
  /\ UNCHANGED daemonVars

Signal == (\E s \in D!Signals : D!SignalHandler(s)) /\ UNCHANGED vars

Worker(w) == (RunReturns(w) \/ MarkStopped(w)) /\ UNCHANGED daemonVars

(* main has returned, or never got to its chain. *)
Over == dpc \in D!Gone /\ pc \in {"construct", "ended"}

-----------------------------------------------------------------------------
Main ==
  \/ Boot \/ InitTestChain \/ Start \/ IsRunning
  \/ NoKey \/ QuitKey \/ Key \/ KeyContinues \/ KeyDone
  \/ LeaveLoop \/ Close \/ Destroy

ProgramNext ==
  \/ Main \/ Signal
  \/ \E w \in Workers : Worker(w)
  \/ Over /\ UNCHANGED allVars
  \/ Hangs /\ UNCHANGED daemonVars

ProgramSpec == ProgramInit /\ [][ProgramNext]_allVars

(* The fairness of the parts: main goes on except in a join, a worker sees *)
(* its token in the end.  No key and no signal is promised.                *)
ProgramFairSpec ==
  /\ ProgramSpec /\ WF_allVars(Main)
  /\ \A w \in Workers :
       /\ WF_allVars(StopSeen(w) /\ RunReturns(w) /\ UNCHANGED daemonVars)
       /\ WF_allVars(MarkStopped(w) /\ UNCHANGED daemonVars)
-----------------------------------------------------------------------------
(* Properties *)

(* makeDaemon's fork() would keep no thread but main's, and a thread that  *)
(* outlives main would use what is destroyed.  There is none before the    *)
(* daemon is made and none when main has returned, by whichever exit.      *)
ThreadsWithinMain ==
  dpc \in {"args", "boot", "child"} \/ Over => \A w \in Workers : m_thread[w] = "none"

(* daemon.hpp:34: SIGTERM is the "Signal to terminate the daemon".  A stop *)
(* request (signal or q key), wherever it comes in the loop and whatever   *)
(* key's call main is in, ends the whole program, with every thread joined *)
(* and every task destroyed, with two exceptions: a request was written    *)
(* over in m_State, or the r key was pressed while tasks were running,     *)
(* which main does not prevent (main.cpp:283) and after which no join of   *)
(* these tasks returns.                                                    *)
TerminateEndsProgram ==
  received["Stop"] > 0 ~>
    \/ lost \/ Unstoppable # {}
    \/ pc = "ended" /\ alive = {} /\ \A w \in Workers : m_thread[w] = "none"
=============================================================================
