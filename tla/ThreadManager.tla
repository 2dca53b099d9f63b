---------------------------- MODULE ThreadManager ----------------------------
(***************************************************************************)
(* ThreadManager (threadManager.hpp), the workers it manages               *)
(* (workerBase.hpp) and the one thread that calls it: main (main.cpp),     *)
(* which builds the chain, starts the manager's own worker, serves         *)
(* commands and finally closes and destroys everything.                    *)
(*                                                                         *)
(* Every loop of the manager over m_tasks takes one step per task, so the  *)
(* workers' threads interleave with it, and a join waits.                  *)
(*                                                                         *)
(*   m_thread[w]  "none"    no thread, not joinable                        *)
(*                "run"     inside run()                                   *)
(*                "return"  run() has returned, markStopped() is next      *)
(*                "gone"    the thread is done and still joinable          *)
(*   pc           "construct" adding the chain, "startAll", "loop",        *)
(*                "restart", "stopAll" (the joins), "stopLast",            *)
(*                "close" (joining the manager's own worker), "ended"      *)
(*                                                                         *)
(* A stop source is a number; m_stopSource holds the newest one and        *)
(* stopped the ones on which a stop was requested.  0 is the empty token.  *)
(* wakeUp() notifies workerBase::m_waitCv, on which no task of the program *)
(* waits (they wait in their queue), so it changes nothing here.           *)
(*                                                                         *)
(* orphans and dropped are history: the program does not keep them.        *)
(***************************************************************************)
EXTENDS Naturals, Sequences

CONSTANTS
  Chain,               \* the tasks of initTestChain, in the order they are added
  Lambdas,             \* tasks of addTask(runFunc), which a client may hold
  Manager,             \* the ThreadManager itself, as a worker
  Targets,             \* whose queues a task's Senders point to
  Commands,            \* which operations main may call
  SpawnMayFail,        \* may the creation of a thread throw?
  MaxSources,          \* bound: stop sources ever created
  MaxTasks             \* bound: length of m_tasks

ChainTasks == {Chain[i] : i \in DOMAIN Chain}
Tasks == ChainTasks \cup Lambdas
Workers == Tasks \cup {Manager}

ASSUME ManagerAssumption ==
  /\ Chain \in Seq(ChainTasks) /\ Chain # << >>
  /\ Manager \notin Tasks /\ Lambdas \cap ChainTasks = {}
  /\ Targets \in [Tasks -> SUBSET Tasks]
  /\ \A t \in Lambdas : Targets[t] \subseteq Lambdas
  /\ SpawnMayFail \in BOOLEAN
  /\ MaxSources \in Nat \ {0} /\ MaxTasks \in Nat

VARIABLES
  m_running, m_thread, \* of each worker
  ownStop,             \* the jthread's own stop state
  token,               \* the external source its run() listens to
  orphans,             \* left running by a restart, with a source nobody holds
  m_stopSource, stopped,
  m_tasks,
  alive,               \* the task objects that exist
  dropped,             \* destroyed because they did not start, or by stopLastThread
  pc, todo, andThen    \* main: position, tasks left in its loop, what follows

workerVars == <<m_running, m_thread, ownStop, token, orphans>>
sourceVars == <<m_stopSource, stopped>>
objectVars == <<alive, dropped>>
mainVars == <<pc, todo, andThen>>
vars == <<workerVars, sourceVars, m_tasks, objectVars, mainVars>>

PC == {"construct", "startAll", "loop", "restart", "stopAll", "stopLast",
       "close", "ended"}

TypeOK ==
  /\ m_running \in [Workers -> BOOLEAN]
  /\ m_thread \in [Workers -> {"none", "run", "return", "gone"}]
  /\ ownStop \in [Workers -> BOOLEAN]
  /\ token \in [Workers -> 0 .. MaxSources]
  /\ m_stopSource \in 1 .. MaxSources /\ stopped \subseteq 1 .. MaxSources
  /\ m_tasks \in Seq(Tasks) /\ todo \in Seq(Tasks)
  /\ orphans \subseteq Tasks /\ alive \subseteq Tasks /\ dropped \subseteq Tasks
  /\ pc \in PC /\ andThen \in {"keep", "clear", "exit"}

Init ==
  /\ m_running = [w \in Workers |-> FALSE]
  /\ m_thread = [w \in Workers |-> "none"]
  /\ ownStop = [w \in Workers |-> FALSE]
  /\ token = [w \in Workers |-> 0]
  /\ m_stopSource = 1 /\ stopped = {}
  /\ m_tasks = << >>
  /\ orphans = {} /\ alive = Tasks /\ dropped = {}
  /\ pc = "construct" /\ todo = Chain /\ andThen = "keep"

-----------------------------------------------------------------------------
(* workerBase *)

(* Mutant of StartFails: the catch block forgets markStopped(). *)
StartFailsStillMarked(w) ==
  /\ m_running[w] \/ SpawnMayFail
  /\ m_running' = [m_running EXCEPT ![w] = TRUE]
  /\ UNCHANGED <<m_thread, ownStop, token, orphans>>

(* start() returns false: already running, or the creation of the thread   *)
(* threw and the flag was cleared again.  (isReadyToStart() is true for    *)
(* every task of the program.)                                             *)
StartFails(w) ==
  /\ m_running[w] \/ SpawnMayFail
  /\ UNCHANGED workerVars

(* start(tok) returns true.  Assigning m_thread requests a stop on the     *)
(* thread it held and joins it.                                            *)
StartSucceeds(w, tok) ==
  /\ ~m_running[w]
  /\ m_thread[w] \in {"none", "gone"}
  /\ m_running' = [m_running EXCEPT ![w] = TRUE]
  /\ m_thread' = [m_thread EXCEPT ![w] = "run"]
  /\ ownStop' = [ownStop EXCEPT ![w] = FALSE]
  /\ token' = [token EXCEPT ![w] = tok]
  /\ orphans' = orphans \ {w}

(* What run()'s stop token says: the combination of the jthread's own      *)
(* token and of the external one.                                          *)
StopSeen(w) == ownStop[w] \/ token[w] \in stopped

(* run() returns: a chain task and the manager leave their loop only on a  *)
(* stop request, a lambda may end by itself.                               *)
RunReturns(w) ==
  /\ m_thread[w] = "run"
  /\ StopSeen(w) \/ w \in Lambdas
  /\ m_thread' = [m_thread EXCEPT ![w] = "return"]
  /\ UNCHANGED <<m_running, ownStop, token, orphans, sourceVars, m_tasks, objectVars, mainVars>>

MarkStopped(w) ==
  /\ m_thread[w] = "return"
  /\ m_running' = [m_running EXCEPT ![w] = FALSE]
  /\ m_thread' = [m_thread EXCEPT ![w] = "gone"]
  /\ UNCHANGED <<ownStop, token, orphans, sourceVars, m_tasks, objectVars, mainVars>>

(* stop() *)
RequestOwnStop(w) ==
  ownStop' = [ownStop EXCEPT ![w] = @ \/ m_thread[w] # "none"]

(* join() returns *)
Join(w) ==
  /\ m_thread[w] \in {"none", "gone"}
  /\ m_thread' = [m_thread EXCEPT ![w] = "none"]
  /\ orphans' = orphans \ {w}
  /\ UNCHANGED <<m_running, ownStop, token>>

-----------------------------------------------------------------------------
(* ThreadManager::addTask, initTestChain and daemon::startAll *)

(* Mutant of AddTask: the manager's token is not forwarded. *)
AddTaskNoToken(t) ==
  \/ /\ StartSucceeds(t, 0)
     /\ m_tasks' = Append(m_tasks, t)
  \/ /\ StartFails(t)
     /\ UNCHANGED m_tasks

(* addTask(t): a task that does not start is not kept. *)
AddTask(t) ==
  \/ /\ StartSucceeds(t, m_stopSource)
     /\ m_tasks' = Append(m_tasks, t)
  \/ /\ StartFails(t)
     /\ UNCHANGED m_tasks

ConstructNext ==
  /\ pc = "construct" /\ todo # << >>
  /\ AddTask(Head(todo))
  /\ todo' = Tail(todo)
  /\ UNCHANGED <<sourceVars, objectVars, pc, andThen>>

Members(s) == {s[i] : i \in DOMAIN s}

(* m_observerIncoming, the first of the chain, stays in the manager *)
Kept(s) == Members(s) \cup Lambdas \cup {Chain[1]}

(* The local shared_ptrs of initTestChain end: what was not added is       *)
(* destroyed.                                                              *)
Constructed ==
  /\ pc = "construct" /\ todo = << >>
  /\ alive' = Kept(m_tasks) /\ dropped' = alive \ alive'
  /\ pc' = "startAll"
  /\ UNCHANGED <<workerVars, sourceVars, m_tasks, todo, andThen>>

(* startAll() starts the manager's worker; if it fails main returns, which *)
(* destroys the manager.                                                   *)
StartAll ==
  /\ pc = "startAll"
  /\ \/ /\ StartSucceeds(Manager, 0)
        /\ pc' = "loop"
        /\ UNCHANGED <<stopped, todo, andThen>>
     \/ /\ StartFails(Manager)
        /\ stopped' = stopped \cup {m_stopSource}
        /\ pc' = "stopAll" /\ todo' = m_tasks /\ andThen' = "exit"
  /\ UNCHANGED <<m_stopSource, m_tasks, objectVars>>

-----------------------------------------------------------------------------
(* The operations main calls from its loop *)

AddLambda(t) ==
  /\ pc = "loop" /\ "add" \in Commands
  /\ Len(m_tasks) < MaxTasks
  /\ AddTask(t)
  /\ UNCHANGED <<sourceVars, objectVars, mainVars>>

(* Mutant of RestartAll: the new source is forgotten. *)
RestartAllSameSource ==
  /\ pc = "loop" /\ "restart" \in Commands
  /\ m_stopSource < MaxSources
  /\ pc' = "restart" /\ todo' = m_tasks
  /\ UNCHANGED <<workerVars, sourceVars, m_tasks, objectVars, andThen>>

(* restartAllThreads(): a new source first *)
RestartAll ==
  /\ pc = "loop" /\ "restart" \in Commands
  /\ m_stopSource < MaxSources
  /\ m_stopSource' = m_stopSource + 1
  /\ pc' = "restart" /\ todo' = m_tasks
  /\ UNCHANGED <<workerVars, stopped, m_tasks, objectVars, andThen>>

(* ... then every task that is not running.  One that runs keeps its token *)
(* of a source that nobody holds any more.                                 *)
RestartNext ==
  /\ pc = "restart" /\ todo # << >>
  /\ LET t == Head(todo) IN
       \/ /\ m_running[t]
          /\ orphans' = orphans \cup (IF token[t] = m_stopSource THEN {} ELSE {t})
          /\ UNCHANGED <<m_running, m_thread, ownStop, token>>
       \/ ~m_running[t] /\ (StartSucceeds(t, m_stopSource) \/ StartFails(t))
  /\ todo' = Tail(todo)
  /\ UNCHANGED <<sourceVars, m_tasks, objectVars, pc, andThen>>

Restarted ==
  /\ pc = "restart" /\ todo = << >>
  /\ pc' = "loop"
  /\ UNCHANGED <<workerVars, sourceVars, m_tasks, objectVars, todo, andThen>>

(* Mutant of StopAll: the joins start without a stop request. *)
StopAllNoRequest(next, command) ==
  /\ pc = "loop" /\ command \in Commands
  /\ pc' = "stopAll" /\ todo' = m_tasks /\ andThen' = next
  /\ UNCHANGED <<workerVars, sourceVars, m_tasks, objectVars>>

(* Mutant of StopAll: the tasks are released before they are joined. *)
StopAllReleaseFirst(next, command) ==
  /\ pc = "loop" /\ command \in Commands
  /\ stopped' = stopped \cup {m_stopSource}
  /\ pc' = "stopAll" /\ todo' = m_tasks /\ andThen' = next
  /\ m_tasks' = << >> /\ alive' = Kept(<< >>)
  /\ UNCHANGED <<workerVars, m_stopSource, dropped>>

(* stopAllThreads() and terminateAllThreads(): request the stop, then join *)
StopAll(next, command) ==
  /\ pc = "loop" /\ command \in Commands
  /\ stopped' = stopped \cup {m_stopSource}
  /\ pc' = "stopAll" /\ todo' = m_tasks /\ andThen' = next
  /\ UNCHANGED <<workerVars, m_stopSource, m_tasks, objectVars>>

(* Mutant of JoinNext: waits until isRunning() is false instead. *)
JoinNextByFlag ==
  /\ pc = "stopAll" /\ todo # << >>
  /\ ~m_running[Head(todo)]
  /\ todo' = Tail(todo)
  /\ UNCHANGED <<workerVars, sourceVars, m_tasks, objectVars, pc, andThen>>

JoinNext ==
  /\ pc = "stopAll" /\ todo # << >>
  /\ Join(Head(todo))
  /\ todo' = Tail(todo)
  /\ UNCHANGED <<sourceVars, m_tasks, objectVars, pc, andThen>>

(* Back to the loop; terminateAllThreads and the destructor clear m_tasks. *)
AllJoined ==
  /\ pc = "stopAll" /\ todo = << >>
  /\ pc' = IF andThen = "exit" THEN "ended" ELSE "loop"
  /\ IF andThen = "keep"
     THEN UNCHANGED <<m_tasks, alive>>
     ELSE /\ m_tasks' = << >>
          /\ alive' = IF andThen = "exit" THEN {} ELSE Kept(<< >>)
  /\ UNCHANGED <<workerVars, sourceVars, dropped, todo, andThen>>

(* stopLastThread(): stopAndWait on the last task ... *)
StopLast ==
  /\ pc = "loop" /\ "stopLast" \in Commands
  /\ m_tasks # << >>
  /\ RequestOwnStop(m_tasks[Len(m_tasks)])
  /\ pc' = "stopLast"
  /\ UNCHANGED <<m_running, m_thread, token, orphans, sourceVars, m_tasks, objectVars, todo, andThen>>

(* ... and pop_back *)
LastJoined ==
  /\ pc = "stopLast"
  /\ Join(m_tasks[Len(m_tasks)])
  /\ m_tasks' = SubSeq(m_tasks, 1, Len(m_tasks) - 1)
  /\ alive' = Kept(m_tasks') /\ dropped' = dropped \cup (alive \ alive')
  /\ pc' = "loop"
  /\ UNCHANGED <<sourceVars, todo, andThen>>

(* main leaves its loop: a stop on the manager's source, then closeAll(),  *)
(* which stops the manager's own worker and waits for it, ...              *)
Quit ==
  /\ pc = "loop"
  /\ stopped' = stopped \cup {m_stopSource}
  /\ RequestOwnStop(Manager)
  /\ pc' = "close"
  /\ UNCHANGED <<m_running, m_thread, token, orphans, m_stopSource, m_tasks, objectVars, todo, andThen>>

(* ... and the destructor, terminateAllThreads() *)
Closed ==
  /\ pc = "close"
  /\ Join(Manager)
  /\ pc' = "stopAll" /\ todo' = m_tasks /\ andThen' = "exit"
  /\ UNCHANGED <<sourceVars, m_tasks, objectVars>>

(* main has returned *)
Ended == pc = "ended" /\ UNCHANGED vars

(* Orphans in run() *)
Unstoppable == {t \in orphans : m_thread[t] = "run"}

(* main waits in a join for a task that goes on and on. *)
Hangs ==
  /\ pc = "stopAll" /\ todo # << >> /\ Head(todo) \in Unstoppable
  /\ UNCHANGED vars

-----------------------------------------------------------------------------
(* Steps main takes without being asked *)
MainContinues ==
  \/ ConstructNext \/ Constructed \/ StartAll
  \/ RestartNext \/ Restarted \/ JoinNext \/ AllJoined \/ LastJoined \/ Closed

Command ==
  \/ \E t \in Lambdas : AddLambda(t)
  \/ RestartAll \/ StopAll("keep", "stop") \/ StopAll("clear", "terminate")
  \/ StopLast \/ Quit

Next ==
  \/ MainContinues \/ Command \/ Ended \/ Hangs
  \/ \E w \in Workers : RunReturns(w) \/ MarkStopped(w)

Spec == Init /\ [][Next]_vars

(* main does not stop between two of its steps; a thread goes on, and      *)
(* since every wait in a run() has a timeout it looks at its token again   *)
(* and again.  No command is promised.                                     *)
Fairness ==
  /\ WF_vars(MainContinues)
  /\ \A w \in Workers : WF_vars(StopSeen(w) /\ RunReturns(w)) /\ WF_vars(MarkStopped(w))

FairSpec == Spec /\ Fairness
-----------------------------------------------------------------------------
(* Properties *)

(* isRunning() is exact: true from start() until run() has returned and    *)
(* markStopped() was called, so a restart never leaves out a task that has *)
(* ended and start() never runs a second thread beside the first.          *)
RunningFlagExact ==
  \A w \in Workers : m_running[w] <=> m_thread[w] \in {"run", "return"}

(* threadManager.hpp:104: "a global stop also stops this task".  Except    *)
(* inside a restart, when no stop can be requested, every running task     *)
(* listens to the source the manager holds and stops; the one exception is *)
(* a task that a restart found running.                                    *)
GlobalStopReachesAll ==
  pc # "restart" =>
    \A t \in Tasks \ orphans : m_thread[t] = "run" => token[t] = m_stopSource

(* messageSender.hpp:19: "The queue must outlive the `Sender`".  While a   *)
(* task is in run() its object exists, and so does every queue its Senders *)
(* point to, but for a task that did not start with the chain or that was  *)
(* taken off by stopLastThread.                                            *)
QueuesOutliveSenders ==
  \A t \in Tasks :
    m_thread[t] \in {"run", "return"} =>
      t \in alive /\ Targets[t] \subseteq alive \cup dropped

(* threadManager.hpp:127: a restart revives "all managed threads that are  *)
(* not currently running".  When it is done every task of the chain runs   *)
(* and has not been told to stop already, whatever was stopped and added   *)
(* before and whether or not it ran, unless its thread could not be        *)
(* created.  A lambda task has been started with the new source, unless    *)
(* the restart found its flag still set.                                   *)
RestartRevives ==
  [][pc = "restart" /\ pc' = "loop" =>
       \A t \in Members(m_tasks) :
         \/ SpawnMayFail /\ ~m_running[t]
         \/ m_thread[t] = "run" /\ ~StopSeen(t)
         \/ t \in Lambdas /\ token[t] = m_stopSource /\ ~StopSeen(t)
         \/ t \in Lambdas \cap orphans]_vars

(* When main has returned no thread is left to touch what it destroyed:    *)
(* every one was joined, also those whose run() ended or never began.      *)
NoThreadLeft == pc = "ended" => \A w \in Workers : m_thread[w] = "none"

(* The workers main is joining or will join before its call returns *)
Awaited ==
  CASE pc = "stopAll" -> Members(todo)
    [] pc = "stopLast" -> {m_tasks[Len(m_tasks)]}
    [] pc = "close" -> {Manager}
    [] OTHER -> {}

(* join() has no timeout (workerBase.hpp:99), so a call of the manager     *)
(* must never wait for a thread that was not told to stop.  Each thread it *)
(* is to join has left run() or sees a stop, whichever calls and failures  *)
(* came before, unless stopAllThreads meets a task that a restart found    *)
(* running; stopLastThread stops such a task too.                          *)
JoinsOnlyStopping ==
  \A w \in Awaited :
    m_thread[w] = "run" => StopSeen(w) \/ (pc = "stopAll" /\ w \in orphans)

(* threadManager.hpp:104: "a global stop also stops this task".  So a      *)
(* stop, terminate or stopLast command returns to the loop, and leaving    *)
(* the loop ends the program with no thread left: every join ends.         *)
StopReturns ==
  /\ pc \in {"stopAll", "stopLast", "close"} ~> pc \in {"loop", "ended"}
  /\ pc = "close" ~> /\ pc = "ended"
                     /\ \A w \in Workers : m_thread[w] = "none"

(* What holds of it with restarts at any time: every join ends unless a    *)
(* task that a restart found running is still in run(), and stopLastThread *)
(* returns even then.                                                      *)
StopReturnsWithoutOrphans ==
  /\ pc = "stopLast" ~> pc = "loop"
  /\ pc = "stopAll" /\ Unstoppable = {} ~> pc \in {"loop", "ended"}
  /\ pc = "close" /\ Unstoppable = {} ~>
       pc = "ended" /\ \A w \in Workers : m_thread[w] = "none"
=============================================================================
