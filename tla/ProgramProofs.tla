---------------------------- MODULE ProgramProofs ----------------------------
(***************************************************************************)
(* Theorems about ThreadManager, for every chain, every set of lambda      *)
(* tasks and every bound, and then about Program, which is the manager and *)
(* the daemon put together: it does nothing that one of them could not do, *)
(* so what is proved of each holds of the whole.                           *)
(***************************************************************************)
EXTENDS Program, SequenceTheorems, TLAPS

(***************************************************************************)
(* The inductive invariant.  A task with a thread to join is managed, and  *)
(* while the joins of stopAllThreads go on it is still ahead of them: so   *)
(* when they are done no thread is left.                                   *)
(***************************************************************************)
Managed == \A t \in Tasks : m_thread[t] # "none" => t \in Members(m_tasks)

StillToJoin ==
  pc = "stopAll" => \A t \in Tasks : m_thread[t] # "none" => t \in Members(todo)

TodoManaged == pc = "restart" => Members(todo) \subseteq Members(m_tasks)

LastExists == pc = "stopLast" => m_tasks # << >>

IInv == /\ TypeOK /\ RunningFlagExact
        /\ Managed /\ StillToJoin /\ TodoManaged /\ LastExists

-----------------------------------------------------------------------------
(* The members of a sequence under the operations on vectors *)

LEMMA MembersEmpty == Members(<< >>) = {}
  BY DEF Members

LEMMA MembersIn ==
  ASSUME NEW s \in Seq(Tasks)
  PROVE  Members(s) \subseteq Tasks /\ Kept(s) \subseteq Tasks
<1>1. Members(s) \subseteq Tasks
  <2>1. \A i \in DOMAIN s : s[i] \in Tasks
    OBVIOUS
  <2> QED BY <2>1 DEF Members
<1>2. Chain[1] \in ChainTasks
  BY ManagerAssumption DEF ChainTasks
<1> QED BY <1>1, <1>2 DEF Kept, Tasks

LEMMA MembersAppend ==
  ASSUME NEW s \in Seq(Tasks), NEW t \in Tasks
  PROVE  /\ Append(s, t) \in Seq(Tasks)
         /\ Members(Append(s, t)) = Members(s) \cup {t}
<1>1. /\ Append(s, t) \in Seq(Tasks) /\ Len(Append(s, t)) = Len(s) + 1
      /\ \A i \in 1 .. Len(s) : Append(s, t)[i] = s[i]
      /\ Append(s, t)[Len(s) + 1] = t
      /\ DOMAIN Append(s, t) = 1 .. Len(s) + 1 /\ DOMAIN s = 1 .. Len(s)
      /\ Len(s) \in Nat
  OBVIOUS
<1>2. DOMAIN Append(s, t) = DOMAIN s \cup {Len(s) + 1}
  BY <1>1
<1> QED BY <1>1, <1>2 DEF Members

LEMMA MembersTail ==
  ASSUME NEW s \in Seq(Tasks), s # << >>
  PROVE  /\ Head(s) \in Tasks /\ Tail(s) \in Seq(Tasks)
         /\ Members(s) = {Head(s)} \cup Members(Tail(s))
<1>1. /\ Head(s) \in Tasks /\ Tail(s) \in Seq(Tasks)
      /\ Head(s) = s[1] /\ Len(Tail(s)) = Len(s) - 1 /\ Len(s) \in Nat \ {0}
      /\ \A i \in 1 .. Len(s) - 1 : Tail(s)[i] = s[i + 1]
      /\ DOMAIN Tail(s) = 1 .. Len(s) - 1 /\ DOMAIN s = 1 .. Len(s)
  OBVIOUS
<1>2. \A i \in DOMAIN s : i = 1 \/ (i - 1 \in DOMAIN Tail(s) /\ s[i] = Tail(s)[i - 1])
  BY <1>1
<1>3. \A i \in DOMAIN Tail(s) : i + 1 \in DOMAIN s /\ Tail(s)[i] = s[i + 1]
  BY <1>1
<1>4. 1 \in DOMAIN s
  BY <1>1
<1>5. Members(s) \subseteq {Head(s)} \cup Members(Tail(s))
  <2> SUFFICES ASSUME NEW i \in DOMAIN s
               PROVE  s[i] \in {Head(s)} \cup Members(Tail(s))
    BY DEF Members
  <2>1. CASE i = 1
    BY <1>1, <2>1
  <2>2. CASE i # 1
    BY <1>2, <2>2 DEF Members
  <2> QED BY <2>1, <2>2
<1>6. {Head(s)} \cup Members(Tail(s)) \subseteq Members(s)
  BY <1>1, <1>3, <1>4 DEF Members
<1> QED BY <1>1, <1>5, <1>6

LEMMA MembersFront ==
  ASSUME NEW s \in Seq(Tasks), s # << >>
  PROVE  /\ s[Len(s)] \in Tasks /\ SubSeq(s, 1, Len(s) - 1) \in Seq(Tasks)
         /\ Members(s) = Members(SubSeq(s, 1, Len(s) - 1)) \cup {s[Len(s)]}
<1> DEFINE f == SubSeq(s, 1, Len(s) - 1)
<1>1. Len(s) \in Nat \ {0} /\ DOMAIN s = 1 .. Len(s) /\ s[Len(s)] \in Tasks
  OBVIOUS
<1>2. /\ f \in Seq(Tasks) /\ DOMAIN f = 1 .. Len(s) - 1
      /\ \A i \in 1 .. Len(s) - 1 : f[i] = s[i]
  BY <1>1
<1>3. DOMAIN s = DOMAIN f \cup {Len(s)}
  BY <1>1, <1>2
<1> HIDE DEF f
<1>4. Members(s) = Members(f) \cup {s[Len(s)]}
  BY <1>1, <1>2, <1>3 DEF Members
<1> QED BY <1>1, <1>2, <1>4 DEF f

-----------------------------------------------------------------------------
(* What start() and join() leave of a worker's state. *)
WorkerTypes ==
  /\ m_running \in [Workers -> BOOLEAN]
  /\ m_thread \in [Workers -> {"none", "run", "return", "gone"}]
  /\ ownStop \in [Workers -> BOOLEAN]
  /\ token \in [Workers -> 0 .. MaxSources]
  /\ orphans \subseteq Tasks

LEMMA WorkerSteps ==
  ASSUME WorkerTypes, NEW w \in Workers
  PROVE  /\ \A tok \in 0 .. MaxSources : StartSucceeds(w, tok) => WorkerTypes'
         /\ StartFails(w) => WorkerTypes'
         /\ Join(w) => WorkerTypes'
<1>1. ASSUME NEW tok \in 0 .. MaxSources, StartSucceeds(w, tok) PROVE WorkerTypes'
  <2>1. m_running' \in [Workers -> BOOLEAN] /\ ownStop' \in [Workers -> BOOLEAN]
    BY <1>1, Zenon DEF StartSucceeds, WorkerTypes
  <2>2. m_thread' \in [Workers -> {"none", "run", "return", "gone"}]
    BY <1>1 DEF StartSucceeds, WorkerTypes
  <2>3. token' \in [Workers -> 0 .. MaxSources] /\ orphans' \subseteq Tasks
    BY <1>1 DEF StartSucceeds, WorkerTypes
  <2> QED BY <2>1, <2>2, <2>3 DEF WorkerTypes
<1>2. ASSUME StartFails(w) PROVE WorkerTypes'
  BY <1>2 DEF StartFails, WorkerTypes, workerVars
<1>3. ASSUME Join(w) PROVE WorkerTypes'
  BY <1>3 DEF Join, WorkerTypes
<1> QED BY <1>1, <1>2, <1>3

LEMMA StopTypes ==
  ASSUME ownStop \in [Workers -> BOOLEAN], NEW w \in Workers, RequestOwnStop(w)
  PROVE  ownStop' \in [Workers -> BOOLEAN]
<1>1. (ownStop[w] \/ m_thread[w] # "none") \in BOOLEAN
  OBVIOUS
<1> QED BY <1>1 DEF RequestOwnStop

LEMMA TypeStep == TypeOK /\ LastExists /\ [Next]_vars => TypeOK'
<1> SUFFICES ASSUME TypeOK, LastExists, [Next]_vars PROVE TypeOK'
  OBVIOUS
<1>a. /\ WorkerTypes
      /\ m_stopSource \in 1 .. MaxSources /\ m_stopSource \in 0 .. MaxSources
      /\ 0 \in 0 .. MaxSources
      /\ stopped \subseteq 1 .. MaxSources
  BY ManagerAssumption DEF TypeOK, WorkerTypes
<1>b. /\ m_tasks \in Seq(Tasks) /\ todo \in Seq(Tasks) /\ alive \subseteq Tasks
      /\ dropped \subseteq Tasks
      /\ pc \in PC /\ andThen \in {"keep", "clear", "exit"}
  BY DEF TypeOK
<1>c. ASSUME WorkerTypes',
             m_stopSource' \in 1 .. MaxSources, stopped' \subseteq 1 .. MaxSources,
             m_tasks' \in Seq(Tasks), todo' \in Seq(Tasks), alive' \subseteq Tasks,
             dropped' \subseteq Tasks,
             pc' \in PC, andThen' \in {"keep", "clear", "exit"}
      PROVE  TypeOK'
  BY <1>c DEF TypeOK, WorkerTypes
<1>d. ASSUME NEW t \in Tasks, AddTask(t)
      PROVE  WorkerTypes' /\ m_tasks' \in Seq(Tasks)
  <2>1. t \in Workers
    BY DEF Workers
  <2> QED BY <1>a, <1>b, <1>d, <2>1, WorkerSteps, MembersAppend DEF AddTask
<1>e. Manager \in Workers
  BY DEF Workers
<1>f. UNCHANGED workerVars => WorkerTypes'
  BY <1>a DEF WorkerTypes, workerVars
<1> USE DEF sourceVars, mainVars, objectVars, PC
<1>1. CASE ConstructNext
  BY <1>a, <1>b, <1>c, <1>d, <1>1, MembersTail DEF ConstructNext
<1>2. CASE Constructed
  BY <1>a, <1>b, <1>c, <1>f, <1>2, MembersIn DEF Constructed
<1>3. CASE StartAll
  <2>1. WorkerTypes'
    BY <1>a, <1>e, <1>3, WorkerSteps DEF StartAll
  <2> QED BY <1>a, <1>b, <1>c, <1>3, <2>1 DEF StartAll
<1>4. ASSUME NEW t \in Lambdas, AddLambda(t) PROVE TypeOK'
  <2>1. t \in Tasks
    BY DEF Tasks
  <2> QED BY <1>a, <1>b, <1>c, <1>d, <1>4, <2>1 DEF AddLambda
<1>5. CASE RestartAll
  <2>1. m_stopSource' \in 1 .. MaxSources
    BY <1>a, <1>5, ManagerAssumption DEF RestartAll
  <2> QED BY <1>a, <1>b, <1>c, <1>f, <1>5, <2>1 DEF RestartAll
<1>6. CASE RestartNext
  <2>1. Head(todo) \in Workers /\ Tail(todo) \in Seq(Tasks)
    BY <1>b, <1>6, MembersTail DEF RestartNext, Workers
  <2>2. CASE m_running[Head(todo)]
    <3>1. UNCHANGED <<m_running, m_thread, ownStop, token>>
      BY <1>6, <2>2 DEF RestartNext, StartSucceeds
    <3>2. orphans' \subseteq Tasks
      BY <1>a, <1>b, <1>6, <2>2, MembersTail DEF RestartNext, WorkerTypes, StartSucceeds
    <3> QED BY <1>a, <1>b, <1>c, <1>6, <2>1, <3>1, <3>2 DEF RestartNext, WorkerTypes
  <2>3. CASE ~m_running[Head(todo)]
    <3>1. /\ StartFails(Head(todo)) => WorkerTypes'
          /\ StartSucceeds(Head(todo), m_stopSource) => WorkerTypes'
      BY <1>a, <2>1, WorkerSteps
    <3>2. WorkerTypes'
      BY <1>6, <2>3, <3>1 DEF RestartNext
    <3> QED BY <1>a, <1>b, <1>c, <1>6, <2>1, <3>2 DEF RestartNext
  <2> QED BY <2>2, <2>3
<1>7. CASE Restarted
  BY <1>a, <1>b, <1>c, <1>f, <1>7 DEF Restarted
<1>8. CASE StopAll("keep", "stop") \/ StopAll("clear", "terminate")
  BY <1>a, <1>b, <1>c, <1>f, <1>8 DEF StopAll
<1>9. CASE JoinNext
  <2>1. Head(todo) \in Workers /\ Tail(todo) \in Seq(Tasks)
    BY <1>b, <1>9, MembersTail DEF JoinNext, Workers
  <2>2. WorkerTypes'
    BY <1>a, <1>9, <2>1, WorkerSteps DEF JoinNext
  <2> QED BY <1>a, <1>b, <1>c, <1>9, <2>1, <2>2 DEF JoinNext
<1>10. CASE AllJoined
  <2>1. << >> \in Seq(Tasks) /\ Kept(<< >>) \subseteq Tasks
    <3>1. << >> \in Seq(Tasks)
      OBVIOUS
    <3> QED BY <3>1, MembersIn
  <2>2. m_tasks' \in Seq(Tasks) /\ alive' \subseteq Tasks
    BY <1>b, <1>10, <2>1 DEF AllJoined
  <2> QED BY <1>a, <1>b, <1>c, <1>f, <1>10, <2>2 DEF AllJoined
<1>11. CASE StopLast
  <2>1. m_tasks[Len(m_tasks)] \in Workers
    BY <1>b, <1>11, MembersFront DEF StopLast, Workers
  <2>2. ownStop' \in [Workers -> BOOLEAN]
    BY <1>a, <1>11, <2>1, StopTypes DEF StopLast, WorkerTypes
  <2>3. WorkerTypes'
    BY <1>a, <1>11, <2>2 DEF StopLast, WorkerTypes
  <2> QED BY <1>a, <1>b, <1>c, <1>11, <2>3 DEF StopLast
<1>12. CASE LastJoined
  <2>1. m_tasks' \in Seq(Tasks) /\ m_tasks[Len(m_tasks)] \in Workers
    BY <1>b, <1>12, MembersFront DEF LastJoined, Workers, LastExists
  <2>2. WorkerTypes'
    BY <1>a, <1>12, <2>1, WorkerSteps DEF LastJoined
  <2> QED BY <1>a, <1>b, <1>c, <1>12, <2>1, <2>2, MembersIn DEF LastJoined
<1>13. CASE Quit
  <2>1. ownStop' \in [Workers -> BOOLEAN]
    BY <1>a, <1>e, <1>13, StopTypes DEF Quit, WorkerTypes
  <2>2. WorkerTypes'
    BY <1>a, <1>13, <2>1 DEF Quit, WorkerTypes
  <2> QED BY <1>a, <1>b, <1>c, <1>13, <2>2 DEF Quit
<1>14. CASE Closed
  <2>1. WorkerTypes'
    BY <1>a, <1>e, <1>14, WorkerSteps DEF Closed
  <2> QED BY <1>a, <1>b, <1>c, <1>14, <2>1 DEF Closed
<1>15. ASSUME NEW w \in Workers, RunReturns(w) \/ MarkStopped(w) PROVE TypeOK'
  <2>1. m_running' \in [Workers -> BOOLEAN]
    BY <1>a, <1>15 DEF RunReturns, MarkStopped, WorkerTypes
  <2>2. WorkerTypes'
    BY <1>a, <1>15, <2>1 DEF RunReturns, MarkStopped, WorkerTypes
  <2> QED BY <1>a, <1>b, <1>c, <1>15, <2>2 DEF RunReturns, MarkStopped
<1>16. CASE UNCHANGED vars
  BY <1>a, <1>b, <1>c, <1>f, <1>16 DEF vars
<1> QED
  BY <1>1, <1>2, <1>3, <1>4, <1>5, <1>6, <1>7, <1>8, <1>9, <1>10, <1>11, <1>12,
     <1>13, <1>14, <1>15, <1>16 DEF Next, MainContinues, Command, Ended, Hangs

-----------------------------------------------------------------------------
(* The flag follows the thread through start, join and the thread's end. *)
LEMMA FlagStep == TypeOK /\ LastExists /\ RunningFlagExact /\ [Next]_vars
                    => RunningFlagExact'
<1> SUFFICES ASSUME TypeOK, LastExists, RunningFlagExact, [Next]_vars
             PROVE  RunningFlagExact'
  OBVIOUS
<1>a. m_running \in [Workers -> BOOLEAN] /\ DOMAIN m_thread = Workers
  BY DEF TypeOK
<1>b. UNCHANGED <<m_running, m_thread>> => RunningFlagExact'
  BY DEF RunningFlagExact
<1>c. ASSUME NEW w \in Workers, NEW tok, StartSucceeds(w, tok) PROVE RunningFlagExact'
  BY <1>a, <1>c DEF StartSucceeds, RunningFlagExact
<1>d. ASSUME NEW w \in Workers, StartFails(w) PROVE RunningFlagExact'
  BY <1>b, <1>d DEF StartFails, workerVars
<1>e. ASSUME NEW w \in Workers, Join(w) PROVE RunningFlagExact'
  BY <1>a, <1>e DEF Join, RunningFlagExact
<1>f. Manager \in Workers /\ Tasks \subseteq Workers
  BY DEF Workers
<1>g. todo # << >> => Head(todo) \in Workers
  BY <1>f, MembersTail DEF TypeOK
<1>1. CASE ConstructNext
  BY <1>c, <1>d, <1>g, <1>1 DEF ConstructNext, AddTask
<1>2. CASE StartAll
  BY <1>c, <1>d, <1>f, <1>2 DEF StartAll
<1>3. ASSUME NEW t \in Lambdas, AddLambda(t) PROVE RunningFlagExact'
  <2>1. t \in Workers
    BY <1>f DEF Tasks
  <2> QED BY <1>c, <1>d, <1>3, <2>1 DEF AddLambda, AddTask
<1>4. CASE RestartNext
  <2>1. \/ UNCHANGED <<m_running, m_thread>> \/ StartFails(Head(todo))
        \/ StartSucceeds(Head(todo), m_stopSource)
    BY <1>4 DEF RestartNext
  <2>2. Head(todo) \in Workers
    BY <1>4, <1>g DEF RestartNext
  <2> QED BY <1>b, <1>c, <1>d, <2>1, <2>2
<1>5. CASE JoinNext \/ Closed
  BY <1>e, <1>f, <1>g, <1>5 DEF JoinNext, Closed
<1>6. CASE LastJoined
  <2>1. m_tasks[Len(m_tasks)] \in Workers
    BY <1>6, <1>f, MembersFront DEF LastJoined, LastExists, TypeOK
  <2> QED BY <1>e, <1>6, <2>1 DEF LastJoined
<1>7. ASSUME NEW w \in Workers, RunReturns(w) \/ MarkStopped(w)
      PROVE  RunningFlagExact'
  BY <1>a, <1>7 DEF RunReturns, MarkStopped, RunningFlagExact
<1>8. CASE \/ Constructed \/ RestartAll \/ Restarted \/ AllJoined \/ StopLast \/ Quit
           \/ StopAll("keep", "stop") \/ StopAll("clear", "terminate")
  BY <1>b, <1>8 DEF Constructed, RestartAll, Restarted, AllJoined, StopLast, Quit,
     StopAll, workerVars
<1>9. CASE UNCHANGED vars
  BY <1>b, <1>9 DEF vars, workerVars
<1> QED
  BY <1>1, <1>2, <1>3, <1>4, <1>5, <1>6, <1>7, <1>8, <1>9
  DEF Next, MainContinues, Command, Ended, Hangs

(* A step that starts no task keeps Managed and StillToJoin as long as the *)
(* tasks it takes out of m_tasks or todo have ended.                       *)
LEMMA ManagedStep ==
  IInv /\ [Next]_vars => Managed' /\ StillToJoin' /\ TodoManaged' /\ LastExists'
<1> SUFFICES ASSUME IInv, [Next]_vars
             PROVE  Managed' /\ StillToJoin' /\ TodoManaged' /\ LastExists'
  OBVIOUS
<1>a. /\ TypeOK /\ Managed /\ StillToJoin /\ TodoManaged /\ LastExists
      /\ DOMAIN m_thread = Workers
      /\ m_tasks \in Seq(Tasks) /\ todo \in Seq(Tasks)
      /\ Tasks \subseteq Workers /\ Manager \in Workers /\ Manager \notin Tasks
  BY ManagerAssumption DEF IInv, TypeOK, Workers
<1>b. ASSUME NEW t \in Tasks, NEW tok, StartSucceeds(t, tok)
      PROVE  \A u \in Tasks : m_thread'[u] # "none" => m_thread[u] # "none" \/ u = t
  BY <1>a, <1>b DEF StartSucceeds
<1>c. ASSUME NEW w \in Workers, Join(w)
      PROVE  \A u \in Workers : m_thread'[u] # "none" => u # w /\ m_thread[u] # "none"
  BY <1>a, <1>c DEF Join
<1>d. ASSUME NEW t \in Tasks, AddTask(t) PROVE Managed'
  <2>1. CASE StartSucceeds(t, m_stopSource) /\ m_tasks' = Append(m_tasks, t)
    <3>1. Members(m_tasks') = Members(m_tasks) \cup {t}
      BY <1>a, <2>1, MembersAppend
    <3> QED BY <1>a, <1>b, <2>1, <3>1 DEF Managed
  <2>2. CASE StartFails(t) /\ UNCHANGED m_tasks
    BY <1>a, <2>2 DEF StartFails, workerVars, Managed
  <2> QED BY <1>d, <2>1, <2>2 DEF AddTask
<1>e. UNCHANGED <<m_thread, m_tasks>> => Managed'
  BY <1>a DEF Managed
<1>f. pc' \notin {"stopAll", "stopLast", "restart"}
        => StillToJoin' /\ TodoManaged' /\ LastExists'
  BY DEF StillToJoin, TodoManaged, LastExists
<1> USE DEF sourceVars, mainVars
<1>1. CASE ConstructNext
  <2>1. Head(todo) \in Tasks /\ pc' = "construct"
    BY <1>a, <1>1, MembersTail DEF ConstructNext
  <2> QED BY <1>d, <1>f, <1>1, <2>1 DEF ConstructNext
<1>2. CASE Constructed \/ Restarted \/ Quit
  BY <1>e, <1>f, <1>2 DEF Constructed, Restarted, Quit, workerVars
<1>14. CASE RestartAll
  BY <1>e, <1>14 DEF RestartAll, workerVars, StillToJoin, TodoManaged, LastExists
<1>3. CASE StartAll
  <2>1. CASE StartSucceeds(Manager, 0) /\ pc' = "loop"
    <3>1. \A u \in Tasks : m_thread'[u] = m_thread[u]
      BY <1>a, <2>1 DEF StartSucceeds
    <3> QED BY <1>a, <1>f, <1>3, <2>1, <3>1 DEF StartAll, Managed
  <2>2. CASE StartFails(Manager) /\ pc' = "stopAll" /\ todo' = m_tasks
    BY <1>a, <1>3, <2>2
    DEF StartAll, StartFails, workerVars, Managed, StillToJoin, TodoManaged, LastExists
  <2> QED BY <1>3, <2>1, <2>2 DEF StartAll
<1>4. ASSUME NEW t \in Lambdas, AddLambda(t)
      PROVE  Managed' /\ StillToJoin' /\ TodoManaged' /\ LastExists'
  <2>1. t \in Tasks /\ pc' = "loop"
    BY <1>4 DEF AddLambda, Tasks
  <2> QED BY <1>d, <1>f, <1>4, <2>1 DEF AddLambda
<1>5. CASE RestartNext
  <2>1. Head(todo) \in Tasks /\ Members(todo) = {Head(todo)} \cup Members(todo')
    BY <1>a, <1>5, MembersTail DEF RestartNext
  <2>2. pc = "restart" /\ pc' = "restart" /\ m_tasks' = m_tasks
    BY <1>5 DEF RestartNext
  <2>3. StillToJoin' /\ TodoManaged' /\ LastExists'
    BY <1>a, <2>1, <2>2 DEF StillToJoin, TodoManaged, LastExists
  <2>4. CASE UNCHANGED m_thread
    BY <1>e, <2>2, <2>3, <2>4
  <2>5. CASE StartSucceeds(Head(todo), m_stopSource)
    <3>1. Head(todo) \in Members(m_tasks)
      BY <1>a, <2>1, <2>2 DEF TodoManaged
    <3>2. Managed'
      BY <1>a, <1>b, <2>1, <2>2, <2>5, <3>1 DEF Managed
    <3> QED BY <2>3, <3>2
  <2> QED BY <1>5, <2>4, <2>5 DEF RestartNext, StartFails, workerVars
<1>6. CASE StopAll("keep", "stop") \/ StopAll("clear", "terminate")
  BY <1>a, <1>6 DEF StopAll, workerVars, Managed, StillToJoin, TodoManaged, LastExists
<1>7. CASE JoinNext
  <2>1. Head(todo) \in Tasks /\ Members(todo) = {Head(todo)} \cup Members(todo')
    BY <1>a, <1>7, MembersTail DEF JoinNext
  <2>2. \A u \in Tasks : m_thread'[u] # "none" => u # Head(todo) /\ m_thread[u] # "none"
    BY <1>a, <1>c, <1>7, <2>1 DEF JoinNext
  <2>3. StillToJoin'
    BY <1>a, <1>7, <2>1, <2>2 DEF JoinNext, StillToJoin
  <2> QED BY <1>a, <1>7, <2>2, <2>3 DEF JoinNext, Managed, TodoManaged, LastExists
<1>8. CASE AllJoined
  <2>1. \A t \in Tasks : m_thread[t] = "none"
    BY <1>a, <1>8, MembersEmpty DEF AllJoined, StillToJoin
  <2> QED BY <1>f, <1>8, <2>1 DEF AllJoined, Managed, workerVars
<1>9. CASE StopLast
  BY <1>a, <1>e, <1>9 DEF StopLast, StillToJoin, TodoManaged, LastExists
<1>10. CASE LastJoined
  <2>1. /\ m_tasks[Len(m_tasks)] \in Tasks
        /\ Members(m_tasks) = Members(m_tasks') \cup {m_tasks[Len(m_tasks)]}
    BY <1>a, <1>10, MembersFront DEF LastJoined, LastExists
  <2>2. \A u \in Tasks : m_thread'[u] # "none" =>
                           u # m_tasks[Len(m_tasks)] /\ m_thread[u] # "none"
    BY <1>a, <1>c, <1>10, <2>1 DEF LastJoined
  <2>3. Managed'
    BY <1>a, <2>1, <2>2 DEF Managed
  <2> QED BY <1>f, <1>10, <2>3 DEF LastJoined
<1>11. CASE Closed
  BY <1>a, <1>c, <1>11 DEF Closed, Managed, StillToJoin, TodoManaged, LastExists
<1>12. ASSUME NEW w \in Workers, RunReturns(w) \/ MarkStopped(w)
       PROVE  Managed' /\ StillToJoin' /\ TodoManaged' /\ LastExists'
  <2>1. \A t \in Tasks : m_thread'[t] # "none" => m_thread[t] # "none"
    BY <1>a, <1>12 DEF RunReturns, MarkStopped
  <2>2. UNCHANGED <<m_tasks, mainVars>>
    BY <1>12 DEF RunReturns, MarkStopped
  <2> QED BY <1>a, <2>1, <2>2 DEF Managed, StillToJoin, TodoManaged, LastExists
<1>13. CASE UNCHANGED vars
  BY <1>a, <1>13 DEF vars, workerVars, Managed, StillToJoin, TodoManaged, LastExists
<1> QED
  BY <1>1, <1>2, <1>3, <1>4, <1>5, <1>6, <1>7, <1>8, <1>9, <1>10, <1>11, <1>12, <1>13,
     <1>14
  DEF Next, MainContinues, Command, Ended, Hangs

LEMMA Inductive == Spec => []IInv
<1>1. Init => IInv
  <2> SUFFICES ASSUME Init PROVE IInv
    OBVIOUS
  <2>1. TypeOK
    <3>1. Chain \in Seq(Tasks)
      BY ManagerAssumption DEF Tasks
    <3> QED BY <3>1, ManagerAssumption DEF Init, TypeOK, PC
  <2>2. RunningFlagExact /\ Managed
    BY DEF Init, RunningFlagExact, Managed, Workers
  <2> QED BY <2>1, <2>2 DEF Init, IInv, StillToJoin, TodoManaged, LastExists
<1>2. IInv /\ [Next]_vars => IInv'
  BY TypeStep, FlagStep, ManagedStep DEF IInv
<1> QED BY <1>1, <1>2, PTL DEF Spec

(* A running task has a thread. *)
LEMMA RunningManaged ==
  ASSUME IInv
  PROVE  /\ \A t \in Tasks : m_running[t] => t \in Members(m_tasks)
         /\ pc = "stopAll" => \A t \in Tasks : m_running[t] => t \in Members(todo)
<1>1. \A t \in Tasks : m_running[t] => m_thread[t] # "none"
  BY DEF IInv, RunningFlagExact, Workers
<1> QED BY <1>1 DEF IInv, Managed, StillToJoin

-----------------------------------------------------------------------------
(* Every variable of the manager, its workers and main keeps its type, for *)
(* every chain and every set of lambda tasks.                              *)
THEOREM TypeCorrect == Spec => []TypeOK
<1>1. IInv => TypeOK
  BY DEF IInv
<1> QED BY <1>1, Inductive, PTL

(* isRunning() is exact in every state, whatever main calls and whichever  *)
(* thread creations fail.                                                  *)
THEOREM FlagCorrect == Spec => []RunningFlagExact
<1>1. IInv => RunningFlagExact
  BY DEF IInv
<1> QED BY <1>1, Inductive, PTL

-----------------------------------------------------------------------------
(***************************************************************************)
(* Which source a running task listens to: the one the manager holds,      *)
(* unless a restart found it running or is still to come to it.            *)
(***************************************************************************)
Ahead(t) == pc = "restart" /\ t \in Members(todo)

TokensCurrent ==
  \A t \in Tasks :
    m_running[t] => token[t] = m_stopSource \/ t \in orphans \/ Ahead(t)

LEMMA TokenStep == IInv /\ TokensCurrent /\ [Next]_vars => TokensCurrent'
<1> SUFFICES ASSUME IInv, TokensCurrent, [Next]_vars PROVE TokensCurrent'
  OBVIOUS
<1>a. /\ m_running \in [Workers -> BOOLEAN] /\ DOMAIN token = Workers
      /\ m_tasks \in Seq(Tasks) /\ todo \in Seq(Tasks)
      /\ Tasks \subseteq Workers /\ Manager \in Workers /\ Manager \notin Tasks
  BY ManagerAssumption DEF IInv, TypeOK, Workers
<1>b. ASSUME UNCHANGED <<token, m_stopSource, orphans>>, pc # "restart",
             \A t \in Tasks : m_running'[t] => m_running[t]
      PROVE  TokensCurrent'
  BY <1>b DEF TokensCurrent, Ahead
<1>c. ASSUME NEW t \in Tasks, StartSucceeds(t, m_stopSource), UNCHANGED m_stopSource,
             \A u \in Tasks : Ahead(u) /\ u # t => Ahead(u)'
      PROVE  TokensCurrent'
  <2>1. ASSUME NEW u \in Tasks, m_running'[u]
        PROVE  token'[u] = m_stopSource' \/ u \in orphans' \/ Ahead(u)'
    <3>1. CASE u = t
      BY <1>a, <1>c, <3>1 DEF StartSucceeds
    <3>2. CASE u # t
      <4>1. m_running[u] /\ token'[u] = token[u] /\ (u \in orphans => u \in orphans')
        BY <1>a, <1>c, <2>1, <3>2 DEF StartSucceeds
      <4> QED BY <1>c, <3>2, <4>1 DEF TokensCurrent
    <3> QED BY <3>1, <3>2
  <2> QED BY <2>1 DEF TokensCurrent
<1>d. todo # << >> =>
        Head(todo) \in Tasks /\ Members(todo) = {Head(todo)} \cup Members(Tail(todo))
  BY <1>a, MembersTail
<1>e. ASSUME NEW w \in Workers, Join(w), UNCHANGED m_stopSource, pc # "restart"
      PROVE  TokensCurrent'
  <2>1. ~m_running[w]
    BY <1>e DEF Join, IInv, RunningFlagExact
  <2> QED BY <1>e, <2>1 DEF Join, TokensCurrent, Ahead
<1> USE DEF sourceVars, workerVars
<1>1. CASE ConstructNext
  <2>1. pc # "restart"
    BY <1>1 DEF ConstructNext
  <2> QED BY <1>b, <1>c, <1>d, <1>1, <2>1 DEF ConstructNext, AddTask, StartFails, Ahead
<1>2. CASE StartAll
  <2>1. CASE StartSucceeds(Manager, 0)
    <3>1. \A t \in Tasks : /\ m_running'[t] = m_running[t] /\ token'[t] = token[t]
                           /\ (t \in orphans => t \in orphans')
      BY <1>a, <2>1 DEF StartSucceeds
    <3> QED BY <1>2, <3>1 DEF StartAll, TokensCurrent, Ahead
  <2>2. CASE StartFails(Manager)
    BY <1>b, <1>2, <2>2 DEF StartAll, StartFails
  <2> QED BY <1>2, <2>1, <2>2 DEF StartAll
<1>3. ASSUME NEW t \in Lambdas, AddLambda(t) PROVE TokensCurrent'
  <2>1. t \in Tasks /\ pc # "restart"
    BY <1>3 DEF Tasks, AddLambda
  <2> QED BY <1>b, <1>c, <1>3, <2>1 DEF AddLambda, AddTask, StartFails, Ahead
<1>4. CASE RestartAll
  <2>1. \A t \in Tasks : m_running'[t] => Ahead(t)'
    BY <1>4, RunningManaged DEF RestartAll, Ahead
  <2> QED BY <2>1 DEF TokensCurrent
<1>5. CASE RestartNext
  <2> DEFINE h == Head(todo)
  <2>1. /\ h \in Tasks /\ UNCHANGED m_stopSource
        /\ \A u \in Tasks : Ahead(u) /\ u # h => Ahead(u)'
    BY <1>d, <1>5 DEF RestartNext, Ahead
  <2>2. CASE StartSucceeds(h, m_stopSource)
    BY <1>c, <2>1, <2>2
  <2>3. CASE ~m_running[h] /\ StartFails(h)
    BY <2>1, <2>3 DEF StartFails, TokensCurrent
  <2>4. CASE /\ UNCHANGED <<m_running, token>>
             /\ orphans' = orphans \cup (IF token[h] = m_stopSource THEN {} ELSE {h})
    BY <2>1, <2>4 DEF TokensCurrent
  <2> QED BY <1>5, <2>2, <2>3, <2>4 DEF RestartNext
<1>6. CASE Restarted
  BY <1>6, MembersEmpty DEF Restarted, TokensCurrent, Ahead
<1>7. CASE JoinNext \/ Closed
  BY <1>a, <1>d, <1>e, <1>7 DEF JoinNext, Closed
<1>8. CASE LastJoined
  <2>1. m_tasks[Len(m_tasks)] \in Workers
    BY <1>a, <1>8, MembersFront DEF LastJoined, IInv, LastExists
  <2> QED BY <1>e, <1>8, <2>1 DEF LastJoined
<1>9. ASSUME NEW w \in Workers, RunReturns(w) \/ MarkStopped(w) PROVE TokensCurrent'
  <2>1. \A t \in Tasks : m_running'[t] => m_running[t]
    BY <1>a, <1>9 DEF RunReturns, MarkStopped
  <2>2. UNCHANGED <<token, m_stopSource, orphans, pc, todo>>
    BY <1>9 DEF RunReturns, MarkStopped, mainVars
  <2> QED BY <2>1, <2>2 DEF TokensCurrent, Ahead
<1>10. CASE \/ Constructed \/ AllJoined \/ StopLast \/ Quit
            \/ StopAll("keep", "stop") \/ StopAll("clear", "terminate")
  BY <1>b, <1>10 DEF Constructed, AllJoined, StopLast, Quit, StopAll
<1>11. CASE UNCHANGED vars
  BY <1>11 DEF vars, mainVars, TokensCurrent, Ahead
<1> QED
  BY <1>1, <1>2, <1>3, <1>4, <1>5, <1>6, <1>7, <1>8, <1>9, <1>10, <1>11
  DEF Next, MainContinues, Command, Ended, Hangs

(* A global stop reaches every running task but those a restart found      *)
(* running, for every chain, whenever main calls what.                     *)
THEOREM GlobalStopCorrect == Spec => []GlobalStopReachesAll
<1>1. Init => TokensCurrent
  BY DEF Init, TokensCurrent, Workers
<1>2. IInv /\ TokensCurrent => GlobalStopReachesAll
  BY DEF IInv, RunningFlagExact, TokensCurrent, Ahead, GlobalStopReachesAll, Workers
<1> QED BY <1>1, <1>2, TokenStep, Inductive, PTL DEF Spec

-----------------------------------------------------------------------------
(***************************************************************************)
(* Before main joins it has asked for the stop: on the source the manager  *)
(* holds, which TokensCurrent says every running task but an orphan        *)
(* listens to, or on the one thread it is going to join.                   *)
(***************************************************************************)
Last == m_tasks[Len(m_tasks)]

StopAsked ==
  /\ pc \in {"stopAll", "close"} => m_stopSource \in stopped
  /\ pc = "close" => m_thread[Manager] = "none" \/ ownStop[Manager]
  /\ pc = "stopLast" => m_thread[Last] = "none" \/ ownStop[Last]

LEMMA StopAskedStep == IInv /\ StopAsked /\ [Next]_vars => StopAsked'
<1> SUFFICES ASSUME IInv, StopAsked, [Next]_vars PROVE StopAsked'
  OBVIOUS
<1>a. /\ DOMAIN ownStop = Workers /\ DOMAIN m_thread = Workers
      /\ Manager \in Workers /\ Tasks \subseteq Workers
      /\ m_tasks \in Seq(Tasks)
  BY DEF IInv, TypeOK, Workers
<1>b. m_tasks # << >> => Last \in Workers
  BY <1>a DEF Last
<1>c. pc' \notin {"stopAll", "close", "stopLast"} => StopAsked'
  BY DEF StopAsked
<1> USE DEF sourceVars, mainVars, workerVars
<1>1. CASE \/ ConstructNext \/ Constructed \/ RestartAll \/ RestartNext \/ Restarted
           \/ AllJoined \/ LastJoined \/ \E t \in Lambdas : AddLambda(t)
  BY <1>c, <1>1 DEF ConstructNext, Constructed, RestartAll, RestartNext, Restarted,
     AllJoined, LastJoined, AddLambda
<1>2. CASE StartAll
  <2>1. CASE pc' = "stopAll"
    <3>1. m_stopSource' \in stopped'
      BY <1>2, <2>1 DEF StartAll
    <3> QED BY <2>1, <3>1 DEF StopAsked
  <2>2. pc' \in {"loop", "stopAll"}
    BY <1>2 DEF StartAll
  <2> QED BY <1>c, <2>1, <2>2
<1>3. CASE StopAll("keep", "stop") \/ StopAll("clear", "terminate")
  BY <1>3 DEF StopAll, StopAsked
<1>4. CASE Quit
  <2>1. pc' = "close" /\ m_stopSource' \in stopped' /\ m_thread' = m_thread
    BY <1>4 DEF Quit
  <2>2. m_thread[Manager] = "none" \/ ownStop'[Manager]
    BY <1>a, <1>4 DEF Quit, RequestOwnStop
  <2> QED BY <2>1, <2>2 DEF StopAsked
<1>5. CASE StopLast
  <2>1. pc' = "stopLast" /\ m_thread' = m_thread /\ Last' = Last /\ Last \in Workers
    BY <1>b, <1>5 DEF StopLast, Last
  <2>2. m_thread[Last] = "none" \/ ownStop'[Last]
    BY <1>a, <1>5, <2>1 DEF StopLast, RequestOwnStop, Last
  <2> QED BY <2>1, <2>2 DEF StopAsked
<1>6. CASE JoinNext \/ Closed
  BY <1>6 DEF JoinNext, Closed, StopAsked
<1>7. ASSUME NEW w \in Workers, RunReturns(w) \/ MarkStopped(w) PROVE StopAsked'
  <2>1. /\ UNCHANGED <<ownStop, m_stopSource, stopped, pc, m_tasks>>
        /\ \A v \in Workers : m_thread[v] = "none" => m_thread'[v] = "none"
    BY <1>a, <1>7 DEF RunReturns, MarkStopped
  <2>2. Last' = Last /\ (pc = "stopLast" => Last \in Workers)
    BY <1>b, <2>1 DEF Last, IInv, LastExists
  <2> QED BY <1>a, <2>1, <2>2 DEF StopAsked
<1>8. CASE UNCHANGED vars
  BY <1>8 DEF vars, StopAsked, Last
<1> QED
  BY <1>1, <1>2, <1>3, <1>4, <1>5, <1>6, <1>7, <1>8
  DEF Next, MainContinues, Command, Ended, Hangs

(* Whatever was called and failed before, a call of the manager never      *)
(* joins a thread that has not been told to stop, for every chain; only    *)
(* stopAllThreads can wait for a task that a restart found running.        *)
THEOREM JoinsCorrect == Spec => []JoinsOnlyStopping
<1>1. Init => TokensCurrent /\ StopAsked
  BY DEF Init, TokensCurrent, StopAsked, Workers
<1>2. IInv /\ TokensCurrent /\ StopAsked => JoinsOnlyStopping
  <2> SUFFICES ASSUME IInv, TokensCurrent, StopAsked, NEW w \in Awaited, m_thread[w] = "run"
               PROVE  StopSeen(w) \/ (pc = "stopAll" /\ w \in orphans)
    BY DEF JoinsOnlyStopping
  <2>1. CASE pc = "stopAll"
    <3>1. w \in Tasks
      BY <2>1, MembersIn DEF Awaited, IInv, TypeOK
    <3>2. m_running[w]
      BY <3>1 DEF IInv, RunningFlagExact, Workers
    <3> QED BY <2>1, <3>1, <3>2 DEF TokensCurrent, Ahead, StopAsked, StopSeen
  <2>2. CASE pc = "stopLast"
    BY <2>2 DEF Awaited, StopAsked, StopSeen, Last
  <2>3. CASE pc = "close"
    BY <2>3 DEF Awaited, StopAsked, StopSeen
  <2> QED BY <2>1, <2>2, <2>3 DEF Awaited
<1> QED BY <1>1, <1>2, TokenStep, StopAskedStep, Inductive, PTL DEF Spec

-----------------------------------------------------------------------------
(***************************************************************************)
(* The chain is released as a whole, except for what dropped records, and  *)
(* a managed task is not released before main has returned.                *)
(***************************************************************************)
ChainHeld ==
  /\ pc = "construct" => alive = Tasks
  /\ pc # "ended" => Members(m_tasks) \cup Lambdas \subseteq alive
  /\ ChainTasks \subseteq alive \cup dropped \/ Members(m_tasks) \cap ChainTasks = {}
  /\ pc = "ended" => \A t \in Tasks : ~m_running[t]

LEMMA ChainHeldStep == IInv /\ ChainHeld /\ [Next]_vars => ChainHeld'
<1> SUFFICES ASSUME IInv, ChainHeld, [Next]_vars PROVE ChainHeld'
  OBVIOUS
<1>a. /\ m_running \in [Workers -> BOOLEAN] /\ pc \in PC
      /\ m_tasks \in Seq(Tasks) /\ todo \in Seq(Tasks) /\ Members(m_tasks) \subseteq Tasks
      /\ Tasks \subseteq Workers /\ Lambdas \cap ChainTasks = {}
      /\ \A t \in Tasks : m_running[t] => t \in Members(m_tasks)
      /\ pc = "stopAll" => \A t \in Tasks : m_running[t] => t \in Members(todo)
  BY ManagerAssumption, RunningManaged, MembersIn DEF IInv, TypeOK, Workers
<1> USE DEF sourceVars, mainVars, workerVars, objectVars
<1>1. CASE ConstructNext
  <2>1. Head(todo) \in Tasks
    BY <1>a, <1>1, MembersTail DEF ConstructNext
  <2>2. Members(m_tasks') \subseteq Tasks
    <3>1. CASE m_tasks' = Append(m_tasks, Head(todo))
      BY <1>a, <2>1, <3>1, MembersAppend
    <3>2. CASE UNCHANGED m_tasks
      BY <1>a, <3>2
    <3> QED BY <1>1, <3>1, <3>2 DEF ConstructNext, AddTask
  <2>3. pc = "construct" /\ pc' = "construct" /\ alive' = alive
    BY <1>1 DEF ConstructNext
  <2> QED BY <2>2, <2>3 DEF ChainHeld, Tasks
<1>2. CASE Constructed
  <2>1. /\ Members(m_tasks') \cup Lambdas \subseteq alive' /\ pc' = "startAll"
        /\ Tasks \subseteq alive' \cup dropped'
    BY <1>2 DEF Constructed, ChainHeld, Kept
  <2> QED BY <2>1 DEF ChainHeld, Tasks
<1>3. CASE StartAll
  BY <1>3 DEF StartAll, ChainHeld
<1>4. ASSUME NEW t \in Lambdas, AddLambda(t) PROVE ChainHeld'
  <2>1. Members(m_tasks') \subseteq Members(m_tasks) \cup {t}
    <3>1. t \in Tasks
      BY DEF Tasks
    <3> QED BY <1>a, <1>4, <3>1, MembersAppend DEF AddLambda, AddTask
  <2>2. pc = "loop" /\ pc' = "loop" /\ UNCHANGED <<alive, dropped>>
    BY <1>4 DEF AddLambda
  <2> QED BY <1>a, <2>1, <2>2 DEF ChainHeld
<1>5. CASE RestartAll \/ RestartNext \/ Restarted
  BY <1>5 DEF RestartAll, RestartNext, Restarted, ChainHeld
<1>6. CASE \/ StopAll("keep", "stop") \/ StopAll("clear", "terminate")
           \/ StopLast \/ Quit \/ JoinNext \/ Closed
  BY <1>6 DEF StopAll, StopLast, Quit, JoinNext, Closed, ChainHeld
<1>7. CASE AllJoined
  <2>1. \A t \in Tasks : ~m_running[t] /\ ~m_running'[t]
    BY <1>a, <1>7, MembersEmpty DEF AllJoined
  <2>2. CASE andThen = "keep"
    BY <1>7, <2>1, <2>2 DEF AllJoined, ChainHeld
  <2>3. CASE andThen # "keep"
    <3>1. Members(m_tasks') = {} /\ (pc' # "ended" => Lambdas \subseteq alive')
      BY <1>7, <2>3, MembersEmpty DEF AllJoined, Kept
    <3> QED BY <1>7, <2>1, <3>1 DEF AllJoined, ChainHeld
  <2> QED BY <2>2, <2>3
<1>8. CASE LastJoined
  <2>1. /\ Members(m_tasks') \cup Lambdas \subseteq alive' /\ pc' = "loop"
        /\ alive \cup dropped \subseteq alive' \cup dropped'
    BY <1>8 DEF LastJoined, Kept
  <2>2. Members(m_tasks') \subseteq Members(m_tasks)
    BY <1>a, <1>8, MembersFront DEF LastJoined, IInv, LastExists
  <2> QED BY <2>1, <2>2 DEF ChainHeld
<1>9. ASSUME NEW w \in Workers, RunReturns(w) \/ MarkStopped(w) PROVE ChainHeld'
  <2>1. \A t \in Tasks : m_running'[t] => m_running[t]
    BY <1>a, <1>9 DEF RunReturns, MarkStopped
  <2>2. UNCHANGED <<m_tasks, alive, dropped, mainVars>>
    BY <1>9 DEF RunReturns, MarkStopped
  <2> QED BY <2>1, <2>2 DEF ChainHeld
<1>10. CASE UNCHANGED vars
  BY <1>10 DEF vars, ChainHeld
<1> QED
  BY <1>1, <1>2, <1>3, <1>4, <1>5, <1>6, <1>7, <1>8, <1>9, <1>10
  DEF Next, MainContinues, Command, Ended, Hangs

(* No task ever runs without its own object or beside a queue that is      *)
(* gone, for every chain, except a queue dropped by a thread that could    *)
(* not be created or by stopLastThread().                                  *)
THEOREM QueuesCorrect == Spec => []QueuesOutliveSenders
<1>1. Init => ChainHeld
  BY DEF Init, ChainHeld, Tasks, Members
<1>2. IInv /\ ChainHeld => QueuesOutliveSenders
  <2> SUFFICES ASSUME IInv, ChainHeld, NEW t \in Tasks, m_thread[t] \in {"run", "return"}
               PROVE  t \in alive /\ Targets[t] \subseteq alive \cup dropped
    BY DEF QueuesOutliveSenders
  <2>1. m_running[t] /\ t \in Members(m_tasks) /\ pc # "ended"
    BY RunningManaged DEF IInv, RunningFlagExact, ChainHeld, Workers
  <2>2. Targets[t] \subseteq Tasks /\ (t \in Lambdas => Targets[t] \subseteq Lambdas)
    BY ManagerAssumption
  <2>3. CASE t \in Lambdas
    BY <2>1, <2>2, <2>3 DEF ChainHeld
  <2>4. CASE t \in ChainTasks
    BY <2>1, <2>2, <2>4 DEF ChainHeld, Tasks
  <2> QED BY <2>3, <2>4 DEF Tasks
<1> QED BY <1>1, <1>2, ChainHeldStep, Inductive, PTL DEF Spec

-----------------------------------------------------------------------------
(***************************************************************************)
(* The manager's own thread exists only between startAll() and closeAll(), *)
(* and the last joins leave no thread of a task.                           *)
(***************************************************************************)
ManagerAway ==
  pc \in {"construct", "startAll", "ended"} \/ (pc = "stopAll" /\ andThen = "exit")
    => m_thread[Manager] = "none"

Joined == ManagerAway /\ NoThreadLeft

LEMMA JoinedStep == IInv /\ Joined /\ [Next]_vars => Joined'
<1> SUFFICES ASSUME IInv, Joined, [Next]_vars PROVE Joined'
  OBVIOUS
<1>a. /\ DOMAIN m_thread = Workers /\ todo \in Seq(Tasks) /\ m_tasks \in Seq(Tasks)
      /\ Tasks \subseteq Workers /\ Manager \in Workers /\ Manager \notin Tasks
      /\ Workers = Tasks \cup {Manager}
  BY ManagerAssumption DEF IInv, TypeOK, Workers
<1>b. todo # << >> => Head(todo) \in Tasks
  BY <1>a, MembersTail
<1>c. ASSUME NEW t \in Tasks, NEW tok, StartSucceeds(t, tok) \/ StartFails(t) \/ Join(t)
      PROVE  m_thread'[Manager] = m_thread[Manager]
  BY <1>a, <1>c DEF StartSucceeds, StartFails, Join, workerVars
<1> USE DEF sourceVars, mainVars, workerVars, Joined, ManagerAway, NoThreadLeft
<1>1. CASE ConstructNext \/ RestartNext \/ JoinNext
  BY <1>b, <1>c, <1>1 DEF ConstructNext, RestartNext, JoinNext, AddTask
<1>2. CASE StartAll
  BY <1>a, <1>2 DEF StartAll, StartFails
<1>3. ASSUME NEW t \in Lambdas, AddLambda(t) PROVE Joined'
  BY <1>3 DEF AddLambda
<1>4. CASE AllJoined
  <2>1. \A t \in Tasks : m_thread[t] = "none"
    BY <1>4, MembersEmpty DEF AllJoined, IInv, StillToJoin
  <2> QED BY <1>a, <1>4, <2>1 DEF AllJoined
<1>5. CASE LastJoined
  BY <1>5 DEF LastJoined
<1>6. CASE Closed
  BY <1>a, <1>6 DEF Closed, Join
<1>7. ASSUME NEW w \in Workers, RunReturns(w) \/ MarkStopped(w) PROVE Joined'
  <2>1. m_thread[w] # "none" /\ \A v \in Workers : v # w => m_thread'[v] = m_thread[v]
    BY <1>a, <1>7 DEF RunReturns, MarkStopped
  <2>2. UNCHANGED <<pc, andThen>>
    BY <1>7 DEF RunReturns, MarkStopped
  <2> QED BY <1>a, <2>1, <2>2
<1>8. CASE \/ Constructed \/ RestartAll \/ Restarted \/ StopLast \/ Quit
           \/ StopAll("keep", "stop") \/ StopAll("clear", "terminate")
  BY <1>8 DEF Constructed, RestartAll, Restarted, StopLast, Quit, StopAll
<1>9. CASE UNCHANGED vars
  BY <1>9 DEF vars
<1> QED
  BY <1>1, <1>2, <1>3, <1>4, <1>5, <1>6, <1>7, <1>8, <1>9
  DEF Next, MainContinues, Command, Ended, Hangs

(* When main has returned every thread was joined, for every chain and     *)
(* whatever main did before, failed starts and restarts included.          *)
THEOREM JoinedCorrect == Spec => []NoThreadLeft
<1>1. Init => Joined
  BY DEF Init, Joined, ManagerAway, NoThreadLeft, Workers
<1>2. Joined => NoThreadLeft
  BY DEF Joined
<1> QED BY <1>1, <1>2, JoinedStep, Inductive, PTL DEF Spec

-----------------------------------------------------------------------------
(***************************************************************************)
(* The sources are numbered in the order they are made, so the one a       *)
(* restart makes has no stop on it and no task listens to it yet.  While   *)
(* main stops nothing, a task of the chain that runs is not told to stop,  *)
(* hence not about to end when a restart finds it running; stopLastThread  *)
(* concerns only the last one.                                             *)
(***************************************************************************)
Free(t) == m_thread[t] = "run" /\ ~StopSeen(t)

Sources ==
  /\ \A src \in stopped : src <= m_stopSource
  /\ \A t \in Tasks : token[t] <= m_stopSource
  /\ pc \in {"construct", "restart"} => m_stopSource \notin stopped
  /\ pc = "restart" => \A t \in Tasks : token[t] = m_stopSource => ~ownStop[t]

ChainFree ==
  \A t \in ChainTasks :
    m_running[t] =>
      /\ pc \in {"construct", "startAll", "loop", "restart"} => Free(t)
      /\ pc = "stopLast" => Free(t) \/ t = Last

LEMMA SourcesStep == IInv /\ Sources /\ [Next]_vars => Sources'
<1> SUFFICES ASSUME IInv, Sources, [Next]_vars PROVE Sources'
  OBVIOUS
<1>a. /\ ownStop \in [Workers -> BOOLEAN] /\ DOMAIN token = Workers
      /\ todo \in Seq(Tasks) /\ m_stopSource \in Nat /\ stopped \subseteq Nat
      /\ Tasks \subseteq Workers /\ Manager \in Workers /\ Manager \notin Tasks
      /\ \A t \in Tasks : token[t] \in Nat
  BY ManagerAssumption DEF IInv, TypeOK, Workers
<1>b. ASSUME pc' \notin {"construct", "restart"}, UNCHANGED m_stopSource,
             stopped' \subseteq stopped \cup {m_stopSource},
             \A t \in Tasks : token'[t] <= m_stopSource
      PROVE  Sources'
  BY <1>a, <1>b DEF Sources
<1>c. \A t \in Tasks : token[t] <= m_stopSource
  BY DEF Sources
<1>d. todo # << >> => Head(todo) \in Tasks
  BY <1>a, MembersTail
<1>e. ASSUME NEW t \in Tasks, StartSucceeds(t, m_stopSource)
      PROVE  \A u \in Tasks : /\ token'[u] <= m_stopSource
                              /\ u = t => ~ownStop'[u]
                              /\ u # t => token'[u] = token[u] /\ ownStop'[u] = ownStop[u]
  <2>1. \A u \in Tasks : /\ token'[u] <= m_stopSource
                         /\ u # t => token'[u] = token[u]
    BY <1>a, <1>c, <1>e DEF StartSucceeds
  <2>2. \A u \in Tasks : /\ u = t => ~ownStop'[u]
                         /\ u # t => ownStop'[u] = ownStop[u]
    BY <1>a, <1>e DEF StartSucceeds
  <2> QED BY <2>1, <2>2
<1> USE DEF sourceVars, mainVars, workerVars
<1>1. CASE ConstructNext \/ RestartNext
  <2> DEFINE h == Head(todo)
  <2>1. /\ h \in Tasks /\ UNCHANGED <<m_stopSource, stopped, pc>>
        /\ StartSucceeds(h, m_stopSource) \/ UNCHANGED <<token, ownStop>>
        /\ pc \in {"construct", "restart"}
    BY <1>d, <1>1 DEF ConstructNext, AddTask, RestartNext, StartFails
  <2>2. CASE UNCHANGED <<token, ownStop>>
    BY <2>1, <2>2 DEF Sources
  <2>3. CASE StartSucceeds(h, m_stopSource)
    BY <1>e, <2>1, <2>3 DEF Sources
  <2> QED BY <2>1, <2>2, <2>3
<1>2. CASE StartAll
  <2>1. \A t \in Tasks : token'[t] = token[t]
    BY <1>a, <1>2 DEF StartAll, StartSucceeds, StartFails
  <2> QED BY <1>b, <1>c, <1>2, <2>1 DEF StartAll
<1>3. ASSUME NEW t \in Lambdas, AddLambda(t) PROVE Sources'
  <2>1. t \in Tasks
    BY DEF Tasks
  <2>2. \A u \in Tasks : token'[u] <= m_stopSource
    BY <1>c, <1>e, <1>3, <2>1 DEF AddLambda, AddTask, StartFails
  <2> QED BY <1>b, <1>3, <2>2 DEF AddLambda
<1>4. CASE RestartAll
  <2>1. m_stopSource' = m_stopSource + 1 /\ UNCHANGED <<stopped, token, ownStop>>
    BY <1>4 DEF RestartAll
  <2>2. /\ \A src \in stopped' : src <= m_stopSource' /\ src # m_stopSource'
        /\ \A t \in Tasks : token'[t] <= m_stopSource' /\ token'[t] # m_stopSource'
    BY <1>a, <2>1 DEF Sources
  <2> QED BY <2>2 DEF Sources
<1>5. CASE JoinNext \/ Closed \/ LastJoined
  BY <1>b, <1>c, <1>5 DEF JoinNext, Closed, LastJoined, Join
<1>6. CASE \/ Constructed \/ Restarted \/ AllJoined \/ StopLast \/ Quit
           \/ StopAll("keep", "stop") \/ StopAll("clear", "terminate")
  BY <1>b, <1>c, <1>6 DEF Constructed, Restarted, AllJoined, StopLast, Quit, StopAll
<1>7. CASE \/ \E w \in Workers : RunReturns(w) \/ MarkStopped(w)
           \/ UNCHANGED vars
  BY <1>7 DEF RunReturns, MarkStopped, vars, Sources
<1> QED
  BY <1>1, <1>2, <1>3, <1>4, <1>5, <1>6, <1>7
  DEF Next, MainContinues, Command, Ended, Hangs

LEMMA ChainFreeStep == IInv /\ Sources /\ ChainFree /\ [Next]_vars => ChainFree'
<1> SUFFICES ASSUME IInv, Sources, ChainFree, [Next]_vars, NEW t \in ChainTasks
             PROVE  m_running'[t] =>
                      /\ pc' \in {"construct", "startAll", "loop", "restart"} => Free(t)'
                      /\ pc' = "stopLast" => Free(t)' \/ t = Last'
  BY DEF ChainFree
<1> DEFINE Goal == m_running'[t] =>
                     /\ pc' \in {"construct", "startAll", "loop", "restart"} => Free(t)'
                     /\ pc' = "stopLast" => Free(t)' \/ t = Last'
<1>a. /\ m_running \in [Workers -> BOOLEAN] /\ ownStop \in [Workers -> BOOLEAN]
      /\ DOMAIN m_thread = Workers /\ DOMAIN token = Workers
      /\ todo \in Seq(Tasks) /\ m_tasks \in Seq(Tasks)
      /\ t \in Tasks /\ t \in Workers /\ Manager # t /\ t \notin Lambdas
  BY ManagerAssumption DEF IInv, TypeOK, Workers, Tasks
<1>b. m_running[t] => /\ pc \in {"construct", "startAll", "loop", "restart"} => Free(t)
                      /\ pc = "stopLast" => Free(t) \/ t = Last
  BY DEF ChainFree
<1>c. ASSUME UNCHANGED stopped, m_running'[t] => m_running[t],
             m_thread'[t] = m_thread[t], ownStop'[t] = ownStop[t], token'[t] = token[t],
             pc \in {"construct", "startAll", "loop", "restart"}, pc' # "stopLast"
      PROVE  Goal
  BY <1>b, <1>c DEF Free, StopSeen
<1>d. ASSUME NEW w \in Workers, NEW tok, w # t, StartSucceeds(w, tok)
      PROVE  /\ m_running'[t] = m_running[t] /\ m_thread'[t] = m_thread[t]
             /\ ownStop'[t] = ownStop[t] /\ token'[t] = token[t]
  <2>1. m_running'[t] = m_running[t] /\ ownStop'[t] = ownStop[t]
    BY <1>a, <1>d DEF StartSucceeds
  <2>2. m_thread'[t] = m_thread[t] /\ token'[t] = token[t]
    BY <1>a, <1>d DEF StartSucceeds
  <2> QED BY <2>1, <2>2
<1>e. UNCHANGED workerVars
        => /\ m_running'[t] = m_running[t] /\ m_thread'[t] = m_thread[t]
           /\ ownStop'[t] = ownStop[t] /\ token'[t] = token[t]
  BY DEF workerVars
<1>f. pc' \notin {"construct", "startAll", "loop", "restart", "stopLast"} => Goal
  OBVIOUS
<1>g. (\A u \in Tasks : ~m_running'[u]) => Goal
  BY <1>a
<1> SUFFICES Goal
  OBVIOUS
<1> HIDE DEF Goal
<1> USE DEF sourceVars, mainVars
<1>1. CASE ConstructNext \/ RestartNext
  <2> DEFINE h == Head(todo)
  <2>1. /\ h \in Tasks /\ h \in Workers /\ UNCHANGED <<stopped, m_stopSource, pc>>
        /\ pc \in {"construct", "restart"} /\ m_stopSource \notin stopped
    BY <1>a, <1>1, MembersTail DEF ConstructNext, RestartNext, Sources, Workers
  <2>2. CASE StartSucceeds(h, m_stopSource) /\ t = h
    <3>1. m_thread'[t] = "run" /\ token'[t] = m_stopSource
      BY <1>a, <2>2 DEF StartSucceeds
    <3>2. ~ownStop'[t]
      BY <1>a, <2>2 DEF StartSucceeds
    <3>3. Free(t)'
      BY <2>1, <3>1, <3>2 DEF Free, StopSeen
    <3> QED BY <2>1, <3>3 DEF Goal
  <2>3. CASE StartSucceeds(h, m_stopSource) /\ t # h
    BY <1>c, <1>d, <2>1, <2>3
  <2>4. CASE UNCHANGED <<m_running, m_thread, ownStop, token>>
    BY <1>c, <2>1, <2>4
  <2> QED
    BY <1>1, <2>2, <2>3, <2>4 DEF ConstructNext, RestartNext, AddTask, StartFails, workerVars
<1>2. CASE Constructed \/ RestartAll \/ Restarted
  BY <1>c, <1>e, <1>2 DEF Constructed, RestartAll, Restarted
<1>3. CASE StartAll
  <2>1. CASE StartSucceeds(Manager, 0) /\ pc' = "loop" /\ UNCHANGED stopped
    <3>1. Manager \in Workers
      BY DEF Workers
    <3> QED BY <1>a, <1>c, <1>d, <1>3, <2>1, <3>1 DEF StartAll
  <2>2. CASE pc' = "stopAll"
    BY <1>f, <2>2
  <2> QED BY <1>3, <2>1, <2>2 DEF StartAll
<1>4. ASSUME NEW l \in Lambdas, AddLambda(l) PROVE Goal
  <2>1. l \in Workers /\ l # t
    BY <1>a DEF Workers, Tasks
  <2>2. /\ m_running'[t] = m_running[t] /\ m_thread'[t] = m_thread[t]
        /\ ownStop'[t] = ownStop[t] /\ token'[t] = token[t]
    BY <1>d, <1>e, <1>4, <2>1 DEF AddLambda, AddTask, StartFails
  <2> QED BY <1>c, <1>4, <2>2 DEF AddLambda
<1>5. CASE \/ StopAll("keep", "stop") \/ StopAll("clear", "terminate")
           \/ Quit \/ JoinNext \/ Closed
  BY <1>f, <1>5 DEF StopAll, Quit, JoinNext, Closed
<1>6. CASE AllJoined
  <2>1. \A u \in Tasks : ~m_running'[u]
    BY <1>6, RunningManaged, MembersEmpty DEF AllJoined, workerVars
  <2> QED BY <1>g, <2>1
<1>7. CASE StopLast
  <2>1. /\ pc = "loop" /\ pc' = "stopLast" /\ Last' = Last
        /\ UNCHANGED <<m_running, m_thread, token, stopped>>
    BY <1>7 DEF StopLast, Last
  <2>2. t # Last => ownStop'[t] = ownStop[t]
    BY <1>a, <1>7 DEF StopLast, RequestOwnStop, Last
  <2> QED BY <1>b, <2>1, <2>2 DEF Free, StopSeen, Goal
<1>8. CASE LastJoined
  <2>1. /\ pc = "stopLast" /\ pc' = "loop" /\ Last \in Tasks /\ Join(Last)
        /\ UNCHANGED <<m_running, ownStop, token, stopped>>
    BY <1>a, <1>8, MembersFront DEF LastJoined, Last, Join, IInv, LastExists
  <2>2. t = Last => ~m_running'[t]
    BY <1>a, <2>1 DEF Join, IInv, RunningFlagExact
  <2>3. t # Last => m_thread'[t] = m_thread[t]
    BY <1>a, <2>1 DEF Join
  <2> QED BY <1>b, <2>1, <2>2, <2>3 DEF Free, StopSeen, Goal
<1>9. ASSUME NEW w \in Workers, RunReturns(w) \/ MarkStopped(w) PROVE Goal
  <2>1. /\ UNCHANGED <<stopped, pc, m_tasks, ownStop, token>> /\ Last' = Last
        /\ m_running'[t] => m_running[t]
    BY <1>a, <1>9 DEF RunReturns, MarkStopped, Last
  <2>2. CASE ~Free(t)
    BY <1>b, <2>1, <2>2 DEF Goal
  <2>3. CASE Free(t)
    <3>1. w # t
      BY <1>a, <1>9, <2>3 DEF Free, RunReturns, MarkStopped
    <3>2. m_thread'[t] = m_thread[t]
      BY <1>a, <1>9, <3>1 DEF RunReturns, MarkStopped
    <3> QED BY <2>1, <2>3, <3>2 DEF Free, StopSeen, Goal
  <2> QED BY <2>2, <2>3
<1>10. CASE UNCHANGED vars
  <2>1. UNCHANGED <<m_running, m_thread, ownStop, token, stopped, pc, m_tasks>>
    BY <1>10 DEF vars, workerVars
  <2> QED BY <1>b, <2>1 DEF Free, StopSeen, Last, Goal
<1> QED
  BY <1>1, <1>2, <1>3, <1>4, <1>5, <1>6, <1>7, <1>8, <1>9, <1>10
  DEF Next, MainContinues, Command, Ended, Hangs

(* What the loop of a restart has behind it *)
Reviving ==
  pc = "restart" =>
    \A t \in Members(m_tasks) :
      \/ t \in Members(todo)
      \/ SpawnMayFail /\ ~m_running[t]
      \/ t \in ChainTasks /\ m_running[t]
      \/ t \in Lambdas /\ (token[t] = m_stopSource \/ t \in orphans)

LEMMA RevivingStep ==
  IInv /\ ChainFree /\ Reviving /\ [Next]_vars => Reviving'
<1> SUFFICES ASSUME IInv, ChainFree, Reviving, [Next]_vars, pc' = "restart",
                    NEW t \in Members(m_tasks')
             PROVE  \/ t \in Members(todo')
                    \/ SpawnMayFail /\ ~m_running'[t]
                    \/ t \in ChainTasks /\ m_running'[t]
                    \/ t \in Lambdas /\ (token'[t] = m_stopSource' \/ t \in orphans')
  BY DEF Reviving
<1> DEFINE Goal == \/ t \in Members(todo')
                   \/ SpawnMayFail /\ ~m_running'[t]
                   \/ t \in ChainTasks /\ m_running'[t]
                   \/ t \in Lambdas /\ (token'[t] = m_stopSource' \/ t \in orphans')
<1>a. /\ m_running \in [Workers -> BOOLEAN] /\ DOMAIN token = Workers
      /\ todo \in Seq(Tasks) /\ m_tasks \in Seq(Tasks)
  BY DEF IInv, TypeOK
<1> USE DEF sourceVars, mainVars, workerVars
<1>1. CASE RestartAll
  BY <1>1 DEF RestartAll
<1>2. CASE RestartNext
  <2> DEFINE h == Head(todo)
  <2>1. h \in Tasks /\ Members(todo) = {h} \cup Members(todo')
    BY <1>a, <1>2, MembersTail DEF RestartNext
  <2>2. pc = "restart" /\ UNCHANGED <<m_stopSource, m_tasks>>
    BY <1>2 DEF RestartNext
  <2>3. t \in Tasks /\ t \in Workers
    BY <1>a, <2>2, MembersIn DEF Workers
  <2>4. CASE t = h
    <3>1. CASE StartSucceeds(h, m_stopSource)
      <4>1. m_running'[t] /\ token'[t] = m_stopSource'
        BY <1>a, <2>2, <2>3, <2>4, <3>1 DEF StartSucceeds
      <4> QED BY <2>3, <4>1 DEF Tasks
    <3>2. CASE ~m_running[h] /\ StartFails(h)
      BY <2>4, <3>2 DEF StartFails
    <3>3. CASE /\ m_running[h] /\ UNCHANGED <<m_running, token>>
               /\ orphans' = orphans \cup (IF token[h] = m_stopSource THEN {} ELSE {h})
      BY <2>2, <2>3, <2>4, <3>3 DEF Tasks
    <3> QED BY <1>2, <3>1, <3>2, <3>3 DEF RestartNext
  <2>5. CASE t # h
    <3>1. /\ m_running'[t] = m_running[t] /\ token'[t] = token[t]
          /\ (t \in orphans => t \in orphans')
      BY <1>a, <1>2, <2>3, <2>5 DEF RestartNext, StartSucceeds, StartFails
    <3> QED BY <2>1, <2>2, <2>5, <3>1 DEF Reviving
  <2> QED BY <2>4, <2>5
<1>3. ASSUME NEW w \in Workers, RunReturns(w) \/ MarkStopped(w) PROVE Goal
  <2>1. UNCHANGED <<m_stopSource, m_tasks, pc, todo, token, orphans>>
    BY <1>3 DEF RunReturns, MarkStopped
  <2>2. t \in Workers
    BY <1>a, <2>1, MembersIn DEF Workers
  <2>3. ~m_running[t] => ~m_running'[t]
    BY <1>a, <1>3, <2>2 DEF RunReturns, MarkStopped
  <2>4. t \in ChainTasks /\ m_running[t] => m_running'[t]
    <3> SUFFICES ASSUME t \in ChainTasks, m_running[t] PROVE m_running'[t]
      OBVIOUS
    <3>1. m_thread[t] = "run"
      BY <2>1 DEF ChainFree, Free
    <3> QED BY <1>a, <1>3, <2>2, <3>1 DEF RunReturns, MarkStopped
  <2> QED BY <2>1, <2>3, <2>4 DEF Reviving
<1>4. CASE UNCHANGED vars
  BY <1>4 DEF vars, Reviving
<1>5. ~(\/ ConstructNext \/ Constructed \/ StartAll \/ Restarted \/ JoinNext \/ AllJoined
        \/ LastJoined \/ Closed \/ StopLast \/ Quit \/ \E l \in Lambdas : AddLambda(l)
        \/ StopAll("keep", "stop") \/ StopAll("clear", "terminate"))
  BY DEF ConstructNext, Constructed, StartAll, Restarted, JoinNext, AllJoined, LastJoined,
     Closed, StopLast, Quit, AddLambda, StopAll
<1> QED
  BY <1>1, <1>2, <1>3, <1>4, <1>5 DEF Next, MainContinues, Command, Ended, Hangs

(* A restart revives every task of the chain with a token that no earlier  *)
(* stop has touched, or leaves it running, and so with the lambda tasks it *)
(* finds stopped, for every chain, any number of stops and restarts and    *)
(* whether or not tasks run when it comes.                                 *)
THEOREM RestartCorrect == Spec => RestartRevives
<1>1. Init => Sources /\ ChainFree /\ Reviving
  BY DEF Init, Sources, ChainFree, Reviving, Workers, Tasks
<1>2. IInv /\ Sources /\ ChainFree /\ Reviving /\ [Next]_vars
        => [pc = "restart" /\ pc' = "loop" =>
              \A t \in Members(m_tasks) :
                \/ SpawnMayFail /\ ~m_running[t]
                \/ m_thread[t] = "run" /\ ~StopSeen(t)
                \/ t \in Lambdas /\ token[t] = m_stopSource /\ ~StopSeen(t)
                \/ t \in Lambdas \cap orphans]_vars
  <2> SUFFICES ASSUME IInv, Sources, ChainFree, Reviving, [Next]_vars,
                      pc = "restart", pc' = "loop", NEW t \in Members(m_tasks)
               PROVE  \/ SpawnMayFail /\ ~m_running[t]
                      \/ m_thread[t] = "run" /\ ~StopSeen(t)
                      \/ t \in Lambdas /\ token[t] = m_stopSource /\ ~StopSeen(t)
                      \/ t \in Lambdas \cap orphans
    OBVIOUS
  <2>1. todo = << >>
    <3>1. Restarted
      BY DEF Next, vars, mainVars, MainContinues, Command, Ended, Hangs, ConstructNext,
         Constructed, StartAll, AddLambda, RestartAll, RestartNext, Restarted, StopAll,
         JoinNext, AllJoined, StopLast, LastJoined, Quit, Closed, RunReturns, MarkStopped
    <3> QED BY <3>1 DEF Restarted
  <2>2. t \in Tasks
    BY MembersIn DEF IInv, TypeOK
  <2>3. \/ SpawnMayFail /\ ~m_running[t]
        \/ t \in ChainTasks /\ m_running[t]
        \/ t \in Lambdas /\ (token[t] = m_stopSource \/ t \in orphans)
    BY <2>1, MembersEmpty DEF Reviving
  <2>4. t \in ChainTasks /\ m_running[t] => m_thread[t] = "run" /\ ~StopSeen(t)
    BY DEF ChainFree, Free
  <2>5. token[t] = m_stopSource => ~StopSeen(t)
    BY <2>2 DEF Sources, StopSeen
  <2> QED BY <2>3, <2>4, <2>5
<1> QED
  BY <1>1, <1>2, SourcesStep, ChainFreeStep, RevivingStep, Inductive, PTL
  DEF Spec, RestartRevives

-----------------------------------------------------------------------------
(***************************************************************************)
(* Program is a manager and a daemon.                                      *)
(***************************************************************************)

LEMMA ManagerStep == [ProgramNext]_allVars => [Next]_vars
<1> SUFFICES ASSUME [ProgramNext]_allVars PROVE [Next]_vars
  OBVIOUS
<1>1. CASE Boot \/ IsRunning \/ NoKey \/ QuitKey \/ Signal
  <2>1. UNCHANGED vars
    BY <1>1 DEF Boot, IsRunning, NoKey, QuitKey, Signal
  <2> QED BY <2>1
<1>2. CASE InitTestChain \/ Start \/ KeyContinues \/ KeyDone \/ Close \/ Destroy
  BY <1>2 DEF InitTestChain, Start, KeyContinues, KeyDone, Close, Destroy,
              Next, MainContinues
<1>3. CASE Key \/ LeaveLoop
  BY <1>3 DEF Key, LeaveLoop, Next, Command
<1>4. CASE \E w \in Workers : Worker(w)
  BY <1>4 DEF Worker, Next
<1>5. CASE UNCHANGED allVars \/ Hangs
  BY <1>5 DEF allVars, Hangs
<1> QED BY <1>1, <1>2, <1>3, <1>4, <1>5 DEF ProgramNext, Main

LEMMA DaemonStep == [ProgramNext]_allVars => [D!Next]_daemonVars
<1> SUFFICES ASSUME [ProgramNext]_allVars PROVE [D!Next]_daemonVars
  OBVIOUS
<1>1. CASE \/ InitTestChain \/ Key \/ KeyContinues \/ LeaveLoop \/ Destroy
           \/ (\E w \in Workers : Worker(w)) \/ UNCHANGED daemonVars
  <2>1. UNCHANGED daemonVars
    BY <1>1 DEF InitTestChain, Key, KeyContinues, LeaveLoop, Destroy, Worker
  <2> QED BY <2>1
<1>2. CASE Boot \/ Start \/ IsRunning
  BY <1>2 DEF Boot, Start, IsRunning, D!Next, D!Main
<1>3. CASE NoKey \/ QuitKey \/ KeyDone \/ Close
  BY <1>3 DEF NoKey, QuitKey, KeyDone, Close, D!Next, D!Main
<1>4. CASE Signal
  BY <1>4 DEF Signal, D!Next
<1>5. CASE UNCHANGED allVars
  BY <1>5 DEF allVars
<1> QED BY <1>1, <1>2, <1>3, <1>4, <1>5 DEF ProgramNext, Main

(* The program does with its threads only what ThreadManager describes, so *)
(* its theorems hold of main as it is: whom a global stop reaches, whom a  *)
(* join may wait for, which queues exist and what a restart revives.       *)
THEOREM ProgramManages == ProgramSpec => Spec
<1>1. ProgramInit => Init
  BY DEF ProgramInit
<1> QED BY <1>1, ManagerStep, PTL DEF ProgramSpec, Spec

(* Its daemon goes only the way Daemon describes: the calls into the       *)
(* manager delay its polls and do nothing else to it.                      *)
THEOREM ProgramIsDaemon == ProgramSpec => D!Spec
<1>1. ProgramInit => D!Init
  BY DEF ProgramInit
<1>2. [D!Next]_daemonVars => [D!Next]_(D!vars)
  BY DEF daemonVars, D!vars, D!counts
<1> QED BY <1>1, <1>2, DaemonStep, PTL DEF ProgramSpec, D!Spec

-----------------------------------------------------------------------------
(***************************************************************************)
(* Until main reaches initTestChain(), and when it never does, the manager *)
(* is as it was built; afterwards its chain is built before the daemon     *)
(* starts.                                                                 *)
(***************************************************************************)
NotYet == {"args", "boot", "child", "exited"}

Untouched ==
  dpc \in NotYet \/ (dpc = "failed" /\ pc = "construct")
    => pc = "construct" /\ \A w \in Workers : m_thread[w] = "none"

Built == dpc \notin NotYet \cup {"start", "failed"} => pc # "construct"

LEMMA BuiltStep ==
  Untouched /\ Built /\ [ProgramNext]_allVars => Untouched' /\ Built'
<1> SUFFICES ASSUME Untouched, Built, [ProgramNext]_allVars PROVE Untouched' /\ Built'
  OBVIOUS
<1> USE DEF Untouched, Built, NotYet
<1>1. CASE Boot
  <2>1. /\ dpc \in NotYet /\ dpc' \in NotYet \cup {"start", "failed"}
        /\ UNCHANGED <<pc, m_thread>>
    BY <1>1 DEF Boot, D!ProcessCommandLine, D!MakeDaemon, D!MakeDaemonChild, D!Goes,
       vars, workerVars, mainVars
  <2> QED BY <2>1
<1>2. CASE InitTestChain
  BY <1>2 DEF InitTestChain, daemonVars
<1>3. CASE Start
  BY <1>3 DEF Start, StartAll, D!StartAll, D!Polls, D!Goes
<1>4. CASE IsRunning \/ NoKey \/ QuitKey
  <2>1. dpc \in {"poll", "reset", "handler", "result", "body"}
    BY <1>4 DEF IsRunning, NoKey, QuitKey, D!Poll, D!Reset, D!Handler, D!Result,
       D!Body, D!SetState
  <2>2. dpc' \notin NotYet \cup {"start", "failed"}
    BY <1>4, <2>1 DEF IsRunning, NoKey, QuitKey, D!Poll, D!Reset, D!Handler, D!Result,
       D!Body, D!SetState, D!Goes, D!Polls
  <2>3. pc' = pc
    BY <1>4 DEF IsRunning, NoKey, QuitKey, vars, mainVars
  <2> QED BY <2>1, <2>2, <2>3
<1>5. CASE Key \/ KeyContinues \/ KeyDone
  <2>1. dpc = "body" /\ dpc' \in {"body", "poll"}
    BY <1>5 DEF Key, KeyContinues, KeyDone, D!Body, D!Polls, daemonVars
  <2>2. pc' # "construct"
    BY <1>5 DEF Key, KeyContinues, KeyDone, RestartAll, StopAll, RestartNext, JoinNext,
       Restarted, AllJoined
  <2> QED BY <2>1, <2>2
<1>6. CASE LeaveLoop \/ Close
  <2>1. dpc' \in {"close", "ended"} /\ pc' # "construct"
    BY <1>6 DEF LeaveLoop, Close, Quit, Closed, D!CloseAll, D!Goes, daemonVars
  <2> QED BY <2>1
<1>7. CASE Destroy
  <2>1. pc = "stopAll" /\ pc' # "construct" /\ dpc' = dpc
    BY <1>7 DEF Destroy, JoinNext, AllJoined, daemonVars
  <2> QED BY <2>1
<1>8. CASE Signal
  <2>1. UNCHANGED <<dpc, pc, m_thread>>
    BY <1>8 DEF Signal, D!SignalHandler, vars, workerVars, mainVars
  <2> QED BY <2>1
<1>9. ASSUME NEW w \in Workers, Worker(w) PROVE Untouched' /\ Built'
  <2>1. m_thread[w] # "none" /\ UNCHANGED <<dpc, pc>>
    BY <1>9 DEF Worker, RunReturns, MarkStopped, daemonVars, mainVars
  <2> QED BY <2>1
<1>10. CASE UNCHANGED allVars \/ (Hangs /\ UNCHANGED daemonVars)
  <2>1. UNCHANGED <<dpc, pc, m_thread>>
    BY <1>10 DEF Hangs, allVars, vars, daemonVars, workerVars, mainVars
  <2> QED BY <2>1
<1> QED
  BY <1>1, <1>2, <1>3, <1>4, <1>5, <1>6, <1>7, <1>8, <1>9, <1>10 DEF ProgramNext, Main

(* No thread exists when makeDaemon forks nor when main has returned, by   *)
(* the options, by a failure or by the end of its loop, for every chain.   *)
THEOREM ThreadsCorrect == ProgramSpec => []ThreadsWithinMain
<1>1. ProgramInit => Untouched /\ Built
  BY DEF ProgramInit, Init, D!Init, Untouched, Built, NotYet
<1>2. Untouched /\ Built /\ NoThreadLeft => ThreadsWithinMain
  BY DEF Untouched, Built, NotYet, NoThreadLeft, ThreadsWithinMain, Over, D!Gone
<1> QED BY <1>1, <1>2, BuiltStep, ProgramManages, JoinedCorrect, PTL DEF ProgramSpec

(***************************************************************************)
(* main never calls stopLastThread(): its keys only restart, stop and      *)
(* terminate.  If every thread can be created the chain is added as a      *)
(* whole and nothing is dropped.                                           *)
(***************************************************************************)
WholeChain ==
  /\ pc = "construct" => ChainTasks \subseteq Members(m_tasks) \cup Members(todo)
  /\ pc = "construct" => alive = Tasks
  /\ dropped = {} /\ pc # "stopLast"

LEMMA WholeChainStep ==
  ASSUME ~SpawnMayFail
  PROVE  IInv /\ WholeChain /\ [ProgramNext]_allVars => WholeChain'
<1> SUFFICES ASSUME IInv, WholeChain, [ProgramNext]_allVars PROVE WholeChain'
  OBVIOUS
<1>a. /\ m_running \in [Workers -> BOOLEAN] /\ Tasks \subseteq Workers
      /\ m_tasks \in Seq(Tasks) /\ todo \in Seq(Tasks)
      /\ \A t \in Tasks : m_running[t] => t \in Members(m_tasks)
  BY RunningManaged DEF IInv, TypeOK, Workers
<1> USE DEF mainVars, objectVars
<1>1. CASE Boot \/ IsRunning \/ NoKey \/ QuitKey \/ Signal \/ UNCHANGED allVars \/ Hangs
  <2>1. UNCHANGED vars
    BY <1>1 DEF Boot, IsRunning, NoKey, QuitKey, Signal, allVars, Hangs
  <2> QED BY <2>1 DEF vars, WholeChain
<1>2. CASE ConstructNext
  <2>1. Head(todo) \in Tasks /\ Members(todo) = {Head(todo)} \cup Members(todo')
    BY <1>a, <1>2, MembersTail DEF ConstructNext
  <2>2. Members(m_tasks') = Members(m_tasks) \cup {Head(todo)}
    <3>1. CASE m_tasks' = Append(m_tasks, Head(todo))
      BY <1>a, <2>1, <3>1, MembersAppend
    <3>2. CASE StartFails(Head(todo)) /\ UNCHANGED m_tasks
      BY <1>a, <2>1, <3>2 DEF StartFails
    <3> QED BY <1>2, <3>1, <3>2 DEF ConstructNext, AddTask
  <2> QED BY <1>2, <2>1, <2>2 DEF ConstructNext, WholeChain
<1>3. CASE Constructed
  <2>1. Members(m_tasks) \subseteq Tasks /\ ChainTasks \subseteq Members(m_tasks)
    BY <1>a, <1>3, MembersIn, MembersEmpty DEF Constructed, WholeChain
  <2>2. dropped' = {} /\ pc' = "startAll"
    BY <1>3, <2>1 DEF Constructed, WholeChain, Kept, Tasks
  <2> QED BY <2>2 DEF WholeChain
<1>4. CASE Start \/ KeyContinues \/ KeyDone \/ Close \/ Destroy
  BY <1>4 DEF Start, KeyContinues, KeyDone, Close, Destroy, StartAll, RestartNext,
     JoinNext, Restarted, AllJoined, Closed, WholeChain
<1>5. CASE Key \/ LeaveLoop
  BY <1>5 DEF Key, LeaveLoop, RestartAll, StopAll, Quit, WholeChain
<1>6. CASE \E w \in Workers : Worker(w)
  BY <1>6 DEF Worker, RunReturns, MarkStopped, WholeChain
<1> QED
  BY <1>1, <1>2, <1>3, <1>4, <1>5, <1>6 DEF ProgramNext, Main, InitTestChain

(* main itself drops no task and calls no stopLastThread(), whatever       *)
(* Commands the manager would accept: as long as every thread can be       *)
(* created, each task runs with every queue it sends to, without           *)
(* exception and for every chain.                                          *)
THEOREM ProgramQueues ==
  ASSUME ~SpawnMayFail
  PROVE  ProgramSpec => [](dropped = {} /\ QueuesOutliveSenders)
<1>1. ProgramInit => WholeChain
  BY DEF ProgramInit, Init, WholeChain, Members, ChainTasks
<1>2. WholeChain => dropped = {}
  BY DEF WholeChain
<1>3. IInv /\ WholeChain /\ [ProgramNext]_allVars => WholeChain'
  BY WholeChainStep
<1> QED
  BY <1>1, <1>2, <1>3, ProgramManages, Inductive, QueuesCorrect, PTL DEF ProgramSpec
=============================================================================
