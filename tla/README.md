# Thread messaging: a TLA+ development

This directory models the thread-messaging boilerplate: its message queues, its
ring buffer, the thread manager with its workers, the daemon that reacts to
signals, the chain of five threads built from them, its observer with its
timing, the library's timer, and `main`, which ties them together. TLC checks the
models on small instances; TLAPS proves the main safety properties for every
instance.

`PROJECT.json` lists the components, the runs, the source lines behind each
definition, the hazards, the findings and the theorems.

## 1. The system

### Parts, state, operations

| Part | State | Operations | What makes it correct |
|---|---|---|---|
| `MessageQueue` (`messaging/messageQueue.hpp`) | `m_mutex`, `m_conditionVariable`, `m_queue` | `push`, `try_pop`, `wait`, `wait_for`, `clear`, `empty` | FIFO, one instant per operation, no lost wake-up, a timed wait ends |
| `SpScRingBuffer` (`threading/spScRingBuffer.hpp`) | atomics `m_head`, `m_tail`; the slots; `m_waitCv` | `init`, `push`, `pop`, `wait_pop_for`, `notifyOne`, `notifyAll` | no slot is shared, bounded FIFO, the consumer notices a command |
| `workerBase` (`workerBase.hpp`) | `m_running`, `m_thread` | `start`, `stop`, `join`, `stopAndWait`, `wakeUp`, `waitFor` | the flag is exact, a stop reaches `run()`, a join ends |
| `ThreadManager` (`threadManager.hpp`) | `m_stopSource`, `m_tasks`, `m_observerIncoming` | `initTestChain`, `addTask`, `restartAllThreads`, `stopAllThreads`, `terminateAllThreads`, `stopLastThread`, `sendObserverCommand` | a global stop reaches all, a restart revives all, no task outlives a queue it sends to |
| `TaskBase`, `Task` (`taskBase.hpp`) | a queue, a worker, a run function, a callback | `run`, `onPostMessageReceived` | as a worker; no message waits for a sleeping task |
| The five threads (`testThreads.hpp`) | own queue, next senders; the observer's interval, mode, deadlines | `run`, `sendCommand`, `applyCommand` | every event passes the chain once and in order; the observer reacts within bounded time |
| `Sender`, `Receiver` (`messaging/`) | a pointer to a queue, a callback | `Send`, `makeSender` | the queue outlives the sender |
| `app::daemon` (`daemon.hpp`, `daemon.cpp`) | `m_State` | signal handler, `startAll`, `isRunning`, `setState`, `reloadAll`, `closeAll`, `makeDaemon` | a stop ends the program, nothing else does, each signal gets its handler |
| `main` (`main.cpp`) | — | options, start-up, polling loop, keys, shutdown | no thread before the fork, none left at the end; every stop request gets there |
| `ThreadSafeQueue` (`threading/threadSafeQueue.hpp`) | `m_mutex`, `m_cv`, `m_queue` | `push`, `tryPop`, `waitPop` | an element or the stop condition ends a wait |
| `stopTimer` (`time/stopTimer.hpp`) | start point, timeout, running flag | `Start`, `Stop`, `Reset`, `SetTimeout`, `IsElapsed`, `ElapsedTime`, `LeftTime` | never early, hardly late |
| `memoryUtils`, `daemonConfig`, `messageBase`, `dataTypes` | | | see section 7 |

### How they interact

`main` owns the `ThreadManager` and polls the daemon. Signal handlers write the
daemon's `m_State` at any moment. `main` calls the manager, which starts and
stops the workers through their flags, threads and stop tokens. A running task
takes messages out of its own `MessageQueue` and sends to the queues of others
through `Sender`s that hold plain pointers. `main` also sends commands to
`ObserverIncomingThread` through the ring buffer, of which it is the single
producer.

### What is hard here

- **Wake-ups.** Condition variables are notified after the mutex is released
  (`MessageQueue`) or without taking it at all (`SpScRingBuffer`).
- **Outdated reads.** Each side of the ring decides on an index of the other
  that may have moved on.
- **Lifetime.** A `Sender` does not own the queue it points to; stopping,
  terminating, removing and failing to start tasks all change what exists.
- **Stop tokens.** The manager's source is replaced at a restart; a thread
  keeps the token it was started with.
- **Signals.** One variable holds the pending signal and the state of the
  daemon, and it is read and written by `main` in several steps.
- **Stops in the middle.** A chain may be stopped while events are in queues
  and in hands, and restarted later; the observer's commands, mode and deadlines
  survive too. A stop signal may find `main` inside the joins of a key's call.
- **Time.** Intervals, a pause and a stress deadline change under commands that
  may be noticed late; a timer compares readings cut to milliseconds.

The hazards, each at its line and with the properties that watch it, are in
`PROJECT.json`.

## 2. The modules

| Module | Role |
|---|---|
| `Mailbox` | what a `MessageQueue` promises its users |
| `MessageQueue` | the queue with its mutex and condition variable; implements `Mailbox` |
| `BoundedQueue` | what the ring buffer promises |
| `SpScRingBuffer` | the ring buffer access by access; implements `BoundedQueue` |
| `ThreadManager`, `MCThreadManager` | manager, workers and the thread that calls them; a chain of three and one lambda task for TLC |
| `Daemon` | options, `m_State`, the signal handlers and the loop of `main` |
| `Program`, `MCProgram` | `main`: `ThreadManager` and `Daemon` composed; the instance for TLC |
| `Chain` | the five threads, their queues taken as `Mailbox`es |
| `ObserverIncoming` | the observer in time, its commands in a `BoundedQueue` |
| `Worker` | a task that sleeps in `workerBase::waitFor` or `ThreadSafeQueue::waitPop` |
| `StopTimer` | the timer on a finer clock |
| `MessageQueueProofs`, `SpScRingBufferProofs`, `DaemonProofs`, `ChainProofs`, `ObserverIncomingProofs`, `WorkerProofs`, `StopTimerProofs` | theorems |
| `ProgramProofs` | theorems about `ThreadManager` and about `Program`, which extends it |

In each module a definition whose comment begins with "Mutant of" is a wrong
version of the definition after it. It is not part of the specification; it
serves to see that a property notices the mistake.

### MessageQueue

`m_mutex` is the consumer that holds the lock between two steps. `push`,
`try_pop` and `clear` keep the lock for a single step. `wait` and `wait_for` take
several: enter with the lock, evaluate the predicate, then take a message, give
up or block. Blocking releases the lock and joins the wait set in one step, as
`std::condition_variable` guarantees. `notify_one` is a step of its own after
the unlock and picks any sleeper. Sleepers may also wake spuriously or, in
`wait_for`, at their deadline; awake, they have to get the lock again.
`MaxQueue` bounds the queue, which the code does not.

### SpScRingBuffer

Every load, store and slot access is a step. `headSeen` and `tailSeen` are the
values the other side can currently load; they follow `m_head` and `m_tail`
after any delay. Release and acquire make the slot contents visible with the
index, so the slots need no second copy. Capacity 1, which `init` accepts, is
included: it never holds anything.

`wait_pop_for` evaluates its predicate, blocks, wakes by notification,
spuriously or by timeout, tests again and pops. The producer is `sendCommand`:
push, and if that worked, notify. `init` runs once, in the constructor of the
owner, before the other thread exists.

### ThreadManager

A worker is its flag, its thread ("none", "run", "return" once `run()` is over,
"gone" once the flag is cleared), the stop state of its `jthread` and the
external stop source it listens to. A stop source is a number, so that a
replaced source can be told from the new one. `alive` is the set of task objects
that exist; an object goes when the last `shared_ptr` to it does, that is, when
it is neither in `m_tasks` nor the observer the manager holds nor a lambda task
held by a client. Loops over `m_tasks` take a step per task, joins wait.

`Commands` says which operations main calls, each of them at any time, a restart
while tasks run included; `SpawnMayFail` says whether thread creation may throw. A
`Sender` is represented by `Targets`. What chain tasks do while they run is the
business of `Chain`.

Two history variables make the exceptions of the properties exact, instead of
assuming the cases away. `orphans` are the tasks a restart found running: they keep
the token of a source nobody holds any more. `dropped` are the tasks destroyed
because they did not start with the chain, or by `stopLastThread`. `Hangs` is main
in a join that will never return; it is a step that changes nothing, so that TLC
does not take this state of the program for an error of the model.

### Daemon

`m_State` is written by the handlers between any two steps of main. `isRunning()`
is split wherever it reads or writes it: each comparison of the if-chain
(`chosen` is the request compared with), the reset, the handler, the final
comparison. The program keeps no record of its signals; history variables do, for
the properties. `received` and `performed` count requests and handler calls,
`lost` says that a request was written over (by another signal, by the reset or by
`startAll()`) or came just before a reset, and `late` that one came after
`isRunning()` had compared with its kind and before its last line.
`SignalsAt` says where signals may come. Options choose between the foreground
and the background or exit; `makeDaemon` may fail in the parent and in the child.

### Program

`Program` extends `ThreadManager` and instantiates `Daemon` as `D`; main's
positions in the two are `pc` and `dpc`. A step of main is a step of the manager
(a key's call going from task to task), of the daemon (a poll), or of both: the
start handler is `threadManager.start()`, so that `startAll` fails when it does,
the keys begin their calls whether or not tasks run, as in `main.cpp:277-288`, a
finished call leads to the next poll, the close handler waits for the manager's
worker. Handlers for reload and user signals return true, as `main` installs
them. Failure exits before the chain is built have nothing to join. Workers and
signals interleave with all of it.

### Chain

An iteration of a `run()` is: look at the stop token, receive or time out, send
the outputs one by one. A queue is a FIFO with atomic push and pop, which is what
`MessageQueue` was shown to implement. A message is its kind and the number of
the file event it descends from. A stop is seen at the head of the loop only. The
queues survive a stop; after the joins a restart begins every `run()` afresh.

### ObserverIncoming

Time passes in ticks. A deadline is the time left to it, 0 once over, since the
code only compares deadlines with `now()`. The observer's steps take no time;
time passes while it waits, or is off. A command that finds it waiting ends the
wait, except that the notification may be lost, as the run `ring_wakeup` shows of
the ring buffer: when the wait begins, or after a spurious wake-up in the middle of
it. A later spurious wake-up (`Spurious`) finds the command. `passed` holds the
four times the properties bound, `asked` the pause last asked for; the thread
knows neither. They count the time the observer runs and go on across restarts, so
that a command accepted while it is stopped is counted from the restart on.

### Worker

`run()` is the loop the repository's README describes for a task: wait, take one
message, handle it, which may post to the task itself. `waiting` chooses between
the two waits of the library. In `waitFor` the messages are in the task's
`MessageQueue` and the wake-up comes from the post-send callback, if there is
one, without any lock; in `waitPop` push and wait share `m_mutex`. `stopAndWait`
is three steps: request, `wakeUp`, join.

### StopTimer

`now` counts ticks of the steady clock, of which `PerMs` make a millisecond; the
timer sees `now \div PerMs`. `started` is the exact tick of the last start, which
the timer does not know. Durations are in milliseconds.

## 3. What the runs show

| Run | Instance | Result |
|---|---|---|
| `queue` | 2 producers, 2 consumers, 2 messages, queue of 2 | no lost wake-up; `wait()` returns a message; implements `Mailbox` with its progress; a timed wait ends |
| `ring` | capacities 1, 2, 4 (0 and 3 refused), 2 values | no shared slot; implements `BoundedQueue` with its progress |
| `manager_failures` | 3 chain tasks, 1 lambda, 3 stop sources, failing thread creation, every operation at any time | `isRunning()` exact; a restart revives what it does not find running; a global stop reaches all and joins end, but for tasks a restart found running; queues outlive senders, but for dropped ones; the program ends without threads |
| `program` | 3 chain tasks, 2 stop sources, failing thread creation, 2 signals in the loop, keys r, s, t, q at any time | no thread before the fork or after main; a stop ends everything, unless it was written over or r found tasks running |
| `daemon` | both modes, 4 signals anywhere, failing handlers | no handler without its signal; until a request is written over none is lost or doubled and a stop ends the program; all others are performed unless they come late; only a stop, a failure or a late request ends the loop |
| `chain` | 2 events, stops and restarts without bound | nothing lost, duplicated or reordered; events arrive |
| `observer` | intervals 1, 2, 3, stress 4, pause 6, resume 2, room for 2 commands | a command, a stop and the next event after a pause are at most the long interval late, the end of stress mode the short one |
| `timer` | 3 ticks per millisecond, timeouts 0, 1, 2, 18 ticks | never early, less than 2 ms late, accurate, stable |
| `worker` | 2 clients and the task itself, 3 messages | no wake-up of `waitPop` is lost; every message is taken; a stop ends, but for `waitPop` asleep on an empty queue |

Why these sizes: two consumers are what it takes to steal a message from a woken
one, and two producers to have two notifications outstanding. A ring of four
slots wraps while both sides hold outdated indices; capacities 1 and 2 are the
edge cases. Three chain tasks have a first, a middle and a last one. Three stop
sources allow two restarts, so that a task can be left running by one restart and
meet another; in `program`, where the daemon's steps multiply the states, one
restart is enough to press r while tasks run and to stop afterwards. Four signals are more than the three
kinds of request that can overwrite one another; with main's calls into the
manager two are enough for one to come inside a call and one after it. Two events
are enough for one to overtake the other or for a `DirectEvent` to come between
them. The observer's durations are ordered as in the code: stress outlasts the
long interval and the pause outlasts stress; two commands fill the buffer and
wait behind one another. The clock of `timer` has readings at, between and just
before two milliseconds. The safety results for all of these are also proved
without bounds (section 5).

The bounds are `MaxQueue`, `InitSizes`, `MaxSources`, `MaxTasks`, `MaxSignals`,
`MaxEvents`, `MaxPosts` and `MaxTime`. All are guards of the actions that would exceed them.

### Where code and documentation disagree

| Run | Shows |
|---|---|
| `ring_wakeup` | a command can be published and notified just before the consumer blocks; it then sleeps out its interval, against `testThreads.hpp:59`. It is late, not lost: `ring` shows that it is taken in the end. |
| `manager_restart` | a restart while tasks run, which `main.cpp:283` does not prevent, leaves them with a token nobody will signal; the next stop never returns, against `threadManager.hpp:104`. In `main` this means: after r with running tasks, s, t, q and SIGTERM hang in the joins. |
| `daemon_terminate` | a terminate signal can be overwritten, by the next signal (`daemon.cpp:39`), by the reset (`daemon.hpp:165`) or, when it comes early, by `startAll()` (`daemon.hpp:53`), and the daemon goes on, against `daemon.hpp:34`. |

One more is a theorem, since it says what always happens: `ObserverIncomingThread`
never looks into its message queue. The repository's `README.md:92` lists
`MirrorEvent` under what it receives and `README.md:226` speaks of a feedback loop,
but `MirrorsNeverReceived` proves that the mirror of every event that was passed on
is still in that queue, which grows for ever.

Met while modelling, with no run of their own:

- `stopLastThread`, which `main` never calls, destroys the queue the task before
  it sends to while that task runs on, against `messageSender.hpp:19` ("The queue
  must outlive the `Sender`"). It is in `manager_failures`, and `dropped` in
  `QueuesOutliveSenders` is the exception it takes.
- `initTestChain` ignores a task whose thread cannot be created. The task is
  destroyed while the one before it runs and sends to its queue: the same
  exception.
- `isRunning()` returns `m_State == State::Running` after its if-chain
  (`daemon.hpp:133`). A reload or user signal that comes in between ends the
  daemon, and its handler is not called, against `daemon.hpp:35-36`: the exception
  `late` of `OnlyTerminateEnds` and `EverySignalPerformed`.
- `waitPop` promises to end when its stop condition is met
  (`threadSafeQueue.hpp:69`), but nothing can notify it of that: `StopEnds` has
  this case as its exception.
- `push` ends with `notify_one`; `messageQueue.hpp:26` and `:80` speak of all
  waiters. Harmless: `NoLostWakeup` holds.
- A ring of capacity n holds n - 1 elements; `spScRingBuffer.hpp:214` calls
  `capacity()` the number of elements it can hold. `BoundedQueue` has the code's
  limit.
- `ProcessingThread` takes every `DirectEvent` out of its queue and does nothing
  with it, as the comment at its end of the loop says.
- The intervals differ between places: stress mode is 10 ms for 30 s in the code
  (`testThreads.hpp:104-105`), 100 ms for 20 s (also in `dataTypes.hpp:50`), 10 ms for 20 s or 100 ms until 60 s
  in the README and in the help text of `main.cpp:188`; normal mode is 500 ms in
  the code and 1 s in `threadManager.hpp:90` and `main.cpp:189`.
- `workerBase::waitFor` returns true on a stop request; its comment says false.
- The comment on `start()` says the external token is passed to `run()`; the code
  combines it with the thread's own.
- `isStopRequested()` looks at the thread's own token only.
- `stop()` and `stopAllThreads()` wake a condition variable on which no task
  waits; a stop takes effect when the current wait times out, for the observer
  within one interval (`StopInTime`).
- In the foreground the loop of `main` does not pause between two polls.

## 4. Fairness

- *Threads run.* A thread that can take a step inside a call or a loop takes it
  (weak fairness). The operating system schedules every runnable thread.
- *Deadlines pass* (strong fairness of `Timeout`). A deadline is an absolute
  time, so a thread that is woken early and blocks again does not postpone it.
- *The lock.* Weak fairness is enough for `queue`, whose progress is that *some*
  blocked caller is served. That a particular consumer gets the mutex in
  competition is not promised by `std::mutex`; `TimedWaitReturns` therefore leaves
  out behaviours in which others in `wait` or `wait_for` keep taking it. In the
  program every queue has one consumer.
- *Stores become visible* (weak fairness of `PropagateHead` and `PropagateTail`),
  as the C++ standard asks of atomics.
- *Nobody is obliged to call.* Pushes, commands, signals and new events are never
  fair. The exception is the ring's consumer, which calls `wait_pop_for` again and
  again in its `run()`.
- *`run()` returns after a stop.* Every wait in a `run()` of the program has a
  timeout, after which the token is read; a lambda task is assumed to look at its
  token too.
- *main goes on* (weak fairness in `Daemon` and `Program`). The console is read
  without blocking and the pause lasts a second; only a join waits, for a worker
  whose own fairness ends it.
- *A begun call goes on* (`Worker`): a sender notifies after its push, a stopper
  wakes and joins after its request. Spurious wake-ups are not promised.

`ObserverIncoming` and `StopTimer` have no fairness: their properties bound times
instead. `ObserverIncoming` assumes that the observer's own steps take no time
compared with its intervals; the bounds are to be read with that grain.

## 5. What is proved

Under the assumptions stated in the modules (`QueueAssumption`,
`RingAssumption`, `ManagerAssumption`, `DaemonAssumption`, `ChainAssumption`,
`ObserverAssumption`, `WorkerAssumption`, `TimerAssumption`), for all values of the constants:

**MessageQueueProofs.** `TypeCorrect`, `WaitCorrect`, `WakeupCorrect`,
`RefinesMailbox`. The invariant is `TypeOK`, `LockDiscipline` (who holds the mutex
is where the program says, and a consumer that decided to block still sees an
empty queue) and what the last call of each consumer returned. `NoLostWakeup` is
a counting argument: a push adds one message and one outstanding notification; a
notification turns into an awake consumer when somebody sleeps; an awake consumer
goes only by taking a message or by finding the queue empty, and it cannot fall
asleep beside a message because of `LockDiscipline`.

**SpScRingBufferProofs.** `TypeCorrect`, `SlotsCorrect`, `RefinesBoundedQueue`.
The invariant is `RingOrder`: going around the ring one meets the tail the
producer knows, the tail, the head the consumer knows and the head, within less
than one lap. An outdated view therefore errs on the safe side: the producer sees
too little room and the consumer too few elements. Added to it is what each thread
remembers between its load and its store. The refinement maps the ring to the
sequence of slots from tail to head; `PushPublish` appends to it, `PopAdvance`
takes its head, all other steps leave it alone.

**ProgramProofs, the manager.** `TypeCorrect`, `FlagCorrect`, `GlobalStopCorrect`,
`JoinsCorrect`, `QueuesCorrect`, `JoinedCorrect`, `RestartCorrect`. None of them
assumes anything about what main calls or when, or about thread creation; where
the code has an exception, the property names it by `orphans` or `dropped`. The
common invariant says that the tasks with a thread, ended or not, are among those
main still holds and, while main joins, among those it has not joined yet, so that
nothing is released before it has ended and nothing is left at the end.

- `GlobalStopCorrect` adds `TokensCurrent`: a running task listens to the current
  source, or is an orphan, or a restart under way has not come to it yet (`Ahead`).
  The last case is why the property speaks of states outside a restart.
- `JoinsCorrect` adds `StopAsked`: while main joins tasks the current source is
  stopped, and the worker's own one where a single worker is joined. It is the
  safety half of `StopReturnsWithoutOrphans`: a join has no timeout, so main must
  wait only for threads that were told to stop.
- `QueuesCorrect` adds `ChainHeld`: what main manages exists, and the chain is
  released as a whole, when none of its tasks is managed, but for what was dropped.
- `RestartCorrect` adds that no source newer than the current one was ever stopped
  (`Sources`), that while main stops nothing no running task of the chain is told
  to stop (`ChainFree`), and what has become of the tasks the restart has passed
  (`Reviving`).

**ProgramProofs, the program.** `ProgramManages` and `ProgramIsDaemon` are the two
refinements: every step of the composed program is a step or a stutter of
`ThreadManager` and of `Daemon`, so that every theorem about them holds of the
program. `ThreadsCorrect` follows from the first, `JoinedCorrect` and the fact that
the manager is untouched until the daemon is made. `ProgramQueues` is
`QueuesCorrect` for main as it is: no step of main calls `stopLastThread`, so as
long as threads can be created `dropped` stays empty and the property has no
exception. That threads can be created is the one assumption left among the
theorems.

**DaemonProofs.** `HandlersCorrect`: between the choice of a handler and its call,
and while a request is pending in `m_State`, there is one request more than there
were calls. `EndCorrect`: while no stop was asked for, no handler failed and no
request came late, `m_State` holds Running or a request the if-chain has not passed
by, and from the handler to the end of `isRunning()` it holds Running.
`SignalsCorrect` makes the count of `HandlersCorrect` exact as long as nothing is
`lost`. The invariant adds that the reset meets the very request that was chosen
(`ResetsChosen`). All three hold for
signals at any step of main.

**ChainProofs.** `OrderCorrect`, `MirrorsNeverReceived`. The invariant is the two
statements together with the types and `SendsLeft`: a task has outputs left exactly
while it is at its sends, so a stop, which is looked at only at the head of the
loop, and a restart find empty hands. `NothingLostOrReordered` states the order
place by place. The places from the end of the chain back to Processing's queue
are counted from `done`, those from the observer on from `emitted`; each step
moves one event across one boundary, which leaves all other places as they were.
The two counts meet in Processing's queue, where `DirectEvent`s are mixed with
`AppEvent`s. There the identities form an interval and increase with the position
(`MixedRow`), so the first `AppEvent` to be taken is the one after the last that
was taken, wherever it stands; a `DirectEvent` that is taken changes neither end.
`MirrorsNeverReceived` needs the same boundary between ApplicationObserver's queue and
its hands.

**ObserverIncomingProofs.** `CommandCorrect`, `EventCorrect`, `StressCorrect`,
`StopCorrect`, one for each bound, from one invariant. Each time measured, plus
what is left of the current wait, stays within its bound; a wait begins with at
most one interval left, when the measure is zero or, for the silence of a paused
observer, within the pause that was asked for. Because stress mode goes with the
short interval, its end is late by that interval only.

**WorkerProofs.** `WakeupCorrect`: between the test of `waitPop` and its sleep the
mutex keeps the queue empty, so an element beside a sleeper was pushed after it
slept, and the notification is still to come.

**StopTimerProofs.** `EarlyCorrect`, `LateCorrect`, `LeftCorrect` and
`ElapsedStaysCorrect`, from the fact that the start point is the cut of the real
start: the difference of two cut readings is less than a millisecond away from the
real difference.

### Only model-checked

Liveness under fairness (`TimedWaitReturns`, `StopReturnsWithoutOrphans`,
`TerminateEndsProgram`, `StopEndsUnlessLost`, `EverySignalPerformed`,
`EveryEventArrives`, `MailTaken`, `StopEnds`, and the progress part of the two
refinements) is outside the prover's reach and rests on TLC. Every invariant and
every action property of the passing runs is also a theorem, as is the safety part
of the two refinements.

## 6. Plan

Done, in the order of importance: the queue and the ring with their abstract
specifications; the manager and its workers; the daemon; the chain; the observer
in time; the waits of `workerBase` and `ThreadSafeQueue`; `main` as the
composition; the timer; and the theorems of section 5. What could follow:

1. `Chain` as an implementation of a single FIFO from the observer to the result;
   `OrderCorrect` has its safety part.
2. `ThreadSafeQueue` with several consumers.
3. The chain driven by `ObserverIncoming` instead of a free choice to emit.

## 7. Not modelled

- `memoryUtils.hpp` reads `/proc` and prints; `daemonConfig.hpp` and
  `messageBase.hpp` are plain data, as is all of `dataTypes.hpp` but the kinds of
  commands.
- Console and log output, the contents of the pid file, the exit status.
- `stopWithHooks`, which nobody calls, is `stop()` between two functions of its
  caller. An unbound `Sender`, which drops its message with a log line, does not
  occur in the program.
- Exceptions thrown inside `run()` (they end the process), memory exhaustion in
  `push`, and the locks inside the C++ runtime, which a signal handler that prints
  may meet.
- Durations outside `ObserverIncoming` and `StopTimer`: a timeout may happen at
  any time. Conversions of the timer's results to other units.
