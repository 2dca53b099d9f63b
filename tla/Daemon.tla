------------------------------- MODULE Daemon -------------------------------
(***************************************************************************)
(* app::daemon (daemon.hpp, daemon.cpp) and the loop of main (main.cpp)    *)
(* that polls it.  A signal handler writes the one variable m_State, in    *)
(* between any two steps of main; main reads it, resets it and reads it    *)
(* again in isRunning().                                                   *)
(*                                                                         *)
(*   pc  "args" -> "boot" -> ("child" ->) "start" -> "poll"                *)
(*       "poll"    in the if-chain of isRunning(), about to compare        *)
(*                 m_State with chosen                                     *)
(*       "reset"   in perform...IfRequired, before m_State = Running       *)
(*       "handler" about to call the handler of chosen                     *)
(*       "result"  about to return m_State == Running                      *)
(*       "body"    in the body of the loop                                 *)
(*       "close"   the loop was left                                       *)
(*       "ended", "failed" (EXIT_FAILURE), "exited" (by an option)         *)
(*                                                                         *)
(* sent, received, performed, handlerFailed, lost and late are history:    *)
(* the program keeps nothing of the kind.                                  *)
(***************************************************************************)
EXTENDS Naturals

CONSTANTS
  HandlersMayFail, \* may the start, reload and user handlers return false?
  SignalsAt,       \* where main can be when a signal arrives
  MaxSignals       \* bound on sent

States == {"Start", "Running", "Reload", "Stop", "User1", "User2"}
Requests == {"Reload", "User1", "User2"}
Signals == Requests \cup {"Stop"}     \* named by the state they write
Gone == {"ended", "failed", "exited"}
PC == {"args", "boot", "child", "start", "poll", "reset", "handler", "result",
       "body", "close"} \cup Gone

ASSUME DaemonAssumption ==
  /\ HandlersMayFail \in BOOLEAN
  /\ SignalsAt \subseteq PC \ Gone
  /\ MaxSignals \in Nat

VARIABLES
  m_State, pc,
  isDaemon,        \* daemonConfig.isDaemon
  chosen,          \* the request isRunning() compares with, or performs
  sent,            \* signals and reloadAll() calls so far
  received,        \* of each kind, by signal or by call
  performed,       \* calls of each handler
  handlerFailed,   \* a handler returned false
  lost,            \* a request was written over, or came just before the reset
  late             \* one came after isRunning() had compared with its kind

counts == <<sent, received, performed>>
vars == <<m_State, pc, isDaemon, chosen, counts, handlerFailed, lost, late>>

TypeOK ==
  /\ m_State \in States /\ pc \in PC /\ chosen \in Requests
  /\ sent \in 0 .. MaxSignals
  /\ received \in [Signals -> Nat] /\ performed \in [Requests -> Nat]
  /\ {isDaemon, handlerFailed, lost, late} \subseteq BOOLEAN

(* The constructor has installed the signal handlers. *)
Init ==
  /\ m_State = "Start" /\ pc = "args" /\ chosen = "Reload" /\ isDaemon = FALSE
  /\ sent = 0
  /\ received = [s \in Signals |-> 0] /\ performed = [r \in Requests |-> 0]
  /\ handlerFailed = FALSE /\ lost = FALSE /\ late = FALSE

-----------------------------------------------------------------------------
(* Writing v to m_State destroys a request that nobody has taken up *)
Replaces(v) ==
  \/ m_State = "Stop" /\ v # "Stop"
  \/ m_State \in Requests /\ ~(pc = "reset" /\ m_State = chosen)

(* isRunning() has compared with r and not yet with Running. *)
Passed(r) ==
  \/ pc \in {"handler", "result"}
  \/ pc = "poll" /\ \/ r = "Reload" /\ chosen # "Reload"
                    \/ r = "User1" /\ chosen = "User2"

(* Mutant of SignalHandler: SIGUSR2 is handled as SIGUSR1. *)
SignalHandlerWrongUser(s) ==
  /\ pc \in SignalsAt /\ sent < MaxSignals
  /\ m_State' = IF s = "User2" THEN "User1" ELSE s
  /\ sent' = sent + 1
  /\ received' = [received EXCEPT ![s] = @ + 1]
  /\ lost' = (lost \/ Replaces(s) \/ pc = "reset")
  /\ late' = (late \/ (s \in Requests /\ Passed(s)))
  /\ UNCHANGED <<pc, isDaemon, chosen, performed, handlerFailed>>

(* signalHandler: SIGINT and SIGTERM write Stop, SIGHUP Reload, SIGUSR1    *)
(* and SIGUSR2 User1 and User2, whatever m_State was.                      *)
SignalHandler(s) ==
  /\ pc \in SignalsAt /\ sent < MaxSignals
  /\ m_State' = s
  /\ sent' = sent + 1
  /\ received' = [received EXCEPT ![s] = @ + 1]
  /\ lost' = (lost \/ Replaces(s) \/ pc = "reset")
  /\ late' = (late \/ (s \in Requests /\ Passed(s)))
  /\ UNCHANGED <<pc, isDaemon, chosen, performed, handlerFailed>>

-----------------------------------------------------------------------------
(* main writes v to m_State *)
Writes(v) == m_State' = v /\ lost' = (lost \/ Replaces(v)) /\ UNCHANGED late

Goes(to) == pc' = to /\ UNCHANGED <<chosen, counts>>
Quiet == UNCHANGED <<m_State, lost, late>>

(* -D sets isDaemon; -h, -v and an unknown option exit, --help goes on.    *)
ProcessCommandLine ==
  /\ pc = "args"
  /\ Goes("boot") \/ Goes("exited")
  /\ isDaemon' \in BOOLEAN
  /\ Quiet /\ UNCHANGED handlerFailed

(* makeDaemon: the parent leaves with EXIT_SUCCESS as soon as the fork     *)
(* worked, the child may still fail in setsid, chdir or the pid file.      *)
MakeDaemon ==
  /\ pc = "boot"
  /\ IF isDaemon THEN Goes("child") \/ Goes("failed") ELSE Goes("start")
  /\ Quiet /\ UNCHANGED <<isDaemon, handlerFailed>>

MakeDaemonChild ==
  /\ pc = "child"
  /\ Goes("start") \/ Goes("failed")
  /\ Quiet /\ UNCHANGED <<isDaemon, handlerFailed>>

(* while (daemon.isRunning()): the first comparison is with Reload *)
Polls == pc' = "poll" /\ chosen' = "Reload"

(* startAll() *)
StartAll ==
  /\ pc = "start"
  /\ Writes("Running")
  /\ \/ Polls /\ UNCHANGED <<counts, handlerFailed>>
     \/ HandlersMayFail /\ Goes("failed") /\ handlerFailed' = TRUE
  /\ UNCHANGED isDaemon

(* The if-chain of isRunning() *)
Poll ==
  /\ pc = "poll"
  /\ \/ m_State = chosen /\ pc' = "reset" /\ UNCHANGED chosen
     \/ m_State # chosen /\ chosen = "Reload" /\ chosen' = "User1" /\ UNCHANGED pc
     \/ m_State # chosen /\ chosen = "User1" /\ chosen' = "User2" /\ UNCHANGED pc
     \/ m_State # chosen /\ chosen = "User2" /\ pc' = "result" /\ UNCHANGED chosen
  /\ Quiet /\ UNCHANGED <<isDaemon, counts, handlerFailed>>

(* Mutant of Reset: m_State is not set back. *)
ResetForgotten ==
  /\ pc = "reset"
  /\ Goes("handler")
  /\ Quiet /\ UNCHANGED <<isDaemon, handlerFailed>>

(* ... perform...IfRequired(): m_State = Running, ... *)
Reset ==
  /\ pc = "reset"
  /\ Writes("Running")
  /\ Goes("handler")
  /\ UNCHANGED <<isDaemon, handlerFailed>>

(* ... then the handler; if it fails, m_State = Stop. *)
Handler ==
  /\ pc = "handler"
  /\ performed' = [performed EXCEPT ![chosen] = @ + 1]
  /\ \/ Quiet /\ UNCHANGED handlerFailed
     \/ HandlersMayFail /\ Writes("Stop") /\ handlerFailed' = TRUE
  /\ pc' = "result"
  /\ UNCHANGED <<isDaemon, chosen, sent, received>>

(* Mutant of Result: everything but Start counts as running. *)
ResultNotStarted ==
  /\ pc = "result"
  /\ Goes(IF m_State # "Start" THEN "body" ELSE "close")
  /\ Quiet /\ UNCHANGED <<isDaemon, handlerFailed>>

(* return m_State == State::Running *)
Result ==
  /\ pc = "result"
  /\ Goes(IF m_State = "Running" THEN "body" ELSE "close")
  /\ Quiet /\ UNCHANGED <<isDaemon, handlerFailed>>

(* The body of the loop: a pause, or a key that does not concern m_State *)
Body ==
  /\ pc = "body"
  /\ Polls
  /\ Quiet /\ UNCHANGED <<isDaemon, counts, handlerFailed>>

(* The q key *)
SetState ==
  /\ pc = "body" /\ ~isDaemon
  /\ Writes("Stop") /\ Polls
  /\ received' = [received EXCEPT !["Stop"] = @ + 1]
  /\ UNCHANGED <<isDaemon, sent, performed, handlerFailed>>

(* reloadAll(), for a loop that asks for a reload itself *)
ReloadAll ==
  /\ pc = "body" /\ sent < MaxSignals
  /\ Writes("Reload") /\ Polls
  /\ sent' = sent + 1
  /\ received' = [received EXCEPT !["Reload"] = @ + 1]
  /\ UNCHANGED <<isDaemon, performed, handlerFailed>>

(* closeAll(); its handler waits for the manager's worker. *)
CloseAll ==
  /\ pc = "close"
  /\ Writes("Stop")
  /\ Goes("ended")
  /\ UNCHANGED <<isDaemon, handlerFailed>>

(* The process is gone. *)
Ended == pc \in Gone /\ UNCHANGED vars

-----------------------------------------------------------------------------
Main ==
  \/ ProcessCommandLine \/ MakeDaemon \/ MakeDaemonChild \/ StartAll
  \/ Poll \/ Reset \/ Handler \/ Result
  \/ Body \/ SetState \/ ReloadAll \/ CloseAll

Next == Main \/ (\E s \in Signals : SignalHandler(s)) \/ Ended

Spec == Init /\ [][Next]_vars

(* main never blocks for ever between two polls: the console is read       *)
(* without blocking, the pause lasts a second.  No signal is promised.     *)
FairSpec == Spec /\ WF_vars(Main)
-----------------------------------------------------------------------------
(* Properties *)

(* A reload or user handler is called at most as often as its signal came, *)
(* however signals overwrite one another in m_State.                       *)
NoHandlerWithoutSignal ==
  \A r \in Requests : performed[r] <= received[r]

(* daemon.hpp:36: SIGUSR1 is the "Signal to execute user-defined action",  *)
(* as SIGHUP reloads.  Wherever signals come, the loop is left only after  *)
(* a terminate signal, the q key, a handler that failed, or a request that *)
(* came between its comparison and the last line of isRunning()            *)
(* (daemon.hpp:133), which takes it for a stop.                            *)
OnlyTerminateEnds ==
  pc \in {"close", "ended"} => received["Stop"] > 0 \/ handlerFailed \/ late

(* daemon.hpp:34: SIGTERM is the "Signal to terminate the daemon": once it *)
(* (or SIGINT, or the q key) came the program ends.                        *)
TerminateEnds == received["Stop"] > 0 ~> pc \in Gone

(* What holds of it: the program ends after every stop, wherever it came,  *)
(* unless a request was written over.                                      *)
StopEndsUnlessLost == received["Stop"] > 0 ~> pc \in Gone \/ lost

(* A request waits in m_State, or was chosen and the reset is to come; and *)
(* one whose handler is about to be called.                                *)
InState(r) == IF m_State = r \/ (pc = "reset" /\ chosen = r) THEN 1 ELSE 0
InHandler(r) == IF pc = "handler" /\ chosen = r THEN 1 ELSE 0

(* The single word m_State neither loses a request nor serves it twice,    *)
(* wherever signals interrupt main: each was performed or is pending, and  *)
(* a stop stays in m_State, as long as no request comes before another was *)
(* taken up, at a reset, or before startAll().                             *)
SignalsKept ==
  ~lost =>
    /\ \A r \in Requests : received[r] = performed[r] + InState(r) + InHandler(r)
    /\ received["Stop"] > 0 => m_State = "Stop"

(* Every request is performed, unless one was written over, came late in   *)
(* isRunning(), or met a start that failed.                                *)
EverySignalPerformed ==
  \A r \in Requests :
    received[r] > performed[r] ~>
      received[r] = performed[r] \/ lost \/ late \/ pc \in {"failed", "exited"}
=============================================================================
