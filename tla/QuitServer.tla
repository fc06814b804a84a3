----------------------------- MODULE QuitServer -----------------------------
(***************************************************************************)
(* How the servers S08, S09 and S10 come to an end: main.cc has two ways,  *)
(*   "cstyle"  a handler of signal() that sets g_stop_server and notifies  *)
(*             g_quit_cond, on which the main thread waits                 *)
(*   "asio"    a signal_set on the io_context that the main thread runs    *)
(* around the threads that run the I/O and post to LogicQueue: in S08 the  *)
(* one thread of the server, in S09 and S10 those of the pool.  In S10     *)
(* only "asio" is modelled: the server of the other way is a local of a    *)
(* thread that ends at once, and what the pool does with it is undefined.  *)
(***************************************************************************)
EXTENDS LogicQueue

CONSTANT MaxSignals  \* bound: signals the process gets

ASSUME QuitAssumption == MaxSignals \in Nat

VARIABLES
  program,    \* step and way
  main,       \* where the main thread is
  signals,    \* signals that may still come
  handling,   \* the thread that signal_handler() runs on: "none", "main" or
              \* "other"; "caught" is a signal of the signal_set
  holder,     \* the main thread is in a critical section of g_quit_mutex
  flag,       \* g_stop_server
  late,       \* history: it was set between the test of it and the wait
  stopped,    \* the io_contexts have been stopped, or their work given up
  running,    \* I/O threads that have not returned from run()
  connected   \* S09: I/O threads whose io_context has a connection

quitVars == <<program, main, signals, handling, holder, flag, late, stopped,
              running, connected>>
allVars == <<vars, quitVars>>

Step == program[1]
Way == program[2]

QuitInit ==
  /\ Init
  /\ program \in {<<"S08", "cstyle">>, <<"S09", "cstyle">>} \cup
                 {"S08", "S09", "S10"} \X {"asio"}
  /\ main = "start"
  /\ signals = MaxSignals
  /\ handling = "none"
  /\ holder = FALSE /\ flag = FALSE /\ late = FALSE /\ stopped = FALSE
  /\ running = Poster
  /\ connected = IF program[1] = "S09" THEN {} ELSE Poster

Up == Alive /\ main \notin {"returned", "killed"}

\* The main thread goes on, unless a signal handler runs on it.
MainGoes(from, to) ==
  /\ Up
  /\ handling # "main"
  /\ main = from
  /\ main' = to

-----------------------------------------------------------------------------
\* signal(), or the constructor of signal_set and its async_wait().
Register ==
  /\ MainGoes("start", IF Way = "cstyle" THEN "test" ELSE "run")
  /\ UNCHANGED <<vars, program, signals, handling, holder, flag, late, stopped,
                 running, connected>>

\* A signal comes: before Register it kills the process.
Signal ==
  /\ Up
  /\ signals > 0
  /\ handling = "none"
  /\ signals' = signals - 1
  /\ IF main = "start"
     THEN main' = "killed" /\ UNCHANGED handling
     ELSE /\ handling' \in IF Way = "asio" THEN {"caught"} ELSE {"main", "other"}
          /\ UNCHANGED main
  /\ UNCHANGED <<vars, program, holder, flag, late, stopped, running, connected>>

\* Mutated: nobody is notified.
HandlerSilent ==
  /\ Up
  /\ handling \in {"main", "other"}
  /\ ~holder
  /\ flag' = TRUE
  /\ late' = (late \/ main = "lock")
  /\ handling' = "none"
  /\ UNCHANGED <<vars, program, main, signals, holder, stopped, running,
                 connected>>

\* signal_handler(), which needs g_quit_mutex: on the main thread, inside the
\* critical section, it waits for itself.
SignalHandler ==
  /\ Up
  /\ handling \in {"main", "other"}
  /\ ~holder
  /\ flag' = TRUE
  /\ late' = (late \/ main = "lock")
  /\ main' = IF main = "wait" THEN "woken" ELSE main
  /\ handling' = "none"
  /\ UNCHANGED <<vars, program, signals, holder, stopped, running, connected>>

\* cstyle_quit_server(): `while (!g_stop_server)', without the mutex; then a
\* unique_lock and a wait() without a condition.
TestFlag ==
  /\ MainGoes("test", IF flag THEN "stop" ELSE "lock")
  /\ UNCHANGED <<vars, program, signals, handling, holder, flag, late, stopped,
                 running, connected>>

Enter ==
  /\ MainGoes("lock", "block") \/ MainGoes("woken", "unlock")
  /\ holder' = TRUE
  /\ UNCHANGED <<vars, program, signals, handling, flag, late, stopped, running,
                 connected>>

Exit ==
  /\ MainGoes("block", "wait") \/ MainGoes("unlock", "test")
  /\ holder' = FALSE
  /\ UNCHANGED <<vars, program, signals, handling, flag, late, stopped, running,
                 connected>>

\* The condition variable may wake the thread for no reason.
WakeSpuriously ==
  /\ MainGoes("wait", "woken")
  /\ UNCHANGED <<vars, program, signals, handling, holder, flag, late, stopped,
                 running, connected>>

\* Mutated: pool.stop() is forgotten.
StopNothing ==
  /\ MainGoes("stop", "join")
  /\ UNCHANGED <<vars, program, signals, handling, holder, flag, late, stopped,
                 running, connected>>

\* ioc.stop(), and pool.stop() up to its joins.
CStyleStop ==
  /\ MainGoes("stop", "join")
  /\ stopped' = TRUE
  /\ UNCHANGED <<vars, program, signals, handling, holder, flag, late, running,
                 connected>>

\* The same as the callback of the signal_set.  In S08 the thread that runs it
\* is the one that runs the I/O: no other callback is in progress.
AsioStop ==
  /\ handling = "caught"
  /\ Step = "S08" => \A p \in Poster : ppc[p] = "out"
  /\ MainGoes("run", "join")
  /\ stopped' = TRUE
  /\ UNCHANGED <<vars, program, signals, handling, holder, flag, late, running,
                 connected>>

\* An I/O thread returns from run().  In S09 nobody stops its io_context: it
\* has only no work of its own any more.
RunReturns(p) ==
  /\ Up
  /\ p \in running
  /\ stopped
  /\ ppc[p] = "out"
  /\ Step = "S09" => p \notin connected
  /\ running' = running \ {p}
  /\ UNCHANGED <<vars, program, main, signals, handling, holder, flag, late,
                 stopped, connected>>

\* The joins are over, and the process ends.
MainReturns ==
  /\ MainGoes("join", "returned")
  /\ running = {}
  /\ UNCHANGED <<vars, program, signals, handling, holder, flag, late, stopped,
                 running, connected>>

-----------------------------------------------------------------------------
\* External: clients connect until the acceptor is gone, and leave.
ClientConnects(p) ==
  /\ Up
  /\ Step = "S09"
  /\ ~stopped
  /\ connected' = connected \cup {p}
  /\ UNCHANGED <<vars, program, main, signals, handling, holder, flag, late,
                 stopped, running>>

ClientLeaves(p) ==
  /\ Up
  /\ Step = "S09"
  /\ connected' = connected \ {p}
  /\ UNCHANGED <<vars, program, main, signals, handling, holder, flag, late,
                 stopped, running>>

\* The steps of LogicQueue, while the process runs: a thread posts for a client
\* it serves, the worker is never stopped.
Post(p) ==
  /\ Up
  /\ p \in running
  /\ \/ p \in connected /\ \E k \in Kind : Push(p, k)
     \/ NotifyAndUnlock(p)
  /\ UNCHANGED quitVars

Work == Up /\ DealMsg /\ UNCHANGED quitVars

Quit ==
  \/ Register \/ SignalHandler \/ TestFlag \/ Enter \/ Exit
  \/ CStyleStop \/ AsioStop \/ MainReturns
  \/ \E p \in Poster : RunReturns(p)

QuitNext ==
  \/ Signal \/ Quit \/ WakeSpuriously \/ Work
  \/ Up /\ SpuriousWakeup /\ UNCHANGED quitVars
  \/ \E p \in Poster : Post(p) \/ ClientConnects(p) \/ ClientLeaves(p)

\* Each thread goes on, and a signal handler gets the mutex in the end although
\* the main thread takes it again and again.  No signal and no wakeup has to
\* come, and no client has to leave.
QuitFairness ==
  /\ SF_allVars(SignalHandler)
  /\ WF_allVars(Quit)
  /\ WF_allVars(Work)
  /\ \A p \in Poster : WF_allVars(NotifyAndUnlock(p) /\ Post(p))

QuitSpec == QuitInit /\ [][QuitNext]_allVars /\ QuitFairness
-----------------------------------------------------------------------------
\* What can keep the main thread for ever: it waits for a signal that came
\* between its test and its wait, it waits for the mutex it holds, or (S09) a
\* client of the pool stays.
Stuck ==
  \/ main = "wait" /\ late
  \/ handling = "main" /\ holder
  \/ Step = "S09" /\ main = "join" /\ connected # {}

\* A signal that was handled ends the process, whatever the worker and the
\* threads that post are doing, but for the three ways above of getting stuck
\* (or a callback that throws, which ends it too).
QuitReturns ==
  []((flag \/ handling # "none") => <>~Up \/ <>[]Stuck)

\* As long as the process runs, again and again every message posted has had
\* its callback called or been skipped; the posts are bounded, so none waits
\* for ever.
EveryPostHandledOrQuit ==
  []<>(Up => posted = Len(called) + Cardinality(skipped))
=============================================================================
