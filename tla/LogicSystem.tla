---------------------------- MODULE LogicSystem -----------------------------
(***************************************************************************)
(* The LogicSystem of the coroutine server (S12): post_msg_to_que() called *)
(* by the I/O threads, the one worker thread in deal_msg_(), and the       *)
(* destructor that stops and joins the worker at the end of the process.   *)
(*                                                                         *)
(* The condition variable is modelled as the standard describes it: wait() *)
(* unlocks and blocks in one step, notify_one() wakes a thread that is     *)
(* already blocked and is otherwise without effect, and a blocked thread   *)
(* may wake up spuriously.  The destructor sets b_stop_ and notifies       *)
(* WITHOUT mutex_, so both can fall between the worker's test of the       *)
(* predicate and its blocking.  b_stop_ is a plain bool: a worker that     *)
(* still reads the old value behaves as one that read before the store,    *)
(* since the storing thread goes on only to a notify that finds nobody     *)
(* blocked and to join().                                                  *)
(*                                                                         *)
(* A message is the number of its posting together with what its handling  *)
(* will do: its id has a callback ("known"), has none ("unknown"), or has  *)
(* one that throws on the JSON it is given ("throws"), which ends the      *)
(* process because nothing on the worker's stack catches.                  *)
(***************************************************************************)
EXTENDS Integers, Sequences

CONSTANT MaxPosts  \* bound: messages posted

ASSUME LogicAssumption == MaxPosts \in Nat

Kind == {"known", "unknown", "throws"}
Message == (1 .. MaxPosts) \X Kind

VARIABLES
  msgQue,   \* msg_que_
  bStop,    \* b_stop_
  wpc,      \* where the worker is in deal_msg_()
  dpc,      \* where the main thread is in ~LogicSystem()
  posted,   \* messages pushed so far (numbers them)
  called,   \* history: messages handed to their callback, in order
  retired,  \* history: messages popped, in order
  missed    \* history: the destructor notified while the worker was about
            \* to block

vars == <<msgQue, bStop, wpc, dpc, posted, called, retired, missed>>

\* The places of deal_msg_() at which the worker holds mutex_ ...
Holding ==
  {"test",      \* 45: about to evaluate the predicate
   "block",     \* 45: it was false; about to unlock and block
   "go",        \* 47: it was true; about to read b_stop_
   "handle",    \* 65: about to take the front message
   "pop",       \* 75: the callback has returned
   "drain",     \* 48: b_stop_ was set
   "drainPop"}  \* 60: the callback has returned, b_stop_ was set

\* ... and those at which it does not.
NotHolding ==
  {"lock",      \* 44: about to lock mutex_
   "wait",      \* 45: blocked on cond_
   "woken",     \* 45: about to lock mutex_ again
   "exited"}    \* deal_msg_() has returned

StopPC == {"running", "notify", "join", "done", "terminated"}

\* The singleton is constructed by the first post; its worker starts.
Init ==
  /\ msgQue = <<>>
  /\ bStop = FALSE
  /\ wpc = "lock"
  /\ dpc = "running"
  /\ posted = 0
  /\ called = <<>>
  /\ retired = <<>>
  /\ missed = FALSE

MutexFree == wpc \in NotHolding
Alive == dpc # "terminated"

-----------------------------------------------------------------------------
\* notify_one(): a worker blocked on cond_ starts to wake up.
Notify == wpc' = IF wpc = "wait" THEN "woken" ELSE wpc

\* Mutated: `size() > 1' for `size() >= 1'.
NotifyIfMore ==
  wpc' = IF wpc = "wait" /\ Len(msgQue') > 1 THEN "woken" ELSE wpc

NotifyPosted ==
  wpc' = IF wpc = "wait" /\ Len(msgQue') >= 1 THEN "woken" ELSE wpc

\* Mutated: the message is pushed twice.
PostTwice(k) ==
  /\ dpc = "running"
  /\ MutexFree
  /\ posted < MaxPosts
  /\ posted' = posted + 2
  /\ msgQue' = msgQue \o <<<<posted + 1, k>>, <<posted + 2, k>>>>
  /\ NotifyPosted
  /\ UNCHANGED <<bStop, dpc, called, retired, missed>>

(***************************************************************************)
(* post_msg_to_que(), by any I/O thread.  The I/O threads have been joined *)
(* when the destructor starts (IOContextPool::stop() in main), so they     *)
(* post only before it.                                                    *)
(***************************************************************************)
Post(k) ==
  /\ dpc = "running"
  /\ MutexFree
  /\ posted < MaxPosts
  /\ posted' = posted + 1
  /\ msgQue' = Append(msgQue, <<posted + 1, k>>)
  /\ NotifyPosted
  /\ UNCHANGED <<bStop, dpc, called, retired, missed>>

-----------------------------------------------------------------------------
\* deal_msg_(): the worker moves from a place to another.
Goto(from, to) ==
  /\ Alive
  /\ wpc = from
  /\ wpc' = to

Lock ==
  /\ Goto("lock", "test")
  /\ UNCHANGED <<msgQue, bStop, dpc, posted, called, retired, missed>>

\* Mutated: the predicate is the queue alone, without b_stop_.
QueueOnly == msgQue # <<>>

Predicate == msgQue # <<>> \/ bStop

Test ==
  /\ Goto("test", IF Predicate THEN "go" ELSE "block")
  /\ UNCHANGED <<msgQue, bStop, dpc, posted, called, retired, missed>>

Block ==
  /\ Goto("block", "wait")
  /\ UNCHANGED <<msgQue, bStop, dpc, posted, called, retired, missed>>

SpuriousWakeup ==
  /\ Goto("wait", "woken")
  /\ UNCHANGED <<msgQue, bStop, dpc, posted, called, retired, missed>>

Relock ==
  /\ Goto("woken", "test")
  /\ UNCHANGED <<msgQue, bStop, dpc, posted, called, retired, missed>>

ReadStop ==
  /\ Goto("go", IF bStop THEN "drain" ELSE "handle")
  /\ UNCHANGED <<msgQue, bStop, dpc, posted, called, retired, missed>>

\* Mutated: the newest message is taken.
Back == msgQue[Len(msgQue)]

Front == Head(msgQue)

(***************************************************************************)
(* The front message, outside the drain loop (at "handle") or inside it    *)
(* (at "drain").  mutex_ is held while the callback runs; `continue' and   *)
(* the end of an iteration unlock it.                                      *)
(***************************************************************************)
SkipUnknown(here, next) ==
  /\ Goto(here, next)
  /\ msgQue # <<>>
  /\ Front[2] = "unknown"
  /\ msgQue' = Tail(msgQue)
  /\ retired' = Append(retired, Front)
  /\ UNCHANGED <<bStop, dpc, posted, called, missed>>

\* Mutated: the message is not popped after its callback.
CallBackWithoutPop(here, next) ==
  /\ Goto(here, IF here = "handle" THEN "lock" ELSE here)
  /\ msgQue # <<>>
  /\ Front[2] = "known"
  /\ called' = Append(called, Front)
  /\ UNCHANGED <<msgQue, bStop, dpc, posted, retired, missed>>

CallBack(here, next) ==
  /\ Goto(here, next)
  /\ msgQue # <<>>
  /\ Front[2] = "known"
  /\ called' = Append(called, Front)
  /\ UNCHANGED <<msgQue, bStop, dpc, posted, retired, missed>>

\* asInt() or asString() throws: std::terminate.
CallBackThrows(here) ==
  /\ Goto(here, here)
  /\ msgQue # <<>>
  /\ Front[2] = "throws"
  /\ called' = Append(called, Front)
  /\ dpc' = "terminated"
  /\ UNCHANGED <<msgQue, bStop, posted, retired, missed>>

Pop(here, next) ==
  /\ Goto(here, next)
  /\ msgQue # <<>>
  /\ msgQue' = Tail(msgQue)
  /\ retired' = Append(retired, Front)
  /\ UNCHANGED <<bStop, dpc, posted, called, missed>>

\* Mutated: no drain loop.
DrainSkipped == TRUE

Drained == msgQue = <<>>

Exit ==
  /\ Goto("drain", "exited")
  /\ Drained
  /\ UNCHANGED <<msgQue, bStop, dpc, posted, called, retired, missed>>

DealMsg ==
  \/ Lock \/ Test \/ Block \/ Relock \/ ReadStop
  \/ SkipUnknown("handle", "lock") \/ SkipUnknown("drain", "drain")
  \/ CallBack("handle", "pop") \/ CallBack("drain", "drainPop")
  \/ CallBackThrows("handle") \/ CallBackThrows("drain")
  \/ Pop("pop", "lock") \/ Pop("drainPop", "drain")
  \/ Exit

-----------------------------------------------------------------------------
\* ~LogicSystem(), run by the exiting main thread.
DestructorStop ==
  /\ dpc = "running"
  /\ bStop' = TRUE
  /\ dpc' = "notify"
  /\ UNCHANGED <<msgQue, wpc, posted, called, retired, missed>>

DestructorNotify ==
  /\ dpc = "notify"
  /\ Notify
  /\ missed' = (wpc = "block")
  /\ dpc' = "join"
  /\ UNCHANGED <<msgQue, bStop, posted, called, retired>>

DestructorJoin ==
  /\ dpc = "join"
  /\ wpc = "exited"
  /\ dpc' = "done"
  /\ UNCHANGED <<msgQue, bStop, wpc, posted, called, retired, missed>>

Next ==
  \/ \E k \in Kind : Post(k)
  \/ DealMsg
  \/ SpuriousWakeup
  \/ DestructorStop \/ DestructorNotify \/ DestructorJoin

\* The worker is scheduled and mutex_ is not kept from it for ever (posts
\* are finite); the main thread goes on once it is in the destructor.  A
\* spurious wakeup may happen and need not.
Fairness ==
  /\ WF_vars(DealMsg)
  /\ WF_vars(DestructorNotify)
  /\ WF_vars(DestructorJoin)

Spec == Init /\ [][Next]_vars

FairSpec == Spec /\ Fairness
-----------------------------------------------------------------------------
TypeOK ==
  /\ msgQue \in Seq(Message)
  /\ bStop \in BOOLEAN
  /\ wpc \in Holding \cup NotHolding
  /\ dpc \in StopPC
  /\ posted \in 0 .. MaxPosts
  /\ called \in Seq(Message)
  /\ retired \in Seq(Message)
  /\ missed \in BOOLEAN

\* Every message posted is handled exactly once and in the order of posting,
\* across the ordinary and the drain loop: what has been popped, followed by
\* what is queued, is 1, 2, ... up to the last message posted.
FifoOnce ==
  /\ Len(retired) + Len(msgQue) = posted
  /\ \A i \in 1 .. Len(retired) : retired[i][1] = i
  /\ \A i \in 1 .. Len(msgQue) : msgQue[i][1] = Len(retired) + i

\* The messages in a sequence; those of them that have a callback.
Elems(s) == {s[i] : i \in 1 .. Len(s)}
WithCallback(S) == {m \in S : m[2] # "unknown"}

\* The callback of the front message has begun and the message not been popped.
Begun == wpc \in {"pop", "drainPop"} \/ dpc = "terminated"

\* A callback runs exactly once for each message that has one and has been
\* popped, in the order of posting, and never a second time for the front
\* message, which stays queued while its callback runs.
CalledOnce ==
  /\ \A i, j \in 1 .. Len(called) : i < j => called[i][1] < called[j][1]
  /\ Elems(called) = WithCallback(Elems(retired))
                       \cup (IF Begun THEN {Front} ELSE {})

\* Whatever woke the worker, it takes a front message only when there is one:
\* front() and pop() of an empty std::queue are undefined.
FrontExists == wpc \in {"handle", "pop", "drainPop"} => msgQue # <<>>

\* No message waits while the worker sleeps: a post between the worker's
\* test of the predicate and its blocking is impossible, and one after it
\* wakes the worker.
NoSleepOnWork == wpc = "wait" => msgQue = <<>>

\* The worker leaves deal_msg_() only with an empty queue: everything posted
\* before the stop is handled although b_stop_ was seen first.
ExitDrained == wpc = "exited" => msgQue = <<>> /\ bStop

\* The destructor hangs in join() behind a sleeping worker only if its
\* notify, sent without mutex_, fell between the test and the blocking.
SleepsInJoinOnlyIfMissed == dpc = "join" /\ wpc = "wait" => missed

\* Everything posted is handled in the end, unless a callback throws; a stop
\* does not lose it.
EveryPostHandled ==
  \A n \in 1 .. MaxPosts :
    posted >= n ~> Len(retired) >= n \/ dpc = "terminated"

\* join() returns, unless the notify was missed (or a callback threw).
JoinReturns == dpc = "join" ~> dpc \in {"done", "terminated"} \/ missed
=============================================================================
