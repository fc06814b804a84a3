---------------------------- MODULE LogicQueue ------------------------------
(***************************************************************************)
(* The logic system of the servers S08, S09 and S10 (the three files are   *)
(* the same): post_msg_to_que() called by the I/O threads, and the one     *)
(* worker in deal_msg_().                                                  *)
(*                                                                         *)
(* It differs from the one of S12 (LogicSystem): a post notifies only when *)
(* it made an empty queue non-empty, the wait is a loop on the queue       *)
(* alone, and a message is popped BEFORE its callback runs.  The object is *)
(* a singleton that nobody deletes: its destructor, and with it b_stop_    *)
(* and the lines that test it, never run.                                  *)
(*                                                                         *)
(* A message is the number of its posting together with its kind: its id   *)
(* has a callback ("known"), has none ("unknown"), or has one that throws  *)
(* ("throws"), which ends the process.                                     *)
(***************************************************************************)
EXTENDS Integers, Sequences, FiniteSets

CONSTANTS
  Poster,   \* threads that post
  MaxPosts  \* bound: messages posted

ASSUME QueueAssumption == MaxPosts \in Nat

Kind == {"known", "unknown", "throws"}
Message == (1 .. MaxPosts) \X Kind
NoMessage == <<0, "none">>

VARIABLES
  msgQue,   \* msg_que_
  ppc,      \* per poster: it holds mutex_ and has pushed: "pushed", or "out"
  wpc,      \* where the worker is in deal_msg_()
  msgNode,  \* msg_node: the message the worker has popped
  posted,   \* messages pushed so far (numbers them)
  called,   \* history: messages handed to their callback, in order
  skipped   \* history: messages dropped because their id has no callback

vars == <<msgQue, ppc, wpc, msgNode, posted, called, skipped>>

Init ==
  /\ msgQue = <<>>
  /\ ppc = [p \in Poster |-> "out"]
  /\ wpc = "lock"
  /\ msgNode = NoMessage
  /\ posted = 0
  /\ called = <<>>
  /\ skipped = {}

\* "lock", "wait" and "woken": the worker does not hold mutex_.
MutexFree ==
  /\ wpc \in {"lock", "wait", "woken"}
  /\ \A p \in Poster : ppc[p] = "out"

Alive == wpc # "terminated"

-----------------------------------------------------------------------------
\* Mutated: the message is pushed twice.
PushTwice(p, k) ==
  /\ Alive
  /\ MutexFree
  /\ posted < MaxPosts
  /\ posted' = posted + 2
  /\ msgQue' = msgQue \o <<<<posted + 1, k>>, <<posted + 2, k>>>>
  /\ ppc' = [ppc EXCEPT ![p] = "pushed"]
  /\ UNCHANGED <<wpc, msgNode, called, skipped>>

\* post_msg_to_que(): lock and push ...
Push(p, k) ==
  /\ Alive
  /\ MutexFree
  /\ posted < MaxPosts
  /\ posted' = posted + 1
  /\ msgQue' = Append(msgQue, <<posted + 1, k>>)
  /\ ppc' = [ppc EXCEPT ![p] = "pushed"]
  /\ UNCHANGED <<wpc, msgNode, called, skipped>>

\* Mutated: it notifies when a second message is there.
SecondMessage == Len(msgQue) = 2

FirstMessage == Len(msgQue) = 1

\* ... then notify_one(), if the queue was empty, and unlock.
NotifyAndUnlock(p) ==
  /\ Alive
  /\ ppc[p] = "pushed"
  /\ ppc' = [ppc EXCEPT ![p] = "out"]
  /\ wpc' = IF FirstMessage /\ wpc = "wait" THEN "woken" ELSE wpc
  /\ UNCHANGED <<msgQue, msgNode, posted, called, skipped>>

-----------------------------------------------------------------------------
\* The worker has mutex_, for the first time or again after a wakeup, and
\* tests the queue: wait() unlocks and blocks in one step.
Test ==
  /\ wpc \in {"lock", "woken"}
  /\ MutexFree
  /\ wpc' = IF msgQue = <<>> THEN "wait" ELSE "take"
  /\ UNCHANGED <<msgQue, ppc, msgNode, posted, called, skipped>>

SpuriousWakeup ==
  /\ wpc = "wait"
  /\ wpc' = "woken"
  /\ UNCHANGED <<msgQue, ppc, msgNode, posted, called, skipped>>

\* Mutated: the newest message is taken.
TakeNewest ==
  /\ wpc = "take"
  /\ msgQue # <<>>
  /\ msgNode' = msgQue[Len(msgQue)]
  /\ msgQue' = SubSeq(msgQue, 1, Len(msgQue) - 1)
  /\ wpc' = "taken"
  /\ UNCHANGED <<ppc, posted, called, skipped>>

\* front() and pop(), before the callback.
Take ==
  /\ wpc = "take"
  /\ msgQue # <<>>
  /\ msgNode' = Head(msgQue)
  /\ msgQue' = Tail(msgQue)
  /\ wpc' = "taken"
  /\ UNCHANGED <<ppc, posted, called, skipped>>

\* Its id has no callback: `continue'.
Skip ==
  /\ wpc = "taken"
  /\ msgNode[2] = "unknown"
  /\ skipped' = skipped \cup {msgNode}
  /\ wpc' = "lock"
  /\ UNCHANGED <<msgQue, ppc, msgNode, posted, called>>

\* Mutated: the worker waits after each message, whatever is queued.
CallBackAndWait ==
  /\ wpc = "taken"
  /\ msgNode[2] # "unknown"
  /\ called' = Append(called, msgNode)
  /\ wpc' = IF msgNode[2] = "throws" THEN "terminated" ELSE "wait"
  /\ UNCHANGED <<msgQue, ppc, msgNode, posted, skipped>>

\* The callback, with mutex_ held; it returns, or throws through the worker.
CallBack ==
  /\ wpc = "taken"
  /\ msgNode[2] # "unknown"
  /\ called' = Append(called, msgNode)
  /\ wpc' = IF msgNode[2] = "throws" THEN "terminated" ELSE "lock"
  /\ UNCHANGED <<msgQue, ppc, msgNode, posted, skipped>>

DealMsg == Test \/ Take \/ Skip \/ CallBack

Next ==
  \/ \E p \in Poster : NotifyAndUnlock(p) \/ \E k \in Kind : Push(p, k)
  \/ DealMsg
  \/ SpuriousWakeup

Spec == Init /\ [][Next]_vars
-----------------------------------------------------------------------------
TypeOK ==
  /\ msgQue \in Seq(Message)
  /\ ppc \in [Poster -> {"out", "pushed"}]
  /\ wpc \in {"lock", "wait", "woken", "take", "taken", "terminated"}
  /\ msgNode \in Message \cup {NoMessage}
  /\ posted \in 0 .. MaxPosts
  /\ called \in Seq(Message)
  /\ skipped \subseteq Message

\* The message the worker has in hand, neither queued nor done with.
InHand == IF wpc = "taken" THEN <<msgNode>> ELSE <<>>

\* The messages in hand and queued are the last ones posted, in the order of
\* posting, and each earlier one has either had its callback called or been
\* skipped: popping first loses none, repeats none, reorders none.
FifoOnce ==
  LET rest == InHand \o msgQue
      done == posted - Len(rest)
  IN /\ \A i \in 1 .. Len(rest) : rest[i][1] = done + i
     /\ \A i, j \in 1 .. Len(called) : i < j => called[i][1] < called[j][1]
     /\ {called[i][1] : i \in 1 .. Len(called)} \cup {m[1] : m \in skipped}
          = 1 .. done
     /\ Len(called) + Cardinality(skipped) = done

\* front() is applied to a queue that has one: each wakeup is followed by
\* another test of the queue.
FrontExists == wpc = "take" => msgQue # <<>>

\* Although only the first message of a queue is announced, the worker never
\* sleeps while messages wait and nobody is about to announce them: it empties
\* the queue before it waits again.
NoSleepOnWork ==
  wpc = "wait" =>
    \/ msgQue = <<>>
    \/ Len(msgQue) = 1 /\ \E p \in Poster : ppc[p] = "pushed"
=============================================================================
