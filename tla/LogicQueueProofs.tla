------------------------- MODULE LogicQueueProofs ---------------------------
(***************************************************************************)
(* What holds of the logic queue (LogicQueue) for any number of posters    *)
(* and of posts.  The inductive invariant adds to the properties that the  *)
(* worker has a real message in hand when it says so, and numbers the      *)
(* messages by their place in the queue.  What holds of the queue holds of *)
(* it in the servers (QuitServer), whatever ends them.                     *)
(***************************************************************************)
EXTENDS QuitServer, SequenceTheorems, FiniteSetTheorems, TLAPS

TakenIsMessage == wpc = "taken" => msgNode \in Message

IInv == TypeOK /\ TakenIsMessage /\ FrontExists /\ NoSleepOnWork

-----------------------------------------------------------------------------
LEMMA Initially == Init => IInv
  BY QueueAssumption
  DEF Init, IInv, TypeOK, TakenIsMessage, FrontExists, NoSleepOnWork,
      NoMessage

\* A push finds mutex_ free, so that a sleeping worker has an empty queue: the
\* message pushed is the first one, and its poster is about to announce it.
LEMMA PushKeeps ==
  ASSUME IInv, NEW p \in Poster, NEW k \in Kind, Push(p, k)
  PROVE  IInv'
<1>1. <<posted + 1, k>> \in Message /\ posted' \in 0 .. MaxPosts
  BY QueueAssumption DEF Push, IInv, TypeOK, Message
<1>2. /\ msgQue' \in Seq(Message)
      /\ Len(msgQue') = Len(msgQue) + 1
  BY <1>1, AppendProperties DEF Push, IInv, TypeOK
<1>3. TypeOK'
  BY <1>1, <1>2 DEF Push, IInv, TypeOK
<1>4. msgQue' # <<>>
  BY <1>1, AppendProperties DEF Push, IInv, TypeOK
<1>5. TakenIsMessage' /\ FrontExists'
  BY <1>4 DEF Push, IInv, TakenIsMessage, FrontExists
<1>6. NoSleepOnWork'
  <2>1. ASSUME wpc = "wait" PROVE Len(msgQue') = 1
    <3>1. \A q \in Poster : ppc[q] = "out"
      BY DEF Push, MutexFree
    <3>2. msgQue = <<>>
      BY <2>1, <3>1 DEF IInv, NoSleepOnWork
    <3> QED
      BY <1>2, <3>2
  <2>2. ppc'[p] = "pushed" /\ wpc' = wpc
    BY DEF Push, IInv, TypeOK
  <2> QED
    BY <2>1, <2>2 DEF NoSleepOnWork, FirstMessage
<1> QED
  BY <1>3, <1>5, <1>6 DEF IInv

\* The announcement wakes a worker that sleeps on the first message.
LEMMA NotifyKeeps ==
  ASSUME IInv, NEW p \in Poster, NotifyAndUnlock(p)
  PROVE  IInv'
<1>1. TypeOK'
  BY DEF NotifyAndUnlock, IInv, TypeOK
<1>2. TakenIsMessage' /\ FrontExists'
  BY DEF NotifyAndUnlock, IInv, TakenIsMessage, FrontExists
<1>3. NoSleepOnWork'
  BY DEF NotifyAndUnlock, IInv, NoSleepOnWork, FirstMessage
<1> QED
  BY <1>1, <1>2, <1>3 DEF IInv

LEMMA WorkerKeeps == ASSUME IInv, DealMsg PROVE IInv'
<1>1. CASE Test
  BY <1>1 DEF Test, IInv, TypeOK, TakenIsMessage, FrontExists, NoSleepOnWork
<1>2. CASE Take
  <2>1. Head(msgQue) \in Message /\ Tail(msgQue) \in Seq(Message)
    BY <1>2, HeadTailProperties DEF Take, IInv, TypeOK
  <2> QED
    BY <2>1, <1>2
    DEF Take, IInv, TypeOK, TakenIsMessage, FrontExists, NoSleepOnWork
<1>3. CASE Skip
  BY <1>3
  DEF Skip, IInv, TypeOK, TakenIsMessage, FrontExists, NoSleepOnWork
<1>4. CASE CallBack
  <2>1. called' \in Seq(Message)
    BY <1>4, AppendProperties DEF CallBack, IInv, TypeOK, TakenIsMessage
  <2> QED
    BY <2>1, <1>4
    DEF CallBack, IInv, TypeOK, TakenIsMessage, FrontExists, NoSleepOnWork
<1> QED
  BY <1>1, <1>2, <1>3, <1>4 DEF DealMsg

LEMMA Inductive == IInv /\ [Next]_vars => IInv'
<1> SUFFICES ASSUME IInv, [Next]_vars
             PROVE  IInv'
  OBVIOUS
<1>1. CASE SpuriousWakeup
  BY <1>1 DEF SpuriousWakeup, IInv, TypeOK, TakenIsMessage, FrontExists,
              NoSleepOnWork
<1>2. CASE UNCHANGED vars
  BY <1>2 DEF vars, IInv, TypeOK, TakenIsMessage, FrontExists,
              NoSleepOnWork, FirstMessage
<1> QED
  BY <1>1, <1>2, PushKeeps, NotifyKeeps, WorkerKeeps DEF Next

LEMMA Always == Spec => []IInv
  BY Initially, Inductive, PTL DEF Spec

-----------------------------------------------------------------------------
\* The types of the queue, the posters and the worker, whatever is posted.
THEOREM TypeCorrect == Spec => []TypeOK
<1>1. IInv => TypeOK
  BY DEF IInv
<1> QED
  BY <1>1, Always, PTL

\* deal_msg_() applies front() and pop() only to a queue that has a message.
THEOREM FrontAlwaysExists == Spec => []FrontExists
<1>1. IInv => FrontExists
  BY DEF IInv
<1> QED
  BY <1>1, Always, PTL

\* Announcing only the first message is enough: the worker never sleeps on
\* messages that nobody is about to announce, for any number of posters.
THEOREM NeverSleepsOnWork == Spec => []NoSleepOnWork
<1>1. IInv => NoSleepOnWork
  BY DEF IInv
<1> QED
  BY <1>1, Always, PTL

-----------------------------------------------------------------------------
(***************************************************************************)
(* Each message once, in order.                                            *)
(***************************************************************************)
\* The messages done with.
Done == posted - Len(msgQue) - (IF wpc = "taken" THEN 1 ELSE 0)

CalledNumbers == {called[i][1] : i \in 1 .. Len(called)}
SkippedNumbers == {m[1] : m \in skipped}

\* The queue holds the last messages posted, and the one in hand comes before
\* them.
Numbering ==
  /\ \A i \in 1 .. Len(msgQue) : msgQue[i][1] = posted - Len(msgQue) + i
  /\ wpc = "taken" => msgNode[1] = posted - Len(msgQue)

DoneOnce ==
  /\ \A i, j \in 1 .. Len(called) : i < j => called[i][1] < called[j][1]
  /\ CalledNumbers \cup SkippedNumbers = 1 .. Done
  /\ Len(called) + Cardinality(skipped) = Done
  /\ Done \in Nat

LEMMA NumberingStep ==
  ASSUME IInv, Numbering, [Next]_vars
  PROVE  Numbering'
<1>1. ASSUME NEW p \in Poster, NEW k \in Kind, Push(p, k) PROVE Numbering'
  <2>1. /\ Len(msgQue') = Len(msgQue) + 1
        /\ \A i \in 1 .. Len(msgQue) : msgQue'[i] = msgQue[i]
        /\ msgQue'[Len(msgQue) + 1] = <<posted + 1, k>>
        /\ Len(msgQue) \in Nat
    <3>1. <<posted + 1, k>> \in Message
      BY <1>1, QueueAssumption DEF Push, IInv, TypeOK, Message
    <3> QED
      BY <1>1, <3>1, AppendProperties, LenProperties DEF Push, IInv, TypeOK
  <2>2. wpc # "taken" /\ wpc' = wpc /\ posted' = posted + 1
    BY <1>1 DEF Push, MutexFree
  <2>3. ASSUME NEW i \in 1 .. Len(msgQue')
        PROVE  msgQue'[i][1] = posted' - Len(msgQue') + i
    <3>1. posted \in Nat
      BY QueueAssumption DEF IInv, TypeOK
    <3>2. CASE i \in 1 .. Len(msgQue)
      <4>1. msgQue'[i][1] = posted - Len(msgQue) + i
        BY <2>1, <3>2 DEF Numbering
      <4> QED
        BY <2>1, <2>2, <3>1, <4>1
    <3>3. CASE i = Len(msgQue) + 1
      <4>1. msgQue'[i][1] = posted + 1
        BY <2>1, <3>3
      <4> QED
        BY <2>1, <2>2, <3>1, <3>3, <4>1
    <3> QED
      BY <2>1, <3>2, <3>3
  <2> QED
    BY <2>2, <2>3 DEF Numbering
<1>2. ASSUME NEW p \in Poster, NotifyAndUnlock(p) PROVE Numbering'
  BY <1>2 DEF NotifyAndUnlock, Numbering
<1>3. CASE Take
  <2>1. /\ Len(msgQue') = Len(msgQue) - 1
        /\ \A i \in 1 .. Len(msgQue') : msgQue'[i] = msgQue[i + 1]
        /\ Len(msgQue) \in Nat \ {0}
        /\ msgNode' = msgQue[1]
    BY <1>3, HeadTailProperties, EmptySeq DEF Take, IInv, TypeOK
  <2> QED
    BY <1>3, <2>1 DEF Take, Numbering, IInv, TypeOK
<1>4. CASE Test \/ Skip \/ CallBack \/ SpuriousWakeup
  BY <1>4 DEF Test, Skip, CallBack, SpuriousWakeup, Numbering
<1>5. CASE UNCHANGED vars
  BY <1>5 DEF vars, Numbering
<1> QED
  BY <1>1, <1>2, <1>3, <1>4, <1>5 DEF Next, DealMsg

LEMMA MessagesFinite == IsFiniteSet(Message)
<1>1. IsFiniteSet({}) /\ IsFiniteSet({} \cup {"known"})
      /\ IsFiniteSet({} \cup {"known"} \cup {"unknown"})
      /\ IsFiniteSet({} \cup {"known"} \cup {"unknown"} \cup {"throws"})
  BY FS_EmptySet, FS_AddElement
<1>2. {} \cup {"known"} \cup {"unknown"} \cup {"throws"} = Kind
  BY DEF Kind
<1>3. IsFiniteSet(1 .. MaxPosts)
  BY QueueAssumption, FS_Interval
<1> QED
  BY <1>1, <1>2, <1>3, FS_Product DEF Message

\* The message in hand is the first that is not done with; it has not been
\* skipped before.
LEMMA InHandIsNext ==
  ASSUME IInv, Numbering, DoneOnce, wpc = "taken"
  PROVE  /\ msgNode \in Message
         /\ msgNode[1] = Done + 1
         /\ msgNode \notin skipped
         /\ \A i \in 1 .. Len(called) : called[i][1] <= Done
<1>1. msgNode \in Message /\ Len(msgQue) \in Nat
  BY LenProperties DEF IInv, TakenIsMessage, TypeOK
<1>2. msgNode[1] = Done + 1
  BY <1>1 DEF Numbering, Done, IInv, TypeOK
<1>3. msgNode[1] \notin SkippedNumbers
  BY <1>2 DEF DoneOnce
<1>4. msgNode \notin skipped
  BY <1>3 DEF SkippedNumbers
<1>5. \A i \in 1 .. Len(called) : called[i][1] <= Done
  BY DEF DoneOnce, CalledNumbers
<1> QED
  BY <1>1, <1>2, <1>4, <1>5

LEMMA DoneOnceStep ==
  ASSUME IInv, Numbering, DoneOnce, [Next]_vars
  PROVE  DoneOnce'
<1> DEFINE Same == Done' = Done /\ UNCHANGED <<called, skipped>>
<1>1. Same => DoneOnce'
  BY DEF DoneOnce, CalledNumbers, SkippedNumbers
<1>2. ASSUME NEW p \in Poster, NEW k \in Kind, Push(p, k) PROVE Same
  <2>1. Len(msgQue') = Len(msgQue) + 1 /\ Len(msgQue) \in Nat
    <3>1. <<posted + 1, k>> \in Message
      BY <1>2, QueueAssumption DEF Push, IInv, TypeOK, Message
    <3> QED
      BY <1>2, <3>1, AppendProperties, LenProperties DEF Push, IInv, TypeOK
  <2> QED
    BY <1>2, <2>1 DEF Push, Done, IInv, TypeOK
<1>3. ASSUME NEW p \in Poster, NotifyAndUnlock(p) PROVE Same
  BY <1>3 DEF NotifyAndUnlock, Done
<1>4. CASE Take
  <2>1. Len(msgQue') = Len(msgQue) - 1 /\ Len(msgQue) \in Nat
    BY <1>4, HeadTailProperties, LenProperties DEF Take, IInv, TypeOK
  <2> QED
    BY <1>1, <1>4, <2>1 DEF Take, Done, IInv, TypeOK
<1>5. CASE Test \/ SpuriousWakeup \/ UNCHANGED vars
  BY <1>1, <1>5 DEF Test, SpuriousWakeup, vars, Done
<1>6. CASE Skip
  <2>1. wpc = "taken" /\ skipped' = skipped \cup {msgNode} /\ called' = called
        /\ Done' = Done + 1
    BY <1>6, LenProperties DEF Skip, Done, IInv, TypeOK
  <2>2. IsFiniteSet(skipped)
    BY MessagesFinite, FS_Subset DEF IInv, TypeOK
  <2>3. Cardinality(skipped') = Cardinality(skipped) + 1
        /\ Cardinality(skipped) \in Nat
    BY <2>1, <2>2, InHandIsNext, FS_AddElement, FS_CardinalityType
  <2>4. SkippedNumbers' = SkippedNumbers \cup {Done + 1}
        /\ CalledNumbers' = CalledNumbers
    BY <2>1, InHandIsNext DEF SkippedNumbers, CalledNumbers
  <2>5. CalledNumbers' \cup SkippedNumbers' = 1 .. Done'
    BY <2>1, <2>4 DEF DoneOnce
  <2>6. Len(called) \in Nat
    BY LenProperties DEF IInv, TypeOK
  <2> QED
    BY <2>1, <2>3, <2>5, <2>6 DEF DoneOnce
<1>7. CASE CallBack
  <2>1. wpc = "taken" /\ called' = Append(called, msgNode)
        /\ skipped' = skipped /\ Done' = Done + 1
    BY <1>7, LenProperties DEF CallBack, Done, IInv, TypeOK
  <2>2. /\ Len(called') = Len(called) + 1
        /\ \A i \in 1 .. Len(called) : called'[i] = called[i]
        /\ called'[Len(called) + 1] = msgNode
        /\ Len(called) \in Nat
    BY <2>1, InHandIsNext, AppendProperties, LenProperties DEF IInv, TypeOK
  <2>3. CalledNumbers' = CalledNumbers \cup {Done + 1}
        /\ SkippedNumbers' = SkippedNumbers
    <3>1. ASSUME NEW n
          PROVE  n \in CalledNumbers' <=> n \in CalledNumbers \cup {Done + 1}
      BY <2>1, <2>2, InHandIsNext DEF CalledNumbers
    <3> QED
      BY <2>1, <3>1 DEF SkippedNumbers
  <2>4. CalledNumbers' \cup SkippedNumbers' = 1 .. Done'
    BY <2>1, <2>3 DEF DoneOnce
  <2>5. ASSUME NEW i \in 1 .. Len(called'), NEW j \in 1 .. Len(called'), i < j
        PROVE  called'[i][1] < called'[j][1]
    <3>1. CASE j \in 1 .. Len(called)
      <4>1. i \in 1 .. Len(called)
        BY <2>2, <2>5, <3>1
      <4> QED
        BY <2>2, <2>5, <3>1, <4>1 DEF DoneOnce
    <3>2. CASE j = Len(called) + 1
      <4>1. i \in 1 .. Len(called)
        BY <2>2, <2>5, <3>2
      <4>2. called[i][1] <= Done /\ called[i][1] \in Int /\ Done \in Nat
        <5>1. called[i] \in Message
          BY <4>1, ElementOfSeq DEF IInv, TypeOK
        <5> QED
          BY <2>1, <4>1, <5>1, InHandIsNext DEF DoneOnce, Message
      <4>3. called'[j][1] = Done + 1
        BY <2>1, <2>2, <3>2, InHandIsNext
      <4> QED
        BY <2>2, <4>1, <4>2, <4>3
    <3> QED
      BY <2>2, <3>1, <3>2
  <2>6. IsFiniteSet(skipped) /\ Cardinality(skipped) \in Nat
    BY MessagesFinite, FS_Subset, FS_CardinalityType DEF IInv, TypeOK
  <2> QED
    BY <2>1, <2>2, <2>4, <2>5, <2>6 DEF DoneOnce
<1> QED
  BY <1>1, <1>2, <1>3, <1>4, <1>5, <1>6, <1>7 DEF Next, DealMsg

\* In terms of the sequence of what is in hand and queued.
LEMMA FifoFromNumbers ==
  ASSUME IInv, Numbering, DoneOnce
  PROVE  FifoOnce
<1> DEFINE rest == InHand \o msgQue
           hand == IF wpc = "taken" THEN 1 ELSE 0
<1>1. InHand \in Seq(Message) /\ Len(InHand) = hand
      /\ (wpc = "taken" => InHand[1] = msgNode)
  BY DEF InHand, IInv, TakenIsMessage
<1>2. msgQue \in Seq(Message) /\ Len(msgQue) \in Nat
  BY LenProperties DEF IInv, TypeOK
<1>3. Len(rest) = hand + Len(msgQue)
      /\ \A i \in 1 .. hand + Len(msgQue) :
           rest[i] = IF i <= hand THEN InHand[i] ELSE msgQue[i - hand]
  BY <1>1, <1>2, ConcatProperties
<1>4. posted - Len(rest) = Done
  BY <1>2, <1>3 DEF Done, IInv, TypeOK
<1>5. ASSUME NEW i \in 1 .. Len(rest) PROVE rest[i][1] = Done + i
  <2>1. CASE wpc = "taken"
    <3>1. hand = 1 /\ InHand[1] = msgNode /\ posted \in Nat
      BY <1>1, <2>1, QueueAssumption DEF IInv, TypeOK
    <3>2. Done = posted - Len(msgQue) - 1
      BY <2>1 DEF Done
    <3>3. CASE i = 1
      <4>1. rest[i] = msgNode
        BY <1>2, <1>3, <3>1, <3>3
      <4> QED
        BY <1>2, <2>1, <3>1, <3>2, <3>3, <4>1 DEF Numbering
    <3>4. CASE i # 1
      <4>1. rest[i] = msgQue[i - 1] /\ i - 1 \in 1 .. Len(msgQue)
        BY <1>2, <1>3, <3>1, <3>4
      <4>2. msgQue[i - 1][1] = posted - Len(msgQue) + (i - 1)
        BY <4>1 DEF Numbering
      <4> QED
        BY <1>2, <3>1, <3>2, <4>1, <4>2
    <3> QED
      BY <3>3, <3>4
  <2>2. CASE wpc # "taken"
    BY <1>1, <1>2, <1>3, <2>2 DEF Numbering, Done, IInv, TypeOK
  <2> QED
    BY <2>1, <2>2
<1> HIDE DEF rest
<1> QED
  BY <1>4, <1>5 DEF rest, FifoOnce, DoneOnce, CalledNumbers, SkippedNumbers

LEMMA FifoInitially == Init => Numbering /\ DoneOnce
<1> SUFFICES ASSUME Init PROVE Numbering /\ DoneOnce
  OBVIOUS
<1>1. Numbering
  BY DEF Init, Numbering
<1>2. Len(called) = 0 /\ Len(msgQue) = 0
  BY DEF Init
<1>3. Done = 0 /\ CalledNumbers = {} /\ SkippedNumbers = {}
  <2>1. Done = 0
    <3>1. posted = 0 /\ wpc # "taken"
      BY DEF Init
    <3>2. Done = posted - Len(msgQue) - 0
      BY <3>1 DEF Done
    <3> QED
      BY <1>2, <3>1, <3>2
  <2>2. CalledNumbers = {}
    BY <1>2 DEF CalledNumbers
  <2>3. SkippedNumbers = {}
    BY DEF Init, SkippedNumbers
  <2> QED
    BY <2>1, <2>2, <2>3
<1>4. Cardinality(skipped) = 0
  BY FS_EmptySet DEF Init
<1>5. \A i, j \in 1 .. Len(called) : i < j => called[i][1] < called[j][1]
  BY <1>2
<1> QED
  BY <1>1, <1>2, <1>3, <1>4, <1>5 DEF DoneOnce

\* For any number of posters and posts, each message posted is handed to its
\* callback or skipped once, in the order of posting, although deal_msg_()
\* pops it before and whatever a callback does.
THEOREM EachMessageOnce == Spec => []FifoOnce
<1>1. IInv /\ Numbering /\ DoneOnce /\ [Next]_vars => (Numbering /\ DoneOnce)'
  BY NumberingStep, DoneOnceStep
<1>2. Spec => [](Numbering /\ DoneOnce)
  BY <1>1, FifoInitially, Always, PTL DEF Spec
<1>3. IInv /\ Numbering /\ DoneOnce => FifoOnce
  BY FifoFromNumbers
<1> QED
  BY <1>2, <1>3, Always, PTL

-----------------------------------------------------------------------------
\* The end of a server leaves the queue alone: what main(), the signals, the
\* I/O threads and the clients do is a stutter of LogicQueue, and what the
\* posters and the worker do while the process runs is a step of it.
LEMMA QueueStep == QuitNext => [Next]_vars
<1> SUFFICES ASSUME QuitNext
             PROVE  [Next]_vars
  OBVIOUS
<1>1. CASE Signal
  BY <1>1 DEF Signal, vars
<1>2. CASE Quit
  <2>1. CASE Register \/ SignalHandler \/ TestFlag \/ Enter \/ Exit
    BY <2>1 DEF Register, SignalHandler, TestFlag, Enter, Exit, vars
  <2>2. CASE CStyleStop \/ AsioStop \/ MainReturns
    BY <2>2 DEF CStyleStop, AsioStop, MainReturns, vars
  <2>3. CASE \E p \in Poster : RunReturns(p)
    BY <2>3 DEF RunReturns, vars
  <2> QED
    BY <1>2, <2>1, <2>2, <2>3 DEF Quit
<1>3. CASE WakeSpuriously
  BY <1>3 DEF WakeSpuriously, vars
<1>4. CASE Work \/ SpuriousWakeup
  BY <1>4 DEF Work, Next
<1>5. ASSUME NEW p \in Poster, Post(p) \/ ClientConnects(p) \/ ClientLeaves(p)
      PROVE  [Next]_vars
  <2>1. CASE Post(p)
    BY <2>1 DEF Post, Next
  <2>2. CASE ClientConnects(p) \/ ClientLeaves(p)
    BY <2>2 DEF ClientConnects, ClientLeaves, vars
  <2> QED
    BY <1>5, <2>1, <2>2
<1> QED
  BY <1>1, <1>2, <1>3, <1>4, <1>5 DEF QuitNext

\* The servers S08, S09 and S10 use LogicQueue as it is specified, however
\* their main() is told to stop.
THEOREM QueueInServer == QuitSpec => Spec
<1>1. QuitInit => Init
  BY DEF QuitInit
<1>2. [QuitNext]_allVars => [Next]_vars
  BY QueueStep DEF allVars, vars
<1> QED
  BY <1>1, <1>2, PTL DEF QuitSpec, Spec

\* Its types, that its worker never sleeps on messages nobody is about to
\* announce, and that each message is handled once and in order hold in the
\* servers too.
THEOREM ServerQueueSafe == QuitSpec => [](TypeOK /\ NoSleepOnWork /\ FifoOnce)
<1>1. IInv => TypeOK /\ NoSleepOnWork
  BY DEF IInv
<1> QED
  BY <1>1, Always, EachMessageOnce, QueueInServer, PTL
=============================================================================
