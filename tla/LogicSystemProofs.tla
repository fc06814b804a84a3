------------------------- MODULE LogicSystemProofs --------------------------
(***************************************************************************)
(* The safety properties of LogicSystem, for any number of posts.          *)
(***************************************************************************)
EXTENDS LogicSystem, SequenceTheorems, TLAPS

\* TypeOK in two parts: those of its variables that are Boolean, and the rest.
TypeFlags == bStop \in BOOLEAN /\ missed \in BOOLEAN

TypeData ==
  /\ msgQue \in Seq(Message)
  /\ wpc \in Holding \cup NotHolding
  /\ dpc \in StopPC
  /\ posted \in 0 .. MaxPosts
  /\ called \in Seq(Message)
  /\ retired \in Seq(Message)

LEMMA TypeParts == TypeOK <=> TypeFlags /\ TypeData
BY Zenon DEF TypeOK, TypeFlags, TypeData

LEMMA TypeFlagsStep ==
  ASSUME TypeFlags, [Next]_vars
  PROVE  TypeFlags'
<1> USE DEF TypeFlags
<1>1. ASSUME NEW k \in Kind, Post(k) PROVE TypeFlags'
  BY <1>1 DEF Post
<1>2. CASE DealMsg \/ SpuriousWakeup
  BY <1>2 DEF DealMsg, Lock, Test, Block, Relock, ReadStop, SkipUnknown,
       CallBack, CallBackThrows, Pop, Exit, SpuriousWakeup
<1>3. CASE DestructorStop
  BY <1>3 DEF DestructorStop
<1>4. CASE DestructorNotify
  BY <1>4 DEF DestructorNotify
<1>5. CASE DestructorJoin
  BY <1>5 DEF DestructorJoin
<1>6. CASE UNCHANGED vars
  BY <1>6 DEF vars
<1> QED
  BY <1>1, <1>2, <1>3, <1>4, <1>5, <1>6 DEF Next

LEMMA TypeDataStep ==
  ASSUME TypeData, [Next]_vars
  PROVE  TypeData'
<1> USE DEF TypeData, Holding, NotHolding, StopPC
<1>1. ASSUME NEW k \in Kind, Post(k) PROVE TypeData'
  <2>1. posted' \in 1 .. MaxPosts
    BY <1>1, LogicAssumption DEF Post
  <2>2. <<posted', k>> \in Message
    BY <2>1 DEF Message
  <2> QED
    BY <1>1, <2>1, <2>2, AppendProperties DEF Post, NotifyPosted
<1>2. CASE Lock \/ Test \/ Block \/ Relock \/ ReadStop \/ SpuriousWakeup \/ Exit
  BY <1>2 DEF Lock, Test, Block, Relock, ReadStop, SpuriousWakeup, Exit, Goto
<1>f. ASSUME msgQue # <<>>
      PROVE  /\ Front \in Message
             /\ Tail(msgQue) \in Seq(Message)
             /\ Append(retired, Front) \in Seq(Message)
             /\ Append(called, Front) \in Seq(Message)
  <2>1. Front \in Message /\ Tail(msgQue) \in Seq(Message)
    BY <1>f, HeadTailProperties DEF Front
  <2> QED
    BY <2>1, AppendProperties
<1>3. CASE SkipUnknown("handle", "lock") \/ SkipUnknown("drain", "drain")
  BY <1>3, <1>f DEF SkipUnknown, Goto
<1>4. CASE CallBack("handle", "pop") \/ CallBack("drain", "drainPop")
  BY <1>4, <1>f DEF CallBack, Goto
<1>5. CASE CallBackThrows("handle") \/ CallBackThrows("drain")
  BY <1>5, <1>f DEF CallBackThrows, Goto
<1>6. CASE Pop("pop", "lock") \/ Pop("drainPop", "drain")
  BY <1>6, <1>f DEF Pop, Goto
<1>7. CASE DestructorStop \/ DestructorNotify \/ DestructorJoin
  BY <1>7 DEF DestructorStop, DestructorNotify, Notify, DestructorJoin
<1>8. CASE UNCHANGED vars
  BY <1>8 DEF vars
<1> QED
  BY <1>1, <1>2, <1>3, <1>4, <1>5, <1>6, <1>7, <1>8 DEF Next, DealMsg

\* Every variable keeps its type.
THEOREM TypeCorrect == Spec => []TypeOK
<1>1. Init => TypeOK
  <2>1. Init => TypeFlags
    BY DEF Init, TypeFlags
  <2>2. Init => TypeData
    BY EmptySeq, LogicAssumption
       DEF Init, TypeData, Holding, NotHolding, StopPC
  <2> QED
    BY <2>1, <2>2, TypeParts
<1>2. TypeOK /\ [Next]_vars => TypeOK'
  <2>1. (TypeFlags /\ TypeData)' => TypeOK'
    BY Zenon DEF TypeOK, TypeFlags, TypeData
  <2> QED
    BY <2>1, TypeParts, TypeFlagsStep, TypeDataStep
<1> QED
  BY <1>1, <1>2, PTL DEF Spec
-----------------------------------------------------------------------------
(***************************************************************************)
(* What the worker has seen at each place of deal_msg_(), and how far the  *)
(* destructor is.  This is what makes the properties about sleeping and    *)
(* leaving inductive: a worker that is about to block, or blocked, has an  *)
(* empty queue in front of it, because a post needs mutex_ (so it cannot   *)
(* come before the blocking) and wakes it (so it does not stay blocked).   *)
(***************************************************************************)
Seen ==
  /\ wpc \in {"handle", "pop", "drainPop"} => msgQue # <<>>
  /\ wpc = "go" => msgQue # <<>> \/ bStop = TRUE
  /\ wpc \in {"block", "wait"} => msgQue = <<>>
  /\ wpc \in {"drain", "drainPop", "exited"} => bStop = TRUE
  /\ wpc = "exited" => msgQue = <<>>
  /\ dpc = "running" => bStop = FALSE
  /\ dpc \in {"notify", "join"} => bStop = TRUE
  /\ dpc = "join" /\ wpc \in {"block", "wait"} => missed = TRUE

LEMMA SeenStep ==
  ASSUME TypeData, Seen, [Next]_vars
  PROVE  Seen'
<1> USE DEF Seen
<1>1. ASSUME NEW k \in Kind, Post(k) PROVE Seen'
  <2>1. /\ msgQue' # <<>>
        /\ Len(msgQue') >= 1
    <3>1. <<posted + 1, k>> \in Message
      BY <1>1, LogicAssumption DEF Post, TypeData, Message
    <3> QED
      BY <1>1, <3>1, AppendProperties, LenProperties DEF Post, TypeData
  <2> QED
    BY <1>1, <2>1 DEF Post, NotifyPosted, MutexFree, NotHolding
<1>2. CASE Lock \/ Block \/ SpuriousWakeup \/ Relock
  BY <1>2 DEF Lock, Block, SpuriousWakeup, Relock, Goto
<1>3. CASE Test
  BY <1>3 DEF Test, Goto, Predicate
<1>4. CASE ReadStop
  BY <1>4 DEF ReadStop, Goto
<1>5. CASE SkipUnknown("handle", "lock") \/ SkipUnknown("drain", "drain")
  BY <1>5 DEF SkipUnknown, Goto
<1>6. CASE CallBack("handle", "pop") \/ CallBack("drain", "drainPop")
  BY <1>6 DEF CallBack, Goto
<1>7. CASE CallBackThrows("handle") \/ CallBackThrows("drain")
  BY <1>7 DEF CallBackThrows, Goto
<1>8. CASE Pop("pop", "lock") \/ Pop("drainPop", "drain")
  BY <1>8 DEF Pop, Goto
<1>9. CASE Exit
  BY <1>9 DEF Exit, Goto, Drained
<1>10. CASE DestructorStop
  BY <1>10 DEF DestructorStop
<1>11. CASE DestructorNotify
  BY <1>11 DEF DestructorNotify, Notify
<1>12. CASE DestructorJoin
  BY <1>12 DEF DestructorJoin
<1>13. CASE UNCHANGED vars
  BY <1>13 DEF vars
<1> QED
  BY <1>1, <1>2, <1>3, <1>4, <1>5, <1>6, <1>7, <1>8, <1>9, <1>10, <1>11,
     <1>12, <1>13 DEF Next, DealMsg

LEMMA SeenAlways == Spec => []Seen
<1>1. Init => Seen
  BY DEF Init, Seen
<1>2. TypeOK /\ Seen /\ [Next]_vars => Seen'
  BY TypeParts, SeenStep
<1> QED
  BY <1>1, <1>2, TypeCorrect, PTL DEF Spec

\* The worker takes a front message only when there is one.
THEOREM FrontAlwaysExists == Spec => []FrontExists
<1>1. Seen => FrontExists
  BY DEF Seen, FrontExists
<1> QED
  BY <1>1, SeenAlways, PTL

\* The worker never sleeps while messages wait.
THEOREM NeverSleepsOnWork == Spec => []NoSleepOnWork
<1>1. Seen => NoSleepOnWork
  BY DEF Seen, NoSleepOnWork
<1> QED
  BY <1>1, SeenAlways, PTL

\* The worker leaves only after the stop and with an empty queue.
THEOREM AlwaysDrained == Spec => []ExitDrained
<1>1. Seen => ExitDrained
  BY DEF Seen, ExitDrained
<1> QED
  BY <1>1, SeenAlways, PTL

\* Nothing but the unlocked notify can leave the destructor in join().
THEOREM JoinHangsOnlyIfMissed == Spec => []SleepsInJoinOnlyIfMissed
<1>1. Seen => SleepsInJoinOnlyIfMissed
  BY DEF Seen, SleepsInJoinOnlyIfMissed
<1> QED
  BY <1>1, SeenAlways, PTL
-----------------------------------------------------------------------------
(***************************************************************************)
(* Exactly once and in order.  Every step leaves the queues alone, pushes  *)
(* one message at the back, or moves the front message to `retired'.       *)
(***************************************************************************)
LEMMA FifoPush ==
  ASSUME TypeData, FifoOnce, NEW k \in Kind, Post(k)
  PROVE  FifoOnce'
<1> DEFINE m == <<posted + 1, k>>
<1>1. m \in Message /\ m[1] = posted + 1
  BY LogicAssumption DEF Post, TypeData, Message
<1>2. /\ Len(msgQue') = Len(msgQue) + 1
      /\ \A i \in 1 .. Len(msgQue) : msgQue'[i] = msgQue[i]
      /\ msgQue'[Len(msgQue) + 1] = m
  BY <1>1, AppendProperties DEF Post, TypeData
<1>3. Len(msgQue) \in Nat /\ Len(retired) \in Nat
  BY LenProperties DEF TypeData
<1>4. posted' = posted + 1 /\ retired' = retired /\ posted \in Nat
  BY LogicAssumption DEF Post, TypeData
<1> HIDE DEF m
<1>c. Len(retired) + Len(msgQue) = posted
  BY DEF FifoOnce
<1>5. Len(retired') + Len(msgQue') = posted'
  BY <1>2, <1>3, <1>4, <1>c
<1>6. \A i \in 1 .. Len(msgQue') : msgQue'[i][1] = Len(retired') + i
  <2>1. \A i \in 1 .. Len(msgQue) : msgQue[i][1] = Len(retired) + i
    BY DEF FifoOnce
  <2>2. ASSUME NEW i \in 1 .. Len(msgQue')
        PROVE  msgQue'[i][1] = Len(retired') + i
    <3>1. CASE i \in 1 .. Len(msgQue)
      BY <1>2, <1>4, <2>1, <3>1
    <3>2. CASE i = Len(msgQue) + 1
      BY <1>1, <1>2, <1>3, <1>4, <1>c, <3>2
    <3> QED
      BY <1>2, <1>3, <2>2, <3>1, <3>2
  <2> QED
    BY <2>2
<1> QED
  BY <1>4, <1>5, <1>6 DEF FifoOnce

LEMMA FifoMove ==
  ASSUME TypeData, FifoOnce, msgQue # <<>>,
         msgQue' = Tail(msgQue), retired' = Append(retired, Front),
         posted' = posted
  PROVE  FifoOnce'
<1>1. /\ Front \in Message
      /\ Len(msgQue') = Len(msgQue) - 1
      /\ \A i \in 1 .. Len(msgQue') : msgQue'[i] = msgQue[i + 1]
  BY HeadTailProperties DEF TypeData, Front
<1>2. /\ Len(retired') = Len(retired) + 1
      /\ \A i \in 1 .. Len(retired) : retired'[i] = retired[i]
      /\ retired'[Len(retired) + 1] = Front
  BY <1>1, AppendProperties DEF TypeData
<1>3. Len(msgQue) \in Nat \ {0} /\ Len(retired) \in Nat
  BY EmptySeq, LenProperties DEF TypeData
<1>4. Front[1] = Len(retired) + 1
  BY <1>3 DEF Front, FifoOnce
<1> QED
  BY <1>1, <1>2, <1>3, <1>4 DEF FifoOnce

LEMMA FifoStep ==
  ASSUME TypeData, FifoOnce, [Next]_vars
  PROVE  FifoOnce'
<1>1. ASSUME NEW k \in Kind, Post(k) PROVE FifoOnce'
  BY <1>1, FifoPush
<1>2. CASE \/ SkipUnknown("handle", "lock") \/ SkipUnknown("drain", "drain")
           \/ Pop("pop", "lock") \/ Pop("drainPop", "drain")
  BY <1>2, FifoMove DEF SkipUnknown, Pop
<1>3. CASE UNCHANGED <<msgQue, posted, retired>>
  BY <1>3 DEF FifoOnce
<1>4. CASE \/ Lock \/ Test \/ Block \/ Relock \/ ReadStop \/ Exit
           \/ SpuriousWakeup
           \/ CallBack("handle", "pop") \/ CallBack("drain", "drainPop")
           \/ CallBackThrows("handle") \/ CallBackThrows("drain")
           \/ DestructorStop \/ DestructorNotify \/ DestructorJoin
           \/ UNCHANGED vars
  BY <1>3, <1>4
     DEF Lock, Test, Block, Relock, ReadStop, Exit, SpuriousWakeup, CallBack,
         CallBackThrows, DestructorStop, DestructorNotify, DestructorJoin, vars
<1> QED
  BY <1>1, <1>2, <1>4 DEF Next, DealMsg

\* What was popped and what is queued are 1, 2, ... up to the last post.
THEOREM FifoAlways == Spec => []FifoOnce
<1>1. Init => FifoOnce
  BY EmptySeq DEF Init, FifoOnce
<1>2. TypeOK /\ FifoOnce /\ [Next]_vars => FifoOnce'
  BY TypeParts, FifoStep
<1> QED
  BY <1>1, <1>2, TypeCorrect, PTL DEF Spec
-----------------------------------------------------------------------------
(***************************************************************************)
(* Callbacks.  Between the callback and the pop the front message stays    *)
(* where it is, because posts only add at the back.                        *)
(***************************************************************************)
BegunSeen == Begun => msgQue # <<>> /\ Front[2] # "unknown"

LEMMA ElemsAppend ==
  ASSUME NEW S, NEW s \in Seq(S), NEW e \in S
  PROVE  Elems(Append(s, e)) = Elems(s) \cup {e}
<1>1. /\ Len(Append(s, e)) = Len(s) + 1
      /\ \A i \in 1 .. Len(s) : Append(s, e)[i] = s[i]
      /\ Append(s, e)[Len(s) + 1] = e
      /\ Len(s) \in Nat
  BY AppendProperties, LenProperties
<1>2. 1 .. Len(s) + 1 = (1 .. Len(s)) \cup {Len(s) + 1}
  BY <1>1
<1> QED
  BY <1>1, <1>2 DEF Elems

\* Callback steps, and all others that leave called, retired and the front.
LEMMA CallKept ==
  ASSUME CalledOnce, BegunSeen, Begun' = Begun,
         UNCHANGED <<called, retired>>,
         Begun => msgQue' # <<>> /\ Head(msgQue') = Head(msgQue)
  PROVE  CalledOnce' /\ BegunSeen'
<1>1. Elems(called') = Elems(called) /\ Elems(retired') = Elems(retired)
  BY DEF Elems
<1>2. Begun => Front' = Front
  BY DEF Front
<1>3. Elems(called') = WithCallback(Elems(retired'))
                         \cup (IF Begun' THEN {Front'} ELSE {})
  BY <1>1, <1>2 DEF CalledOnce
<1> QED
  BY <1>2, <1>3 DEF CalledOnce, BegunSeen

LEMMA CallBegins ==
  ASSUME TypeData, FifoOnce, CalledOnce, ~Begun, Begun', msgQue # <<>>,
         Front[2] # "unknown", called' = Append(called, Front),
         UNCHANGED <<msgQue, retired>>
  PROVE  CalledOnce' /\ BegunSeen'
<1>1. Front \in Message /\ Front[1] = Len(retired) + 1
  <2>1. Len(msgQue) \in Nat \ {0} /\ Len(retired) \in Nat
    BY EmptySeq, LenProperties DEF TypeData
  <2>2. \A i \in 1 .. Len(msgQue) : msgQue[i][1] = Len(retired) + i
    BY DEF FifoOnce
  <2> QED
    BY <2>1, <2>2, HeadTailProperties DEF TypeData, Front
<1>2. \A m \in Elems(called) : m[1] < Front[1]
  <2>1. \A i \in 1 .. Len(retired) : retired[i][1] = i
    BY DEF FifoOnce
  <2>2. Elems(called) \subseteq Elems(retired)
    BY DEF CalledOnce, WithCallback
  <2>3. Len(retired) \in Nat
    BY LenProperties DEF TypeData
  <2> QED
    BY <1>1, <2>1, <2>2, <2>3 DEF Elems
<1>3. /\ Len(called') = Len(called) + 1
      /\ \A i \in 1 .. Len(called) : called'[i] = called[i]
      /\ called'[Len(called) + 1] = Front
      /\ Len(called) \in Nat
  BY <1>1, AppendProperties, LenProperties DEF TypeData
<1>4. ASSUME NEW i \in 1 .. Len(called'), NEW j \in 1 .. Len(called'), i < j
      PROVE  called'[i][1] < called'[j][1]
  <2>1. i \in 1 .. Len(called) /\ called'[i] = called[i]
    BY <1>3, <1>4
  <2>2. CASE j \in 1 .. Len(called)
    BY <1>3, <1>4, <2>1, <2>2 DEF CalledOnce
  <2>3. CASE j = Len(called) + 1
    BY <1>2, <1>3, <2>1, <2>3 DEF Elems
  <2> QED
    BY <1>3, <2>2, <2>3
<1>5. Elems(called') = Elems(called) \cup {Front}
  BY <1>1, ElemsAppend DEF TypeData
<1>6. Front' = Front /\ Elems(retired') = Elems(retired)
  BY DEF Front, Elems
<1>7. Elems(called') = WithCallback(Elems(retired')) \cup {Front'}
  BY <1>5, <1>6 DEF CalledOnce
<1> QED
  BY <1>4, <1>6, <1>7 DEF CalledOnce, BegunSeen

LEMMA CallEnds ==
  ASSUME TypeData, CalledOnce, BegunSeen, msgQue # <<>>, ~Begun',
         \/ Begun
         \/ ~Begun /\ Front[2] = "unknown",
         retired' = Append(retired, Front), called' = called
  PROVE  CalledOnce' /\ BegunSeen'
<1>1. Front \in Message
  BY HeadTailProperties DEF TypeData, Front
<1>2. Elems(retired') = Elems(retired) \cup {Front}
  BY <1>1, ElemsAppend DEF TypeData
<1>3. Elems(called') = WithCallback(Elems(retired'))
  BY <1>2 DEF CalledOnce, BegunSeen, WithCallback
<1>4. \A i, j \in 1 .. Len(called') : i < j => called'[i][1] < called'[j][1]
  BY DEF CalledOnce
<1> QED
  BY <1>3, <1>4 DEF CalledOnce, BegunSeen

LEMMA CallStep ==
  ASSUME TypeData, Seen, FifoOnce, CalledOnce, BegunSeen, [Next]_vars
  PROVE  CalledOnce' /\ BegunSeen'
<1>1. ASSUME NEW k \in Kind, Post(k) PROVE CalledOnce' /\ BegunSeen'
  BY <1>1, CallKept
     DEF Post, NotifyPosted, MutexFree, NotHolding, Begun
<1>2. CASE \/ Lock \/ Test \/ Block \/ Relock \/ ReadStop \/ Exit
           \/ SpuriousWakeup
  BY <1>2, CallKept
     DEF Lock, Test, Block, Relock, ReadStop, Exit, SpuriousWakeup, Goto,
         Alive, Begun, BegunSeen
<1>3. CASE \/ DestructorStop \/ DestructorNotify \/ DestructorJoin
           \/ UNCHANGED vars
  BY <1>3, CallKept
     DEF DestructorStop, DestructorNotify, Notify, DestructorJoin, vars,
         Begun, BegunSeen
<1>4. CASE CallBack("handle", "pop") \/ CallBack("drain", "drainPop")
  BY <1>4, CallBegins DEF CallBack, Goto, Alive, Begun
<1>5. CASE CallBackThrows("handle") \/ CallBackThrows("drain")
  BY <1>5, CallBegins DEF CallBackThrows, Goto, Alive, Begun
<1>6. CASE SkipUnknown("handle", "lock") \/ SkipUnknown("drain", "drain")
  BY <1>6, CallEnds DEF SkipUnknown, Goto, Alive, Begun
<1>7. CASE Pop("pop", "lock") \/ Pop("drainPop", "drain")
  BY <1>7, CallEnds DEF Pop, Goto, Alive, Begun
<1> QED
  BY <1>1, <1>2, <1>3, <1>4, <1>5, <1>6, <1>7 DEF Next, DealMsg

\* Each message with a callback has it called exactly once, in order.
THEOREM CalledOnceAlways == Spec => []CalledOnce
<1>1. Init => CalledOnce /\ BegunSeen
  <2>1. Init => called = <<>> /\ retired = <<>> /\ ~Begun
    BY DEF Init, Begun
  <2>2. Len(<<>>) = 0
    BY EmptySeq
  <2> QED
    BY <2>1, <2>2 DEF CalledOnce, BegunSeen, Elems, WithCallback
<1>2. /\ TypeOK /\ Seen /\ FifoOnce
      /\ CalledOnce /\ BegunSeen /\ [Next]_vars
      => (CalledOnce /\ BegunSeen)'
  BY TypeParts, CallStep
<1> QED
  BY <1>1, <1>2, TypeCorrect, SeenAlways, FifoAlways, PTL DEF Spec
=============================================================================
