------------------------ MODULE StrandServerProofs --------------------------
(***************************************************************************)
(* What holds of the server with a pool of threads (StrandServer) for any  *)
(* clients, threads, limit and number of requests.  The inductive          *)
(* invariant adds to the types                                             *)
(*   - that a session with an outstanding write has something to send,     *)
(*   - for whom a thread may be inside remove_session(),                   *)
(*   - where every session is, also while it is about to be inserted or    *)
(*     erased: the map as it will be when all threads are out of it,       *)
(*   - the numbers of the requests on their way from the client through    *)
(*     the read in progress and msgQue to the logic thread,                *)
(*   - and those of the replies on their way back.                         *)
(***************************************************************************)
EXTENDS StrandServer, SequenceTheorems, TLAPS

WritersHaveReplies == \A c \in writing : out[c] # <<>>

\* A thread is inside remove_session(c).
Erasing(c) ==
  \E t \in Thread : handler[t] \in {<<"erase", c>>, <<"eraseGoOn", c>>}

\* A thread is in accept_callback_ for session c, not yet inserted.
Pending(c) ==
  \E t \in Thread : handler[t] \in {<<"started", c>>, <<"insert", c>>}

\* One thread at a time is on the strand of c inside remove_session(c).
OneOnStrand ==
  \A t, u \in Thread, c \in Client :
    {handler[t], handler[u]} \subseteq {<<"erase", c>>, <<"eraseGoOn", c>>} =>
      t = u

\* Only a session that was closed, or whose header was oversized, is erased.
ErasersKnown ==
  \A t \in Thread, c \in Client :
    /\ handler[t] = <<"eraseGoOn", c>> => rpc[c] = "inHead" /\ c \in oversized
    /\ handler[t] = <<"erase", c>> => c \notin open

MapAhead ==
  ~overlapped =>
    \A c \in Client : rpc[c] # "none" =>
      /\ c \in open => c \in sessions \/ c \in oversized \/ Pending(c)
      /\ (rpc[c] = "done" \/ c \in oversized) /\ (c \in sessions \/ Pending(c))
           => c \in raced \/ Erasing(c)

\* A session that read an oversized header has been started.
OversizedStarted == \A c \in oversized : rpc[c] # "none"

\* A request has been read, or part of it, and not been posted.
InHand == {"gotHead", "inHead", "body", "gotBody"}

\* The requests the session has not read follow the one read last.
InboundNumbered(c) ==
  /\ \A i \in 1 .. Len(inbound[c]) : inbound[c][i][1] = reading[c][1] + i
  /\ reading[c][1] + Len(inbound[c]) = begun[c]
  /\ rpc[c] \in InHand => reading[c] \in Request

\* n requests of c have been posted.
PostedIs(c, n) ==
  /\ rpc[c] \in {"none", "head"} => n = reading[c][1]
  /\ rpc[c] \in InHand => n = reading[c][1] - 1

QueuedNumbers(c) == {msgQue[i][2][1] : i \in Queued(c)}

\* Those handled and those queued are the requests posted, in their order.
QueueNumbered(c) ==
  /\ \A n \in 1 .. Len(handled[c]) : handled[c][n][1] = n
  /\ \A i, j \in Queued(c) : i < j => msgQue[i][2][1] < msgQue[j][2][1]
  /\ \E n \in Len(handled[c]) .. MaxRequests :
       QueuedNumbers(c) = Len(handled[c]) + 1 .. n /\ PostedIs(c, n)

Increasing(s) == \A i, j \in 1 .. Len(s) : i < j => s[i] < s[j]
Elements(s) == {s[i] : i \in 1 .. Len(s)}

\* Those received and those not out yet are the replies owed, in their order.
Replies(c) == got[c] \o Unsent(c)

RepliesNumbered(c) ==
  /\ \A n \in 1 .. MaxRequests : <<c, n>> \in dropped => n <= Len(handled[c])
  /\ peer[c] # "gone" =>
       Increasing(Replies(c)) /\ Elements(Replies(c)) = Owed(c)

Ordered ==
  \A c \in Client : InboundNumbered(c) /\ QueueNumbered(c) /\ RepliesNumbered(c)

Handled == OneOnStrand /\ ErasersKnown /\ MapAhead /\ OversizedStarted

\* A client that has not connected has no session and has sent nothing.
Newcomers == \A c \in Client : peer[c] = "new" => rpc[c] = "none" /\ begun[c] = 0

IInv == TypeOK /\ WritersHaveReplies /\ Handled /\ Newcomers /\ Ordered
-----------------------------------------------------------------------------
(***************************************************************************)
(* Sequences.                                                              *)
(***************************************************************************)
\* A frame that goes from the front of one sequence to the end of another
\* leaves their concatenation alone.
LEMMA MoveFront ==
  ASSUME NEW S, NEW s \in Seq(S), NEW t \in Seq(S), t # <<>>
  PROVE  Append(s, Head(t)) \o Tail(t) = s \o t
<1> DEFINE h == Head(t)
           u == Tail(t)
<1>1. /\ h \in S /\ u \in Seq(S) /\ Len(u) = Len(t) - 1
      /\ \A i \in 1 .. Len(u) : u[i] = t[i + 1]
      /\ h = t[1] /\ Len(t) \in Nat \ {0} /\ Len(s) \in Nat
  BY HeadTailProperties, LenProperties, EmptySeq
<1> HIDE DEF h, u
<1> DEFINE a == Append(s, h)
<1>2. /\ a \in Seq(S) /\ Len(a) = Len(s) + 1
      /\ \A i \in 1 .. Len(s) : a[i] = s[i]
      /\ a[Len(s) + 1] = h
  BY <1>1, AppendProperties
<1> HIDE DEF a
<1>3. /\ a \o u \in Seq(S) /\ Len(a \o u) = Len(s) + Len(t)
      /\ \A i \in 1 .. Len(s) + Len(t) :
           (a \o u)[i] = IF i <= Len(s) + 1 THEN a[i] ELSE u[i - (Len(s) + 1)]
  <2>1. Len(a) + Len(u) = Len(s) + Len(t)
    BY <1>1, <1>2
  <2>2. /\ a \o u \in Seq(S) /\ Len(a \o u) = Len(a) + Len(u)
        /\ \A i \in 1 .. Len(a) + Len(u) :
             (a \o u)[i] = IF i <= Len(a) THEN a[i] ELSE u[i - Len(a)]
    BY <1>1, <1>2, ConcatProperties
  <2> QED
    BY <1>2, <2>1, <2>2
<1>4. /\ s \o t \in Seq(S) /\ Len(s \o t) = Len(s) + Len(t)
      /\ \A i \in 1 .. Len(s) + Len(t) :
           (s \o t)[i] = IF i <= Len(s) THEN s[i] ELSE t[i - Len(s)]
  BY ConcatProperties
<1>5. ASSUME NEW i \in 1 .. Len(s) + Len(t)
      PROVE  (a \o u)[i] = (s \o t)[i]
  <2>1. CASE i <= Len(s)
    BY <1>1, <1>2, <1>3, <1>4, <2>1
  <2>2. CASE i = Len(s) + 1
    BY <1>1, <1>2, <1>3, <1>4, <2>2
  <2>3. CASE i > Len(s) + 1
    <3>1. i - (Len(s) + 1) \in 1 .. Len(u)
      BY <1>1, <2>3
    <3>2. u[i - (Len(s) + 1)] = t[i - (Len(s) + 1) + 1]
      BY <1>1, <3>1
    <3>3. i - (Len(s) + 1) + 1 = i - Len(s)
      BY <1>1
    <3> QED
      BY <1>1, <1>3, <1>4, <2>3, <3>2, <3>3
  <2>4. i <= Len(s) \/ i = Len(s) + 1 \/ i > Len(s) + 1
    BY <1>1
  <2> QED
    BY <2>1, <2>2, <2>3, <2>4
<1>6. a \o u = s \o t
  BY <1>3, <1>4, <1>5, SeqEqual
<1> QED
  BY <1>6 DEF a, h, u

LEMMA NumbersAreNaturals ==
  ASSUME NEW s \in Seq(1 .. MaxRequests) PROVE s \in Seq(Nat)
<1>1. 1 .. MaxRequests \subseteq Nat
  BY StrandAssumption
<1> QED
  BY <1>1, SeqMonotonic

LEMMA TailNotEmpty ==
  ASSUME NEW S, NEW s \in Seq(S), Len(s) > 1
  PROVE  Tail(s) # <<>>
<1> DEFINE u == Tail(s)
<1>1. u \in Seq(S) /\ Len(u) = Len(s) - 1 /\ Len(s) \in Nat
  BY HeadTailProperties, LenProperties
<1> HIDE DEF u
<1>2. Len(u) > 0
  BY <1>1
<1>3. u # <<>>
  BY <1>1, <1>2, EmptySeq
<1> QED
  BY <1>3 DEF u

LEMMA AppendToBoth ==
  ASSUME NEW S, NEW s \in Seq(S), NEW t \in Seq(S), NEW e \in S
  PROVE  s \o Append(t, e) = Append(s \o t, e)
<1>1. <<e>> \in Seq(S)
  OBVIOUS
<1>2. s \o t \in Seq(S)
  BY ConcatProperties
<1>3. s \o (t \o <<e>>) = (s \o t) \o <<e>>
  BY <1>1, ConcatAssociative
<1> QED
  BY <1>2, <1>3, AppendIsConcat

\* A sequence stays increasing when a number above all of its own is appended.
LEMMA AppendNext ==
  ASSUME NEW s \in Seq(Nat), NEW n \in Nat, Increasing(s),
         \A m \in Elements(s) : m < n
  PROVE  /\ Increasing(Append(s, n))
         /\ Elements(Append(s, n)) = Elements(s) \cup {n}
<1> DEFINE a == Append(s, n)
<1>1. /\ Len(a) = Len(s) + 1 /\ Len(s) \in Nat
      /\ \A i \in 1 .. Len(s) : a[i] = s[i]
      /\ a[Len(s) + 1] = n
  BY AppendProperties, LenProperties
<1> HIDE DEF a
<1>2. \A i \in 1 .. Len(s) : s[i] < n
  BY DEF Elements
<1>3. Increasing(a)
  <2> SUFFICES ASSUME NEW i \in 1 .. Len(a), NEW j \in 1 .. Len(a), i < j
               PROVE  a[i] < a[j]
    BY DEF Increasing
  <2>1. i \in 1 .. Len(s)
    BY <1>1
  <2>2. CASE j \in 1 .. Len(s)
    BY <1>1, <2>1, <2>2 DEF Increasing
  <2>3. CASE j = Len(s) + 1
    BY <1>1, <1>2, <2>1, <2>3
  <2> QED
    BY <1>1, <2>2, <2>3
<1>4. Elements(a) = Elements(s) \cup {n}
  <2>1. ASSUME NEW m \in Elements(a) PROVE m \in Elements(s) \cup {n}
    <3>1. PICK i \in 1 .. Len(s) + 1 : m = a[i]
      BY <1>1, <2>1 DEF Elements
    <3>2. i \in 1 .. Len(s) \/ i = Len(s) + 1
      BY <1>1
    <3> QED
      BY <1>1, <3>1, <3>2 DEF Elements
  <2>2. ASSUME NEW i \in 1 .. Len(s) PROVE s[i] \in Elements(a)
    BY <1>1, <2>2 DEF Elements
  <2>3. n \in Elements(a)
    BY <1>1 DEF Elements
  <2> QED
    BY <2>1, <2>2, <2>3 DEF Elements
<1> QED
  BY <1>3, <1>4 DEF a
-----------------------------------------------------------------------------
(***************************************************************************)
(* The types.                                                              *)
(***************************************************************************)
Inside == {"started", "insert", "erase", "eraseGoOn"}
Handlers == {Idle} \cup (Inside \X Client)

\* A thread that is inside something is there for a client.
LEMMA InsideTyped ==
  ASSUME TypeOK, NEW t \in Thread, handler[t][1] \in Inside
  PROVE  /\ handler[t][2] \in Client
         /\ handler[t] = <<handler[t][1], handler[t][2]>>
<1>1. handler[t] \in Handlers
  BY DEF TypeOK, Handlers, Inside
<1>2. handler[t] # Idle
  BY DEF Idle, Inside
<1>3. handler[t] \in Inside \X Client
  BY <1>1, <1>2 DEF Handlers
<1> QED
  BY <1>3

LEMMA EnterTyped ==
  ASSUME TypeOK, NEW t \in Thread, NEW what \in Inside, NEW c \in Client,
         Enter(t, what, c)
  PROVE  handler' \in [Thread -> Handlers] /\ overlapped' \in BOOLEAN
<1>1. <<what, c>> \in Handlers
  BY DEF Handlers
<1>2. handler \in [Thread -> Handlers]
  BY DEF TypeOK, Handlers, Inside
<1> QED
  BY <1>1, <1>2 DEF Enter, TypeOK

LEMMA ExitTyped ==
  ASSUME TypeOK, NEW t \in Thread, NEW S \in SUBSET Client, Exit(t, S)
  PROVE  /\ handler' \in [Thread -> Handlers]
         /\ overlapped' \in BOOLEAN
         /\ sessions' \subseteq Client
         /\ mpc' \in {mpc, "terminated"}
         /\ stopped' = stopped
<1>1. Idle \in Handlers
  BY DEF Handlers
<1>2. handler \in [Thread -> Handlers]
  BY DEF TypeOK, Handlers, Inside
<1>3. handler' \in [Thread -> Handlers]
  BY <1>1, <1>2 DEF Exit
<1> QED
  BY <1>3 DEF Exit, TypeOK

\* deal_msg_() takes the request r of client c from the front.
Handle(c, r) ==
  /\ msgQue # <<>>
  /\ msgQue[1] = <<c, r>>
  /\ msgQue' = Tail(msgQue)
  /\ handled' = [handled EXCEPT ![c] = Append(@, r)]
  /\ \/ r[2] \in {"known", "oversize"} /\ Reply(c, r[1])
     \/ r[2] \notin {"known", "oversize"} /\ UNCHANGED <<sendVars, dropped>>
  /\ mpc' \in {mpc, "terminated"}
  /\ UNCHANGED <<stopped, handler, mapVars, readVars, open, peerVars, got,
                 oversized>>

LEMMA HandleFront ==
  ASSUME TypeOK, LogicHandle
  PROVE  \E c \in Client, r \in Request : Handle(c, r)
<1>1. msgQue[1] \in Client \X Request /\ Head(msgQue) = msgQue[1]
  BY HeadTailProperties, EmptySeq DEF LogicHandle, TypeOK
<1>2. PICK c \in Client, r \in Request : msgQue[1] = <<c, r>>
  BY <1>1
<1>3. r = <<r[1], r[2]>>
  BY <1>2 DEF Request
<1>4. /\ Head(msgQue)[1] = c /\ Head(msgQue)[2][1] = r[1]
      /\ Head(msgQue)[2][2] = r[2]
  BY <1>1, <1>2
<1>5. handled' = [handled EXCEPT ![c] = Append(@, r)]
  BY <1>3, <1>4 DEF LogicHandle
<1>6. /\ \/ r[2] \in {"known", "oversize"} /\ Reply(c, r[1])
         \/ r[2] \notin {"known", "oversize"} /\ UNCHANGED <<sendVars, dropped>>
      /\ mpc' \in {mpc, "terminated"}
  BY <1>4 DEF LogicHandle
<1>7. Handle(c, r)
  BY <1>2, <1>5, <1>6 DEF LogicHandle, Handle
<1> QED
  BY <1>7
LEMMA TypeStep ==
  ASSUME TypeOK, WritersHaveReplies, Ordered, [Next]_vars
  PROVE  TypeOK' /\ WritersHaveReplies'
<1> DEFINE Keeps == TypeOK' /\ WritersHaveReplies'
           Types == /\ handler' \in [Thread -> Handlers]
                    /\ overlapped' \in BOOLEAN
<1> USE DEF WritersHaveReplies
<1>h. handler' \in [Thread -> Handlers] <=>
        handler' \in [Thread -> {Idle} \cup
                       ({"started", "insert", "erase", "eraseGoOn"} \X Client)]
  BY DEF Handlers, Inside
<1>1. ASSUME NEW c \in Client, Connect(c) \/ Leave(c) PROVE Keeps
  BY <1>1 DEF TypeOK, Connect, Leave, mainVars, mapVars, readVars, sendVars,
              logicVars
<1>2. ASSUME NEW c \in Client, NEW k \in Kind, WriteRequest(c, k) PROVE Keeps
  <2>1. /\ begun[c] + 1 \in 1 .. MaxRequests
        /\ begun' = [begun EXCEPT ![c] = @ + 1]
    BY <1>2, StrandAssumption DEF WriteRequest, TypeOK
  <2>2. Append(inbound[c], <<begun[c] + 1, k>>) \in Seq(Request)
    BY <2>1, AppendProperties DEF TypeOK, Request
  <2>3. /\ begun' \in [Client -> 0 .. MaxRequests]
        /\ inbound' \in [Client -> Seq(Request)]
    BY <1>2, <2>1, <2>2 DEF WriteRequest, TypeOK
  <2> QED
    BY <1>2, <2>3 DEF TypeOK, WriteRequest, mainVars, mapVars, sendVars,
                      logicVars
<1>3. ASSUME NEW t \in Thread, NEW c \in Client, AcceptStart(t, c) PROVE Keeps
  <2>1. handler' \in [Thread -> Handlers]
    BY <1>3 DEF AcceptStart, TypeOK, Handlers, Inside
  <2> QED
    BY <1>3, <1>h, <2>1 DEF TypeOK, AcceptStart, mainVars, mapVars, sendVars,
                            logicVars, peerVars
<1>4. ASSUME NEW t \in Thread, AcceptInsert(t) PROVE Keeps
  <2>1. Types
    BY <1>4, InsideTyped, EnterTyped DEF AcceptInsert, Inside
  <2> QED
    BY <1>4, <1>h, <2>1 DEF TypeOK, AcceptInsert, mainVars, readVars, sendVars,
                            logicVars, peerVars
<1>5. ASSUME NEW t \in Thread, AcceptInserted(t) PROVE Keeps
  <2>1. sessions \cup {handler[t][2]} \in SUBSET Client
    BY <1>5, InsideTyped DEF AcceptInserted, Inside, TypeOK
  <2>2. /\ Types /\ sessions' \subseteq Client /\ stopped' = stopped
        /\ mpc' \in {mpc, "terminated"}
    BY <1>5, <2>1, ExitTyped DEF AcceptInserted
  <2> QED
    BY <1>5, <1>h, <2>2 DEF TypeOK, AcceptInserted, readVars, sendVars,
                            logicVars, peerVars
<1>6. ASSUME NEW c \in Client, HeadArrives(c) \/ BodyArrives(c) PROVE Keeps
  <2>1. CASE HeadArrives(c)
    <3>1. Head(inbound[c]) \in Request /\ Tail(inbound[c]) \in Seq(Request)
      BY <2>1, HeadTailProperties DEF HeadArrives, TypeOK
    <3>2. /\ inbound' \in [Client -> Seq(Request)]
          /\ reading' \in [Client -> Request \cup {NoRequest}]
      BY <2>1, <3>1 DEF HeadArrives, TypeOK
    <3> QED
      BY <2>1, <3>2 DEF TypeOK, HeadArrives, mainVars, mapVars, sendVars,
                        logicVars, peerVars
  <2>2. CASE BodyArrives(c)
    BY <2>2 DEF TypeOK, BodyArrives, mainVars, mapVars, sendVars, logicVars,
                peerVars
  <2> QED
    BY <1>6, <2>1, <2>2
<1>7. ASSUME NEW t \in Thread, NEW c \in Client,
             ReadHead(t, c) \/ ReadHeadThrows(t, c)
      PROVE  Keeps
  BY <1>7 DEF TypeOK, ReadHead, ReadHeadThrows, mainVars, mapVars, readVars,
              sendVars, logicVars, peerVars
<1>8. ASSUME NEW t \in Thread, NEW c \in Client,
             ReadHeadOversize(t, c) \/ ReadError(t, c)
      PROVE  Keeps
  <2>1. Types
    BY <1>8, EnterTyped DEF ReadHeadOversize, ReadError, Inside
  <2> QED
    BY <1>8, <1>h, <2>1 DEF TypeOK, ReadHeadOversize, ReadError, mainVars,
                            readVars, sendVars, logicVars, peerVars
<1>9. ASSUME NEW t \in Thread, NEW c \in Client, ReadMsg(t, c) PROVE Keeps
  <2>1. reading[c] \in Request
    BY <1>9 DEF ReadMsg, Ordered, InboundNumbered, InHand
  <2>2. msgQue' \in Seq(Client \X Request)
    BY <1>9, <2>1, AppendProperties DEF ReadMsg, TypeOK
  <2> QED
    BY <1>9, <2>2 DEF TypeOK, ReadMsg, mainVars, mapVars, sendVars, peerVars
<1>10. ASSUME NEW t \in Thread, SessionErased(t) \/ OversizeGoesOn(t)
       PROVE  Keeps
  <2>1. handler[t][1] \in Inside /\ raced' \subseteq Client
        /\ Exit(t, sessions \ {handler[t][2]})
    <3>1. handler[t][1] \in Inside
      BY <1>10 DEF SessionErased, OversizeGoesOn, Erased, Inside
    <3>2. handler[t][2] \in Client
      BY <3>1, InsideTyped
    <3>3. raced' \subseteq raced \cup {handler[t][2]}
      BY <1>10 DEF SessionErased, OversizeGoesOn, Erased
    <3>4. Exit(t, sessions \ {handler[t][2]})
      BY <1>10 DEF SessionErased, OversizeGoesOn, Erased
    <3> QED
      BY <3>1, <3>2, <3>3, <3>4 DEF TypeOK
  <2>2. /\ Types /\ sessions' \subseteq Client /\ stopped' = stopped
        /\ mpc' \in {mpc, "terminated"}
    <3>1. sessions \ {handler[t][2]} \in SUBSET Client
      BY DEF TypeOK
    <3> QED
      BY <2>1, <3>1, ExitTyped
  <2>3. rpc' \in [Client -> {"none", "head", "gotHead", "inHead", "body",
                             "gotBody", "done"}]
    BY <1>10 DEF SessionErased, OversizeGoesOn, readVars, TypeOK
  <2>4. UNCHANGED <<reading, inbound, open, sendVars, logicVars, peerVars, got,
                    oversized>>
    BY <1>10 DEF SessionErased, OversizeGoesOn, readVars
  <2> QED
    BY <1>h, <2>1, <2>2, <2>3, <2>4 DEF TypeOK, sendVars, logicVars, peerVars
<1>11. ASSUME NEW c \in Client, Transmit(c) PROVE Keeps
  <2>1. Head(out[c]) \in 1 .. MaxRequests
    BY <1>11, HeadTailProperties DEF Transmit, TypeOK
  <2>2. got' \in [Client -> Seq(1 .. MaxRequests)]
    BY <1>11, <2>1, AppendProperties DEF Transmit, TypeOK
  <2> QED
    BY <1>11, <2>2 DEF TypeOK, Transmit, mainVars, mapVars, readVars,
                       logicVars, peerVars
<1>12. ASSUME NEW t \in Thread, NEW c \in Client, WriteCallbackOk(t, c)
       PROVE  Keeps
  <2>0. out[c] \in Seq(1 .. MaxRequests)
    BY DEF TypeOK
  <2>1. /\ Tail(out[c]) \in Seq(1 .. MaxRequests)
        /\ Len(Tail(out[c])) = Len(out[c]) - 1
        /\ Len(out[c]) \in Nat
    BY <1>12, HeadTailProperties, LenProperties DEF WriteCallbackOk, TypeOK
  <2>2. out' \in [Client -> Seq(1 .. MaxRequests)]
    BY <1>12, <2>1 DEF WriteCallbackOk, TypeOK
  <2>3. \A d \in Client : Len(out'[d]) <= MaxSendQue + 1
    <3> SUFFICES ASSUME NEW d \in Client PROVE Len(out'[d]) <= MaxSendQue + 1
      OBVIOUS
    <3>1. Len(out[d]) <= MaxSendQue + 1
      BY DEF TypeOK
    <3>2. CASE d = c
      BY <1>12, <2>1, <3>1, <3>2, StrandAssumption DEF WriteCallbackOk, TypeOK
    <3>3. CASE d # c
      BY <1>12, <3>1, <3>3 DEF WriteCallbackOk, TypeOK
    <3> QED
      BY <3>2, <3>3
  <2>4. \A d \in writing' : out'[d] # <<>>
    <3> SUFFICES ASSUME NEW d \in writing' PROVE out'[d] # <<>>
      OBVIOUS
    <3>1. d \in writing /\ d \in Client
      BY <1>12 DEF WriteCallbackOk, TypeOK
    <3>2. CASE d = c
      <4>1. Len(out[c]) > 1
        BY <1>12, <3>2 DEF WriteCallbackOk
      <4>2. out'[c] = Tail(out[c])
        BY <1>12 DEF WriteCallbackOk, TypeOK
      <4>3. Tail(out[c]) # <<>>
        BY <2>0, <4>1, TailNotEmpty
      <4> QED
        BY <3>2, <4>2, <4>3
    <3>3. CASE d # c
      BY <1>12, <3>1, <3>3 DEF WriteCallbackOk, TypeOK
    <3> QED
      BY <3>2, <3>3
  <2>5. writing' \subseteq Client /\ written' \subseteq writing'
    BY <1>12 DEF WriteCallbackOk, TypeOK
  <2> QED
    BY <1>12, <2>2, <2>3, <2>4, <2>5
    DEF TypeOK, WriteCallbackOk, mainVars, mapVars, readVars, logicVars,
        peerVars
<1>13. ASSUME NEW t \in Thread, NEW c \in Client, WriteCallbackError(t, c)
       PROVE  Keeps
  <2>1. Types
    BY <1>13, EnterTyped DEF WriteCallbackError, Inside
  <2> QED
    BY <1>13, <1>h, <2>1 DEF TypeOK, WriteCallbackError, mainVars, readVars,
                             logicVars, peerVars
<1>14. CASE LogicHandle
  <2>1. PICK c \in Client, r \in Request : Handle(c, r)
    BY <1>14, HandleFront
  <2>2. msgQue' \in Seq(Client \X Request)
    BY <2>1, HeadTailProperties DEF Handle, TypeOK
  <2>3. handled' \in [Client -> Seq(Request)]
    <3>1. Append(handled[c], r) \in Seq(Request)
      BY AppendProperties DEF TypeOK
    <3> QED
      BY <2>1, <3>1 DEF Handle, TypeOK
  <2>4. /\ out' \in [Client -> Seq(1 .. MaxRequests)]
        /\ \A d \in Client : Len(out'[d]) <= MaxSendQue + 1
        /\ \A d \in writing' : out'[d] # <<>>
        /\ writing' \subseteq Client /\ written' \subseteq writing'
        /\ dropped' \subseteq Client \X (1 .. MaxRequests)
    <3>1. r[1] \in 1 .. MaxRequests
      BY DEF Request
    <3>2. CASE UNCHANGED sendVars
      <4>1. dropped' \subseteq dropped \cup {<<c, r[1]>>}
        BY <2>1 DEF Handle, Reply
      <4>2. <<c, r[1]>> \in Client \X (1 .. MaxRequests)
        BY <3>1
      <4>3. out' = out /\ writing' = writing /\ written' = written
        BY <3>2 DEF sendVars
      <4> QED
        BY <4>1, <4>2, <4>3 DEF TypeOK
    <3>3. CASE Reply(c, r[1]) /\ Len(out[c]) <= MaxSendQue
      <4>1. /\ out' = [out EXCEPT ![c] = Append(@, r[1])]
            /\ writing' = IF out[c] = <<>> THEN writing \cup {c} ELSE writing
            /\ written' = written /\ dropped' = dropped
        <5>1. ~(Len(out[c]) > MaxSendQue)
          BY <3>3, LenProperties, StrandAssumption DEF TypeOK
        <5> QED
          BY <3>3, <5>1 DEF Reply
      <4>2. /\ Append(out[c], r[1]) \in Seq(1 .. MaxRequests)
            /\ Append(out[c], r[1]) # <<>>
            /\ Len(Append(out[c], r[1])) = Len(out[c]) + 1
            /\ Len(out[c]) \in Nat
        <5>1. out[c] \in Seq(1 .. MaxRequests)
          BY DEF TypeOK
        <5> QED
          BY <3>1, <5>1, AppendProperties, LenProperties
      <4>3. Len(Append(out[c], r[1])) <= MaxSendQue + 1
        BY <3>3, <4>2, StrandAssumption
      <4> QED
        BY <4>1, <4>2, <4>3 DEF TypeOK
    <3>4. Len(out[c]) <= MaxSendQue \/ Len(out[c]) > MaxSendQue
      BY LenProperties, StrandAssumption DEF TypeOK
    <3> QED
      BY <2>1, <3>2, <3>3, <3>4 DEF Handle, Reply
  <2> QED
    BY <2>1, <2>2, <2>3, <2>4 DEF TypeOK, Handle, mapVars, readVars, peerVars
<1>15. CASE Stop \/ Join
  BY <1>15 DEF TypeOK, Stop, Join, mapVars, readVars, sendVars, logicVars,
               peerVars
<1>16. CASE UNCHANGED vars
  BY <1>16 DEF TypeOK, vars, mainVars, mapVars, readVars, sendVars, logicVars,
               peerVars
<1> QED
  BY <1>1, <1>2, <1>3, <1>4, <1>5, <1>6, <1>7, <1>8, <1>9, <1>10, <1>11,
     <1>12, <1>13, <1>14, <1>15, <1>16
  DEF Next, Clients, Accept, EndOfHandler, Reading, Writing
-----------------------------------------------------------------------------
(***************************************************************************)
(* Who is inside remove_session(), and what the map will be.               *)
(***************************************************************************)
\* What enters or leaves no handler keeps them, unless it takes the header
\* away from under one.
LEMMA ErasersAside ==
  ASSUME ErasersKnown,
         \A t \in Thread, c \in Client :
           handler'[t] \in {<<"erase", c>>, <<"eraseGoOn", c>>} =>
             handler'[t] = handler[t],
         \A c \in Client :
           rpc[c] = "inHead" /\ (\E t \in Thread :
                                   handler[t] = <<"eraseGoOn", c>>)
             => rpc'[c] = "inHead",
         oversized \subseteq oversized',
         open' \subseteq open
  PROVE  ErasersKnown'
<1> SUFFICES ASSUME NEW t \in Thread, NEW c \in Client
             PROVE  /\ handler'[t] = <<"eraseGoOn", c>> =>
                         rpc'[c] = "inHead" /\ c \in oversized'
                    /\ handler'[t] = <<"erase", c>> => c \notin open'
  BY DEF ErasersKnown
<1>1. ASSUME handler'[t] = <<"eraseGoOn", c>>
      PROVE  rpc'[c] = "inHead" /\ c \in oversized'
  <2>1. handler[t] = <<"eraseGoOn", c>>
    BY <1>1
  <2> QED
    BY <2>1 DEF ErasersKnown
<1>2. ASSUME handler'[t] = <<"erase", c>> PROVE c \notin open'
  <2>1. handler[t] = <<"erase", c>>
    BY <1>2
  <2> QED
    BY <2>1 DEF ErasersKnown
<1> QED
  BY <1>1, <1>2

LEMMA ErasersEnter ==
  ASSUME TypeOK, ErasersKnown, NEW t \in Thread, NEW c \in Client,
         OnStrand(t, c),
         \/ Enter(t, "erase", c) /\ c \notin open' /\ oversized' = oversized
         \/ /\ Enter(t, "eraseGoOn", c) /\ rpc'[c] = "inHead"
            /\ oversized' = oversized \cup {c},
         open' \subseteq open,
         \A d \in Client \ {c} : rpc'[d] = rpc[d]
  PROVE  ErasersKnown'
<1> SUFFICES ASSUME NEW u \in Thread, NEW d \in Client
             PROVE  /\ handler'[u] = <<"eraseGoOn", d>> =>
                         rpc'[d] = "inHead" /\ d \in oversized'
                    /\ handler'[u] = <<"erase", d>> => d \notin open'
  BY DEF ErasersKnown
<1>1. CASE u # t
  <2>1. handler'[u] = handler[u]
    BY <1>1 DEF Enter, TypeOK
  <2>2. handler[u] # <<"eraseGoOn", c>>
    BY DEF OnStrand
  <2> QED
    BY <2>1, <2>2 DEF ErasersKnown
<1>2. CASE u = t /\ Enter(t, "erase", c)
  <2>1. handler'[u] = <<"erase", c>>
    BY <1>2 DEF Enter, TypeOK
  <2>2. ~Enter(t, "eraseGoOn", c)
    BY <1>2, <2>1 DEF Enter, TypeOK
  <2> QED
    BY <1>2, <2>1, <2>2
<1>3. CASE u = t /\ Enter(t, "eraseGoOn", c)
  <2>1. handler'[u] = <<"eraseGoOn", c>>
    BY <1>3 DEF Enter, TypeOK
  <2>2. ~Enter(t, "erase", c)
    BY <1>3, <2>1 DEF Enter, TypeOK
  <2> QED
    BY <1>3, <2>1, <2>2
<1> QED
  BY <1>1, <1>2, <1>3

\* The thread that was inside remove_session(e) is so no more.
LEMMA ErasersLeave ==
  ASSUME TypeOK, ErasersKnown, NEW t \in Thread, NEW e \in Client,
         \/ handler[t] = <<"erase", e>> /\ rpc' = rpc
         \/ handler[t] = <<"eraseGoOn", e>> /\ rpc' = [rpc EXCEPT ![e] = "body"],
         \A u \in Thread \ {t} : handler[u] # <<"eraseGoOn", e>>,
         handler' = [handler EXCEPT ![t] = Idle],
         UNCHANGED <<open, oversized>>
  PROVE  ErasersKnown'
<1> SUFFICES ASSUME NEW u \in Thread, NEW d \in Client
             PROVE  /\ handler'[u] = <<"eraseGoOn", d>> =>
                         rpc'[d] = "inHead" /\ d \in oversized'
                    /\ handler'[u] = <<"erase", d>> => d \notin open'
  BY DEF ErasersKnown
<1>1. CASE u # t
  <2>1. handler'[u] = handler[u]
    BY <1>1 DEF TypeOK
  <2>2. handler[u] # <<"eraseGoOn", e>>
    BY <1>1
  <2> QED
    BY <2>1, <2>2 DEF ErasersKnown, TypeOK
<1>2. CASE u = t
  BY <1>2 DEF TypeOK, Idle
<1> QED
  BY <1>1, <1>2

\* What leaves the map, the handlers inside it and the session to be inserted
\* alone keeps the map, unless it ends the reading of a session.
LEMMA MapAside ==
  ASSUME MapAhead,
         UNCHANGED <<handler, sessions, raced, overlapped>>,
         \A c \in Client : rpc'[c] # rpc[c] =>
                             rpc[c] # "none" /\ rpc'[c] # "done",
         open' \subseteq open,
         oversized' = oversized
  PROVE  MapAhead'
  BY DEF MapAhead, Pending, Erasing

LEMMA EnterAside ==
  ASSUME TypeOK, MapAhead, NEW t \in Thread, NEW c \in Client,
         OnStrand(t, c),
         \/ /\ Enter(t, "erase", c) /\ open' = open \ {c}
            /\ oversized' = oversized
            /\ \/ rpc' = rpc
               \/ rpc[c] # "none" /\ rpc' = [rpc EXCEPT ![c] = "done"]
         \/ /\ Enter(t, "eraseGoOn", c) /\ open' = open
            /\ rpc[c] = "gotHead" /\ rpc' = [rpc EXCEPT ![c] = "inHead"]
            /\ oversized' = oversized \cup {c},
         UNCHANGED <<sessions, raced>>
  PROVE  MapAhead'
<1> SUFFICES ASSUME ~overlapped', NEW d \in Client, rpc'[d] # "none"
             PROVE  /\ d \in open' => \/ d \in sessions'
                                      \/ d \in oversized' \/ Pending(d)'
                    /\ /\ rpc'[d] = "done" \/ d \in oversized'
                       /\ d \in sessions' \/ Pending(d)'
                       => d \in raced' \/ Erasing(d)'
  BY DEF MapAhead
<1>1. ~overlapped /\ handler[t] = Idle
  BY DEF Enter, OnStrand, MayRun
<1>2. rpc[d] # "none"
  BY DEF TypeOK
<1>3. \A u \in Thread : u # t => handler'[u] = handler[u]
  BY DEF Enter, TypeOK
<1>4. handler'[t] \in {<<"erase", c>>, <<"eraseGoOn", c>>}
  BY DEF Enter, TypeOK
<1>5. Pending(d)' = Pending(d)
  BY <1>1, <1>3, <1>4 DEF Pending, Idle
<1>6. Erasing(d) => Erasing(d)'
  BY <1>1, <1>3 DEF Erasing, Idle
<1>7. Erasing(c)'
  BY <1>4 DEF Erasing
<1>8. CASE d # c
  BY <1>1, <1>2, <1>5, <1>6, <1>8 DEF MapAhead, TypeOK
<1>9. CASE d = c
  BY <1>1, <1>2, <1>5, <1>6, <1>7, <1>9 DEF MapAhead, TypeOK
<1> QED
  BY <1>8, <1>9

\* The erasing of e ends: e is out of the map, and marked if it was to be
\* inserted.
LEMMA LeaveAside ==
  ASSUME TypeOK, ErasersKnown, MapAhead, NEW t \in Thread, NEW e \in Client,
         handler[t] \in {<<"erase", e>>, <<"eraseGoOn", e>>},
         handler' = [handler EXCEPT ![t] = Idle],
         overlapped' = overlapped,
         ~overlapped => sessions' = sessions \ {e},
         raced' = IF Pending(e) THEN raced \cup {e} ELSE raced,
         \A d \in Client : d # e => rpc'[d] = rpc[d],
         UNCHANGED <<open, oversized>>
  PROVE  MapAhead'
<1> SUFFICES ASSUME ~overlapped', NEW d \in Client, rpc'[d] # "none"
             PROVE  /\ d \in open' => \/ d \in sessions'
                                      \/ d \in oversized' \/ Pending(d)'
                    /\ /\ rpc'[d] = "done" \/ d \in oversized'
                       /\ d \in sessions' \/ Pending(d)'
                       => d \in raced' \/ Erasing(d)'
  BY DEF MapAhead
<1>1. \A u \in Thread : u # t => handler'[u] = handler[u]
  BY DEF TypeOK
<1>2. Pending(d)' = Pending(d)
  BY <1>1 DEF Pending, TypeOK, Idle
<1>3. d # e /\ Erasing(d) => Erasing(d)'
  <2> SUFFICES ASSUME d # e, NEW u \in Thread,
                      handler[u] \in {<<"erase", d>>, <<"eraseGoOn", d>>}
               PROVE  handler'[u] = handler[u]
    BY DEF Erasing
  <2>1. u # t
    OBVIOUS
  <2> QED
    BY <1>1, <2>1
<1>4. e \in open => e \in oversized
  BY DEF ErasersKnown
<1>5. CASE d = e
  BY <1>2, <1>4, <1>5
<1>6. CASE d # e
  BY <1>2, <1>3, <1>6 DEF MapAhead
<1> QED
  BY <1>5, <1>6
LEMMA HandlersAside ==
  ASSUME TypeOK, Handled, UNCHANGED <<handler, sessions, raced, overlapped>>,
         \A c \in Client : rpc'[c] # rpc[c] =>
           /\ rpc[c] # "none" /\ rpc'[c] \notin {"none", "done"}
           /\ rpc[c] = "inHead" => \A t \in Thread :
                                     handler[t] # <<"eraseGoOn", c>>,
         open' \subseteq open,
         oversized' = oversized
  PROVE  Handled'
<1>1. OneOnStrand'
  BY DEF Handled, OneOnStrand
<1>2. ErasersKnown'
  BY ErasersAside DEF Handled
<1>3. MapAhead'
  BY MapAside DEF Handled
<1>4. OversizedStarted'
  BY DEF Handled, OversizedStarted, TypeOK
<1> QED
  BY <1>1, <1>2, <1>3, <1>4 DEF Handled

LEMMA HandlersEnter ==
  ASSUME TypeOK, Handled, NEW t \in Thread, NEW c \in Client,
         OnStrand(t, c),
         \/ /\ Enter(t, "erase", c) /\ open' = open \ {c}
            /\ oversized' = oversized
            /\ \/ rpc' = rpc
               \/ rpc[c] # "none" /\ rpc' = [rpc EXCEPT ![c] = "done"]
         \/ /\ Enter(t, "eraseGoOn", c) /\ open' = open
            /\ rpc[c] = "gotHead" /\ rpc' = [rpc EXCEPT ![c] = "inHead"]
            /\ oversized' = oversized \cup {c},
         UNCHANGED <<sessions, raced>>
  PROVE  Handled'
<1>1. OneOnStrand'
  <2>1. \A u \in Thread : u # t => handler'[u] = handler[u]
    BY DEF Enter, TypeOK
  <2>2. handler'[t] \in {<<"erase", c>>, <<"eraseGoOn", c>>}
    BY DEF Enter, TypeOK
  <2>3. \A u \in Thread : handler[u] \notin {<<"erase", c>>, <<"eraseGoOn", c>>}
    BY DEF OnStrand
  <2> SUFFICES ASSUME NEW u \in Thread, NEW v \in Thread, NEW d \in Client,
                      {handler'[u], handler'[v]}
                        \subseteq {<<"erase", d>>, <<"eraseGoOn", d>>}
               PROVE  u = v
    BY DEF OneOnStrand
  <2>4. CASE d = c
    BY <2>1, <2>3, <2>4
  <2>5. CASE d # c
    <3>1. u # t /\ v # t
      BY <2>2, <2>5
    <3> QED
      BY <2>1, <3>1 DEF Handled, OneOnStrand
  <2> QED
    BY <2>4, <2>5
<1>2. ErasersKnown'
  <2>1. \A d \in Client \ {c} : rpc'[d] = rpc[d]
    BY DEF TypeOK
  <2>2. \/ Enter(t, "erase", c) /\ c \notin open' /\ oversized' = oversized
        \/ /\ Enter(t, "eraseGoOn", c) /\ rpc'[c] = "inHead"
           /\ oversized' = oversized \cup {c}
    BY DEF TypeOK
  <2>3. ErasersKnown /\ open' \subseteq open
    BY DEF Handled
  <2> QED
    BY <2>1, <2>2, <2>3, ErasersEnter
<1>3. MapAhead'
  BY EnterAside DEF Handled
<1>4. OversizedStarted'
  BY DEF Handled, OversizedStarted, TypeOK
<1> QED
  BY <1>1, <1>2, <1>3, <1>4 DEF Handled

LEMMA HandlersLeave ==
  ASSUME TypeOK, Handled, NEW t \in Thread, SessionErased(t) \/ OversizeGoesOn(t)
  PROVE  Handled'
<1> DEFINE e == handler[t][2]
<1>1. /\ e \in Client
      /\ \/ handler[t] = <<"erase", e>> /\ rpc' = rpc
         \/ handler[t] = <<"eraseGoOn", e>> /\ rpc' = [rpc EXCEPT ![e] = "body"]
  BY InsideTyped
  DEF SessionErased, OversizeGoesOn, Erased, Inside, readVars
<1> HIDE DEF e
<1>2. /\ handler' = [handler EXCEPT ![t] = Idle]
      /\ overlapped' = overlapped
      /\ ~overlapped => sessions' = sessions \ {e}
      /\ UNCHANGED <<open, oversized>>
  BY DEF SessionErased, OversizeGoesOn, Erased, Exit, e
<1>3. raced' = IF Pending(e) THEN raced \cup {e} ELSE raced
  <2>1. ASSUME NEW u \in Thread
        PROVE  u \in Accepting /\ handler[u][2] = e <=>
                 handler[u] \in {<<"started", e>>, <<"insert", e>>}
    <3>1. ASSUME u \in Accepting, handler[u][2] = e
          PROVE  handler[u] \in {<<"started", e>>, <<"insert", e>>}
      <4>1. handler[u][1] \in {"started", "insert"}
        BY <3>1 DEF Accepting
      <4>2. handler[u] = <<handler[u][1], handler[u][2]>>
        BY <4>1, InsideTyped DEF Inside
      <4> QED
        BY <3>1, <4>1, <4>2
    <3>2. ASSUME handler[u] \in {<<"started", e>>, <<"insert", e>>}
          PROVE  u \in Accepting /\ handler[u][2] = e
      BY <3>2 DEF Accepting
    <3> QED
      BY <3>1, <3>2
  <2>2. (\E u \in Accepting : handler[u][2] = e) <=> Pending(e)
    BY <2>1 DEF Pending, Accepting
  <2> QED
    BY <2>2 DEF SessionErased, OversizeGoesOn, Erased, e
<1>4. \A u \in Thread \ {t} : handler[u] # <<"eraseGoOn", e>>
  BY <1>1 DEF Handled, OneOnStrand
<1>5. \A d \in Client : d # e => rpc'[d] = rpc[d]
  BY <1>1 DEF TypeOK
<1>6. OneOnStrand'
  <2>1. \A u \in Thread : handler'[u] = handler[u] \/ handler'[u] = Idle
    BY <1>2 DEF TypeOK
  <2> SUFFICES ASSUME NEW u \in Thread, NEW v \in Thread, NEW d \in Client,
                      {handler'[u], handler'[v]}
                        \subseteq {<<"erase", d>>, <<"eraseGoOn", d>>}
               PROVE  u = v
    BY DEF OneOnStrand
  <2>2. handler'[u] # Idle /\ handler'[v] # Idle
    BY DEF Idle
  <2> QED
    BY <2>1, <2>2 DEF Handled, OneOnStrand
<1>7. ErasersKnown'
  BY <1>1, <1>2, <1>4, ErasersLeave DEF Handled
<1>8. MapAhead'
  BY <1>1, <1>2, <1>3, <1>5, LeaveAside DEF Handled
<1>9. OversizedStarted'
  BY <1>1, <1>2 DEF Handled, OversizedStarted, TypeOK
<1> QED
  BY <1>6, <1>7, <1>8, <1>9 DEF Handled

\* The accept callback changes a handler, none that is on a strand.
LEMMA HandlersAccept ==
  ASSUME TypeOK, Handled, NEW t \in Thread,
         \/ \E c \in Client : AcceptStart(t, c)
         \/ AcceptInsert(t) \/ AcceptInserted(t)
  PROVE  Handled'
<1>1. /\ \A u \in Thread : u # t => handler'[u] = handler[u]
      /\ \A c \in Client :
           /\ handler[t] \notin {<<"erase", c>>, <<"eraseGoOn", c>>}
           /\ handler'[t] \notin {<<"erase", c>>, <<"eraseGoOn", c>>}
      /\ UNCHANGED <<open, oversized, raced>>
  <2>1. ASSUME NEW c \in Client, AcceptStart(t, c)
        PROVE  /\ handler[t] = Idle
               /\ handler' = [handler EXCEPT ![t] = <<"started", c>>]
    BY <2>1 DEF AcceptStart, MayRun
  <2>2. ASSUME AcceptInsert(t)
        PROVE  /\ handler[t][1] = "started"
               /\ handler' = [handler EXCEPT ![t] = <<"insert", handler[t][2]>>]
    BY <2>2 DEF AcceptInsert, Enter
  <2>3. ASSUME AcceptInserted(t)
        PROVE  handler[t][1] = "insert" /\ handler' = [handler EXCEPT ![t] = Idle]
    BY <2>3 DEF AcceptInserted, Exit
  <2>4. /\ handler[t][1] \notin {"erase", "eraseGoOn"}
        /\ handler'[t][1] \notin {"erase", "eraseGoOn"}
        /\ \A u \in Thread : u # t => handler'[u] = handler[u]
    BY <2>1, <2>2, <2>3 DEF Idle, TypeOK
  <2>5. UNCHANGED <<open, oversized, raced>>
    BY DEF AcceptStart, AcceptInsert, AcceptInserted, mapVars
  <2> QED
    BY <2>4, <2>5
<1>2. \A c \in Client : rpc'[c] = rpc[c] \/ rpc[c] = "none"
  BY DEF AcceptStart, AcceptInsert, AcceptInserted, readVars, TypeOK
<1>3. OneOnStrand'
  <2> SUFFICES ASSUME NEW u \in Thread, NEW v \in Thread, NEW d \in Client,
                      {handler'[u], handler'[v]}
                        \subseteq {<<"erase", d>>, <<"eraseGoOn", d>>}
               PROVE  u = v
    BY DEF OneOnStrand
  <2>1. u # t /\ v # t
    BY <1>1
  <2> QED
    BY <1>1, <2>1 DEF Handled, OneOnStrand
<1>4. ErasersKnown'
  <2>1. \A u \in Thread, c \in Client :
          handler'[u] \in {<<"erase", c>>, <<"eraseGoOn", c>>} =>
            handler'[u] = handler[u]
    BY <1>1
  <2>2. \A c \in Client : rpc[c] = "inHead" => rpc'[c] = "inHead"
    BY <1>2
  <2> QED
    BY <1>1, <2>1, <2>2, ErasersAside DEF Handled
<1>5. \A c \in Client : Erasing(c)' = Erasing(c)
  <2> SUFFICES ASSUME NEW c \in Client PROVE Erasing(c)' = Erasing(c)
    OBVIOUS
  <2>1. \A u \in Thread :
          handler'[u] \in {<<"erase", c>>, <<"eraseGoOn", c>>} <=>
            handler[u] \in {<<"erase", c>>, <<"eraseGoOn", c>>}
    BY <1>1
  <2> QED
    BY <2>1 DEF Erasing
<1>6. MapAhead'
  <2>1. ASSUME NEW c \in Client, AcceptStart(t, c) PROVE MapAhead'
    <3>1. /\ rpc' = [rpc EXCEPT ![c] = "head"]
          /\ handler[t] = Idle /\ handler' = [handler EXCEPT ![t] = <<"started", c>>]
          /\ UNCHANGED <<sessions, overlapped>>
      BY <2>1 DEF AcceptStart, MayRun, mapVars
    <3>2. Pending(c)'
      BY <3>1 DEF Pending, TypeOK
    <3>3. \A d \in Client : d # c => Pending(d)' = Pending(d)
      BY <3>1 DEF Pending, TypeOK, Idle
    <3>4. rpc[c] = "none" /\ c \notin oversized
      BY <2>1 DEF AcceptStart, Handled, OversizedStarted
    <3> SUFFICES ASSUME ~overlapped', NEW d \in Client, rpc'[d] # "none"
                 PROVE  /\ d \in open' => \/ d \in sessions'
                                          \/ d \in oversized' \/ Pending(d)'
                        /\ /\ rpc'[d] = "done" \/ d \in oversized'
                           /\ d \in sessions' \/ Pending(d)'
                           => d \in raced' \/ Erasing(d)'
      BY DEF MapAhead
    <3>5. CASE d = c
      BY <1>1, <3>1, <3>2, <3>4, <3>5 DEF TypeOK
    <3>6. CASE d # c
      <4>1. rpc'[d] = rpc[d] /\ Pending(d)' = Pending(d)
        BY <3>1, <3>3, <3>6 DEF TypeOK
      <4> QED
        BY <1>1, <1>5, <3>1, <4>1 DEF Handled, MapAhead
    <3> QED
      BY <3>5, <3>6
  <2>2. ASSUME AcceptInsert(t) PROVE MapAhead'
    <3> DEFINE c == handler[t][2]
    <3>1. /\ c \in Client /\ handler[t] = <<"started", c>>
          /\ handler' = [handler EXCEPT ![t] = <<"insert", c>>]
          /\ UNCHANGED <<rpc, sessions>> /\ (overlapped => overlapped')
      BY <2>2, InsideTyped DEF AcceptInsert, Enter, Inside, readVars
    <3> HIDE DEF c
    <3>2. \A d \in Client : Pending(d)' = Pending(d)
      <4> SUFFICES ASSUME NEW d \in Client, NEW u \in Thread
                   PROVE  handler'[u] \in {<<"started", d>>, <<"insert", d>>} <=>
                            handler[u] \in {<<"started", d>>, <<"insert", d>>}
        BY DEF Pending
      <4>1. CASE u = t
        <5>1. handler[u] = <<"started", c>> /\ handler'[u] = <<"insert", c>>
          BY <3>1, <4>1 DEF TypeOK
        <5>2. CASE d = c
          BY <5>1, <5>2
        <5>3. CASE d # c
          <6>1. handler[u] \notin {<<"started", d>>, <<"insert", d>>}
            BY <5>1, <5>3
          <6>2. handler'[u] \notin {<<"started", d>>, <<"insert", d>>}
            BY <5>1, <5>3
          <6> QED
            BY <6>1, <6>2
        <5> QED
          BY <5>2, <5>3
      <4>2. CASE u # t
        BY <1>1, <4>2
      <4> QED
        BY <4>1, <4>2
    <3> QED
      BY <1>1, <1>5, <3>1, <3>2 DEF Handled, MapAhead
  <2>3. ASSUME AcceptInserted(t) PROVE MapAhead'
    <3> DEFINE c == handler[t][2]
    <3>1. /\ c \in Client /\ handler[t] = <<"insert", c>>
          /\ handler' = [handler EXCEPT ![t] = Idle]
          /\ UNCHANGED <<rpc, overlapped>>
          /\ ~overlapped => sessions' = sessions \cup {c}
      BY <2>3, InsideTyped DEF AcceptInserted, Exit, Inside, readVars
    <3>2. Pending(c)
      BY <3>1 DEF Pending
    <3>3. \A d \in Client : d # c => Pending(d)' = Pending(d)
      BY <3>1 DEF Pending, TypeOK, Idle
    <3> HIDE DEF c
    <3> QED
      BY <1>1, <1>5, <3>1, <3>2, <3>3 DEF Handled, MapAhead
  <2> QED
    BY <2>1, <2>2, <2>3
<1>7. OversizedStarted'
  BY <1>1, <1>2 DEF Handled, OversizedStarted, TypeOK
<1> QED
  BY <1>3, <1>4, <1>6, <1>7 DEF Handled

LEMMA HandlersStep == ASSUME TypeOK, Handled, [Next]_vars PROVE Handled'
<1>1. ASSUME NEW c \in Client, Clients(c) PROVE Handled'
  <2>1. UNCHANGED <<handler, sessions, raced, overlapped, rpc, open, oversized>>
    BY <1>1 DEF Clients, Connect, Leave, WriteRequest, mapVars, readVars
  <2> QED
    BY <2>1, HandlersAside
<1>2. ASSUME NEW c \in Client, Reading(c) PROVE Handled'
  <2>1. ASSUME HeadArrives(c) \/ BodyArrives(c) PROVE Handled'
    BY <2>1, HandlersAside DEF HeadArrives, BodyArrives, mapVars, TypeOK
  <2>2. ASSUME NEW t \in Thread,
               ReadHead(t, c) \/ ReadHeadThrows(t, c) \/ ReadMsg(t, c)
        PROVE  Handled'
    BY <2>2, HandlersAside
    DEF ReadHead, ReadHeadThrows, ReadMsg, mapVars, readVars, TypeOK
  <2>3. ASSUME NEW t \in Thread, ReadHeadOversize(t, c) \/ ReadError(t, c)
        PROVE  Handled'
    BY <2>3, HandlersEnter DEF ReadHeadOversize, ReadError, readVars
  <2> QED
    BY <1>2, <2>1, <2>2, <2>3 DEF Reading
<1>3. ASSUME NEW c \in Client, Writing(c) PROVE Handled'
  <2>1. ASSUME Transmit(c) \/ \E t \in Thread : WriteCallbackOk(t, c)
        PROVE  Handled'
    <3>1. UNCHANGED <<handler, sessions, raced, overlapped, rpc, open, oversized>>
      BY <2>1 DEF Transmit, WriteCallbackOk, mapVars, readVars
    <3> QED
      BY <3>1, HandlersAside
  <2>2. ASSUME NEW t \in Thread, WriteCallbackError(t, c) PROVE Handled'
    BY <2>2, HandlersEnter DEF WriteCallbackError, readVars
  <2> QED
    BY <1>3, <2>1, <2>2 DEF Writing
<1>4. CASE Accept
  BY <1>4, HandlersAccept DEF Accept
<1>5. ASSUME NEW t \in Thread, EndOfHandler(t) PROVE Handled'
  BY <1>5, HandlersAccept, HandlersLeave DEF EndOfHandler
<1>6. CASE LogicHandle \/ Stop \/ Join \/ UNCHANGED vars
  <2>1. UNCHANGED <<handler, sessions, raced, overlapped, rpc, open, oversized>>
    BY <1>6 DEF LogicHandle, Stop, Join, vars, mapVars, readVars
  <2> QED
    BY <2>1, HandlersAside
<1> QED
  BY <1>1, <1>2, <1>3, <1>4, <1>5, <1>6 DEF Next
-----------------------------------------------------------------------------
(***************************************************************************)
(* The requests from the client to the session.                            *)
(***************************************************************************)
LEMMA InboundAside ==
  ASSUME NEW c \in Client, InboundNumbered(c),
         inbound'[c] = inbound[c], reading'[c] = reading[c],
         begun'[c] = begun[c],
         rpc'[c] \in InHand => rpc[c] \in InHand
  PROVE  InboundNumbered(c)'
  BY DEF InboundNumbered, InHand

LEMMA RequestWritten ==
  ASSUME TypeOK, NEW c \in Client, InboundNumbered(c), NEW k \in Kind,
         inbound'[c] = Append(inbound[c], <<begun[c] + 1, k>>),
         begun'[c] = begun[c] + 1,
         begun[c] < MaxRequests,
         reading'[c] = reading[c], rpc'[c] = rpc[c]
  PROVE  InboundNumbered(c)'
<1> DEFINE s == inbound[c]
           r == <<begun[c] + 1, k>>
<1>1. s \in Seq(Request) /\ begun[c] \in Nat
  BY StrandAssumption DEF TypeOK
<1>2. r \in Request
  BY <1>1, StrandAssumption DEF Request
<1>3. /\ Len(inbound'[c]) = Len(s) + 1 /\ Len(s) \in Nat
      /\ \A i \in 1 .. Len(s) : inbound'[c][i] = s[i]
      /\ inbound'[c][Len(s) + 1] = r
  BY <1>1, <1>2, AppendProperties, LenProperties
<1> DEFINE q == reading[c][1]
           b == begun[c]
           l == Len(s)
<1>4. q \in Int
  BY StrandAssumption DEF TypeOK, Request, NoRequest
<1>5. q + l = b
  BY DEF InboundNumbered
<1>6. r[1] = b + 1
  OBVIOUS
<1> HIDE DEF r, s, q, b, l
<1>7. ASSUME NEW i \in 1 .. Len(inbound'[c])
      PROVE  inbound'[c][i][1] = q + i
  <2>1. CASE i \in 1 .. l
    BY <1>3, <2>1 DEF InboundNumbered, s, q, l
  <2>2. CASE i = l + 1
    <3>1. inbound'[c][i][1] = b + 1
      BY <1>3, <1>6, <2>2 DEF l
    <3>2. l \in Nat
      BY <1>3 DEF l
    <3>3. b + 1 = q + i
      BY <1>4, <1>5, <2>2, <3>2
    <3> QED
      BY <3>1, <3>3
  <2>3. Len(inbound'[c]) = l + 1 /\ l \in Nat
    BY <1>3 DEF l
  <2>4. i \in 1 .. l \/ i = l + 1
    BY <2>3
  <2> QED
    BY <2>1, <2>2, <2>4
<1>8. q + Len(inbound'[c]) = b + 1
  <2>1. Len(inbound'[c]) = l + 1 /\ l \in Nat
    BY <1>3 DEF l
  <2> QED
    BY <1>4, <1>5, <2>1
<1>9. reading'[c][1] = q /\ begun'[c] = b + 1
  BY DEF q, b
<1> QED
  BY <1>7, <1>8, <1>9 DEF InboundNumbered

LEMMA HeaderRead ==
  ASSUME TypeOK, NEW c \in Client, InboundNumbered(c), inbound[c] # <<>>,
         inbound'[c] = Tail(inbound[c]),
         reading'[c] = Head(inbound[c]),
         begun'[c] = begun[c]
  PROVE  /\ InboundNumbered(c)'
         /\ reading'[c][1] = reading[c][1] + 1
         /\ reading[c][1] \in Int
<1> DEFINE s == inbound[c]
<1>1. /\ s[1] \in Request /\ reading'[c] = s[1]
      /\ Len(inbound'[c]) = Len(s) - 1 /\ Len(s) \in Nat \ {0}
      /\ \A i \in 1 .. Len(inbound'[c]) : inbound'[c][i] = s[i + 1]
  BY HeadTailProperties, LenProperties, EmptySeq DEF TypeOK
<1> DEFINE q == reading[c][1]
           l == Len(s)
<1>2. q \in Int
  BY StrandAssumption DEF TypeOK, Request, NoRequest
<1>3. /\ \A i \in 1 .. l : s[i][1] = q + i
      /\ q + l = begun[c]
      /\ Len(inbound'[c]) = l - 1 /\ l \in Nat \ {0}
  BY <1>1 DEF InboundNumbered
<1> HIDE DEF s, q, l
<1>q. (q + 1) + (l - 1) = q + l
  BY <1>2, <1>3
<1>4. reading'[c][1] = q + 1
  BY <1>1, <1>3
<1>5. ASSUME NEW i \in 1 .. Len(inbound'[c])
      PROVE  inbound'[c][i][1] = (q + 1) + i
  <2>1. i + 1 \in 1 .. l /\ i \in Int
    BY <1>3
  <2>2. s[i + 1][1] = q + (i + 1)
    BY <1>3, <2>1
  <2>3. q + (i + 1) = (q + 1) + i
    BY <1>2, <2>1
  <2>4. inbound'[c][i] = s[i + 1]
    BY <1>1
  <2> QED
    BY <2>2, <2>3, <2>4
<1>6. (q + 1) + Len(inbound'[c]) = begun'[c]
  BY <1>q, <1>3
<1> QED
  BY <1>1, <1>2, <1>4, <1>5, <1>6 DEF InboundNumbered, q

-----------------------------------------------------------------------------
(***************************************************************************)
(* The requests from the session to the logic thread.                      *)
(***************************************************************************)
LEMMA QueueAside ==
  ASSUME NEW c \in Client, QueueNumbered(c), UNCHANGED <<msgQue, handled>>,
         \A n : PostedIs(c, n) => PostedIs(c, n)'
  PROVE  QueueNumbered(c)'
<1>1. Queued(c)' = Queued(c) /\ QueuedNumbers(c)' = QueuedNumbers(c)
  BY DEF Queued, QueuedNumbers
<1>2. \E n \in Len(handled[c]) .. MaxRequests :
        QueuedNumbers(c) = Len(handled[c]) + 1 .. n /\ PostedIs(c, n)
  BY DEF QueueNumbered
<1> QED
  BY <1>1, <1>2 DEF QueueNumbered

\* The request of c that is posted is the next of its requests; it changes
\* nothing for the others.
LEMMA PostedInOrder ==
  ASSUME TypeOK, NEW c \in Client, NEW d \in Client, QueueNumbered(d),
         rpc[c] = "gotBody", reading[c] \in Request,
         msgQue' = Append(msgQue, <<c, reading[c]>>),
         rpc' = [rpc EXCEPT ![c] = "head"],
         UNCHANGED <<reading, handled>>
  PROVE  QueueNumbered(d)'
<1> DEFINE L == Len(msgQue)
           m == <<c, reading[c]>>
<1>1. /\ Len(msgQue') = L + 1 /\ L \in Nat
      /\ \A i \in 1 .. L : msgQue'[i] = msgQue[i]
      /\ msgQue'[L + 1] = m
  BY AppendProperties, LenProperties DEF TypeOK
<1>2. m[1] = c /\ m[2][1] = reading[c][1]
  OBVIOUS
<1> HIDE DEF L, m
<1>3. CASE d # c
  <2>1. Queued(d)' = Queued(d)
    <3> SUFFICES ASSUME NEW i
                 PROVE  i \in Queued(d)' <=> i \in Queued(d)
      OBVIOUS
    <3>1. i \in 1 .. L + 1 => i \in 1 .. L \/ i = L + 1
      BY <1>1
    <3> QED
      BY <1>1, <1>2, <1>3, <3>1 DEF Queued, L
  <2>2. \A i \in Queued(d) : msgQue'[i] = msgQue[i]
    BY <1>1 DEF Queued, L
  <2>3. QueuedNumbers(d)' = QueuedNumbers(d)
    BY <2>1, <2>2 DEF QueuedNumbers
  <2>4. \A n : PostedIs(d, n) => PostedIs(d, n)'
    BY <1>3 DEF PostedIs, TypeOK
  <2>5. \E n \in Len(handled'[d]) .. MaxRequests :
          QueuedNumbers(d)' = Len(handled'[d]) + 1 .. n /\ PostedIs(d, n)'
    BY <2>3, <2>4 DEF QueueNumbered
  <2> QED
    BY <2>1, <2>2, <2>5 DEF QueueNumbered
<1>4. CASE d = c
  <2> DEFINE h == Len(handled[c])
  <2>0. PICK p \in 1 .. MaxRequests : p = reading[c][1]
    BY DEF Request
  <2>1. p \in 1 .. MaxRequests /\ h \in Nat /\ MaxRequests \in Nat
    BY LenProperties, StrandAssumption DEF TypeOK
  <2>2. PICK n \in h .. MaxRequests :
          QueuedNumbers(c) = h + 1 .. n /\ n = p - 1
    BY <1>4, <2>0 DEF QueueNumbered, PostedIs, InHand
  <2>3. Queued(c)' = Queued(c) \cup {L + 1}
    <3> SUFFICES ASSUME NEW i
                 PROVE  i \in Queued(c)' <=> i \in Queued(c) \cup {L + 1}
      OBVIOUS
    <3>1. i \in 1 .. L + 1 <=> i \in 1 .. L \/ i = L + 1
      BY <1>1
    <3> QED
      BY <1>1, <1>2, <3>1 DEF Queued, L
  <2>4. /\ \A i \in Queued(c) : msgQue'[i] = msgQue[i] /\ i \in 1 .. L
        /\ msgQue'[L + 1][2][1] = p
    BY <1>1, <1>2, <2>0 DEF Queued, L
  <2> HIDE DEF h
  <2>5. QueuedNumbers(c)' = QueuedNumbers(c) \cup {p}
    <3>1. ASSUME NEW i \in Queued(c)'
          PROVE  msgQue'[i][2][1] \in QueuedNumbers(c) \cup {p}
      <4>1. CASE i \in Queued(c)
        BY <2>4, <4>1 DEF QueuedNumbers
      <4>2. CASE i = L + 1
        BY <2>4, <4>2
      <4> QED
        BY <2>3, <4>1, <4>2
    <3>2. ASSUME NEW i \in Queued(c)
          PROVE  msgQue[i][2][1] \in QueuedNumbers(c)'
      <4>1. i \in Queued(c)' /\ msgQue'[i] = msgQue[i]
        BY <2>3, <2>4
      <4> QED
        BY <4>1 DEF QueuedNumbers
    <3>3. L + 1 \in Queued(c)'
      BY <2>3
    <3>4. p \in QueuedNumbers(c)'
      BY <2>4, <3>3 DEF QueuedNumbers
    <3> QED
      BY <3>1, <3>2, <3>4 DEF QueuedNumbers
  <2>6. QueuedNumbers(c)' = h + 1 .. p /\ p \in h .. MaxRequests
    BY <2>1, <2>2, <2>5
  <2>7. ASSUME NEW i \in Queued(c)', NEW j \in Queued(c)', i < j
        PROVE  msgQue'[i][2][1] < msgQue'[j][2][1]
    <3>1. i \in Queued(c) /\ i \in 1 .. L
      BY <1>1, <2>3, <2>4, <2>7
    <3>2. CASE j \in Queued(c)
      BY <1>4, <2>4, <2>7, <3>1, <3>2 DEF QueueNumbered
    <3>3. CASE j = L + 1
      <4>1. msgQue[i][2][1] \in QueuedNumbers(c)
        BY <3>1 DEF QueuedNumbers
      <4>2. msgQue[i][2][1] < p
        BY <2>1, <2>2, <4>1
      <4> QED
        BY <2>4, <3>1, <3>3, <4>2
    <3> QED
      BY <2>3, <3>2, <3>3
  <2>8. PostedIs(c, p)'
    BY <2>0 DEF PostedIs, InHand, TypeOK
  <2>9. \E k \in Len(handled'[c]) .. MaxRequests :
          QueuedNumbers(c)' = Len(handled'[c]) + 1 .. k /\ PostedIs(c, k)'
    <3>1. Len(handled'[c]) = h
      BY DEF h
    <3> QED
      BY <2>6, <2>8, <3>1
  <2> QED
    BY <1>4, <2>7, <2>9 DEF QueueNumbered
<1> QED
  BY <1>3, <1>4

\* The request at the front is the next to be handled of its client; what is
\* behind it moves up.
LEMMA FrontIsNext ==
  ASSUME TypeOK, NEW c \in Client, NEW r \in Request, QueueNumbered(c),
         msgQue # <<>>, msgQue[1] = <<c, r>>
  PROVE  r[1] = Len(handled[c]) + 1
<1> DEFINE h == Len(handled[c])
<1>1. h \in Nat /\ MaxRequests \in Nat /\ Len(msgQue) \in Nat \ {0}
  BY LenProperties, EmptySeq, StrandAssumption DEF TypeOK
<1> HIDE DEF h
<1>2. 1 \in Queued(c) /\ msgQue[1][2][1] = r[1]
  BY <1>1 DEF Queued
<1>3. PICK n \in h .. MaxRequests : QueuedNumbers(c) = h + 1 .. n
  BY DEF QueueNumbered, h
<1>4. r[1] \in h + 1 .. n
  BY <1>2, <1>3 DEF QueuedNumbers
<1>5. h + 1 \in QueuedNumbers(c)
  BY <1>1, <1>3, <1>4
<1>6. PICK j \in Queued(c) : msgQue[j][2][1] = h + 1
  BY <1>5 DEF QueuedNumbers
<1>7. CASE j = 1
  BY <1>2, <1>6, <1>7 DEF h
<1>8. CASE j # 1
  <2>1. 1 < j
    BY <1>8 DEF Queued
  <2>2. r[1] < h + 1
    BY <1>2, <1>6, <2>1 DEF QueueNumbered
  <2> QED
    BY <1>1, <1>3, <1>4, <2>2
<1> QED
  BY <1>7, <1>8

LEMMA HandledInOrder ==
  ASSUME TypeOK, NEW c \in Client, NEW r \in Request, NEW d \in Client,
         QueueNumbered(c), QueueNumbered(d),
         msgQue # <<>>, msgQue[1] = <<c, r>>,
         msgQue' = Tail(msgQue),
         handled' = [handled EXCEPT ![c] = Append(@, r)],
         UNCHANGED <<rpc, reading>>
  PROVE  QueueNumbered(d)'
<1> DEFINE L == Len(msgQue)
<1>1. /\ Len(msgQue') = L - 1 /\ L \in Nat \ {0}
      /\ \A i \in 1 .. L - 1 : msgQue'[i] = msgQue[i + 1]
  BY HeadTailProperties, LenProperties, EmptySeq DEF TypeOK
<1> HIDE DEF L
<1>2. \A i : i \in Queued(d)' <=> i \in Nat \ {0} /\ i + 1 \in Queued(d)
  <2> SUFFICES ASSUME NEW i
               PROVE  i \in Queued(d)' <=> i \in Nat \ {0} /\ i + 1 \in Queued(d)
    OBVIOUS
  <2>1. i \in 1 .. L - 1 <=> i \in Nat \ {0} /\ i + 1 \in 1 .. L
    BY <1>1
  <2> QED
    BY <1>1, <2>1 DEF Queued, L
<1>3. \A i \in Queued(d)' : msgQue'[i] = msgQue[i + 1] /\ i \in Nat
  BY <1>1 DEF Queued
<1>4. ASSUME NEW i \in Queued(d)', NEW j \in Queued(d)', i < j
      PROVE  msgQue'[i][2][1] < msgQue'[j][2][1]
  <2>1. i + 1 < j + 1 /\ i + 1 \in Queued(d) /\ j + 1 \in Queued(d)
    BY <1>2, <1>3, <1>4
  <2>2. msgQue[i + 1][2][1] < msgQue[j + 1][2][1]
    BY <2>1 DEF QueueNumbered
  <2> QED
    BY <1>3, <2>2
<1>5. QueuedNumbers(d)' = {msgQue[i][2][1] : i \in Queued(d) \ {1}}
  <2>1. ASSUME NEW i \in Queued(d)'
        PROVE  msgQue'[i][2][1] \in {msgQue[j][2][1] : j \in Queued(d) \ {1}}
    <3>1. i + 1 \in Queued(d) \ {1}
      BY <1>2, <1>3
    <3> QED
      BY <1>3, <3>1
  <2>2. ASSUME NEW j \in Queued(d) \ {1}
        PROVE  msgQue[j][2][1] \in QueuedNumbers(d)'
    <3>1. j \in 1 .. L /\ j # 1
      BY DEF Queued, L
    <3>2. j - 1 \in Nat \ {0} /\ (j - 1) + 1 = j
      BY <1>1, <3>1
    <3>3. j - 1 \in Queued(d)'
      BY <1>2, <3>2
    <3>4. msgQue'[j - 1] = msgQue[j]
      BY <1>3, <3>2, <3>3
    <3> QED
      BY <3>3, <3>4 DEF QueuedNumbers
  <2> QED
    BY <2>1, <2>2 DEF QueuedNumbers
<1>6. \A n : PostedIs(d, n) <=> PostedIs(d, n)'
  BY DEF PostedIs
<1>7. msgQue[1][1] = c /\ msgQue[1][2][1] = r[1] /\ 1 \in 1 .. L
  BY <1>1
<1>8. CASE d # c
  <2>1. 1 \notin Queued(d)
    BY <1>7, <1>8 DEF Queued
  <2>2. QueuedNumbers(d)' = QueuedNumbers(d)
    BY <1>5, <2>1 DEF QueuedNumbers
  <2>3. handled'[d] = handled[d]
    BY <1>8 DEF TypeOK
  <2>4. \E n \in Len(handled'[d]) .. MaxRequests :
          QueuedNumbers(d)' = Len(handled'[d]) + 1 .. n /\ PostedIs(d, n)'
    BY <1>6, <2>2, <2>3 DEF QueueNumbered
  <2> QED
    BY <1>4, <2>3, <2>4 DEF QueueNumbered
<1>9. CASE d = c
  <2> DEFINE h == Len(handled[c])
             H == handled'[c]
  <2>1. h \in Nat /\ MaxRequests \in Nat
    BY LenProperties, StrandAssumption DEF TypeOK
  <2>2. /\ Len(H) = h + 1
        /\ \A n \in 1 .. h : H[n] = handled[c][n]
        /\ H[h + 1] = r
    <3>1. handled[c] \in Seq(Request) /\ H = Append(handled[c], r)
      BY DEF TypeOK
    <3> QED
      BY <3>1, AppendProperties
  <2>3. r[1] = h + 1
    BY FrontIsNext
  <2>4. 1 \in Queued(c)
    BY <1>1, <1>7 DEF Queued, L
  <2>5. PICK n \in h .. MaxRequests :
          QueuedNumbers(c) = h + 1 .. n /\ PostedIs(c, n)
    BY DEF QueueNumbered
  <2> HIDE DEF h, H
  <2>6. \A m \in 1 .. Len(H) : H[m][1] = m
    <3> SUFFICES ASSUME NEW m \in 1 .. h + 1 PROVE H[m][1] = m
      BY <2>2
    <3>1. CASE m \in 1 .. h
      BY <2>2, <3>1 DEF QueueNumbered, h
    <3>2. CASE m = h + 1
      BY <2>2, <2>3, <3>2
    <3> QED
      BY <2>1, <3>1, <3>2
  <2>7. {msgQue[i][2][1] : i \in Queued(c) \ {1}} = QueuedNumbers(c) \ {h + 1}
    <3>1. \A i \in Queued(c) \ {1} : msgQue[i][2][1] # h + 1
      <4> SUFFICES ASSUME NEW i \in Queued(c) \ {1}
                   PROVE  msgQue[i][2][1] # h + 1
        OBVIOUS
      <4>1. 1 < i
        BY DEF Queued
      <4>2. msgQue[1][2][1] < msgQue[i][2][1]
        BY <2>4, <4>1 DEF QueueNumbered
      <4> QED
        BY <1>7, <2>1, <2>3, <4>2
    <3>2. msgQue[1][2][1] = h + 1
      BY <1>7, <2>3
    <3> QED
      BY <3>1, <3>2 DEF QueuedNumbers
  <2>8. h + 1 \in QueuedNumbers(c)
    BY <1>7, <2>3, <2>4 DEF QueuedNumbers
  <2>9. n \in h + 1 .. MaxRequests /\ QueuedNumbers(c)' = h + 2 .. n
    <3>1. h + 1 \in h + 1 .. n
      BY <2>5, <2>8
    <3>2. n \in Int /\ n >= h + 1 /\ n <= MaxRequests
      BY <2>1, <2>5, <3>1
    <3>3. (h + 1 .. n) \ {h + 1} = h + 2 .. n
      BY <2>1, <3>2
    <3>4. QueuedNumbers(c)' = QueuedNumbers(c) \ {h + 1}
      BY <1>5, <1>9, <2>7
    <3>5. QueuedNumbers(c)' = h + 2 .. n
      BY <2>5, <3>3, <3>4
    <3> QED
      BY <2>1, <3>2, <3>5
  <2>10. \E k \in Len(handled'[c]) .. MaxRequests :
           QueuedNumbers(c)' = Len(handled'[c]) + 1 .. k /\ PostedIs(c, k)'
    <3>1. Len(handled'[c]) = h + 1 /\ Len(handled'[c]) + 1 = h + 2
      BY <2>1, <2>2 DEF H
    <3> QED
      BY <1>6, <1>9, <2>5, <2>9, <3>1
  <2> QED
    BY <1>4, <1>9, <2>6, <2>10 DEF QueueNumbered, H
<1> QED
  BY <1>8, <1>9
-----------------------------------------------------------------------------
(***************************************************************************)
(* The replies on their way back.                                          *)
(***************************************************************************)
LEMMA RepliesAside ==
  ASSUME NEW c \in Client, RepliesNumbered(c),
         Unsent(c)' = Unsent(c), got'[c] = got[c], handled'[c] = handled[c],
         \A n : <<c, n>> \in dropped' <=> <<c, n>> \in dropped,
         peer'[c] # "gone" => peer[c] # "gone"
  PROVE  RepliesNumbered(c)'
<1>1. Replies(c)' = Replies(c)
  BY DEF Replies
<1>2. Owed(c)' = Owed(c)
  BY DEF Owed
<1> QED
  BY <1>1, <1>2 DEF RepliesNumbered, Increasing, Elements

\* A client that has not connected is owed nothing, so nothing is being sent.
LEMMA NothingForNewcomers ==
  ASSUME TypeOK, WritersHaveReplies, Newcomers, NEW c \in Client,
         InboundNumbered(c), QueueNumbered(c), RepliesNumbered(c),
         c \in writing \ written
  PROVE  peer[c] # "new"
<1> SUFFICES ASSUME peer[c] = "new" PROVE FALSE
  OBVIOUS
<1> DEFINE h == Len(handled[c])
           q == reading[c][1]
           l == Len(inbound[c])
<1>1. h \in Nat /\ q \in Nat /\ l \in Nat
  BY LenProperties, StrandAssumption DEF TypeOK, Request, NoRequest
<1>2. q + l = 0 /\ rpc[c] = "none"
  BY DEF Newcomers, InboundNumbered
<1>3. PICK n \in h .. MaxRequests : n = q
  BY <1>2 DEF QueueNumbered, PostedIs
<1> HIDE DEF h, q, l
<1>4. h = 0
  BY <1>1, <1>2, <1>3, StrandAssumption
<1>5. Owed(c) = {}
  BY <1>4 DEF Owed, h
<1>6. Unsent(c) = out[c] /\ out[c] # <<>> /\ out[c] \in Seq(Nat)
  BY NumbersAreNaturals DEF Unsent, WritersHaveReplies, TypeOK
<1>7. Replies(c) \in Seq(Nat) /\ got[c] \in Seq(Nat)
      /\ Len(Replies(c)) = Len(got[c]) + Len(out[c])
  BY <1>6, NumbersAreNaturals, ConcatProperties DEF TypeOK, Replies
<1> DEFINE s == Replies(c)
<1>8. Len(out[c]) \in Nat \ {0} /\ Len(got[c]) \in Nat /\ Len(s) \in Nat
  BY <1>6, <1>7, LenProperties, EmptySeq
<1>9. Len(s) > 0
  <2> DEFINE x == Len(s)
             y == Len(got[c])
             z == Len(out[c])
  <2>1. x = y + z /\ z \in Nat \ {0} /\ y \in Nat
    BY <1>7, <1>8
  <2> HIDE DEF x, y, z
  <2>2. x > 0
    BY <2>1
  <2> QED
    BY <2>2 DEF x
<1>10. s[1] \in Elements(s)
  BY <1>8, <1>9 DEF Elements
<1> QED
  BY <1>5, <1>10 DEF RepliesNumbered

LEMMA RepliesTransmitted ==
  ASSUME TypeOK, WritersHaveReplies, NEW c \in Client, NEW d \in Client,
         RepliesNumbered(d), peer[c] # "new", Transmit(c)
  PROVE  RepliesNumbered(d)'
<1>1. /\ written' = written \cup {c} /\ c \notin written
      /\ UNCHANGED <<out, handled, dropped, peer>>
  BY DEF Transmit, logicVars, peerVars
<1>2. CASE d # c
  <2>1. got'[d] = got[d]
    BY <1>2 DEF Transmit, TypeOK
  <2>2. Unsent(d)' = Unsent(d)
    BY <1>1, <1>2 DEF Unsent
  <2> QED
    BY <1>1, <2>1, <2>2, RepliesAside
<1>3. CASE d = c /\ peer[c] = "gone"
  BY <1>1, <1>3 DEF RepliesNumbered
<1>4. CASE d = c /\ peer[c] = "connected"
  <2>1. got'[c] = Append(got[c], Head(out[c]))
    BY <1>4 DEF Transmit, TypeOK
  <2>2. Unsent(c) = out[c] /\ Unsent(c)' = Tail(out[c])
    BY <1>1 DEF Unsent
  <2>3. out[c] # <<>> /\ out[c] \in Seq(Nat) /\ got[c] \in Seq(Nat)
    BY NumbersAreNaturals DEF Transmit, WritersHaveReplies, TypeOK
  <2>4. Replies(c)' = Replies(c)
    BY <2>1, <2>2, <2>3, MoveFront DEF Replies
  <2>5. Owed(c)' = Owed(c)
    BY <1>1 DEF Owed
  <2> QED
    BY <1>1, <1>4, <2>4, <2>5 DEF RepliesNumbered, Increasing, Elements
<1> QED
  BY <1>2, <1>3, <1>4 DEF TypeOK

LEMMA RepliesPopped ==
  ASSUME TypeOK, NEW t \in Thread, NEW c \in Client, NEW d \in Client,
         RepliesNumbered(d), WriteCallbackOk(t, c)
  PROVE  RepliesNumbered(d)'
<1>1. /\ written' = written \ {c} /\ c \in written
      /\ out' = [out EXCEPT ![c] = Tail(@)]
      /\ UNCHANGED <<got, handled, dropped, peer>>
  BY DEF WriteCallbackOk, logicVars, peerVars
<1>2. Unsent(d)' = Unsent(d)
  BY <1>1 DEF Unsent, TypeOK
<1> QED
  BY <1>1, <1>2, RepliesAside

\* What a client is owed after its request r has been handled.
LEMMA OwedHandled ==
  ASSUME TypeOK, NEW c \in Client, NEW r \in Request,
         RepliesNumbered(c), r[1] = Len(handled[c]) + 1,
         handled'[c] = Append(handled[c], r),
         \A n : n # r[1] => (<<c, n>> \in dropped' <=> <<c, n>> \in dropped)
  PROVE  /\ r[2] \in {"known", "oversize"} /\ <<c, r[1]>> \notin dropped' =>
              Owed(c)' = Owed(c) \cup {r[1]}
         /\ r[2] \notin {"known", "oversize"} \/ <<c, r[1]>> \in dropped' =>
              Owed(c)' = Owed(c)
<1> DEFINE h == Len(handled[c])
           H == handled'[c]
           k == r[1]
<1>1. /\ Len(H) = h + 1 /\ h \in Nat
      /\ \A n \in 1 .. h : H[n] = handled[c][n]
      /\ H[h + 1] = r
  <2>1. handled[c] \in Seq(Request)
    BY DEF TypeOK
  <2> QED
    BY <2>1, AppendProperties, LenProperties
<1>2. k = h + 1
  OBVIOUS
<1>3. \A n : n # k => (<<c, n>> \in dropped' <=> <<c, n>> \in dropped)
  OBVIOUS
<1> HIDE DEF h, H, k
<1>4. \A n : n \in 1 .. Len(H) <=> n \in 1 .. h \/ n = k
  BY <1>1, <1>2
<1>5. k \notin 1 .. h
  BY <1>1, <1>2
<1>6. \A n \in 1 .. h : n \in Owed(c)' <=> n \in Owed(c)
  BY <1>1, <1>3, <1>4, <1>5 DEF Owed, H, h
<1>7. k \in Owed(c)' <=>
        r[2] \in {"known", "oversize"} /\ <<c, k>> \notin dropped'
  BY <1>1, <1>2, <1>4 DEF Owed, H
<1>8. Owed(c) \subseteq 1 .. h /\ Owed(c)' \subseteq 1 .. Len(H)
  BY DEF Owed, h, H
<1>9. CASE k \in Owed(c)'
  <2>1. \A n : n \in Owed(c)' <=> n \in Owed(c) \cup {k}
    BY <1>4, <1>6, <1>8, <1>9
  <2> QED
    BY <1>7, <1>9, <2>1 DEF k
<1>10. CASE k \notin Owed(c)'
  <2>1. \A n : n \in Owed(c)' <=> n \in Owed(c)
    BY <1>4, <1>5, <1>6, <1>8, <1>10
  <2> QED
    BY <1>7, <1>10, <2>1 DEF k
<1> QED
  BY <1>9, <1>10

\* send() puts a reply behind those that are not out.
LEMMA ReplyAppends ==
  ASSUME TypeOK, WritersHaveReplies, NEW c \in Client, NEW n \in Nat,
         out'[c] = Append(out[c], n), written' = written
  PROVE  Unsent(c)' = Append(Unsent(c), n) /\ Unsent(c) \in Seq(Nat)
<1>1. out[c] \in Seq(Nat)
  BY NumbersAreNaturals DEF TypeOK
<1>2. CASE c \in written
  <2>1. out[c] # <<>>
    BY <1>2 DEF WritersHaveReplies, TypeOK
  <2>2. Tail(Append(out[c], n)) = Append(Tail(out[c]), n)
    BY <1>1, <2>1, HeadTailAppend
  <2>3. Tail(out[c]) \in Seq(Nat)
    BY <1>1, <2>1, HeadTailProperties
  <2> QED
    BY <1>2, <2>2, <2>3 DEF Unsent
<1>3. CASE c \notin written
  BY <1>1, <1>3 DEF Unsent
<1> QED
  BY <1>2, <1>3

LEMMA RepliesHandled ==
  ASSUME TypeOK, WritersHaveReplies, NEW c \in Client, NEW r \in Request,
         NEW d \in Client, QueueNumbered(c), RepliesNumbered(d), Handle(c, r)
  PROVE  RepliesNumbered(d)'
<1>1. UNCHANGED <<written, got, peer>>
      /\ handled' = [handled EXCEPT ![c] = Append(@, r)]
  BY DEF Handle, Reply, sendVars, peerVars
<1>2. \A e \in Client : \A n : <<e, n>> # <<c, r[1]>> =>
        (<<e, n>> \in dropped' <=> <<e, n>> \in dropped)
  BY DEF Handle, Reply
<1>3. CASE d # c
  <2>1. out'[d] = out[d]
    BY <1>3 DEF Handle, Reply, sendVars, TypeOK
  <2>2. Unsent(d)' = Unsent(d)
    BY <1>1, <2>1 DEF Unsent
  <2>3. handled'[d] = handled[d]
    BY <1>1, <1>3 DEF TypeOK
  <2>4. \A n : <<d, n>> \in dropped' <=> <<d, n>> \in dropped
    BY <1>2, <1>3
  <2> QED
    BY <1>1, <2>2, <2>3, <2>4, RepliesAside
<1>4. CASE d = c
  <2> DEFINE h == Len(handled[c])
             k == r[1]
  <2>1. k = h + 1 /\ h \in Nat /\ k \in Nat
    <3>1. k = h + 1
      BY FrontIsNext DEF Handle
    <3>2. h \in Nat
      BY LenProperties DEF TypeOK
    <3>3. k \in Nat
      BY StrandAssumption DEF Request
    <3> QED
      BY <3>1, <3>2, <3>3
  <2>2. handled'[c] = Append(handled[c], r) /\ Len(handled'[c]) = h + 1
    <3>1. handled[c] \in Seq(Request)
      BY DEF TypeOK
    <3>2. handled'[c] = Append(handled[c], r)
      BY <1>1 DEF TypeOK
    <3> QED
      BY <3>1, <3>2, AppendProperties
  <2>3. \A n : n # k => (<<c, n>> \in dropped' <=> <<c, n>> \in dropped)
    BY <1>2
  <2>4. \A n \in 1 .. MaxRequests : <<c, n>> \in dropped => n <= h
    BY <1>4 DEF RepliesNumbered
  <2>5. <<c, k>> \notin dropped
    <3>1. k \in 1 .. MaxRequests
      BY DEF Request
    <3> HIDE DEF h, k
    <3> QED
      BY <2>1, <2>4, <3>1
  <2>6. \A n \in 1 .. MaxRequests : <<c, n>> \in dropped' =>
          n <= Len(handled'[c])
    <3> HIDE DEF h, k
    <3> QED
      BY <2>1, <2>2, <2>3, <2>4, StrandAssumption
  <2>7. /\ r[2] \in {"known", "oversize"} /\ <<c, k>> \notin dropped' =>
             Owed(c)' = Owed(c) \cup {k}
        /\ r[2] \notin {"known", "oversize"} \/ <<c, k>> \in dropped' =>
             Owed(c)' = Owed(c)
    BY <1>4, <2>1, <2>2, <2>3, OwedHandled
  <2>8. CASE out' = out /\ Owed(c)' = Owed(c)
    <3>1. Replies(c)' = Replies(c)
      BY <1>1, <2>8 DEF Replies, Unsent
    <3> QED
      BY <1>1, <1>4, <2>6, <2>8, <3>1 DEF RepliesNumbered, Increasing, Elements
  <2>9. CASE /\ out' = [out EXCEPT ![c] = Append(@, k)]
             /\ Owed(c)' = Owed(c) \cup {k}
    <3>1. out'[c] = Append(out[c], k)
      BY <2>9 DEF TypeOK
    <3>2. Unsent(c)' = Append(Unsent(c), k) /\ Unsent(c) \in Seq(Nat)
      BY <1>1, <2>1, <3>1, ReplyAppends
    <3>3. got[c] \in Seq(Nat)
      BY NumbersAreNaturals DEF TypeOK
    <3>4. Replies(c)' = Append(Replies(c), k) /\ Replies(c) \in Seq(Nat)
      <4>1. got[c] \o Append(Unsent(c), k) = Append(got[c] \o Unsent(c), k)
        <5> DEFINE u == Unsent(c)
                   g == got[c]
        <5>1. u \in Seq(Nat) /\ g \in Seq(Nat) /\ k \in Nat
          BY <2>1, <3>2, <3>3
        <5> HIDE DEF u, g, k
        <5>2. g \o Append(u, k) = Append(g \o u, k)
          BY <5>1, AppendToBoth
        <5> QED
          BY <5>2 DEF u, g
      <4>2. got[c] \o Unsent(c) \in Seq(Nat)
        BY <3>2, <3>3, ConcatProperties
      <4>3. Replies(c)' = got[c] \o Append(Unsent(c), k)
        BY <1>1, <3>2 DEF Replies
      <4> QED
        BY <4>1, <4>2, <4>3 DEF Replies
    <3>5. \A m \in Owed(c) : m < k
      <4>1. Owed(c) \subseteq 1 .. h
        BY DEF Owed
      <4> HIDE DEF h, k
      <4> QED
        BY <2>1, <4>1
    <3>6. ASSUME peer'[c] # "gone"
          PROVE  Increasing(Replies(c)') /\ Elements(Replies(c)') = Owed(c)'
      <4>1. Increasing(Replies(c)) /\ Elements(Replies(c)) = Owed(c)
        BY <1>1, <1>4, <3>6 DEF RepliesNumbered
      <4>2. /\ Increasing(Append(Replies(c), k))
            /\ Elements(Append(Replies(c), k)) = Elements(Replies(c)) \cup {k}
        BY <2>1, <3>4, <3>5, <4>1, AppendNext
      <4> QED
        BY <2>9, <3>4, <4>1, <4>2
    <3> QED
      BY <1>4, <2>6, <3>6 DEF RepliesNumbered, Increasing, Elements
  <2>10. \/ out' = out /\ Owed(c)' = Owed(c)
         \/ /\ out' = [out EXCEPT ![c] = Append(@, k)]
            /\ Owed(c)' = Owed(c) \cup {k}
    <3>1. CASE r[2] \notin {"known", "oversize"}
      BY <2>7, <3>1 DEF Handle, sendVars
    <3>2. CASE r[2] \in {"known", "oversize"} /\ Len(out[c]) > MaxSendQue
      BY <2>7, <3>2 DEF Handle, Reply, sendVars
    <3>3. CASE r[2] \in {"known", "oversize"} /\ ~(Len(out[c]) > MaxSendQue)
      BY <2>5, <2>7, <3>3 DEF Handle, Reply, sendVars
    <3> QED
      BY <3>1, <3>2, <3>3
  <2> QED
    BY <2>8, <2>9, <2>10
<1> QED
  BY <1>3, <1>4
-----------------------------------------------------------------------------
(***************************************************************************)
(* Every step.                                                             *)
(***************************************************************************)
\* How the read of session d moves when no request passes.
RpcMoves(d) ==
  \/ rpc'[d] = rpc[d]
  \/ rpc[d] \in InHand /\ rpc'[d] \in InHand
  \/ rpc[d] = "none" /\ rpc'[d] = "head"
  \/ rpc'[d] = "done"

LEMMA ReadAside ==
  ASSUME TypeOK, Handled, [Next]_vars,
         \A c \in Client :
           /\ ~HeadArrives(c)
           /\ \A k \in Kind : ~WriteRequest(c, k)
           /\ \A t \in Thread : ~ReadMsg(t, c)
  PROVE  /\ UNCHANGED <<inbound, reading, begun>>
         /\ \A d \in Client : RpcMoves(d)
         /\ LogicHandle \/ UNCHANGED <<msgQue, handled>>
<1> DEFINE Aside == /\ UNCHANGED <<inbound, reading, begun>>
                    /\ \A d \in Client : RpcMoves(d)
                    /\ LogicHandle \/ UNCHANGED <<msgQue, handled>>
<1> USE DEF RpcMoves
<1>1. ASSUME NEW c \in Client, Clients(c) PROVE Aside
  BY <1>1 DEF Clients, Connect, Leave, readVars, logicVars
<1>2. ASSUME NEW c \in Client, Reading(c) PROVE Aside
  <2>1. CASE BodyArrives(c)
    BY <2>1 DEF BodyArrives, InHand, TypeOK, logicVars, peerVars
  <2>2. ASSUME NEW t \in Thread, ReadHead(t, c) PROVE Aside
    BY <2>2 DEF ReadHead, InHand, TypeOK, logicVars, peerVars
  <2>3. ASSUME NEW t \in Thread, ReadHeadOversize(t, c) \/ ReadHeadThrows(t, c)
        PROVE  Aside
    BY <2>3 DEF ReadHeadOversize, ReadHeadThrows, InHand, TypeOK, readVars,
                logicVars, peerVars
  <2>4. ASSUME NEW t \in Thread, ReadError(t, c) PROVE Aside
    BY <2>4 DEF ReadError, TypeOK, logicVars, peerVars
  <2> QED
    BY <1>2, <2>1, <2>2, <2>3, <2>4 DEF Reading
<1>3. ASSUME NEW c \in Client, Writing(c) PROVE Aside
  BY <1>3 DEF Writing, Transmit, WriteCallbackOk, WriteCallbackError, readVars,
              logicVars, peerVars
<1>4. ASSUME NEW t \in Thread, NEW c \in Client, AcceptStart(t, c) PROVE Aside
  BY <1>4 DEF AcceptStart, TypeOK, logicVars, peerVars
<1>5. ASSUME NEW t \in Thread, EndOfHandler(t) PROVE Aside
  <2>1. CASE AcceptInsert(t) \/ AcceptInserted(t) \/ SessionErased(t)
    BY <2>1 DEF AcceptInsert, AcceptInserted, SessionErased, readVars,
                logicVars, peerVars
  <2>2. CASE OversizeGoesOn(t)
    <3> DEFINE c == handler[t][2]
    <3>1. c \in Client /\ handler[t] = <<"eraseGoOn", c>>
      BY <2>2, InsideTyped DEF OversizeGoesOn, Erased, Inside
    <3>2. rpc[c] = "inHead"
      BY <3>1 DEF Handled, ErasersKnown
    <3>3. rpc' = [rpc EXCEPT ![c] = "body"]
      BY <2>2 DEF OversizeGoesOn
    <3> HIDE DEF c
    <3> QED
      BY <2>2, <3>1, <3>2, <3>3 DEF OversizeGoesOn, InHand, TypeOK, logicVars,
                                    peerVars
  <2> QED
    BY <1>5, <2>1, <2>2 DEF EndOfHandler
<1>6. CASE LogicHandle \/ Stop \/ Join \/ UNCHANGED vars
  BY <1>6 DEF LogicHandle, Stop, Join, vars, readVars, logicVars, peerVars
<1> QED
  BY <1>1, <1>2, <1>3, <1>4, <1>5, <1>6 DEF Next, Accept

LEMMA RequestsStep ==
  ASSUME TypeOK, Handled, Ordered, [Next]_vars, NEW d \in Client
  PROVE  InboundNumbered(d)' /\ QueueNumbered(d)'
<1>1. InboundNumbered(d) /\ QueueNumbered(d)
  BY DEF Ordered
<1>2. ASSUME NEW c \in Client, NEW k \in Kind, WriteRequest(c, k)
      PROVE  InboundNumbered(d)' /\ QueueNumbered(d)'
  <2>1. UNCHANGED <<rpc, reading, msgQue, handled>>
    BY <1>2 DEF WriteRequest, logicVars
  <2>2. QueueNumbered(d)'
    BY <1>1, <2>1, QueueAside DEF PostedIs
  <2>3. CASE d = c
    <3>1. /\ inbound'[c] = Append(inbound[c], <<begun[c] + 1, k>>)
          /\ begun'[c] = begun[c] + 1 /\ begun[c] < MaxRequests
      BY <1>2 DEF WriteRequest, TypeOK
    <3> QED
      BY <1>1, <2>1, <2>2, <2>3, <3>1, RequestWritten
  <2>4. CASE d # c
    <3>1. inbound'[d] = inbound[d] /\ begun'[d] = begun[d]
      BY <1>2, <2>4 DEF WriteRequest, TypeOK
    <3> QED
      BY <1>1, <2>1, <2>2, <3>1, InboundAside
  <2> QED
    BY <2>3, <2>4
<1>3. ASSUME NEW c \in Client, HeadArrives(c)
      PROVE  InboundNumbered(d)' /\ QueueNumbered(d)'
  <2>1. UNCHANGED <<begun, msgQue, handled>> /\ inbound[c] # <<>>
    BY <1>3 DEF HeadArrives, logicVars, peerVars
  <2>2. CASE d = c
    <3>1. /\ inbound'[c] = Tail(inbound[c])
          /\ reading'[c] = Head(inbound[c])
          /\ rpc[c] = "head" /\ rpc'[c] = "gotHead"
      BY <1>3 DEF HeadArrives, TypeOK
    <3>2. /\ InboundNumbered(c)'
          /\ reading'[c][1] = reading[c][1] + 1
          /\ reading[c][1] \in Int
      BY <1>1, <2>1, <2>2, <3>1, HeaderRead
    <3> DEFINE q == reading[c][1]
    <3>3. q \in Int /\ reading'[c][1] = q + 1
      BY <3>2
    <3>4. \A n : PostedIs(c, n) => n = q
      BY <3>1 DEF PostedIs
    <3> HIDE DEF q
    <3>5. reading'[c][1] - 1 = q
      BY <3>3
    <3>6. \A n : PostedIs(c, n) => PostedIs(c, n)'
      BY <3>1, <3>4, <3>5 DEF PostedIs, InHand
    <3> QED
      BY <1>1, <2>1, <2>2, <3>2, <3>6, QueueAside
  <2>3. CASE d # c
    <3>1. /\ inbound'[d] = inbound[d] /\ reading'[d] = reading[d]
          /\ rpc'[d] = rpc[d]
      BY <1>3, <2>3 DEF HeadArrives, TypeOK
    <3>2. \A n : PostedIs(d, n) => PostedIs(d, n)'
      BY <3>1 DEF PostedIs
    <3> QED
      BY <1>1, <2>1, <3>1, <3>2, InboundAside, QueueAside
  <2> QED
    BY <2>2, <2>3
<1>4. ASSUME NEW c \in Client, NEW t \in Thread, ReadMsg(t, c)
      PROVE  InboundNumbered(d)' /\ QueueNumbered(d)'
  <2>1. /\ rpc[c] = "gotBody" /\ rpc' = [rpc EXCEPT ![c] = "head"]
        /\ msgQue' = Append(msgQue, <<c, reading[c]>>)
        /\ UNCHANGED <<reading, inbound, begun, handled>>
    BY <1>4 DEF ReadMsg, peerVars
  <2>2. reading[c] \in Request
    BY <2>1 DEF Ordered, InboundNumbered, InHand
  <2>3. rpc'[d] \in InHand => rpc[d] \in InHand
    BY <2>1 DEF InHand, TypeOK
  <2> QED
    BY <1>1, <2>1, <2>2, <2>3, InboundAside, PostedInOrder
<1>5. CASE \A c \in Client :
             /\ ~HeadArrives(c)
             /\ \A k \in Kind : ~WriteRequest(c, k)
             /\ \A t \in Thread : ~ReadMsg(t, c)
  <2>1. /\ UNCHANGED <<inbound, reading, begun>> /\ RpcMoves(d)
        /\ LogicHandle \/ UNCHANGED <<msgQue, handled>>
    BY <1>5, ReadAside
  <2>2. InboundNumbered(d)'
    BY <1>1, <2>1, InboundAside DEF RpcMoves, InHand
  <2>3. CASE LogicHandle
    <3>1. PICK c \in Client, r \in Request : Handle(c, r)
      BY <2>3, HandleFront
    <3>2. /\ msgQue # <<>> /\ msgQue[1] = <<c, r>> /\ msgQue' = Tail(msgQue)
          /\ handled' = [handled EXCEPT ![c] = Append(@, r)]
          /\ UNCHANGED <<rpc, reading>>
      BY <3>1 DEF Handle, readVars
    <3>3. QueueNumbered(c)
      BY DEF Ordered
    <3>4. QueueNumbered(d)'
      BY <1>1, <3>2, <3>3, HandledInOrder
    <3> QED
      BY <2>2, <3>4
  <2>4. CASE UNCHANGED <<msgQue, handled>>
    <3>1. \A n : PostedIs(d, n) => PostedIs(d, n)'
      BY <2>1 DEF PostedIs, RpcMoves, InHand
    <3> QED
      BY <1>1, <2>2, <2>4, <3>1, QueueAside
  <2> QED
    BY <2>1, <2>3, <2>4
<1> QED
  BY <1>2, <1>3, <1>4, <1>5

LEMMA RepliesStep ==
  ASSUME TypeOK, WritersHaveReplies, Newcomers, Ordered, [Next]_vars,
         NEW d \in Client
  PROVE  RepliesNumbered(d)'
<1>1. RepliesNumbered(d)
  BY DEF Ordered
<1> DEFINE Still == /\ UNCHANGED <<out, written, got, handled, dropped>>
                    /\ peer'[d] # "gone" => peer[d] # "gone"
<1>2. ASSUME Still PROVE RepliesNumbered(d)'
  BY <1>1, <1>2, RepliesAside DEF Unsent
<1>3. ASSUME NEW c \in Client, Clients(c) PROVE Still
  BY <1>3 DEF Clients, Connect, Leave, WriteRequest, sendVars, logicVars, TypeOK
<1>4. ASSUME NEW c \in Client, Reading(c) PROVE Still
  BY <1>4 DEF Reading, HeadArrives, BodyArrives, ReadHead, ReadHeadOversize,
              ReadHeadThrows, ReadMsg, ReadError, sendVars, logicVars, peerVars
<1>5. ASSUME NEW c \in Client, Writing(c) PROVE RepliesNumbered(d)'
  <2>1. CASE Transmit(c)
    <3>1. c \in writing \ written
      BY <2>1 DEF Transmit
    <3>2. peer[c] # "new"
      BY <3>1, NothingForNewcomers DEF Ordered
    <3> QED
      BY <1>1, <2>1, <3>2, RepliesTransmitted
  <2>2. ASSUME NEW t \in Thread, WriteCallbackOk(t, c) PROVE RepliesNumbered(d)'
    BY <1>1, <2>2, RepliesPopped
  <2>3. ASSUME NEW t \in Thread, WriteCallbackError(t, c) PROVE Still
    BY <2>3 DEF WriteCallbackError, logicVars, peerVars
  <2> QED
    BY <1>2, <1>5, <2>1, <2>2, <2>3 DEF Writing
<1>6. ASSUME NEW t \in Thread, NEW c \in Client, AcceptStart(t, c) PROVE Still
  BY <1>6 DEF AcceptStart, sendVars, logicVars, peerVars
<1>7. ASSUME NEW t \in Thread, EndOfHandler(t) PROVE Still
  BY <1>7 DEF EndOfHandler, AcceptInsert, AcceptInserted, SessionErased,
              OversizeGoesOn, sendVars, logicVars, peerVars
<1>8. CASE LogicHandle
  <2>1. PICK c \in Client, r \in Request : Handle(c, r)
    BY <1>8, HandleFront
  <2>2. QueueNumbered(c)
    BY DEF Ordered
  <2> QED
    BY <1>1, <2>1, <2>2, RepliesHandled
<1>9. CASE Stop \/ Join \/ UNCHANGED vars
  <2>1. Still
    BY <1>9 DEF Stop, Join, vars, sendVars, logicVars, peerVars
  <2> QED
    BY <1>2, <2>1
<1> HIDE DEF Still
<1> QED
  BY <1>2, <1>3, <1>4, <1>5, <1>6, <1>7, <1>8, <1>9 DEF Next, Accept

LEMMA NewcomersStep ==
  ASSUME TypeOK, Handled, Newcomers, [Next]_vars PROVE Newcomers'
<1> USE DEF Newcomers
<1>1. ASSUME NEW c \in Client, Clients(c) PROVE Newcomers'
  BY <1>1 DEF Clients, Connect, Leave, WriteRequest, readVars, TypeOK
<1>2. ASSUME NEW c \in Client, Reading(c) PROVE Newcomers'
  BY <1>2 DEF Reading, HeadArrives, BodyArrives, ReadHead, ReadHeadOversize,
              ReadHeadThrows, ReadMsg, ReadError, readVars, peerVars, TypeOK
<1>3. ASSUME NEW c \in Client, Writing(c) PROVE Newcomers'
  BY <1>3 DEF Writing, Transmit, WriteCallbackOk, WriteCallbackError, readVars,
              peerVars
<1>4. ASSUME NEW t \in Thread, NEW c \in Client, AcceptStart(t, c)
      PROVE  Newcomers'
  BY <1>4 DEF AcceptStart, peerVars, TypeOK
<1>5. ASSUME NEW t \in Thread, EndOfHandler(t) PROVE Newcomers'
  <2>1. CASE AcceptInsert(t) \/ AcceptInserted(t) \/ SessionErased(t)
    BY <2>1 DEF AcceptInsert, AcceptInserted, SessionErased, readVars, peerVars
  <2>2. CASE OversizeGoesOn(t)
    <3> DEFINE c == handler[t][2]
    <3>1. c \in Client /\ handler[t] = <<"eraseGoOn", c>>
      BY <2>2, InsideTyped DEF OversizeGoesOn, Erased, Inside
    <3>2. rpc[c] = "inHead"
      BY <3>1 DEF Handled, ErasersKnown
    <3>3. /\ rpc' = [rpc EXCEPT ![c] = "body"]
          /\ UNCHANGED <<peer, begun>>
      BY <2>2 DEF OversizeGoesOn, peerVars
    <3> HIDE DEF c
    <3> QED
      BY <3>1, <3>2, <3>3 DEF TypeOK
  <2> QED
    BY <1>5, <2>1, <2>2 DEF EndOfHandler
<1>6. CASE LogicHandle \/ Stop \/ Join \/ UNCHANGED vars
  BY <1>6 DEF LogicHandle, Stop, Join, vars, readVars, peerVars
<1> QED
  BY <1>1, <1>2, <1>3, <1>4, <1>5, <1>6 DEF Next, Accept
-----------------------------------------------------------------------------
LEMMA Initially == Init => IInv
<1> SUFFICES ASSUME Init PROVE IInv
  OBVIOUS
<1> USE DEF Init
<1>1. TypeOK
  <2>1. \A S : <<>> \in Seq(S) /\ Len(<<>>) = 0
    BY EmptySeq
  <2>2. \A S : [c \in Client |-> <<>>] \in [Client -> Seq(S)]
    BY <2>1
  <2>3. /\ out \in [Client -> Seq(1 .. MaxRequests)]
        /\ inbound \in [Client -> Seq(Request)]
        /\ got \in [Client -> Seq(1 .. MaxRequests)]
        /\ handled \in [Client -> Seq(Request)]
        /\ msgQue \in Seq(Client \X Request)
    BY <2>1, <2>2
  <2>4. \A c \in Client : Len(out[c]) <= MaxSendQue + 1
    BY <2>1, StrandAssumption
  <2>5. /\ handler \in [Thread -> {Idle}
             \cup ({"started", "insert", "erase", "eraseGoOn"} \X Client)]
        /\ reading \in [Client -> Request \cup {NoRequest}]
        /\ begun \in [Client -> 0 .. MaxRequests]
    BY StrandAssumption
  <2> QED
    BY <2>3, <2>4, <2>5 DEF TypeOK
<1>2. WritersHaveReplies /\ Newcomers
  BY DEF WritersHaveReplies, Newcomers
<1>3. Handled
  BY DEF Handled, OneOnStrand, ErasersKnown, MapAhead, OversizedStarted, Idle
<1>4. ASSUME NEW c \in Client
      PROVE  InboundNumbered(c) /\ QueueNumbered(c) /\ RepliesNumbered(c)
  <2>1. InboundNumbered(c)
    BY DEF InboundNumbered, InHand, NoRequest
  <2>2. QueuedNumbers(c) = 1 .. 0
    BY DEF QueuedNumbers, Queued
  <2>3. PostedIs(c, 0)
    BY DEF PostedIs, InHand, NoRequest
  <2>4. QueueNumbered(c)
    <3>1. Len(handled[c]) = 0 /\ Queued(c) = {}
      BY DEF Queued
    <3>2. 0 \in 0 .. MaxRequests
      BY StrandAssumption
    <3> QED
      BY <2>2, <2>3, <3>1, <3>2 DEF QueueNumbered
  <2>5. Replies(c) = <<>>
    BY DEF Replies, Unsent
  <2>6. Owed(c) = {} /\ Elements(<<>>) = {} /\ Increasing(<<>>)
    BY DEF Owed, Elements, Increasing
  <2>7. RepliesNumbered(c)
    BY <2>5, <2>6 DEF RepliesNumbered
  <2> QED
    BY <2>1, <2>4, <2>7
<1> QED
  BY <1>1, <1>2, <1>3, <1>4 DEF IInv, Ordered

LEMMA Inductive == IInv /\ [Next]_vars => IInv'
<1> SUFFICES ASSUME IInv, [Next]_vars PROVE IInv'
  OBVIOUS
<1>1. TypeOK /\ WritersHaveReplies /\ Handled /\ Newcomers /\ Ordered
  BY DEF IInv
<1>2. TypeOK' /\ WritersHaveReplies'
  BY <1>1, TypeStep
<1>3. Handled' /\ Newcomers'
  BY <1>1, HandlersStep, NewcomersStep
<1>4. Ordered'
  <2>1. ASSUME NEW d \in Client
        PROVE  InboundNumbered(d)' /\ QueueNumbered(d)' /\ RepliesNumbered(d)'
    BY <1>1, RequestsStep, RepliesStep
  <2> QED
    BY <2>1 DEF Ordered
<1> QED
  BY <1>2, <1>3, <1>4 DEF IInv

LEMMA Always == Spec => []IInv
BY Initially, Inductive, PTL DEF Spec

\* The state keeps its types; in particular no send_que_ grows beyond
\* MAX_SENDQUE + 1 frames, whatever the logic thread and the pool interleave.
THEOREM StrandTypeCorrect == Spec => []TypeOK
BY Always, PTL DEF IInv

\* The requests of a client are handled in its order, and a client that stays
\* is given the replies in that order, each once, although read, write and
\* logic callbacks run on different threads.
THEOREM AlwaysAnsweredInOrder == Spec => []AnsweredInOrder
<1>1. ASSUME IInv PROVE AnsweredInOrder
  <2> SUFFICES ASSUME NEW c \in Client
      PROVE LET replies == got[c] \o Unsent(c)
            IN /\ \A n \in 1 .. Len(handled[c]) : handled[c][n][1] = n
               /\ \A i, j \in Queued(c) :
                    i < j => msgQue[i][2][1] < msgQue[j][2][1]
               /\ \E n \in Len(handled[c]) .. MaxRequests :
                    {msgQue[i][2][1] : i \in Queued(c)}
                      = Len(handled[c]) + 1 .. n
               /\ peer[c] = "connected" =>
                    /\ \A i, j \in 1 .. Len(replies) :
                         i < j => replies[i] < replies[j]
                    /\ {replies[i] : i \in 1 .. Len(replies)} = Owed(c)
    BY DEF AnsweredInOrder
  <2>1. QueueNumbered(c) /\ RepliesNumbered(c)
    BY <1>1 DEF IInv, Ordered
  <2>2. peer[c] = "connected" =>
          Increasing(Replies(c)) /\ Elements(Replies(c)) = Owed(c)
    BY <2>1 DEF RepliesNumbered
  <2> QED
    BY <2>1, <2>2 DEF QueueNumbered, QueuedNumbers, Increasing, Elements, Replies
<1> QED
  BY <1>1, Always, PTL

\* sessions_ agrees with the sessions that serve a client whenever no thread
\* works on it and no two operations have overlapped: for any number of
\* threads that accept, end and erase sessions.
THEOREM StrandSessionsServed == Spec => []SessionsAreServed
<1>1. ASSUME IInv PROVE SessionsAreServed
  <2> SUFFICES ASSUME ~overlapped, \A t \in Thread : handler[t] = Idle,
                      NEW c \in Client, rpc[c] # "none"
               PROVE  /\ c \in open /\ rpc[c] # "done" =>
                           c \in sessions \/ c \in oversized
                      /\ (rpc[c] = "done" \/ c \in oversized) /\ c \in sessions
                           => c \in raced
    BY DEF SessionsAreServed
  <2>1. ~Pending(c) /\ ~Erasing(c)
    BY DEF Pending, Erasing, Idle
  <2> QED
    BY <1>1, <2>1 DEF IInv, Handled, MapAhead
<1> QED
  BY <1>1, Always, PTL
=============================================================================
