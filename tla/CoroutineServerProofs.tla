----------------------- MODULE CoroutineServerProofs -------------------------
(***************************************************************************)
(* What holds of the coroutine server (CoroutineServer) for any clients,   *)
(* limit, kinds and number of requests.  The inductive invariant adds to   *)
(* the types                                                               *)
(*   - that a session with an outstanding write has something to send,     *)
(*   - what is known of a session that is not accepted yet, and of the one *)
(*     accept_callback_ is about to insert,                                *)
(*   - the place in the stream of every header and body that is still to   *)
(*     be read: up to the first request without a body, which ends the     *)
(*     session, headers and bodies alternate,                              *)
(*   - the numbers of the requests in msgQue,                              *)
(*   - and those of the replies on their way back.                         *)
(***************************************************************************)
EXTENDS CoroutineServer, SequenceTheorems, TLAPS

WritersHaveReplies == \A c \in writing : out[c] # <<>>

\* Before its start() a session has read nothing and is neither closed nor
\* being written to; a client that has not connected has no session.
Unaccepted ==
  \A c \in Client :
    /\ spc[c] = "none" =>
         reading[c] = NoRequest /\ c \notin bClose /\ c \notin writing
    /\ peer[c] = "new" => spc[c] = "none"

\* accept_callback_ is through with session c.
Through(c) == accepting # c \/ mpc \in {"accept", "join", "exited"}

MapAhead ==
  \A c \in Client :
    /\ spc[c] # "none" /\ Through(c) =>
         /\ c \notin bClose => c \in sessions
         /\ c \in bClose /\ c \in sessions => c \in raced
    /\ mpc = "insert" /\ accepting = c /\ c \in bClose => c \in raced

Accepted == (mpc = "insert" => accepting \in Client) /\ Unaccepted /\ MapAhead

\* The session is going to read the body of its request.
AwaitsBody(c) ==
  \/ spc[c] = "body"
  \/ spc[c] = "gotHead" /\ reading[c][2] \in HasBody

\* It has read a request that ends it, or has ended.
Ending(c) ==
  \/ spc[c] \in {"gotNothing", "done"}
  \/ spc[c] = "gotHead" /\ reading[c][2] \notin HasBody

AllHaveBodies(s, m) == \A j \in 1 .. m : s[j][2] \in HasBody

\* The items of s follow the first o of the stream.  As far as all requests
\* have bodies, the header of request n is item 2 * n - 1, its body item 2 * n.
Alternating(s, o) ==
  \A i \in 1 .. Len(s) : AllHaveBodies(s, i - 1) =>
    \/ o + i = 2 * s[i][1] - 1
    \/ o + i = 2 * s[i][1] /\ s[i][2] \in HasBody

\* They end where b requests have been written, the last one half if h is 1.
EndsAt(s, o, b, h) == AllHaveBodies(s, Len(s)) => o + Len(s) = 2 * b - h

\* The items of c that its session has read, and the half of the last request.
Taken(c) == 2 * reading[c][1] - (IF AwaitsBody(c) THEN 1 ELSE 0)
HalfWritten(c) == IF half[c] = NoRequest THEN 0 ELSE 1

InboundNumbered(c) ==
  /\ half[c] # NoRequest => half[c][2] \in HasBody /\ half[c][1] = begun[c]
  /\ spc[c] \in {"gotHead", "gotNothing", "body", "gotBody"} =>
       reading[c] \in Request
  /\ ~Ending(c) => /\ Alternating(inbound[c], Taken(c))
                   /\ EndsAt(inbound[c], Taken(c), begun[c], HalfWritten(c))

\* n requests of c have been posted.
PostedIs(c, n) ==
  /\ spc[c] \in {"none", "head"} => n = reading[c][1]
  /\ spc[c] \in {"gotHead", "body", "gotBody"} => n = reading[c][1] - 1

QueuedNumbers(c) == {msgQue[i][2][1] : i \in Queued(c)}

\* Those handled and those queued are the requests posted, in their order.
QueueNumbered(c) ==
  /\ \A n \in 1 .. Len(handled[c]) : handled[c][n][1] = n
  /\ \A i, j \in Queued(c) : i < j => msgQue[i][2][1] < msgQue[j][2][1]
  /\ \E n \in Len(handled[c]) .. MaxRequests :
       QueuedNumbers(c) = Len(handled[c]) + 1 .. n /\ PostedIs(c, n)

Increasing(s) == \A i, j \in 1 .. Len(s) : i < j => s[i] < s[j]
Elements(s) == {s[i] : i \in 1 .. Len(s)}

\* Those received and those not out yet are the replies owed, in their order.
Replies(c) == got[c] \o Unsent(c)

RepliesNumbered(c) ==
  /\ \A n \in 1 .. MaxRequests : <<c, n>> \in dropped => n <= Len(handled[c])
  /\ peer[c] # "gone" =>
       Increasing(Replies(c)) /\ Elements(Replies(c)) = Owed(c)

Ordered ==
  \A c \in Client : InboundNumbered(c) /\ QueueNumbered(c) /\ RepliesNumbered(c)

IInv == TypeOK /\ WritersHaveReplies /\ Accepted /\ Ordered
-----------------------------------------------------------------------------
(***************************************************************************)
(* Sequences.                                                              *)
(***************************************************************************)
\* A frame that goes from the front of one sequence to the end of another
\* leaves their concatenation alone.
LEMMA MoveFront ==
  ASSUME NEW S, NEW s \in Seq(S), NEW t \in Seq(S), t # <<>>
  PROVE  Append(s, Head(t)) \o Tail(t) = s \o t
<1> DEFINE h == Head(t)
           u == Tail(t)
<1>1. /\ h \in S /\ u \in Seq(S) /\ Len(u) = Len(t) - 1
      /\ \A i \in 1 .. Len(u) : u[i] = t[i + 1]
      /\ h = t[1] /\ Len(t) \in Nat \ {0} /\ Len(s) \in Nat
  BY HeadTailProperties, LenProperties, EmptySeq
<1> HIDE DEF h, u
<1> DEFINE a == Append(s, h)
<1>2. /\ a \in Seq(S) /\ Len(a) = Len(s) + 1
      /\ \A i \in 1 .. Len(s) : a[i] = s[i]
      /\ a[Len(s) + 1] = h
  BY <1>1, AppendProperties
<1> HIDE DEF a
<1>3. /\ a \o u \in Seq(S) /\ Len(a \o u) = Len(s) + Len(t)
      /\ \A i \in 1 .. Len(s) + Len(t) :
           (a \o u)[i] = IF i <= Len(s) + 1 THEN a[i] ELSE u[i - (Len(s) + 1)]
  <2>1. Len(a) + Len(u) = Len(s) + Len(t)
    BY <1>1, <1>2
  <2>2. /\ a \o u \in Seq(S) /\ Len(a \o u) = Len(a) + Len(u)
        /\ \A i \in 1 .. Len(a) + Len(u) :
             (a \o u)[i] = IF i <= Len(a) THEN a[i] ELSE u[i - Len(a)]
    BY <1>1, <1>2, ConcatProperties
  <2> QED
    BY <1>2, <2>1, <2>2
<1>4. /\ s \o t \in Seq(S) /\ Len(s \o t) = Len(s) + Len(t)
      /\ \A i \in 1 .. Len(s) + Len(t) :
           (s \o t)[i] = IF i <= Len(s) THEN s[i] ELSE t[i - Len(s)]
  BY ConcatProperties
<1>5. ASSUME NEW i \in 1 .. Len(s) + Len(t)
      PROVE  (a \o u)[i] = (s \o t)[i]
  <2>1. CASE i <= Len(s)
    BY <1>1, <1>2, <1>3, <1>4, <2>1
  <2>2. CASE i = Len(s) + 1
    BY <1>1, <1>2, <1>3, <1>4, <2>2
  <2>3. CASE i > Len(s) + 1
    <3>1. i - (Len(s) + 1) \in 1 .. Len(u)
      BY <1>1, <2>3
    <3>2. u[i - (Len(s) + 1)] = t[i - (Len(s) + 1) + 1]
      BY <1>1, <3>1
    <3>3. i - (Len(s) + 1) + 1 = i - Len(s)
      BY <1>1
    <3> QED
      BY <1>1, <1>3, <1>4, <2>3, <3>2, <3>3
  <2>4. i <= Len(s) \/ i = Len(s) + 1 \/ i > Len(s) + 1
    BY <1>1
  <2> QED
    BY <2>1, <2>2, <2>3, <2>4
<1>6. a \o u = s \o t
  BY <1>3, <1>4, <1>5, SeqEqual
<1> QED
  BY <1>6 DEF a, h, u

LEMMA NumbersAreNaturals ==
  ASSUME NEW s \in Seq(1 .. MaxRequests) PROVE s \in Seq(Nat)
<1>1. 1 .. MaxRequests \subseteq Nat
  BY ServerAssumption
<1> QED
  BY <1>1, SeqMonotonic

LEMMA TailNotEmpty ==
  ASSUME NEW S, NEW s \in Seq(S), Len(s) > 1
  PROVE  Tail(s) # <<>>
<1> DEFINE u == Tail(s)
<1>1. u \in Seq(S) /\ Len(u) = Len(s) - 1 /\ Len(s) \in Nat
  BY HeadTailProperties, LenProperties
<1> HIDE DEF u
<1>2. Len(u) > 0
  BY <1>1
<1>3. u # <<>>
  BY <1>1, <1>2, EmptySeq
<1> QED
  BY <1>3 DEF u

LEMMA AppendToBoth ==
  ASSUME NEW S, NEW s \in Seq(S), NEW t \in Seq(S), NEW e \in S
  PROVE  s \o Append(t, e) = Append(s \o t, e)
<1>1. <<e>> \in Seq(S)
  OBVIOUS
<1>2. s \o t \in Seq(S)
  BY ConcatProperties
<1>3. s \o (t \o <<e>>) = (s \o t) \o <<e>>
  BY <1>1, ConcatAssociative
<1> QED
  BY <1>2, <1>3, AppendIsConcat

\* A sequence stays increasing when a number above all of its own is appended.
LEMMA AppendNext ==
  ASSUME NEW s \in Seq(Nat), NEW n \in Nat, Increasing(s),
         \A m \in Elements(s) : m < n
  PROVE  /\ Increasing(Append(s, n))
         /\ Elements(Append(s, n)) = Elements(s) \cup {n}
<1> DEFINE a == Append(s, n)
<1>1. /\ Len(a) = Len(s) + 1 /\ Len(s) \in Nat
      /\ \A i \in 1 .. Len(s) : a[i] = s[i]
      /\ a[Len(s) + 1] = n
  BY AppendProperties, LenProperties
<1> HIDE DEF a
<1>2. \A i \in 1 .. Len(s) : s[i] < n
  BY DEF Elements
<1>3. Increasing(a)
  <2> SUFFICES ASSUME NEW i \in 1 .. Len(a), NEW j \in 1 .. Len(a), i < j
               PROVE  a[i] < a[j]
    BY DEF Increasing
  <2>1. i \in 1 .. Len(s)
    BY <1>1
  <2>2. CASE j \in 1 .. Len(s)
    BY <1>1, <2>1, <2>2 DEF Increasing
  <2>3. CASE j = Len(s) + 1
    BY <1>1, <1>2, <2>1, <2>3
  <2> QED
    BY <1>1, <2>2, <2>3
<1>4. Elements(a) = Elements(s) \cup {n}
  <2>1. ASSUME NEW m \in Elements(a) PROVE m \in Elements(s) \cup {n}
    <3>1. PICK i \in 1 .. Len(s) + 1 : m = a[i]
      BY <1>1, <2>1 DEF Elements
    <3>2. i \in 1 .. Len(s) \/ i = Len(s) + 1
      BY <1>1
    <3> QED
      BY <1>1, <3>1, <3>2 DEF Elements
  <2>2. ASSUME NEW i \in 1 .. Len(s) PROVE s[i] \in Elements(a)
    BY <1>1, <2>2 DEF Elements
  <2>3. n \in Elements(a)
    BY <1>1 DEF Elements
  <2> QED
    BY <2>1, <2>2, <2>3 DEF Elements
<1> QED
  BY <1>3, <1>4 DEF a
-----------------------------------------------------------------------------
(***************************************************************************)
(* The types.                                                              *)
(***************************************************************************)
\* deal_msg_() takes the request r of client c from the front.
Handle(c, r) ==
  /\ msgQue # <<>>
  /\ msgQue[1] = <<c, r>>
  /\ msgQue' = Tail(msgQue)
  /\ handled' = [handled EXCEPT ![c] = Append(@, r)]
  /\ \/ r[2] = "known" /\ Reply(c, r[1])
     \/ r[2] # "known" /\ UNCHANGED <<sendVars, dropped>>
  /\ mpc' \in {mpc, "terminated"}
  /\ UNCHANGED <<accepting, iopc, readVars, closeVars, peerVars, inbound, got>>

LEMMA HandleFront ==
  ASSUME TypeOK, LogicHandle
  PROVE  \E c \in Client, r \in Request : Handle(c, r)
<1>1. msgQue[1] \in Client \X Request /\ Head(msgQue) = msgQue[1]
  BY HeadTailProperties, EmptySeq DEF LogicHandle, TypeOK
<1>2. PICK c \in Client, r \in Request : msgQue[1] = <<c, r>>
  BY <1>1
<1>3. r = <<r[1], r[2]>>
  BY <1>2 DEF Request
<1>4. /\ Head(msgQue)[1] = c /\ Head(msgQue)[2][1] = r[1]
      /\ Head(msgQue)[2][2] = r[2]
  BY <1>1, <1>2
<1>5. handled' = [handled EXCEPT ![c] = Append(@, r)]
  BY <1>3, <1>4 DEF LogicHandle
<1>6. /\ \/ r[2] = "known" /\ Reply(c, r[1])
         \/ r[2] # "known" /\ UNCHANGED <<sendVars, dropped>>
      /\ mpc' \in {mpc, "terminated"}
  BY <1>4 DEF LogicHandle
<1>7. Handle(c, r)
  BY <1>2, <1>5, <1>6 DEF LogicHandle, Handle
<1> QED
  BY <1>7

LEMMA TypeStep ==
  ASSUME TypeOK, WritersHaveReplies, Accepted, Ordered, [Next]_vars
  PROVE  TypeOK' /\ WritersHaveReplies'
<1> DEFINE Keeps == TypeOK' /\ WritersHaveReplies'
<1> USE DEF WritersHaveReplies
<1>1. ASSUME NEW c \in Client, Connect(c) \/ Leave(c) PROVE Keeps
  BY <1>1 DEF TypeOK, Connect, Leave, mainVars, closeVars, readVars, sendVars,
              logicVars
<1>2. ASSUME NEW c \in Client, NEW k \in Kind, WriteHead(c, k) PROVE Keeps
  <2>1. /\ begun[c] + 1 \in 1 .. MaxRequests
        /\ begun' = [begun EXCEPT ![c] = @ + 1]
    BY <1>2, ServerAssumption DEF WriteHead, TypeOK
  <2>2. <<begun[c] + 1, k>> \in Request
    BY <2>1 DEF Request
  <2>3. Append(inbound[c], <<begun[c] + 1, k>>) \in Seq(Request)
    BY <2>2, AppendProperties DEF TypeOK
  <2>4. /\ begun' \in [Client -> 0 .. MaxRequests]
        /\ inbound' \in [Client -> Seq(Request)]
        /\ half' \in [Client -> Request \cup {NoRequest}]
    BY <1>2, <2>1, <2>2, <2>3 DEF WriteHead, TypeOK
  <2> QED
    BY <1>2, <2>4 DEF TypeOK, WriteHead, mainVars, closeVars, readVars,
                      sendVars, logicVars
<1>3. ASSUME NEW c \in Client, WriteBody(c) PROVE Keeps
  <2>1. Append(inbound[c], half[c]) \in Seq(Request)
    <3>1. half[c] \in Request /\ inbound[c] \in Seq(Request)
      BY <1>3 DEF WriteBody, TypeOK
    <3> QED
      BY <3>1, AppendProperties
  <2>2. /\ inbound' \in [Client -> Seq(Request)]
        /\ half' \in [Client -> Request \cup {NoRequest}]
    BY <1>3, <2>1 DEF WriteBody, TypeOK
  <2> QED
    BY <1>3, <2>2 DEF TypeOK, WriteBody, mainVars, closeVars, readVars,
                      sendVars, logicVars
<1>4. ASSUME NEW c \in Client, AcceptStart(c) PROVE Keeps
  BY <1>4 DEF TypeOK, AcceptStart, CoroutinePC, closeVars, sendVars, logicVars,
              peerVars
<1>5. CASE AcceptInsert
  <2>1. accepting \in Client
    BY <1>5 DEF AcceptInsert, Accepted
  <2> QED
    BY <1>5, <2>1 DEF TypeOK, AcceptInsert, readVars, sendVars, logicVars,
                      peerVars
<1>6. CASE Signal \/ Join \/ IOExit
  BY <1>6 DEF TypeOK, Signal, Join, IOExit, readVars, closeVars, sendVars,
              logicVars, peerVars
<1>7. ASSUME NEW c \in Client,
             Arrive(c, "head", "gotHead") \/ Arrive(c, "body", "gotBody")
      PROVE  Keeps
  <2>1. PICK from, to \in {"head", "gotHead", "body", "gotBody"} :
          Arrive(c, from, to)
    BY <1>7
  <2>2. Head(inbound[c]) \in Request /\ Tail(inbound[c]) \in Seq(Request)
    BY <2>1, HeadTailProperties DEF Arrive, TypeOK
  <2>3. /\ inbound' \in [Client -> Seq(Request)]
        /\ reading' \in [Client -> Request \cup {NoRequest}]
        /\ spc' \in [Client -> CoroutinePC]
    BY <2>1, <2>2 DEF Arrive, TypeOK, CoroutinePC
  <2> QED
    BY <2>1, <2>3 DEF TypeOK, Arrive, mainVars, closeVars, sendVars,
                      logicVars, peerVars
<1>8. ASSUME NEW c \in Client, HeadRead(c) PROVE Keeps
  BY <1>8 DEF TypeOK, HeadRead, CoroutinePC, mainVars, closeVars, sendVars,
              logicVars, peerVars
<1>9. ASSUME NEW c \in Client, HeadRejected(c) \/ ReadThrows(c) PROVE Keeps
  BY <1>9 DEF TypeOK, HeadRejected, ReadThrows, CloseAndRemove, CoroutinePC,
              mainVars, sendVars, logicVars, peerVars
<1>10. ASSUME NEW c \in Client, BodyRead(c) PROVE Keeps
  <2>1. reading[c] \in Request
    BY <1>10 DEF BodyRead, Ordered, InboundNumbered
  <2>2. msgQue' \in Seq(Client \X Request)
    BY <1>10, <2>1, AppendProperties DEF BodyRead, TypeOK
  <2>3. spc' \in [Client -> CoroutinePC]
    BY <1>10 DEF BodyRead, TypeOK, CoroutinePC
  <2> QED
    BY <1>10, <2>2, <2>3 DEF TypeOK, BodyRead, mainVars, closeVars, sendVars,
                             peerVars
<1>11. ASSUME NEW c \in Client, WriteCallbackError(c) PROVE Keeps
  BY <1>11 DEF TypeOK, WriteCallbackError, CloseAndRemove, mainVars, readVars,
               logicVars, peerVars
<1>12. ASSUME NEW c \in Client, Transmit(c) PROVE Keeps
  <2>1. Head(out[c]) \in 1 .. MaxRequests
    BY <1>12, HeadTailProperties DEF Transmit, TypeOK
  <2>2. got' \in [Client -> Seq(1 .. MaxRequests)]
    BY <1>12, <2>1, AppendProperties DEF Transmit, TypeOK
  <2> QED
    BY <1>12, <2>2 DEF TypeOK, Transmit, mainVars, closeVars, readVars,
                       logicVars, peerVars
<1>13. ASSUME NEW c \in Client, WriteCallbackOk(c) PROVE  Keeps
  <2>0. out[c] \in Seq(1 .. MaxRequests)
    BY DEF TypeOK
  <2>1. /\ Tail(out[c]) \in Seq(1 .. MaxRequests)
        /\ Len(Tail(out[c])) = Len(out[c]) - 1
        /\ Len(out[c]) \in Nat
    BY <1>13, HeadTailProperties, LenProperties DEF WriteCallbackOk, TypeOK
  <2>2. out' \in [Client -> Seq(1 .. MaxRequests)]
    BY <1>13, <2>1 DEF WriteCallbackOk, TypeOK
  <2>3. \A d \in Client : Len(out'[d]) <= MaxSendQue + 1
    <3> SUFFICES ASSUME NEW d \in Client PROVE Len(out'[d]) <= MaxSendQue + 1
      OBVIOUS
    <3>1. Len(out[d]) <= MaxSendQue + 1
      BY DEF TypeOK
    <3>2. CASE d = c
      BY <1>13, <2>1, <3>1, <3>2, ServerAssumption DEF WriteCallbackOk, TypeOK
    <3>3. CASE d # c
      BY <1>13, <3>1, <3>3 DEF WriteCallbackOk, TypeOK
    <3> QED
      BY <3>2, <3>3
  <2>4. \A d \in writing' : out'[d] # <<>>
    <3> SUFFICES ASSUME NEW d \in writing' PROVE out'[d] # <<>>
      OBVIOUS
    <3>1. d \in writing /\ d \in Client
      BY <1>13 DEF WriteCallbackOk, TypeOK
    <3>2. CASE d = c
      <4>1. Len(out[c]) > 1
        BY <1>13, <3>2 DEF WriteCallbackOk
      <4>2. out'[c] = Tail(out[c])
        BY <1>13 DEF WriteCallbackOk, TypeOK
      <4>3. Tail(out[c]) # <<>>
        BY <2>0, <4>1, TailNotEmpty
      <4> QED
        BY <3>2, <4>2, <4>3
    <3>3. CASE d # c
      BY <1>13, <3>1, <3>3 DEF WriteCallbackOk, TypeOK
    <3> QED
      BY <3>2, <3>3
  <2>5. writing' \subseteq Client /\ written' \subseteq writing'
    BY <1>13 DEF WriteCallbackOk, TypeOK
  <2> QED
    BY <1>13, <2>2, <2>3, <2>4, <2>5
    DEF TypeOK, WriteCallbackOk, mainVars, closeVars, readVars, logicVars,
        peerVars
<1>15. CASE LogicHandle
  <2>1. PICK c \in Client, r \in Request : Handle(c, r)
    BY <1>15, HandleFront
  <2>2. msgQue' \in Seq(Client \X Request)
    BY <2>1, HeadTailProperties DEF Handle, TypeOK
  <2>3. handled' \in [Client -> Seq(Request)]
    <3>1. Append(handled[c], r) \in Seq(Request)
      BY AppendProperties DEF TypeOK
    <3> QED
      BY <2>1, <3>1 DEF Handle, TypeOK
  <2>4. /\ out' \in [Client -> Seq(1 .. MaxRequests)]
        /\ \A d \in Client : Len(out'[d]) <= MaxSendQue + 1
        /\ \A d \in writing' : out'[d] # <<>>
        /\ writing' \subseteq Client /\ written' \subseteq writing'
        /\ dropped' \subseteq Client \X (1 .. MaxRequests)
    <3>1. r[1] \in 1 .. MaxRequests
      BY DEF Request
    <3>2. CASE UNCHANGED sendVars
      <4>1. dropped' \subseteq dropped \cup {<<c, r[1]>>}
        BY <2>1 DEF Handle, Reply
      <4>2. <<c, r[1]>> \in Client \X (1 .. MaxRequests)
        BY <3>1
      <4>3. out' = out /\ writing' = writing /\ written' = written
        BY <3>2 DEF sendVars
      <4> QED
        BY <4>1, <4>2, <4>3 DEF TypeOK
    <3>3. CASE Reply(c, r[1]) /\ Len(out[c]) <= MaxSendQue
      <4>1. /\ out' = [out EXCEPT ![c] = Append(@, r[1])]
            /\ writing' = IF out[c] = <<>> THEN writing \cup {c} ELSE writing
            /\ written' = written /\ dropped' = dropped
        <5>1. ~(Len(out[c]) > MaxSendQue)
          BY <3>3, LenProperties, ServerAssumption DEF TypeOK
        <5> QED
          BY <3>3, <5>1 DEF Reply
      <4>2. /\ Append(out[c], r[1]) \in Seq(1 .. MaxRequests)
            /\ Append(out[c], r[1]) # <<>>
            /\ Len(Append(out[c], r[1])) = Len(out[c]) + 1
            /\ Len(out[c]) \in Nat
        <5>1. out[c] \in Seq(1 .. MaxRequests)
          BY DEF TypeOK
        <5> QED
          BY <3>1, <5>1, AppendProperties, LenProperties
      <4>3. Len(Append(out[c], r[1])) <= MaxSendQue + 1
        BY <3>3, <4>2, ServerAssumption
      <4> QED
        BY <4>1, <4>2, <4>3 DEF TypeOK
    <3>4. Len(out[c]) <= MaxSendQue \/ Len(out[c]) > MaxSendQue
      BY LenProperties, ServerAssumption DEF TypeOK
    <3> QED
      BY <2>1, <3>2, <3>3, <3>4 DEF Handle, Reply
  <2> QED
    BY <2>1, <2>2, <2>3, <2>4 DEF TypeOK, Handle, closeVars, readVars, peerVars
<1>16. CASE UNCHANGED vars
  BY <1>16 DEF TypeOK, vars, mainVars, closeVars, readVars, sendVars,
               logicVars, peerVars
<1> QED
  BY <1>1, <1>2, <1>3, <1>4, <1>5, <1>6, <1>7, <1>8, <1>9, <1>10, <1>11,
     <1>12, <1>13, <1>15, <1>16
  DEF Next, Clients, MainThread, Coroutine, Writing
-----------------------------------------------------------------------------
(***************************************************************************)
(* The sessions and the map.                                               *)
(***************************************************************************)
\* A session that is not accepted has handled nothing and posted nothing.
LEMMA NothingPosted ==
  ASSUME TypeOK, Accepted, NEW c \in Client, QueueNumbered(c), spc[c] = "none"
  PROVE  Len(handled[c]) = 0 /\ Queued(c) = {}
<1> DEFINE h == Len(handled[c])
<1>1. h \in Nat /\ reading[c][1] = 0
  BY LenProperties DEF TypeOK, Accepted, Unaccepted, NoRequest
<1>2. PICK n \in h .. MaxRequests : QueuedNumbers(c) = h + 1 .. n /\ n = 0
  BY <1>1 DEF QueueNumbered, PostedIs
<1> HIDE DEF h
<1>3. h = 0
  BY <1>1, <1>2, ServerAssumption
<1>4. QueuedNumbers(c) = {}
  BY <1>2, <1>3
<1> QED
  BY <1>3, <1>4 DEF QueuedNumbers, h

\* close() and remove_session() of a session that has been started.
LEMMA ClosedIsRemoved ==
  ASSUME TypeOK, Accepted, NEW c \in Client, CloseAndRemove(c),
         spc[c] # "none",
         \A d \in Client : spc'[d] # spc[d] => d = c /\ spc'[c] # "none",
         writing' \subseteq writing,
         UNCHANGED <<mainVars, reading, peer>>
  PROVE  Accepted'
<1> USE DEF Accepted, CloseAndRemove, mainVars
<1>1. Unaccepted'
  BY DEF Unaccepted
<1>2. ASSUME NEW d \in Client, spc'[d] # "none", Through(d)'
      PROVE  /\ d \notin bClose' => d \in sessions'
             /\ d \in bClose' /\ d \in sessions' => d \in raced'
  <2>1. spc[d] # "none" /\ Through(d)
    BY <1>2 DEF Through
  <2>2. CASE d = c
    BY <2>2
  <2>3. CASE d # c
    BY <2>1, <2>3 DEF MapAhead
  <2> QED
    BY <2>2, <2>3
<1>3. ASSUME NEW d \in Client, mpc' = "insert", accepting' = d, d \in bClose'
      PROVE  d \in raced'
  BY <1>3 DEF MapAhead
<1> QED
  BY <1>1, <1>2, <1>3 DEF MapAhead

LEMMA AcceptedStep ==
  ASSUME TypeOK, Accepted, Ordered, [Next]_vars PROVE Accepted'
<1> USE DEF Accepted
\* What no step of a session or a client changes.
<1> DEFINE Same ==
             /\ UNCHANGED <<accepting, sessions, bClose, raced>>
             /\ \/ mpc' \in {mpc, "terminated"}
                \/ mpc \in {"accept", "join"} /\ mpc' \in {"join", "exited"}
             /\ \A d \in Client :
                  /\ spc'[d] = "none" <=> spc[d] = "none"
                  /\ spc[d] = "none" => /\ reading'[d] = reading[d]
                                        /\ d \notin writing'
                  /\ peer'[d] = "new" => peer[d] = "new"
<1>1. ASSUME Same PROVE Accepted'
  <2>1. Unaccepted'
    BY <1>1 DEF Unaccepted
  <2>2. \A d \in Client : Through(d)' => Through(d)
    BY <1>1 DEF Through
  <2>3. mpc' = "insert" => mpc = "insert"
    BY <1>1
  <2>4. MapAhead'
    BY <1>1, <2>2, <2>3 DEF MapAhead
  <2> QED
    BY <1>1, <2>1, <2>3, <2>4
<1>2. ASSUME NEW c \in Client, Clients(c) PROVE Same
  BY <1>2 DEF Clients, Connect, WriteHead, WriteBody, Leave, TypeOK,
              mainVars, readVars, closeVars, sendVars, Unaccepted
<1>3. ASSUME NEW c \in Client, Coroutine(c) PROVE Same \/ Accepted'
  <2>1. CASE Arrive(c, "head", "gotHead") \/ Arrive(c, "body", "gotBody")
    BY <2>1 DEF Arrive, TypeOK, mainVars, closeVars, sendVars, peerVars,
                Unaccepted
  <2>2. CASE HeadRead(c) \/ BodyRead(c)
    BY <2>2 DEF HeadRead, BodyRead, TypeOK, mainVars, closeVars, sendVars,
                peerVars, Unaccepted
  <2>3. CASE HeadRejected(c) \/ ReadThrows(c)
    BY <2>3, ClosedIsRemoved DEF HeadRejected, ReadThrows, TypeOK, sendVars,
                                 peerVars
  <2> QED
    BY <1>3, <2>1, <2>2, <2>3 DEF Coroutine
<1>4. ASSUME NEW c \in Client, Writing(c) PROVE Same \/ Accepted'
  <2>1. CASE Transmit(c) \/ WriteCallbackOk(c)
    BY <2>1 DEF Transmit, WriteCallbackOk, mainVars, readVars, closeVars,
                peerVars, Unaccepted
  <2>2. CASE WriteCallbackError(c)
    <3>1. spc[c] # "none"
      BY <2>2 DEF WriteCallbackError, Unaccepted
    <3> QED
      BY <2>2, <3>1, ClosedIsRemoved DEF WriteCallbackError, readVars, peerVars
  <2> QED
    BY <1>4, <2>1, <2>2 DEF Writing
<1>5. ASSUME NEW c \in Client, AcceptStart(c) PROVE Accepted'
  <2>1. Unaccepted'
    BY <1>5 DEF AcceptStart, Unaccepted, closeVars, sendVars, peerVars, TypeOK
  <2>2. MapAhead'
    BY <1>5 DEF AcceptStart, Unaccepted, MapAhead, Through, closeVars, TypeOK
  <2> QED
    BY <1>5, <2>1, <2>2 DEF AcceptStart
<1>6. CASE AcceptInsert
  <2>1. Unaccepted'
    BY <1>6 DEF AcceptInsert, Unaccepted, readVars, sendVars, peerVars
  <2>2. MapAhead'
    BY <1>6 DEF AcceptInsert, MapAhead, Through, readVars
  <2> QED
    BY <1>6, <2>1, <2>2 DEF AcceptInsert
<1>7. ASSUME Signal \/ Join \/ IOExit PROVE Same
  BY <1>7 DEF Signal, Join, IOExit, readVars, closeVars, sendVars,
                    peerVars, Unaccepted
<1>8. ASSUME LogicHandle PROVE Same
  <2>1. PICK c \in Client, r \in Request : Handle(c, r)
    BY <1>8, HandleFront
  <2>2. spc[c] # "none"
    <3>1. Len(msgQue) \in Nat \ {0}
      BY <2>1, LenProperties, EmptySeq DEF Handle, TypeOK
    <3>2. 1 \in Queued(c)
      BY <2>1, <3>1 DEF Handle, Queued
    <3> QED
      BY <3>2, NothingPosted DEF Ordered
  <2>3. \A d \in writing' : d \in writing \/ d = c
    BY <2>1 DEF Handle, Reply, sendVars
  <2> QED
    BY <2>1, <2>2, <2>3 DEF Handle, readVars, closeVars, peerVars, Unaccepted
<1>9. ASSUME UNCHANGED vars PROVE Same
  BY <1>9 DEF vars, mainVars, readVars, closeVars, sendVars, peerVars,
                    Unaccepted
<1> HIDE DEF Same
<1> QED
  BY <1>1, <1>2, <1>3, <1>4, <1>5, <1>6, <1>7, <1>8, <1>9 DEF Next, MainThread
-----------------------------------------------------------------------------
(***************************************************************************)
(* The requests from the client to the session.                            *)
(***************************************************************************)
\* Another item is written: a header after whole requests ...
LEMMA HeaderWritten ==
  ASSUME NEW s \in Seq(Request), NEW e \in Request, NEW o \in Int, NEW b \in Int,
         Alternating(s, o), EndsAt(s, o, b, 0), e[1] = b + 1
  PROVE  /\ Alternating(Append(s, e), o)
         /\ e[2] \in HasBody => EndsAt(Append(s, e), o, b + 1, 1)
         /\ e[2] \notin HasBody => \A h : EndsAt(Append(s, e), o, b + 1, h)
<1> DEFINE a == Append(s, e)
           l == Len(s)
<1>1. /\ Len(a) = l + 1 /\ l \in Nat
      /\ \A i \in 1 .. l : a[i] = s[i]
      /\ a[l + 1] = e
  BY AppendProperties, LenProperties
<1>2. EndsAt(s, o, b, 0) <=> (AllHaveBodies(s, l) => o + l = 2 * b - 0)
  BY DEF EndsAt
<1> HIDE DEF a, l
<1>3. \A i \in 0 .. l : AllHaveBodies(a, i) => AllHaveBodies(s, i)
  BY <1>1 DEF AllHaveBodies
<1>4. AllHaveBodies(a, l) => o + l = 2 * b
  BY <1>1, <1>2, <1>3
<1>5. ASSUME NEW i \in 1 .. l + 1, AllHaveBodies(a, i - 1)
      PROVE  \/ o + i = 2 * a[i][1] - 1
             \/ o + i = 2 * a[i][1] /\ a[i][2] \in HasBody
  <2>1. CASE i \in 1 .. l
    <3>1. i - 1 \in 0 .. l
      BY <1>1, <2>1
    <3>2. AllHaveBodies(s, i - 1)
      BY <1>3, <1>5, <3>1
    <3> QED
      BY <1>1, <2>1, <3>2 DEF Alternating, l
  <2>2. CASE i = l + 1
    <3>1. AllHaveBodies(a, l)
      <4>1. i - 1 = l
        BY <1>1, <2>2
      <4> QED
        BY <1>5, <4>1
    <3>2. o + l = 2 * b
      BY <1>4, <3>1
    <3>3. o + (l + 1) = 2 * (b + 1) - 1
      BY <1>1, <3>2
    <3> QED
      BY <1>1, <2>2, <3>3
  <2>3. i \in 1 .. l \/ i = l + 1
    BY <1>1
  <2> QED
    BY <2>1, <2>2, <2>3
<1>6. Alternating(a, o)
  BY <1>1, <1>5 DEF Alternating
<1>7. ASSUME AllHaveBodies(a, l + 1)
      PROVE  e[2] \in HasBody /\ o + (l + 1) = 2 * (b + 1) - 1
  <2>1. l + 1 \in 1 .. l + 1 /\ 1 .. l \subseteq 1 .. l + 1
    BY <1>1
  <2>2. e[2] \in HasBody /\ AllHaveBodies(a, l)
    BY <1>1, <1>7, <2>1 DEF AllHaveBodies
  <2>3. o + l = 2 * b
    BY <1>4, <2>2
  <2> QED
    BY <1>1, <2>2, <2>3
<1>8. /\ e[2] \in HasBody => EndsAt(a, o, b + 1, 1)
      /\ e[2] \notin HasBody => \A h : EndsAt(a, o, b + 1, h)
  BY <1>1, <1>7 DEF EndsAt
<1> QED
  BY <1>6, <1>8 DEF a

\* ... or the body of the request that is half written.
LEMMA BodyWritten ==
  ASSUME NEW s \in Seq(Request), NEW e \in Request, NEW o \in Int, NEW b \in Int,
         Alternating(s, o), EndsAt(s, o, b, 1), e[1] = b, e[2] \in HasBody
  PROVE  Alternating(Append(s, e), o) /\ EndsAt(Append(s, e), o, b, 0)
<1> DEFINE a == Append(s, e)
           l == Len(s)
<1>1. /\ Len(a) = l + 1 /\ l \in Nat
      /\ \A i \in 1 .. l : a[i] = s[i]
      /\ a[l + 1] = e
  BY AppendProperties, LenProperties
<1>2. EndsAt(s, o, b, 1) <=> (AllHaveBodies(s, l) => o + l = 2 * b - 1)
  BY DEF EndsAt
<1> HIDE DEF a, l
<1>3. \A i \in 0 .. l : AllHaveBodies(a, i) => AllHaveBodies(s, i)
  BY <1>1 DEF AllHaveBodies
<1>4. AllHaveBodies(a, l) => o + (l + 1) = 2 * b
  <2>1. AllHaveBodies(a, l) => o + l = 2 * b - 1
    BY <1>1, <1>2, <1>3
  <2> QED
    BY <1>1, <2>1
<1>5. ASSUME NEW i \in 1 .. l + 1, AllHaveBodies(a, i - 1)
      PROVE  \/ o + i = 2 * a[i][1] - 1
             \/ o + i = 2 * a[i][1] /\ a[i][2] \in HasBody
  <2>1. CASE i \in 1 .. l
    <3>1. i - 1 \in 0 .. l
      BY <1>1, <2>1
    <3>2. AllHaveBodies(s, i - 1)
      BY <1>3, <1>5, <3>1
    <3> QED
      BY <1>1, <2>1, <3>2 DEF Alternating, l
  <2>2. CASE i = l + 1
    <3>1. AllHaveBodies(a, l)
      <4>1. i - 1 = l
        BY <1>1, <2>2
      <4> QED
        BY <1>5, <4>1
    <3> QED
      BY <1>1, <1>4, <2>2, <3>1
  <2>3. i \in 1 .. l \/ i = l + 1
    BY <1>1
  <2> QED
    BY <2>1, <2>2, <2>3
<1>6. Alternating(a, o)
  BY <1>1, <1>5 DEF Alternating
<1>7. AllHaveBodies(a, l + 1) => o + (l + 1) = 2 * b - 0
  <2>1. 1 .. l \subseteq 1 .. l + 1
    BY <1>1
  <2>2. AllHaveBodies(a, l + 1) => AllHaveBodies(a, l)
    BY <2>1 DEF AllHaveBodies
  <2> QED
    BY <1>4, <2>2
<1>8. EndsAt(a, o, b, 0)
  BY <1>1, <1>7 DEF EndsAt
<1> QED
  BY <1>6, <1>8 DEF a

\* The first item is read.
LEMMA ItemRead ==
  ASSUME NEW s \in Seq(Request), s # <<>>, NEW o \in Int, NEW b, NEW h,
         Alternating(s, o), EndsAt(s, o, b, h)
  PROVE  /\ \/ o + 1 = 2 * s[1][1] - 1
            \/ o + 1 = 2 * s[1][1] /\ s[1][2] \in HasBody
         /\ s[1][2] \in HasBody => /\ Alternating(Tail(s), o + 1)
                                   /\ EndsAt(Tail(s), o + 1, b, h)
<1> DEFINE u == Tail(s)
           l == Len(s)
<1>1. /\ Len(u) = l - 1 /\ l \in Nat \ {0}
      /\ \A i \in 1 .. l - 1 : u[i] = s[i + 1]
  BY HeadTailProperties, LenProperties, EmptySeq
<1>2. EndsAt(s, o, b, h) <=> (AllHaveBodies(s, l) => o + l = 2 * b - h)
  BY DEF EndsAt
<1> HIDE DEF u, l
<1>3. 1 \in 1 .. l /\ AllHaveBodies(s, 1 - 1)
  BY <1>1 DEF AllHaveBodies
<1>4. \/ o + 1 = 2 * s[1][1] - 1
      \/ o + 1 = 2 * s[1][1] /\ s[1][2] \in HasBody
  BY <1>3 DEF Alternating, l
<1>5. ASSUME s[1][2] \in HasBody
      PROVE  Alternating(u, o + 1) /\ EndsAt(u, o + 1, b, h)
  <2>1. ASSUME NEW m \in 0 .. l - 1, AllHaveBodies(u, m)
        PROVE  AllHaveBodies(s, m + 1)
    <3> SUFFICES ASSUME NEW j \in 1 .. m + 1 PROVE s[j][2] \in HasBody
      BY DEF AllHaveBodies
    <3>1. CASE j = 1
      BY <1>5, <3>1
    <3>2. CASE j # 1
      <4>1. j - 1 \in 1 .. m /\ j - 1 \in 1 .. l - 1 /\ (j - 1) + 1 = j
        BY <1>1, <3>2
      <4>2. u[j - 1] = s[j]
        BY <1>1, <4>1
      <4> QED
        BY <2>1, <4>1, <4>2 DEF AllHaveBodies
    <3> QED
      BY <3>1, <3>2
  <2>2. ASSUME NEW i \in 1 .. l - 1, AllHaveBodies(u, i - 1)
        PROVE  \/ (o + 1) + i = 2 * u[i][1] - 1
               \/ (o + 1) + i = 2 * u[i][1] /\ u[i][2] \in HasBody
    <3>1. /\ i - 1 \in 0 .. l - 1 /\ i + 1 \in 1 .. l
          /\ (i - 1) + 1 = (i + 1) - 1
          /\ (o + 1) + i = o + (i + 1)
      BY <1>1
    <3>2. AllHaveBodies(s, (i + 1) - 1)
      BY <2>1, <2>2, <3>1
    <3>3. \/ o + (i + 1) = 2 * s[i + 1][1] - 1
          \/ o + (i + 1) = 2 * s[i + 1][1] /\ s[i + 1][2] \in HasBody
      BY <3>1, <3>2 DEF Alternating, l
    <3> QED
      BY <1>1, <3>1, <3>3
  <2>3. Alternating(u, o + 1)
    BY <1>1, <2>2 DEF Alternating
  <2>4. AllHaveBodies(u, l - 1) => (o + 1) + (l - 1) = 2 * b - h
    <3>1. l - 1 \in 0 .. l - 1 /\ (l - 1) + 1 = l /\ (o + 1) + (l - 1) = o + l
      BY <1>1
    <3> QED
      BY <1>2, <2>1, <3>1
  <2> QED
    BY <1>1, <2>3, <2>4 DEF EndsAt
<1> QED
  BY <1>4, <1>5 DEF u

\* How a session moves on when it neither reads an item nor posts a request.
Moves(c) ==
  \/ spc'[c] = spc[c]
  \/ spc[c] = "none" /\ spc'[c] = "head"
  \/ spc[c] = "gotHead" /\ reading[c][2] \in HasBody /\ spc'[c] = "body"
  \/ spc[c] = "gotHead" /\ spc'[c] = "gotNothing"
  \/ spc'[c] = "done"

LEMMA InboundAside ==
  ASSUME NEW c \in Client, InboundNumbered(c),
         inbound'[c] = inbound[c], reading'[c] = reading[c],
         begun'[c] = begun[c], half'[c] = half[c],
         Moves(c) \/ (spc[c] = "gotBody" /\ spc'[c] = "head")
  PROVE  InboundNumbered(c)'
<1>1. HalfWritten(c)' = HalfWritten(c)
  BY DEF HalfWritten
<1>2. ~Ending(c)' => ~Ending(c)
  BY DEF Ending, Moves
<1>3. ~Ending(c)' => (AwaitsBody(c)' <=> AwaitsBody(c))
  BY DEF Ending, AwaitsBody, Moves
<1>4. ~Ending(c)' => Taken(c)' = Taken(c)
  BY <1>3 DEF Taken
<1>5. spc'[c] \in {"gotHead", "gotNothing", "body", "gotBody"} =>
        reading'[c] \in Request
  BY DEF InboundNumbered, Moves
<1>6. ~Ending(c)' =>
        /\ Alternating(inbound[c], Taken(c)')
        /\ EndsAt(inbound[c], Taken(c)', begun[c], HalfWritten(c)')
  BY <1>1, <1>2, <1>4 DEF InboundNumbered
<1> QED
  BY <1>5, <1>6 DEF InboundNumbered, Alternating, EndsAt, AllHaveBodies

LEMMA ReadingIsNumbered ==
  ASSUME TypeOK, NEW c \in Client PROVE reading[c][1] \in Int
<1>1. CASE reading[c] = NoRequest
  BY <1>1 DEF NoRequest
<1>2. CASE reading[c] \in Request
  <2>1. reading[c][1] \in 1 .. MaxRequests
    BY <1>2 DEF Request
  <2> QED
    BY <2>1
<1> QED
  BY <1>1, <1>2 DEF TypeOK

\* What is written goes behind what has been written.
LEMMA InboundWritten ==
  ASSUME TypeOK, NEW c \in Client, InboundNumbered(c),
         UNCHANGED <<spc, reading>>,
         (\E k \in Kind : WriteHead(c, k)) \/ WriteBody(c)
  PROVE  InboundNumbered(c)'
<1> DEFINE s == inbound[c]
           o == Taken(c)
           b == begun[c]
<1>1. s \in Seq(Request) /\ o \in Int /\ b \in Int /\ b >= 0
  <2>1. s \in Seq(Request) /\ b \in Int /\ b >= 0
    BY ServerAssumption DEF TypeOK
  <2>2. reading[c][1] \in Int
    BY ReadingIsNumbered
  <2> QED
    BY <2>1, <2>2 DEF Taken
<1>2. Taken(c)' = o /\ (Ending(c)' <=> Ending(c))
  BY DEF Taken, AwaitsBody, Ending
<1>3. spc'[c] \in {"gotHead", "gotNothing", "body", "gotBody"} =>
        reading'[c] \in Request
  BY DEF InboundNumbered
<1>4. ~Ending(c) => Alternating(s, o) /\ EndsAt(s, o, b, HalfWritten(c))
  BY DEF InboundNumbered
<1>5. ASSUME NEW k \in Kind, WriteHead(c, k) PROVE InboundNumbered(c)'
  <2> DEFINE e == <<b + 1, k>>
  <2>1. /\ half[c] = NoRequest
        /\ begun'[c] = b + 1 /\ inbound'[c] = Append(s, e)
        /\ half'[c] = IF k \in HasBody THEN e ELSE NoRequest
    BY <1>5 DEF WriteHead, TypeOK
  <2>2. b + 1 \in 1 .. MaxRequests
    BY <1>1, <1>5, ServerAssumption DEF WriteHead, TypeOK
  <2>3. e \in Request /\ e[1] = b + 1 /\ e[2] = k
    BY <2>2 DEF Request
  <2>4. k \in HasBody => half'[c] # NoRequest
    BY <2>1, <2>3 DEF HasBody, NoRequest
  <2>5. HalfWritten(c) = 0 /\ HalfWritten(c)' = IF k \in HasBody THEN 1 ELSE 0
    BY <2>1, <2>4 DEF HalfWritten
  <2> HIDE DEF s, o, b, e
  <2>6. ASSUME ~Ending(c)
        PROVE  /\ Alternating(Append(s, e), o)
               /\ EndsAt(Append(s, e), o, b + 1, HalfWritten(c)')
    <3>1. Alternating(s, o) /\ EndsAt(s, o, b, 0)
      BY <1>4, <2>5, <2>6
    <3> QED
      BY <1>1, <2>3, <2>5, <3>1, HeaderWritten
  <2>7. /\ Alternating(Append(s, e), o) <=> Alternating(inbound'[c], Taken(c)')
        /\ EndsAt(Append(s, e), o, b + 1, HalfWritten(c)') <=>
             EndsAt(inbound'[c], Taken(c)', begun'[c], HalfWritten(c)')
    BY <1>2, <2>1
  <2>8. half'[c] # NoRequest =>
          half'[c][2] \in HasBody /\ half'[c][1] = begun'[c]
    BY <2>1, <2>3
  <2> QED
    BY <1>2, <1>3, <2>6, <2>7, <2>8
    DEF InboundNumbered, Alternating, EndsAt, AllHaveBodies
<1>6. CASE WriteBody(c)
  <2> DEFINE e == half[c]
  <2>1. /\ e # NoRequest /\ e \in Request
        /\ begun'[c] = b /\ inbound'[c] = Append(s, e)
        /\ half'[c] = NoRequest
    BY <1>6 DEF WriteBody, TypeOK
  <2>2. e[2] \in HasBody /\ e[1] = b
    BY <2>1 DEF InboundNumbered
  <2>3. HalfWritten(c) = 1 /\ HalfWritten(c)' = 0
    BY <2>1 DEF HalfWritten
  <2> HIDE DEF s, o, b, e
  <2>4. ASSUME ~Ending(c)
        PROVE  /\ Alternating(Append(s, e), o)
               /\ EndsAt(Append(s, e), o, b, 0)
    <3>1. Alternating(s, o) /\ EndsAt(s, o, b, 1)
      BY <1>4, <2>3, <2>4
    <3> QED
      BY <1>1, <2>1, <2>2, <3>1, BodyWritten
  <2>5. /\ Alternating(Append(s, e), o) <=> Alternating(inbound'[c], Taken(c)')
        /\ EndsAt(Append(s, e), o, b, 0) <=>
             EndsAt(inbound'[c], Taken(c)', begun'[c], HalfWritten(c)')
    BY <1>2, <2>1, <2>3
  <2> QED
    BY <1>2, <1>3, <2>1, <2>4, <2>5
    DEF InboundNumbered, Alternating, EndsAt, AllHaveBodies
<1> QED
  BY <1>5, <1>6

\* What is read is the next header, or the body of the request read last.
LEMMA InboundRead ==
  ASSUME TypeOK, NEW c \in Client, InboundNumbered(c),
         \/ Arrive(c, "head", "gotHead")
         \/ Arrive(c, "body", "gotBody")
  PROVE  /\ InboundNumbered(c)'
         /\ reading[c][1] \in Int
         /\ spc[c] = "head" => reading'[c][1] = reading[c][1] + 1
         /\ spc[c] = "body" => reading'[c][1] = reading[c][1]
<1> DEFINE s == inbound[c]
           o == Taken(c)
           r == reading[c][1]
           e == s[1]
<1>1. /\ s \in Seq(Request) /\ s # <<>>
      /\ inbound'[c] = Tail(s)
      /\ UNCHANGED <<begun, half>>
  BY DEF Arrive, TypeOK, peerVars
<1>2. reading'[c] = e /\ e \in Request
  <2>1. Head(s) = s[1] /\ Head(s) \in Request
    BY <1>1, HeadTailProperties, EmptySeq
  <2> QED
    BY <2>1 DEF Arrive, TypeOK
<1>3. r \in Int /\ e[1] \in Int
  <2>1. e[1] \in 1 .. MaxRequests
    BY <1>2 DEF Request
  <2> QED
    BY <2>1, ReadingIsNumbered
<1>4. \/ spc[c] = "head" /\ spc'[c] = "gotHead" /\ o = 2 * r - 0
      \/ spc[c] = "body" /\ spc'[c] = "gotBody" /\ o = 2 * r - 1
  BY DEF Arrive, Taken, AwaitsBody, TypeOK
<1>5. ~Ending(c)
  BY <1>4 DEF Ending
<1>6. Alternating(s, o) /\ EndsAt(s, o, begun[c], HalfWritten(c))
  BY <1>5 DEF InboundNumbered
<1>7. o \in Int
  BY <1>3, <1>4
<1> HIDE DEF s, o, r
<1>8. /\ \/ o + 1 = 2 * e[1] - 1
         \/ o + 1 = 2 * e[1] /\ e[2] \in HasBody
      /\ e[2] \in HasBody =>
           /\ Alternating(Tail(s), o + 1)
           /\ EndsAt(Tail(s), o + 1, begun[c], HalfWritten(c))
  BY <1>1, <1>6, <1>7, ItemRead
<1> HIDE DEF e
<1>9. CASE spc[c] = "head"
  <2>1. e[1] = r + 1
    BY <1>3, <1>4, <1>8, <1>9
  <2>2. spc'[c] = "gotHead" /\ o = 2 * r
    BY <1>3, <1>4, <1>9
  <2>3. ~Ending(c)' => e[2] \in HasBody
    BY <1>2, <2>2 DEF Ending
  <2>4. e[2] \in HasBody => Taken(c)' = o + 1
    <3>1. e[2] \in HasBody => Taken(c)' = 2 * e[1] - 1
      BY <1>2, <2>2 DEF Taken, AwaitsBody
    <3>2. 2 * e[1] - 1 = o + 1
      BY <1>3, <2>1, <2>2
    <3> QED
      BY <3>1, <3>2
  <2>5. HalfWritten(c)' = HalfWritten(c) /\ begun'[c] = begun[c]
    BY <1>1 DEF HalfWritten
  <2>6. ~Ending(c)' =>
          /\ Alternating(Tail(s), Taken(c)')
          /\ EndsAt(Tail(s), Taken(c)', begun'[c], HalfWritten(c)')
    BY <1>8, <2>3, <2>4, <2>5
  <2>7. InboundNumbered(c)'
    BY <1>1, <1>2, <2>5, <2>6
    DEF InboundNumbered, Alternating, EndsAt, AllHaveBodies
  <2> QED
    BY <1>2, <1>3, <1>9, <2>1, <2>7 DEF r
<1>10. CASE spc[c] = "body"
  <2>1. e[1] = r /\ e[2] \in HasBody
    BY <1>3, <1>4, <1>8, <1>10
  <2>2. spc'[c] = "gotBody" /\ o = 2 * r - 1
    BY <1>3, <1>4, <1>10
  <2>3. Taken(c)' = o + 1
    <3>1. Taken(c)' = 2 * e[1] - 0
      BY <1>2, <2>2 DEF Taken, AwaitsBody
    <3>2. 2 * e[1] - 0 = o + 1
      BY <1>3, <2>1, <2>2
    <3> QED
      BY <3>1, <3>2
  <2>4. HalfWritten(c)' = HalfWritten(c) /\ begun'[c] = begun[c]
    BY <1>1 DEF HalfWritten
  <2>5. /\ Alternating(Tail(s), Taken(c)')
        /\ EndsAt(Tail(s), Taken(c)', begun'[c], HalfWritten(c)')
    BY <1>8, <2>1, <2>3, <2>4
  <2>6. InboundNumbered(c)'
    BY <1>1, <1>2, <2>4, <2>5
    DEF InboundNumbered, Alternating, EndsAt, AllHaveBodies
  <2> QED
    BY <1>2, <1>3, <1>10, <2>1, <2>6 DEF r
<1> QED
  BY <1>4, <1>9, <1>10

-----------------------------------------------------------------------------
(***************************************************************************)
(* The requests from the session to the logic thread.                      *)
(***************************************************************************)
LEMMA QueueAside ==
  ASSUME NEW c \in Client, QueueNumbered(c), UNCHANGED <<msgQue, handled>>,
         \A n : PostedIs(c, n) => PostedIs(c, n)'
  PROVE  QueueNumbered(c)'
<1>1. Queued(c)' = Queued(c) /\ QueuedNumbers(c)' = QueuedNumbers(c)
  BY DEF Queued, QueuedNumbers
<1>2. \E n \in Len(handled[c]) .. MaxRequests :
        QueuedNumbers(c) = Len(handled[c]) + 1 .. n /\ PostedIs(c, n)
  BY DEF QueueNumbered
<1> QED
  BY <1>1, <1>2 DEF QueueNumbered

\* The request of c that is posted is the next of its requests; it changes
\* nothing for the others.
LEMMA PostedInOrder ==
  ASSUME TypeOK, NEW c \in Client, NEW d \in Client, QueueNumbered(d),
         spc[c] = "gotBody", reading[c] \in Request,
         msgQue' = Append(msgQue, <<c, reading[c]>>),
         \E to \in {"head", "done"} : spc' = [spc EXCEPT ![c] = to],
         UNCHANGED <<reading, handled>>
  PROVE  QueueNumbered(d)'
<1> DEFINE L == Len(msgQue)
           m == <<c, reading[c]>>
<1>1. /\ Len(msgQue') = L + 1 /\ L \in Nat
      /\ \A i \in 1 .. L : msgQue'[i] = msgQue[i]
      /\ msgQue'[L + 1] = m
  BY AppendProperties, LenProperties DEF TypeOK
<1>2. m[1] = c /\ m[2][1] = reading[c][1]
  OBVIOUS
<1> HIDE DEF L, m
<1>3. CASE d # c
  <2>1. Queued(d)' = Queued(d)
    <3> SUFFICES ASSUME NEW i
                 PROVE  i \in Queued(d)' <=> i \in Queued(d)
      OBVIOUS
    <3>1. i \in 1 .. L + 1 => i \in 1 .. L \/ i = L + 1
      BY <1>1
    <3> QED
      BY <1>1, <1>2, <1>3, <3>1 DEF Queued, L
  <2>2. \A i \in Queued(d) : msgQue'[i] = msgQue[i]
    BY <1>1 DEF Queued, L
  <2>3. QueuedNumbers(d)' = QueuedNumbers(d)
    <3>1. QueuedNumbers(d)' = {msgQue'[i][2][1] : i \in Queued(d)}
      BY <2>1 DEF QueuedNumbers
    <3> QED
      BY <2>2, <3>1 DEF QueuedNumbers
  <2>4. \A n : PostedIs(d, n) => PostedIs(d, n)'
    BY <1>3 DEF PostedIs, TypeOK
  <2>5. \E n \in Len(handled'[d]) .. MaxRequests :
          QueuedNumbers(d)' = Len(handled'[d]) + 1 .. n /\ PostedIs(d, n)'
    BY <2>3, <2>4 DEF QueueNumbered
  <2> QED
    BY <2>1, <2>2, <2>5 DEF QueueNumbered
<1>4. CASE d = c
  <2> DEFINE h == Len(handled[c])
  <2>0. PICK p \in 1 .. MaxRequests : p = reading[c][1]
    BY DEF Request
  <2>1. p \in 1 .. MaxRequests /\ h \in Nat /\ MaxRequests \in Nat
    BY LenProperties, ServerAssumption DEF TypeOK
  <2>2. PICK n \in h .. MaxRequests :
          QueuedNumbers(c) = h + 1 .. n /\ n = p - 1
    BY <1>4, <2>0 DEF QueueNumbered, PostedIs
  <2>3. Queued(c)' = Queued(c) \cup {L + 1}
    <3> SUFFICES ASSUME NEW i
                 PROVE  i \in Queued(c)' <=> i \in Queued(c) \cup {L + 1}
      OBVIOUS
    <3>1. i \in 1 .. L + 1 <=> i \in 1 .. L \/ i = L + 1
      BY <1>1
    <3> QED
      BY <1>1, <1>2, <3>1 DEF Queued, L
  <2>4. /\ \A i \in Queued(c) : msgQue'[i] = msgQue[i] /\ i \in 1 .. L
        /\ msgQue'[L + 1][2][1] = p
    BY <1>1, <1>2, <2>0 DEF Queued, L
  <2> HIDE DEF h
  <2>5. QueuedNumbers(c)' = QueuedNumbers(c) \cup {p}
    <3>1. ASSUME NEW i \in Queued(c)'
          PROVE  msgQue'[i][2][1] \in QueuedNumbers(c) \cup {p}
      <4>1. CASE i \in Queued(c)
        BY <2>4, <4>1 DEF QueuedNumbers
      <4>2. CASE i = L + 1
        BY <2>4, <4>2
      <4> QED
        BY <2>3, <4>1, <4>2
    <3>2. ASSUME NEW i \in Queued(c)
          PROVE  msgQue[i][2][1] \in QueuedNumbers(c)'
      <4>1. i \in Queued(c)' /\ msgQue'[i] = msgQue[i]
        BY <2>3, <2>4
      <4> QED
        BY <4>1 DEF QueuedNumbers
    <3>3. L + 1 \in Queued(c)'
      BY <2>3
    <3>4. p \in QueuedNumbers(c)'
      BY <2>4, <3>3 DEF QueuedNumbers
    <3>5. ASSUME NEW x PROVE x \in QueuedNumbers(c)' <=>
                               x \in QueuedNumbers(c) \cup {p}
      <4>1. x \in QueuedNumbers(c)' <=>
              \E i \in Queued(c)' : x = msgQue'[i][2][1]
        BY DEF QueuedNumbers
      <4>2. x \in QueuedNumbers(c) <=>
              \E i \in Queued(c) : x = msgQue[i][2][1]
        BY DEF QueuedNumbers
      <4> QED
        BY <3>1, <3>2, <3>4, <4>1, <4>2
    <3> QED
      BY <3>5
  <2>6. QueuedNumbers(c)' = h + 1 .. p /\ p \in h .. MaxRequests
    <3>1. h + 1 .. p = (h + 1 .. n) \cup {p}
      BY <2>1, <2>2
    <3> QED
      BY <2>1, <2>2, <2>5, <3>1
  <2>7. ASSUME NEW i \in Queued(c)', NEW j \in Queued(c)', i < j
        PROVE  msgQue'[i][2][1] < msgQue'[j][2][1]
    <3>1. i \in Queued(c) /\ i \in 1 .. L
      BY <1>1, <2>3, <2>4, <2>7
    <3>2. CASE j \in Queued(c)
      BY <1>4, <2>4, <2>7, <3>1, <3>2 DEF QueueNumbered
    <3>3. CASE j = L + 1
      <4>1. msgQue[i][2][1] \in QueuedNumbers(c)
        BY <3>1 DEF QueuedNumbers
      <4>2. msgQue[i][2][1] < p
        BY <2>1, <2>2, <4>1
      <4> QED
        BY <2>4, <3>1, <3>3, <4>2
    <3> QED
      BY <2>3, <3>2, <3>3
  <2>8. PostedIs(c, p)'
    BY <2>0 DEF PostedIs, TypeOK
  <2>9. \E k \in Len(handled'[c]) .. MaxRequests :
          QueuedNumbers(c)' = Len(handled'[c]) + 1 .. k /\ PostedIs(c, k)'
    <3>1. Len(handled'[c]) = h
      BY DEF h
    <3> QED
      BY <2>6, <2>8, <3>1
  <2> QED
    BY <1>4, <2>7, <2>9 DEF QueueNumbered
<1> QED
  BY <1>3, <1>4

\* The request at the front is the next to be handled of its client; what is
\* behind it moves up.
LEMMA FrontIsNext ==
  ASSUME TypeOK, NEW c \in Client, NEW r \in Request, QueueNumbered(c),
         msgQue # <<>>, msgQue[1] = <<c, r>>
  PROVE  r[1] = Len(handled[c]) + 1
<1> DEFINE h == Len(handled[c])
<1>1. h \in Nat /\ MaxRequests \in Nat /\ Len(msgQue) \in Nat \ {0}
  BY LenProperties, EmptySeq, ServerAssumption DEF TypeOK
<1> HIDE DEF h
<1>2. 1 \in Queued(c) /\ msgQue[1][2][1] = r[1]
  BY <1>1 DEF Queued
<1>3. PICK n \in h .. MaxRequests : QueuedNumbers(c) = h + 1 .. n
  BY DEF QueueNumbered, h
<1>4. r[1] \in h + 1 .. n
  BY <1>2, <1>3 DEF QueuedNumbers
<1>5. h + 1 \in QueuedNumbers(c)
  BY <1>1, <1>3, <1>4
<1>6. PICK j \in Queued(c) : msgQue[j][2][1] = h + 1
  BY <1>5 DEF QueuedNumbers
<1>7. CASE j = 1
  BY <1>2, <1>6, <1>7 DEF h
<1>8. CASE j # 1
  <2>1. 1 < j
    BY <1>8 DEF Queued
  <2>2. r[1] < h + 1
    BY <1>2, <1>6, <2>1 DEF QueueNumbered
  <2> QED
    BY <1>1, <1>3, <1>4, <2>2
<1> QED
  BY <1>7, <1>8

LEMMA HandledInOrder ==
  ASSUME TypeOK, NEW c \in Client, NEW r \in Request, NEW d \in Client,
         QueueNumbered(c), QueueNumbered(d),
         msgQue # <<>>, msgQue[1] = <<c, r>>,
         msgQue' = Tail(msgQue),
         handled' = [handled EXCEPT ![c] = Append(@, r)],
         UNCHANGED <<spc, reading>>
  PROVE  QueueNumbered(d)'
<1> DEFINE L == Len(msgQue)
<1>1. /\ Len(msgQue') = L - 1 /\ L \in Nat \ {0}
      /\ \A i \in 1 .. L - 1 : msgQue'[i] = msgQue[i + 1]
  BY HeadTailProperties, LenProperties, EmptySeq DEF TypeOK
<1> HIDE DEF L
<1>2. \A i : i \in Queued(d)' <=> i \in Nat \ {0} /\ i + 1 \in Queued(d)
  <2> SUFFICES ASSUME NEW i
               PROVE  i \in Queued(d)' <=> i \in Nat \ {0} /\ i + 1 \in Queued(d)
    OBVIOUS
  <2>1. i \in 1 .. L - 1 <=> i \in Nat \ {0} /\ i + 1 \in 1 .. L
    BY <1>1
  <2> QED
    BY <1>1, <2>1 DEF Queued, L
<1>3. \A i \in Queued(d)' : msgQue'[i] = msgQue[i + 1] /\ i \in Nat
  BY <1>1 DEF Queued
<1>4. ASSUME NEW i \in Queued(d)', NEW j \in Queued(d)', i < j
      PROVE  msgQue'[i][2][1] < msgQue'[j][2][1]
  <2>1. i + 1 < j + 1 /\ i + 1 \in Queued(d) /\ j + 1 \in Queued(d)
    BY <1>2, <1>3, <1>4
  <2>2. msgQue[i + 1][2][1] < msgQue[j + 1][2][1]
    BY <2>1 DEF QueueNumbered
  <2> QED
    BY <1>3, <2>2
<1>5. QueuedNumbers(d)' = {msgQue[i][2][1] : i \in Queued(d) \ {1}}
  <2>1. ASSUME NEW i \in Queued(d)'
        PROVE  msgQue'[i][2][1] \in {msgQue[j][2][1] : j \in Queued(d) \ {1}}
    <3>1. i + 1 \in Queued(d) \ {1}
      BY <1>2, <1>3
    <3> QED
      BY <1>3, <3>1
  <2>2. ASSUME NEW j \in Queued(d) \ {1}
        PROVE  msgQue[j][2][1] \in QueuedNumbers(d)'
    <3>1. j \in 1 .. L /\ j # 1
      BY DEF Queued, L
    <3>2. j - 1 \in Nat \ {0} /\ (j - 1) + 1 = j
      BY <1>1, <3>1
    <3>3. j - 1 \in Queued(d)'
      BY <1>2, <3>2
    <3>4. msgQue'[j - 1] = msgQue[j]
      BY <1>3, <3>2, <3>3
    <3> QED
      BY <3>3, <3>4 DEF QueuedNumbers
  <2> QED
    BY <2>1, <2>2 DEF QueuedNumbers
<1>6. \A n : PostedIs(d, n) <=> PostedIs(d, n)'
  BY DEF PostedIs
<1>7. msgQue[1][1] = c /\ msgQue[1][2][1] = r[1] /\ 1 \in 1 .. L
  BY <1>1
<1>8. CASE d # c
  <2>1. 1 \notin Queued(d)
    BY <1>7, <1>8 DEF Queued
  <2>2. QueuedNumbers(d)' = QueuedNumbers(d)
    BY <1>5, <2>1 DEF QueuedNumbers
  <2>3. handled'[d] = handled[d]
    BY <1>8 DEF TypeOK
  <2>4. \E n \in Len(handled'[d]) .. MaxRequests :
          QueuedNumbers(d)' = Len(handled'[d]) + 1 .. n /\ PostedIs(d, n)'
    BY <1>6, <2>2, <2>3 DEF QueueNumbered
  <2> QED
    BY <1>4, <2>3, <2>4 DEF QueueNumbered
<1>9. CASE d = c
  <2> DEFINE h == Len(handled[c])
             H == handled'[c]
  <2>1. h \in Nat /\ MaxRequests \in Nat
    BY LenProperties, ServerAssumption DEF TypeOK
  <2>2. /\ Len(H) = h + 1
        /\ \A n \in 1 .. h : H[n] = handled[c][n]
        /\ H[h + 1] = r
    <3>1. handled[c] \in Seq(Request) /\ H = Append(handled[c], r)
      BY DEF TypeOK
    <3> QED
      BY <3>1, AppendProperties
  <2>3. r[1] = h + 1
    BY FrontIsNext
  <2>4. 1 \in Queued(c)
    BY <1>1, <1>7 DEF Queued, L
  <2>5. PICK n \in h .. MaxRequests :
          QueuedNumbers(c) = h + 1 .. n /\ PostedIs(c, n)
    BY DEF QueueNumbered
  <2> HIDE DEF h, H
  <2>6. \A m \in 1 .. Len(H) : H[m][1] = m
    <3> SUFFICES ASSUME NEW m \in 1 .. h + 1 PROVE H[m][1] = m
      BY <2>2
    <3>1. CASE m \in 1 .. h
      BY <2>2, <3>1 DEF QueueNumbered, h
    <3>2. CASE m = h + 1
      BY <2>2, <2>3, <3>2
    <3> QED
      BY <2>1, <3>1, <3>2
  <2>7. {msgQue[i][2][1] : i \in Queued(c) \ {1}} = QueuedNumbers(c) \ {h + 1}
    <3>1. \A i \in Queued(c) \ {1} : msgQue[i][2][1] # h + 1
      <4> SUFFICES ASSUME NEW i \in Queued(c) \ {1}
                   PROVE  msgQue[i][2][1] # h + 1
        OBVIOUS
      <4>1. 1 < i
        BY DEF Queued
      <4>2. msgQue[1][2][1] < msgQue[i][2][1]
        BY <2>4, <4>1 DEF QueueNumbered
      <4> QED
        BY <1>7, <2>1, <2>3, <4>2
    <3>2. msgQue[1][2][1] = h + 1
      BY <1>7, <2>3
    <3> QED
      BY <3>1, <3>2 DEF QueuedNumbers
  <2>8. h + 1 \in QueuedNumbers(c)
    BY <1>7, <2>3, <2>4 DEF QueuedNumbers
  <2>9. n \in h + 1 .. MaxRequests /\ QueuedNumbers(c)' = h + 2 .. n
    <3>1. h + 1 \in h + 1 .. n
      BY <2>5, <2>8
    <3>2. n \in Int /\ n >= h + 1 /\ n <= MaxRequests
      BY <2>1, <2>5, <3>1
    <3>3. (h + 1 .. n) \ {h + 1} = h + 2 .. n
      BY <2>1, <3>2
    <3>4. QueuedNumbers(c)' = QueuedNumbers(c) \ {h + 1}
      BY <1>5, <1>9, <2>7
    <3>5. QueuedNumbers(c)' = h + 2 .. n
      BY <2>5, <3>3, <3>4
    <3> QED
      BY <2>1, <3>2, <3>5
  <2>10. \E k \in Len(handled'[c]) .. MaxRequests :
           QueuedNumbers(c)' = Len(handled'[c]) + 1 .. k /\ PostedIs(c, k)'
    <3>1. Len(handled'[c]) = h + 1 /\ Len(handled'[c]) + 1 = h + 2
      BY <2>1, <2>2 DEF H
    <3> QED
      BY <1>6, <1>9, <2>5, <2>9, <3>1
  <2> QED
    BY <1>4, <1>9, <2>6, <2>10 DEF QueueNumbered, H
<1> QED
  BY <1>8, <1>9
-----------------------------------------------------------------------------
(***************************************************************************)
(* The replies on their way back.                                          *)
(***************************************************************************)
LEMMA RepliesAside ==
  ASSUME NEW c \in Client, RepliesNumbered(c),
         Unsent(c)' = Unsent(c), got'[c] = got[c], handled'[c] = handled[c],
         \A n : <<c, n>> \in dropped' <=> <<c, n>> \in dropped,
         peer'[c] # "gone" => peer[c] # "gone"
  PROVE  RepliesNumbered(c)'
<1>1. Replies(c)' = Replies(c)
  BY DEF Replies
<1>2. Owed(c)' = Owed(c)
  BY DEF Owed
<1> QED
  BY <1>1, <1>2 DEF RepliesNumbered, Increasing, Elements

LEMMA RepliesTransmitted ==
  ASSUME TypeOK, WritersHaveReplies, NEW c \in Client, NEW d \in Client,
         RepliesNumbered(d), peer[c] # "new", Transmit(c)
  PROVE  RepliesNumbered(d)'
<1>1. /\ written' = written \cup {c} /\ c \notin written
      /\ UNCHANGED <<out, handled, dropped, peer>>
  BY DEF Transmit, logicVars, peerVars
<1>2. CASE d # c
  <2>1. got'[d] = got[d]
    BY <1>2 DEF Transmit, TypeOK
  <2>2. Unsent(d)' = Unsent(d)
    BY <1>1, <1>2 DEF Unsent
  <2> QED
    BY <1>1, <2>1, <2>2, RepliesAside
<1>3. CASE d = c /\ peer[c] = "gone"
  BY <1>1, <1>3 DEF RepliesNumbered
<1>4. CASE d = c /\ peer[c] = "connected"
  <2>1. got'[c] = Append(got[c], Head(out[c]))
    BY <1>4 DEF Transmit, TypeOK
  <2>2. Unsent(c) = out[c] /\ Unsent(c)' = Tail(out[c])
    BY <1>1 DEF Unsent
  <2>3. out[c] # <<>> /\ out[c] \in Seq(Nat) /\ got[c] \in Seq(Nat)
    BY NumbersAreNaturals DEF Transmit, WritersHaveReplies, TypeOK
  <2>4. Replies(c)' = Replies(c)
    BY <2>1, <2>2, <2>3, MoveFront DEF Replies
  <2>5. Owed(c)' = Owed(c)
    BY <1>1 DEF Owed
  <2> QED
    BY <1>1, <1>4, <2>4, <2>5 DEF RepliesNumbered, Increasing, Elements
<1> QED
  BY <1>2, <1>3, <1>4 DEF TypeOK

LEMMA RepliesPopped ==
  ASSUME TypeOK, NEW c \in Client, NEW d \in Client,
         RepliesNumbered(d), WriteCallbackOk(c)
  PROVE  RepliesNumbered(d)'
<1>1. /\ written' = written \ {c} /\ c \in written
      /\ out' = [out EXCEPT ![c] = Tail(@)]
      /\ UNCHANGED <<got, handled, dropped, peer>>
  BY DEF WriteCallbackOk, logicVars, peerVars
<1>2. Unsent(d)' = Unsent(d)
  BY <1>1 DEF Unsent, TypeOK
<1> QED
  BY <1>1, <1>2, RepliesAside

\* What a client is owed after its request r has been handled.
LEMMA OwedHandled ==
  ASSUME TypeOK, NEW c \in Client, NEW r \in Request,
         RepliesNumbered(c), r[1] = Len(handled[c]) + 1,
         handled'[c] = Append(handled[c], r),
         \A n : n # r[1] => (<<c, n>> \in dropped' <=> <<c, n>> \in dropped)
  PROVE  /\ r[2] = "known" /\ <<c, r[1]>> \notin dropped' =>
              Owed(c)' = Owed(c) \cup {r[1]}
         /\ r[2] # "known" \/ <<c, r[1]>> \in dropped' =>
              Owed(c)' = Owed(c)
<1> DEFINE h == Len(handled[c])
           H == handled'[c]
           k == r[1]
<1>1. /\ Len(H) = h + 1 /\ h \in Nat
      /\ \A n \in 1 .. h : H[n] = handled[c][n]
      /\ H[h + 1] = r
  <2>1. handled[c] \in Seq(Request)
    BY DEF TypeOK
  <2> QED
    BY <2>1, AppendProperties, LenProperties
<1>2. k = h + 1
  OBVIOUS
<1>3. \A n : n # k => (<<c, n>> \in dropped' <=> <<c, n>> \in dropped)
  OBVIOUS
<1> HIDE DEF h, H, k
<1>4. \A n : n \in 1 .. Len(H) <=> n \in 1 .. h \/ n = k
  BY <1>1, <1>2
<1>5. k \notin 1 .. h
  BY <1>1, <1>2
<1>6. \A n \in 1 .. h : n \in Owed(c)' <=> n \in Owed(c)
  BY <1>1, <1>3, <1>4, <1>5 DEF Owed, H, h
<1>7. k \in Owed(c)' <=>
        r[2] = "known" /\ <<c, k>> \notin dropped'
  BY <1>1, <1>2, <1>4 DEF Owed, H
<1>8. Owed(c) \subseteq 1 .. h /\ Owed(c)' \subseteq 1 .. Len(H)
  BY DEF Owed, h, H
<1>9. CASE k \in Owed(c)'
  <2>1. \A n : n \in Owed(c)' <=> n \in Owed(c) \cup {k}
    BY <1>4, <1>6, <1>8, <1>9
  <2> QED
    BY <1>7, <1>9, <2>1 DEF k
<1>10. CASE k \notin Owed(c)'
  <2>1. \A n : n \in Owed(c)' <=> n \in Owed(c)
    BY <1>4, <1>5, <1>6, <1>8, <1>10
  <2> QED
    BY <1>7, <1>10, <2>1 DEF k
<1> QED
  BY <1>9, <1>10

\* send() puts a reply behind those that are not out.
LEMMA ReplyAppends ==
  ASSUME TypeOK, WritersHaveReplies, NEW c \in Client, NEW n \in Nat,
         out'[c] = Append(out[c], n), written' = written
  PROVE  Unsent(c)' = Append(Unsent(c), n) /\ Unsent(c) \in Seq(Nat)
<1>1. out[c] \in Seq(Nat)
  BY NumbersAreNaturals DEF TypeOK
<1>2. CASE c \in written
  <2>1. out[c] # <<>>
    BY <1>2 DEF WritersHaveReplies, TypeOK
  <2>2. Tail(Append(out[c], n)) = Append(Tail(out[c]), n)
    BY <1>1, <2>1, HeadTailAppend
  <2>3. Tail(out[c]) \in Seq(Nat)
    BY <1>1, <2>1, HeadTailProperties
  <2> QED
    BY <1>2, <2>2, <2>3 DEF Unsent
<1>3. CASE c \notin written
  BY <1>1, <1>3 DEF Unsent
<1> QED
  BY <1>2, <1>3

LEMMA RepliesHandled ==
  ASSUME TypeOK, WritersHaveReplies, NEW c \in Client, NEW r \in Request,
         NEW d \in Client, QueueNumbered(c), RepliesNumbered(d), Handle(c, r)
  PROVE  RepliesNumbered(d)'
<1>1. UNCHANGED <<written, got, peer>>
      /\ handled' = [handled EXCEPT ![c] = Append(@, r)]
  BY DEF Handle, Reply, sendVars, peerVars
<1>2. \A e \in Client : \A n : <<e, n>> # <<c, r[1]>> =>
        (<<e, n>> \in dropped' <=> <<e, n>> \in dropped)
  BY DEF Handle, Reply
<1>3. CASE d # c
  <2>1. out'[d] = out[d]
    BY <1>3 DEF Handle, Reply, sendVars, TypeOK
  <2>2. Unsent(d)' = Unsent(d)
    BY <1>1, <2>1 DEF Unsent
  <2>3. handled'[d] = handled[d]
    BY <1>1, <1>3 DEF TypeOK
  <2>4. \A n : <<d, n>> \in dropped' <=> <<d, n>> \in dropped
    BY <1>2, <1>3
  <2> QED
    BY <1>1, <2>2, <2>3, <2>4, RepliesAside
<1>4. CASE d = c
  <2> DEFINE h == Len(handled[c])
             k == r[1]
  <2>1. k = h + 1 /\ h \in Nat /\ k \in Nat
    <3>1. k = h + 1
      BY FrontIsNext DEF Handle
    <3>2. h \in Nat
      BY LenProperties DEF TypeOK
    <3>3. k \in Nat
      BY ServerAssumption DEF Request
    <3> QED
      BY <3>1, <3>2, <3>3
  <2>2. handled'[c] = Append(handled[c], r) /\ Len(handled'[c]) = h + 1
    <3>1. handled[c] \in Seq(Request)
      BY DEF TypeOK
    <3>2. handled'[c] = Append(handled[c], r)
      BY <1>1 DEF TypeOK
    <3> QED
      BY <3>1, <3>2, AppendProperties
  <2>3. \A n : n # k => (<<c, n>> \in dropped' <=> <<c, n>> \in dropped)
    BY <1>2
  <2>4. \A n \in 1 .. MaxRequests : <<c, n>> \in dropped => n <= h
    BY <1>4 DEF RepliesNumbered
  <2>5. <<c, k>> \notin dropped
    <3>1. k \in 1 .. MaxRequests
      BY DEF Request
    <3> HIDE DEF h, k
    <3> QED
      BY <2>1, <2>4, <3>1
  <2>6. \A n \in 1 .. MaxRequests : <<c, n>> \in dropped' =>
          n <= Len(handled'[c])
    <3> HIDE DEF h, k
    <3> QED
      BY <2>1, <2>2, <2>3, <2>4, ServerAssumption
  <2>7. /\ r[2] = "known" /\ <<c, k>> \notin dropped' =>
             Owed(c)' = Owed(c) \cup {k}
        /\ r[2] # "known" \/ <<c, k>> \in dropped' =>
             Owed(c)' = Owed(c)
    BY <1>4, <2>1, <2>2, <2>3, OwedHandled
  <2>8. CASE out' = out /\ Owed(c)' = Owed(c)
    <3>1. Replies(c)' = Replies(c)
      BY <1>1, <2>8 DEF Replies, Unsent
    <3> QED
      BY <1>1, <1>4, <2>6, <2>8, <3>1 DEF RepliesNumbered, Increasing, Elements
  <2>9. CASE /\ out' = [out EXCEPT ![c] = Append(@, k)]
             /\ Owed(c)' = Owed(c) \cup {k}
    <3>1. out'[c] = Append(out[c], k)
      BY <2>9 DEF TypeOK
    <3>2. Unsent(c)' = Append(Unsent(c), k) /\ Unsent(c) \in Seq(Nat)
      BY <1>1, <2>1, <3>1, ReplyAppends
    <3>3. got[c] \in Seq(Nat)
      BY NumbersAreNaturals DEF TypeOK
    <3>4. Replies(c)' = Append(Replies(c), k) /\ Replies(c) \in Seq(Nat)
      <4>1. got[c] \o Append(Unsent(c), k) = Append(got[c] \o Unsent(c), k)
        <5> DEFINE u == Unsent(c)
                   g == got[c]
        <5>1. u \in Seq(Nat) /\ g \in Seq(Nat) /\ k \in Nat
          BY <2>1, <3>2, <3>3
        <5> HIDE DEF u, g, k
        <5>2. g \o Append(u, k) = Append(g \o u, k)
          BY <5>1, AppendToBoth
        <5> QED
          BY <5>2 DEF u, g
      <4>2. got[c] \o Unsent(c) \in Seq(Nat)
        BY <3>2, <3>3, ConcatProperties
      <4>3. Replies(c)' = got[c] \o Append(Unsent(c), k)
        BY <1>1, <3>2 DEF Replies
      <4> QED
        BY <4>1, <4>2, <4>3 DEF Replies
    <3>5. \A m \in Owed(c) : m < k
      <4>1. Owed(c) \subseteq 1 .. h
        BY DEF Owed
      <4> HIDE DEF h, k
      <4> QED
        BY <2>1, <4>1
    <3>6. ASSUME peer'[c] # "gone"
          PROVE  Increasing(Replies(c)') /\ Elements(Replies(c)') = Owed(c)'
      <4>1. Increasing(Replies(c)) /\ Elements(Replies(c)) = Owed(c)
        BY <1>1, <1>4, <3>6 DEF RepliesNumbered
      <4>2. /\ Increasing(Append(Replies(c), k))
            /\ Elements(Append(Replies(c), k)) = Elements(Replies(c)) \cup {k}
        BY <2>1, <3>4, <3>5, <4>1, AppendNext
      <4> QED
        BY <2>9, <3>4, <4>1, <4>2
    <3> QED
      BY <1>4, <2>6, <3>6 DEF RepliesNumbered, Increasing, Elements
  <2>10. \/ out' = out /\ Owed(c)' = Owed(c)
         \/ /\ out' = [out EXCEPT ![c] = Append(@, k)]
            /\ Owed(c)' = Owed(c) \cup {k}
    <3>1. CASE r[2] # "known"
      BY <2>7, <3>1 DEF Handle, sendVars
    <3>2. CASE r[2] = "known" /\ Len(out[c]) > MaxSendQue
      BY <2>7, <3>2 DEF Handle, Reply, sendVars
    <3>3. CASE r[2] = "known" /\ ~(Len(out[c]) > MaxSendQue)
      BY <2>5, <2>7, <3>3 DEF Handle, Reply, sendVars
    <3> QED
      BY <3>1, <3>2, <3>3
  <2> QED
    BY <2>8, <2>9, <2>10
<1> QED
  BY <1>3, <1>4
-----------------------------------------------------------------------------
(***************************************************************************)
(* Every step.                                                             *)
(***************************************************************************)
\* c writes or reads an item, or posts a request.
Passes(c) ==
  \/ \E k \in Kind : WriteHead(c, k)
  \/ WriteBody(c)
  \/ Arrive(c, "head", "gotHead") \/ Arrive(c, "body", "gotBody")
  \/ BodyRead(c)

LEMMA ReadAside ==
  ASSUME TypeOK, Ordered, [Next]_vars, \A c \in Client : ~Passes(c)
  PROVE  /\ UNCHANGED <<inbound, reading, begun, half>>
         /\ \A d \in Client : Moves(d)
         /\ LogicHandle \/ UNCHANGED <<msgQue, handled>>
<1> DEFINE Aside == /\ UNCHANGED <<inbound, reading, begun, half>>
                    /\ \A d \in Client : Moves(d)
                    /\ LogicHandle \/ UNCHANGED <<msgQue, handled>>
<1> USE DEF Moves
<1>1. ASSUME NEW c \in Client, Clients(c) PROVE Aside
  BY <1>1 DEF Clients, Passes, Connect, Leave, readVars, logicVars
<1>2. ASSUME NEW c \in Client, Coroutine(c) PROVE Aside
  <2>1. CASE HeadRead(c)
    <3>1. reading[c] \in Request
      BY <2>1 DEF HeadRead, Ordered, InboundNumbered
    <3>2. reading[c][2] \in Kind
      BY <3>1 DEF Request
    <3>3. reading[c][2] = "empty" \/ reading[c][2] \in HasBody
      BY <2>1, <3>2, ServerAssumption DEF HeadRead, HasBody
    <3> QED
      BY <2>1, <3>3 DEF HeadRead, TypeOK, HasBody, logicVars, peerVars
  <2>2. CASE HeadRejected(c) \/ ReadThrows(c)
    BY <2>2 DEF HeadRejected, ReadThrows, TypeOK, logicVars, peerVars
  <2> QED
    BY <1>2, <2>1, <2>2 DEF Coroutine, Passes
<1>3. ASSUME NEW c \in Client, Writing(c) PROVE Aside
  BY <1>3 DEF Writing, Transmit, WriteCallbackOk, WriteCallbackError, readVars,
              logicVars, peerVars
<1>4. ASSUME NEW c \in Client, AcceptStart(c) PROVE Aside
  BY <1>4 DEF AcceptStart, TypeOK, logicVars, peerVars
<1>5. CASE AcceptInsert \/ Signal \/ Join \/ IOExit
  BY <1>5 DEF AcceptInsert, Signal, Join, IOExit, readVars, logicVars, peerVars
<1>6. CASE LogicHandle \/ UNCHANGED vars
  BY <1>6 DEF LogicHandle, vars, readVars, logicVars, peerVars
<1> QED
  BY <1>1, <1>2, <1>3, <1>4, <1>5, <1>6 DEF Next, MainThread

LEMMA RequestsStep ==
  ASSUME TypeOK, Ordered, [Next]_vars, NEW d \in Client
  PROVE  InboundNumbered(d)' /\ QueueNumbered(d)'
<1>1. InboundNumbered(d) /\ QueueNumbered(d)
  BY DEF Ordered
<1>2. ASSUME NEW c \in Client, (\E k \in Kind : WriteHead(c, k)) \/ WriteBody(c)
      PROVE  InboundNumbered(d)' /\ QueueNumbered(d)'
  <2>1. UNCHANGED <<spc, reading, msgQue, handled>>
    BY <1>2 DEF WriteHead, WriteBody, readVars, logicVars
  <2>2. QueueNumbered(d)'
    BY <1>1, <2>1, QueueAside DEF PostedIs
  <2>3. CASE d = c
    BY <1>1, <1>2, <2>1, <2>2, <2>3, InboundWritten
  <2>4. CASE d # c
    <3>1. /\ inbound'[d] = inbound[d] /\ begun'[d] = begun[d]
          /\ half'[d] = half[d]
      BY <1>2, <2>4 DEF WriteHead, WriteBody, TypeOK
    <3> QED
      BY <1>1, <2>1, <2>2, <3>1, InboundAside DEF Moves
  <2> QED
    BY <2>3, <2>4
<1>3. ASSUME NEW c \in Client,
             Arrive(c, "head", "gotHead") \/ Arrive(c, "body", "gotBody")
      PROVE  InboundNumbered(d)' /\ QueueNumbered(d)'
  <2>1. UNCHANGED <<begun, half, msgQue, handled>>
    BY <1>3 DEF Arrive, logicVars, peerVars
  <2>2. CASE d = c
    <3>1. /\ InboundNumbered(c)' /\ reading[c][1] \in Int
          /\ spc[c] = "head" => reading'[c][1] = reading[c][1] + 1
          /\ spc[c] = "body" => reading'[c][1] = reading[c][1]
      BY <1>1, <1>3, <2>2, InboundRead
    <3>2. \/ spc[c] = "head" /\ spc'[c] = "gotHead"
          \/ spc[c] = "body" /\ spc'[c] = "gotBody"
      BY <1>3 DEF Arrive, TypeOK
    <3> DEFINE q == reading[c][1]
               r == reading'[c][1]
    <3>3. \A n : PostedIs(c, n) => n = IF spc[c] = "head" THEN q ELSE q - 1
      BY <3>2 DEF PostedIs
    <3>4. \A n : n = r - 1 => PostedIs(c, n)'
      BY <3>2 DEF PostedIs
    <3>5. /\ q \in Int
          /\ spc[c] = "head" => r = q + 1
          /\ spc[c] = "body" => r = q
      BY <3>1
    <3> HIDE DEF q, r
    <3>6. r - 1 = IF spc[c] = "head" THEN q ELSE q - 1
      BY <3>2, <3>5
    <3>7. \A n : PostedIs(c, n) => PostedIs(c, n)'
      BY <3>3, <3>4, <3>6
    <3> QED
      BY <1>1, <2>1, <2>2, <3>1, <3>7, QueueAside
  <2>3. CASE d # c
    <3>1. /\ inbound'[d] = inbound[d] /\ reading'[d] = reading[d]
          /\ spc'[d] = spc[d]
      BY <1>3, <2>3 DEF Arrive, TypeOK
    <3>2. \A n : PostedIs(d, n) => PostedIs(d, n)'
      BY <3>1 DEF PostedIs
    <3> QED
      BY <1>1, <2>1, <3>1, <3>2, InboundAside, QueueAside DEF Moves
  <2> QED
    BY <2>2, <2>3
<1>4. ASSUME NEW c \in Client, BodyRead(c)
      PROVE  InboundNumbered(d)' /\ QueueNumbered(d)'
  <2>1. /\ spc[c] = "gotBody"
        /\ \E to \in {"head", "done"} : spc' = [spc EXCEPT ![c] = to]
        /\ msgQue' = Append(msgQue, <<c, reading[c]>>)
        /\ UNCHANGED <<reading, inbound, begun, half, handled>>
    BY <1>4 DEF BodyRead, peerVars
  <2>2. reading[c] \in Request
    BY <2>1 DEF Ordered, InboundNumbered
  <2>3. Moves(d) \/ (spc[d] = "gotBody" /\ spc'[d] = "head")
    BY <2>1 DEF Moves, TypeOK
  <2>4. InboundNumbered(d)'
    BY <1>1, <2>1, <2>3, InboundAside
  <2>5. QueueNumbered(d)'
    BY <1>1, <2>1, <2>2, PostedInOrder
  <2> QED
    BY <2>4, <2>5
<1>5. CASE \A c \in Client : ~Passes(c)
  <2>1. /\ UNCHANGED <<inbound, reading, begun, half>> /\ Moves(d)
        /\ LogicHandle \/ UNCHANGED <<msgQue, handled>>
    BY <1>5, ReadAside
  <2>2. InboundNumbered(d)'
    BY <1>1, <2>1, InboundAside
  <2>3. CASE LogicHandle
    <3>1. PICK c \in Client, r \in Request : Handle(c, r)
      BY <2>3, HandleFront
    <3>2. /\ msgQue # <<>> /\ msgQue[1] = <<c, r>> /\ msgQue' = Tail(msgQue)
          /\ handled' = [handled EXCEPT ![c] = Append(@, r)]
          /\ UNCHANGED <<spc, reading>>
      BY <3>1 DEF Handle, readVars
    <3>3. QueueNumbered(c)
      BY DEF Ordered
    <3>4. QueueNumbered(d)'
      BY <1>1, <3>2, <3>3, HandledInOrder
    <3> QED
      BY <2>2, <3>4
  <2>4. CASE UNCHANGED <<msgQue, handled>>
    <3>1. \A n : PostedIs(d, n) => PostedIs(d, n)'
      BY <2>1 DEF PostedIs, Moves
    <3> QED
      BY <1>1, <2>2, <2>4, <3>1, QueueAside
  <2> QED
    BY <2>1, <2>3, <2>4
<1> QED
  BY <1>2, <1>3, <1>4, <1>5 DEF Passes

LEMMA RepliesStep ==
  ASSUME TypeOK, WritersHaveReplies, Accepted, Ordered, [Next]_vars,
         NEW d \in Client
  PROVE  RepliesNumbered(d)'
<1>1. RepliesNumbered(d)
  BY DEF Ordered
<1> DEFINE Still == /\ UNCHANGED <<out, written, got, handled, dropped>>
                    /\ peer'[d] # "gone" => peer[d] # "gone"
<1>2. ASSUME Still PROVE RepliesNumbered(d)'
  BY <1>1, <1>2, RepliesAside DEF Unsent
<1>3. ASSUME NEW c \in Client, Clients(c) PROVE Still
  BY <1>3 DEF Clients, Connect, Leave, WriteHead, WriteBody, sendVars,
              logicVars, TypeOK
<1>4. ASSUME NEW c \in Client, Coroutine(c) PROVE Still
  BY <1>4 DEF Coroutine, Arrive, HeadRead, HeadRejected, BodyRead, ReadThrows,
              sendVars, logicVars, peerVars
<1>5. ASSUME NEW c \in Client, Writing(c) PROVE RepliesNumbered(d)'
  <2>1. CASE Transmit(c)
    <3>1. c \in writing
      BY <2>1 DEF Transmit
    \* A client that has not connected has no session that writes.
    <3>2. peer[c] # "new"
      BY <3>1 DEF Accepted, Unaccepted
    <3> QED
      BY <1>1, <2>1, <3>2, RepliesTransmitted
  <2>2. CASE WriteCallbackOk(c)
    BY <1>1, <2>2, RepliesPopped
  <2>3. ASSUME WriteCallbackError(c) PROVE Still
    BY <2>3 DEF WriteCallbackError, logicVars, peerVars
  <2> QED
    BY <1>2, <1>5, <2>1, <2>2, <2>3 DEF Writing
<1>6. ASSUME MainThread \/ Signal \/ IOExit \/ UNCHANGED vars PROVE Still
  BY <1>6 DEF MainThread, AcceptStart, AcceptInsert, Signal, Join, IOExit, vars,
              sendVars, logicVars, peerVars
<1>7. CASE LogicHandle
  <2>1. PICK c \in Client, r \in Request : Handle(c, r)
    BY <1>7, HandleFront
  <2>2. QueueNumbered(c)
    BY DEF Ordered
  <2> QED
    BY <1>1, <2>1, <2>2, RepliesHandled
<1> HIDE DEF Still
<1> QED
  BY <1>2, <1>3, <1>4, <1>5, <1>6, <1>7 DEF Next
-----------------------------------------------------------------------------
LEMMA Initially == Init => IInv
<1> SUFFICES ASSUME Init PROVE IInv
  OBVIOUS
<1> USE DEF Init
<1>1. TypeOK
  <2>1. \A S : <<>> \in Seq(S) /\ Len(<<>>) = 0
    BY EmptySeq
  <2>2. \A S : [c \in Client |-> <<>>] \in [Client -> Seq(S)]
    BY <2>1
  <2>3. /\ out \in [Client -> Seq(1 .. MaxRequests)]
        /\ inbound \in [Client -> Seq(Request)]
        /\ got \in [Client -> Seq(1 .. MaxRequests)]
        /\ handled \in [Client -> Seq(Request)]
        /\ msgQue \in Seq(Client \X Request)
    BY <2>1, <2>2
  <2>4. \A c \in Client : Len(out[c]) <= MaxSendQue + 1
    BY <2>1, ServerAssumption
  <2>5. /\ spc \in [Client -> CoroutinePC]
        /\ reading \in [Client -> Request \cup {NoRequest}]
        /\ half \in [Client -> Request \cup {NoRequest}]
        /\ begun \in [Client -> 0 .. MaxRequests]
    BY ServerAssumption DEF CoroutinePC
  <2> QED
    BY <2>3, <2>4, <2>5 DEF TypeOK
<1>2. WritersHaveReplies /\ Accepted
  BY DEF WritersHaveReplies, Accepted, Unaccepted, MapAhead
<1>3. ASSUME NEW c \in Client
      PROVE  InboundNumbered(c) /\ QueueNumbered(c) /\ RepliesNumbered(c)
  <2>1. InboundNumbered(c)
    <3>1. Taken(c) = 0 /\ HalfWritten(c) = 0
      BY DEF Taken, HalfWritten, AwaitsBody, NoRequest
    <3>2. Alternating(<<>>, 0) /\ EndsAt(<<>>, 0, 0, 0)
      BY DEF Alternating, EndsAt
    <3> QED
      BY <3>1, <3>2 DEF InboundNumbered
  <2>2. QueuedNumbers(c) = 1 .. 0
    BY DEF QueuedNumbers, Queued
  <2>3. PostedIs(c, 0)
    BY DEF PostedIs, NoRequest
  <2>4. QueueNumbered(c)
    <3>1. Len(handled[c]) = 0 /\ Queued(c) = {}
      BY DEF Queued
    <3>2. 0 \in 0 .. MaxRequests
      BY ServerAssumption
    <3> QED
      BY <2>2, <2>3, <3>1, <3>2 DEF QueueNumbered
  <2>5. Replies(c) = <<>>
    BY DEF Replies, Unsent
  <2>6. Owed(c) = {} /\ Elements(<<>>) = {} /\ Increasing(<<>>)
    BY DEF Owed, Elements, Increasing
  <2>7. RepliesNumbered(c)
    BY <2>5, <2>6 DEF RepliesNumbered
  <2> QED
    BY <2>1, <2>4, <2>7
<1> QED
  BY <1>1, <1>2, <1>3 DEF IInv, Ordered

LEMMA Inductive == IInv /\ [Next]_vars => IInv'
<1> SUFFICES ASSUME IInv, [Next]_vars PROVE IInv'
  OBVIOUS
<1>1. TypeOK /\ WritersHaveReplies /\ Accepted /\ Ordered
  BY DEF IInv
<1>2. TypeOK' /\ WritersHaveReplies'
  BY <1>1, TypeStep
<1>3. Accepted'
  BY <1>1, AcceptedStep
<1>4. Ordered'
  <2>1. ASSUME NEW d \in Client
        PROVE  InboundNumbered(d)' /\ QueueNumbered(d)' /\ RepliesNumbered(d)'
    BY <1>1, RequestsStep, RepliesStep
  <2> QED
    BY <2>1 DEF Ordered
<1> QED
  BY <1>2, <1>3, <1>4 DEF IInv

LEMMA Always == Spec => []IInv
BY Initially, Inductive, PTL DEF Spec

\* The state keeps its types; in particular no send_que_ grows beyond
\* MAX_SENDQUE_SIZE + 1 frames, whatever the logic and the I/O thread
\* interleave.
THEOREM CoroutineTypeCorrect == Spec => []TypeOK
BY Always, PTL DEF IInv

\* All clients share the queue of the logic thread; still the requests of each
\* are handled in its order, and a client that stays is given the replies to
\* its own requests, in that order, each once.
THEOREM CoroutineAnsweredInOrder == Spec => []AnsweredInOrder
<1>1. ASSUME IInv PROVE AnsweredInOrder
  <2> SUFFICES ASSUME NEW c \in Client
      PROVE LET replies == got[c] \o Unsent(c)
            IN /\ \A n \in 1 .. Len(handled[c]) : handled[c][n][1] = n
               /\ \A i, j \in Queued(c) :
                    i < j => msgQue[i][2][1] < msgQue[j][2][1]
               /\ \E n \in Len(handled[c]) .. MaxRequests :
                    {msgQue[i][2][1] : i \in Queued(c)}
                      = Len(handled[c]) + 1 .. n
               /\ peer[c] = "connected" =>
                    /\ \A i, j \in 1 .. Len(replies) :
                         i < j => replies[i] < replies[j]
                    /\ {replies[i] : i \in 1 .. Len(replies)} = Owed(c)
    BY DEF AnsweredInOrder
  <2>1. QueueNumbered(c) /\ RepliesNumbered(c)
    BY <1>1 DEF IInv, Ordered
  <2>2. peer[c] = "connected" =>
          Increasing(Replies(c)) /\ Elements(Replies(c)) = Owed(c)
    BY <2>1 DEF RepliesNumbered
  <2> QED
    BY <2>1, <2>2 DEF QueueNumbered, QueuedNumbers, Increasing, Elements, Replies
<1> QED
  BY <1>1, Always, PTL

\* sessions_ holds the sessions that serve a client, and of those that have
\* ended at most the ones that did so between start() and insertion, although
\* two threads change it.
THEOREM CoroutineSessionsServed == Spec => []SessionsAreServed
<1>1. ASSUME IInv PROVE SessionsAreServed
  BY <1>1 DEF IInv, Accepted, MapAhead, Through, SessionsAreServed
<1> QED
  BY <1>1, Always, PTL
=============================================================================
