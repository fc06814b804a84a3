------------------------- MODULE SessionSendProofs --------------------------
(***************************************************************************)
(* The safety properties of SessionSend, and that it implements            *)
(* FrameChannel, for any number of callers, calls and parts of a frame,    *)
(* and any limit of the queue.                                             *)
(***************************************************************************)
EXTENDS SessionSend, SequenceTheorems, TLAPS

-----------------------------------------------------------------------------
(***************************************************************************)
(* Types.                                                                  *)
(***************************************************************************)
\* TypeOK in two parts: those of its variables that are Boolean, and the rest.
TypeFlags ==
  /\ socketOpen \in BOOLEAN
  /\ bClose \in BOOLEAN
  /\ registered \in BOOLEAN

TypeData ==
  /\ sendQue \in Seq(Msg)
  /\ about \in [Thread -> Msg \cup {None}]
  /\ writing \in SUBSET Msg
  /\ sent \in [Msg -> 0 .. FrameLen]
  /\ stream \in Seq(Msg \X (1 .. FrameLen))
  /\ accepted \in Nat
  /\ dropped \in Nat
  /\ accepted + dropped <= MaxCalls

LEMMA TypeParts == TypeOK <=> TypeFlags /\ TypeData
BY Zenon DEF TypeOK, TypeFlags, TypeData

LEMMA TypeFlagsStep ==
  ASSUME TypeFlags, [Next]_vars
  PROVE  TypeFlags'
BY DEF TypeFlags, Next, SendRefused, SendAccepted, AsyncWrite, Transmit,
     WriteCallbackOk, WriteCallbackError, ReaderClose, CloseAndRemove, vars

\* The message an accepting call numbers; it becomes the last of the queue.
LEMMA NewMessage ==
  ASSUME TypeData, NEW t \in Sender, SendAccepted(t)
  PROVE  /\ accepted + 1 \in Msg
         /\ sendQue' \in Seq(Msg)
         /\ Len(sendQue') = Len(sendQue) + 1
         /\ \A i \in 1 .. Len(sendQue) : sendQue'[i] = sendQue[i]
         /\ sendQue'[Len(sendQue) + 1] = accepted + 1
         /\ sendQue' # <<>>
         /\ Len(sendQue) \in Nat
<1>1. accepted + 1 \in Msg
  BY SendAssumption DEF TypeData, SendAccepted, Calling, Msg
<1> QED
  BY <1>1, AppendProperties, LenProperties DEF TypeData, SendAccepted

LEMMA TypeDataStep ==
  ASSUME TypeData, BufferStaysQueued, [Next]_vars
  PROVE  TypeData'
<1>1. ASSUME NEW t \in Sender, SendRefused(t) PROVE TypeData'
  BY <1>1, SendAssumption DEF TypeData, SendRefused, Calling
<1>2. ASSUME NEW t \in Sender, SendAccepted(t) PROVE TypeData'
  <2>1. sendQue' \in Seq(Msg) /\ Head(sendQue') \in Msg
    BY <1>2, NewMessage, HeadTailProperties
  <2>2. about' \in [Thread -> Msg \cup {None}]
    BY <1>2, <2>1 DEF TypeData, SendAccepted, Thread
  <2> QED
    BY <1>2, <2>1, <2>2, SendAssumption DEF TypeData, SendAccepted, Calling
<1>3. ASSUME NEW t \in Thread, AsyncWrite(t) PROVE TypeData'
  <2>1. about[t] \in Msg
    BY <1>3 DEF TypeData, AsyncWrite
  <2>2. None \in Msg \cup {None}
    OBVIOUS
  <2> HIDE DEF Msg, None
  <2> QED
    BY <1>3, <2>1, <2>2, SendAssumption DEF TypeData, AsyncWrite
<1>4. ASSUME NEW m \in Msg, Transmit(m) PROVE TypeData'
  <2>1. sent[m] + 1 \in 1 .. FrameLen
    BY <1>4, SendAssumption DEF TypeData, Transmit
  <2>2. stream' \in Seq(Msg \X (1 .. FrameLen))
    BY <1>4, <2>1, AppendProperties DEF TypeData, Transmit
  <2> QED
    BY <1>4, <2>1, <2>2, SendAssumption DEF TypeData, Transmit
<1>5. ASSUME NEW m \in Msg, WriteCallbackOk(m) PROVE TypeData'
  <2>1. sendQue # <<>>
    BY <1>5 DEF WriteCallbackOk, BufferStaysQueued, Msg, None
  <2>2. Tail(sendQue) \in Seq(Msg)
    BY <2>1, HeadTailProperties DEF TypeData
  <2>3. NextNode(sendQue) \in Msg \cup {None}
    BY <2>2, HeadTailProperties DEF NextNode
  <2> QED
    BY <1>5, <2>2, <2>3 DEF TypeData, WriteCallbackOk, Thread
<1>6. ASSUME NEW m \in Msg, WriteCallbackError(m) PROVE TypeData'
  BY <1>6 DEF TypeData, WriteCallbackError
<1>7. CASE ReaderClose
  BY <1>7 DEF TypeData, ReaderClose
<1>8. CASE UNCHANGED vars
  BY <1>8 DEF TypeData, vars
<1> QED
  BY <1>1, <1>2, <1>3, <1>4, <1>5, <1>6, <1>7, <1>8 DEF Next

-----------------------------------------------------------------------------
(***************************************************************************)
(* The inductive invariant.  The queue holds the last accepted messages in *)
(* the order of acceptance; whoever is about to write, or has a write      *)
(* outstanding, has the front one; and the part the peer expects next is   *)
(* the next part of that write.                                            *)
(***************************************************************************)
QueueNumbered ==
  /\ Len(sendQue) <= accepted
  /\ Len(sendQue) <= MaxSendQue + 1
  /\ \A i \in 1 .. Len(sendQue) : sendQue[i] = accepted - Len(sendQue) + i

\* The part of a frame the peer expects next.
NextPart == Channel!Expected(stream)

PeerExpects ==
  /\ NextPart \in Nat \X (1 .. FrameLen)
  /\ \A t \in Thread : about[t] # None => NextPart = <<about[t], 1>>
  /\ \A m \in writing :
       NextPart = IF sent[m] < FrameLen THEN <<m, sent[m] + 1>> ELSE <<m + 1, 1>>
  /\ sendQue = <<>> => NextPart = <<accepted + 1, 1>>
  /\ NextPart[1] > accepted - Len(sendQue)

IInv ==
  /\ TypeData
  /\ QueueNumbered
  /\ OneWriteAtATime
  /\ BufferStaysQueued
  /\ QueueHasWriter
  /\ PeerExpects
  /\ StreamInOrder

\* What a thread that is about to write, or an outstanding write, tells.
LEMMA WriterHasFront ==
  ASSUME TypeData, QueueNumbered, BufferStaysQueued,
         NEW m \in writing \cup {about[t] : t \in Thread}, m # None
  PROVE  /\ sendQue # <<>>
         /\ Head(sendQue) = m
         /\ Len(sendQue) \in Nat \ {0}
         /\ m = accepted - Len(sendQue) + 1
<1>1. sendQue # <<>> /\ Head(sendQue) = m
  BY DEF BufferStaysQueued
<1>2. Len(sendQue) \in Nat \ {0}
  BY <1>1, EmptySeq DEF TypeData
<1>3. sendQue[1] = accepted - Len(sendQue) + 1
  BY <1>2 DEF QueueNumbered, TypeData
<1> QED
  BY <1>1, <1>2, <1>3

LEMMA NotNone == \A m \in Msg : m # None
BY DEF Msg, None

LEMMA AcceptKeeps ==
  ASSUME IInv, NEW t \in Sender, SendAccepted(t), TypeData'
  PROVE  IInv'
<1> USE DEF IInv
<1>1. /\ Len(sendQue') = Len(sendQue) + 1
      /\ \A i \in 1 .. Len(sendQue) : sendQue'[i] = sendQue[i]
      /\ sendQue'[Len(sendQue) + 1] = accepted + 1
      /\ sendQue' # <<>>
      /\ Len(sendQue) \in Nat
      /\ accepted \in Nat /\ accepted' = accepted + 1
  BY NewMessage DEF TypeData, SendAccepted
<1>2. QueueNumbered'
  <2>1. /\ Len(sendQue) <= accepted
        /\ \A i \in 1 .. Len(sendQue) : sendQue[i] = accepted - Len(sendQue) + i
    BY DEF QueueNumbered
  <2>2. Len(sendQue') <= MaxSendQue + 1
    BY <1>1, SendAssumption DEF SendAccepted, Full
  <2>3. ASSUME NEW i \in 1 .. Len(sendQue')
        PROVE  sendQue'[i] = accepted' - Len(sendQue') + i
    <3>1. CASE i \in 1 .. Len(sendQue)
      BY <1>1, <2>1, <3>1
    <3>2. CASE i = Len(sendQue) + 1
      BY <1>1, <3>2
    <3> QED
      BY <1>1, <2>3, <3>1, <3>2
  <2> QED
    BY <1>1, <2>1, <2>2, <2>3 DEF QueueNumbered
<1>3. UNCHANGED <<writing, sent, stream, bClose>>
  BY DEF SendAccepted
<1>4. NextPart' = NextPart
  BY <1>3 DEF NextPart, Channel!Expected, Channel!After
<1>5. CASE MustWrite
  <2>1. sendQue = <<>> /\ Len(sendQue) = 0
    BY <1>5, EmptySeq DEF MustWrite
  <2>2. writing = {} /\ \A u \in Thread : about[u] = None
    <3>1. \A m \in writing : m \in Msg /\ m # None
      BY NotNone DEF TypeData
    <3> QED
      BY <2>1, <3>1 DEF BufferStaysQueued
  <2>3. Head(sendQue') = accepted + 1
    BY <1>1, <2>1
  <2>4. \A u \in Thread : about'[u] = IF u = t THEN accepted + 1 ELSE None
    BY <1>5, <2>2, <2>3 DEF SendAccepted, Thread, TypeData
  <2>5. OneWriteAtATime'
    BY <1>3, <2>2, <2>4 DEF OneWriteAtATime
  <2>6. BufferStaysQueued'
    BY <1>1, <1>3, <2>2, <2>3, <2>4 DEF BufferStaysQueued
  <2>7. QueueHasWriter'
    BY <1>1, <2>4, t \in Thread DEF QueueHasWriter, None, Thread
  <2>8. NextPart = <<accepted + 1, 1>>
    BY <2>1 DEF PeerExpects
  <2>9. PeerExpects'
    BY <1>1, <1>3, <1>4, <2>1, <2>2, <2>4, <2>8 DEF PeerExpects
  <2> QED
    BY <1>2, <1>3, <2>5, <2>6, <2>7, <2>9 DEF StreamInOrder
<1>6. CASE ~MustWrite
  <2>1. /\ sendQue # <<>>
        /\ Len(sendQue) \in Nat \ {0}
        /\ about' = about
    BY <1>6, EmptySeq DEF MustWrite, SendAccepted, TypeData
  <2>2. Head(sendQue') = Head(sendQue)
    BY <1>1, <2>1
  <2>3. OneWriteAtATime'
    BY <1>3, <2>1 DEF OneWriteAtATime
  <2>4. BufferStaysQueued'
    BY <1>1, <1>3, <2>1, <2>2 DEF BufferStaysQueued
  <2>5. QueueHasWriter'
    BY <1>3, <2>1 DEF QueueHasWriter
  <2>6. PeerExpects'
    BY <1>1, <1>3, <1>4, <2>1 DEF PeerExpects
  <2> QED
    BY <1>2, <1>3, <2>3, <2>4, <2>5, <2>6 DEF StreamInOrder
<1> QED
  BY <1>5, <1>6

LEMMA AsyncWriteKeeps ==
  ASSUME IInv, NEW t \in Thread, AsyncWrite(t), TypeData'
  PROVE  IInv'
<1> USE DEF IInv
<1> DEFINE m == about[t]
<1>1. m # None /\ m \in Msg
  BY DEF AsyncWrite, TypeData
<1>2. writing = {} /\ \A u \in Thread : u # t => about[u] = None
  BY <1>1 DEF OneWriteAtATime
<1>3. /\ writing' = {m}
      /\ sent'[m] = 0
      /\ \A u \in Thread : about'[u] = None
      /\ UNCHANGED <<sendQue, stream, accepted, bClose>>
  BY <1>1, <1>2 DEF AsyncWrite, TypeData
<1>4. sendQue # <<>> /\ Head(sendQue) = m
  BY <1>1 DEF BufferStaysQueued
<1>5. NextPart' = NextPart /\ NextPart = <<m, 1>>
  BY <1>1, <1>3 DEF NextPart, Channel!Expected, Channel!After, PeerExpects
<1> HIDE DEF m
<1>6. OneWriteAtATime'
  BY <1>3 DEF OneWriteAtATime
<1>7. BufferStaysQueued'
  BY <1>3, <1>4 DEF BufferStaysQueued
<1>8. QueueHasWriter'
  BY <1>3 DEF QueueHasWriter
<1>9. PeerExpects'
  BY <1>3, <1>4, <1>5, SendAssumption DEF PeerExpects
<1> QED
  BY <1>3, <1>6, <1>7, <1>8, <1>9 DEF QueueNumbered, StreamInOrder

\* The part the peer expects extends an orderly stream.
LEMMA StreamExtends ==
  ASSUME NEW S, stream \in Seq(S), StreamInOrder, NextPart \in S,
         stream' = Append(stream, NextPart)
  PROVE  StreamInOrder' /\ NextPart' = Channel!After(NextPart)
<1> DEFINE n == Len(stream)
           p == NextPart
<1>1. /\ Len(stream') = n + 1
      /\ \A i \in 1 .. n : stream'[i] = stream[i]
      /\ stream'[n + 1] = p
      /\ stream' # <<>>
      /\ n \in Nat
  BY AppendProperties, LenProperties
<1>2. p = IF n = 0 THEN <<1, 1>> ELSE Channel!After(stream[n])
  BY EmptySeq DEF NextPart, Channel!Expected
<1>3. NextPart' = Channel!After(NextPart)
  BY <1>1 DEF NextPart, Channel!Expected
<1> HIDE DEF p
<1>4. ASSUME NEW i \in 1 .. Len(stream')
      PROVE  stream'[i] = IF i = 1 THEN <<1, 1>>
                                   ELSE Channel!After(stream'[i - 1])
  <2>1. CASE i \in 1 .. n
    <3>1. stream[i] = IF i = 1 THEN <<1, 1>> ELSE Channel!After(stream[i - 1])
      BY <2>1 DEF StreamInOrder
    <3>2. i # 1 => i - 1 \in 1 .. n
      BY <1>1, <2>1
    <3> QED
      BY <1>1, <2>1, <3>1, <3>2
  <2>2. CASE i = n + 1
    BY <1>1, <1>2, <2>2
  <2> QED
    BY <1>1, <1>4, <2>1, <2>2
<1>5. StreamInOrder'
  BY <1>4 DEF StreamInOrder
<1> QED
  BY <1>3, <1>5

LEMMA TransmitKeeps ==
  ASSUME IInv, NEW m \in Msg, Transmit(m), TypeData'
  PROVE  IInv' /\ stream' = Append(stream, NextPart)
<1> USE DEF IInv
<1>1. /\ m # None
      /\ writing = {m}
      /\ \A t \in Thread : about[t] = None
  BY NotNone DEF Transmit, OneWriteAtATime
<1>2. sendQue # <<>> /\ Head(sendQue) = m /\ m = accepted - Len(sendQue) + 1
  BY <1>1, WriterHasFront DEF Transmit
<1>3. /\ sent[m] < FrameLen
      /\ sent[m] \in Nat
      /\ sent'[m] = sent[m] + 1
      /\ stream' = Append(stream, <<m, sent[m] + 1>>)
      /\ UNCHANGED <<sendQue, about, writing, accepted, bClose>>
  BY SendAssumption DEF Transmit, TypeData
<1>4. NextPart = <<m, sent[m] + 1>>
  BY <1>1, <1>3 DEF PeerExpects
<1>5. NextPart \in Msg \X (1 .. FrameLen)
  BY <1>3, <1>4, SendAssumption
<1>6. StreamInOrder' /\ NextPart' = Channel!After(NextPart)
  BY <1>3, <1>4, <1>5, StreamExtends DEF TypeData
<1>7. NextPart' = IF sent'[m] < FrameLen THEN <<m, sent'[m] + 1>> ELSE <<m + 1, 1>>
  BY <1>3, <1>4, <1>6, SendAssumption DEF Channel!After
<1>8. PeerExpects'
  <2>1. m \in Nat /\ sent'[m] \in Nat /\ Len(sendQue) \in Nat /\ accepted \in Nat
    BY <1>3, LenProperties DEF Msg, TypeData
  <2>2. NextPart' \in Nat \X (1 .. FrameLen) /\ NextPart'[1] >= m
    BY <1>7, <2>1, SendAssumption
  <2>3. NextPart'[1] > accepted' - Len(sendQue')
    BY <1>2, <1>3, <2>1, <2>2
  <2>4. \A t \in Thread : about'[t] = None
    BY <1>1, <1>3
  <2>5. writing' = {m} /\ sendQue' # <<>>
    BY <1>1, <1>2, <1>3
  <2> QED
    BY <1>7, <2>2, <2>3, <2>4, <2>5 DEF PeerExpects
<1>9. QueueNumbered'
  BY <1>3 DEF QueueNumbered
<1>10. OneWriteAtATime' /\ BufferStaysQueued' /\ QueueHasWriter'
  BY <1>3 DEF OneWriteAtATime, BufferStaysQueued, QueueHasWriter
<1>11. stream' = Append(stream, NextPart)
  BY <1>3, <1>4
<1> QED
  BY <1>6, <1>8, <1>9, <1>10, <1>11

LEMMA CallbackOkKeeps ==
  ASSUME IInv, NEW m \in Msg, WriteCallbackOk(m), TypeData'
  PROVE  IInv'
<1> USE DEF IInv
<1>1. /\ m # None
      /\ writing = {m}
      /\ \A t \in Thread : about[t] = None
  BY NotNone DEF WriteCallbackOk, OneWriteAtATime
<1>2. /\ sendQue # <<>>
      /\ Len(sendQue) \in Nat \ {0}
      /\ m = accepted - Len(sendQue) + 1
      /\ accepted \in Nat /\ m \in Nat
  BY <1>1, WriterHasFront DEF WriteCallbackOk, TypeData, Msg
<1>3. /\ sendQue' \in Seq(Msg)
      /\ Len(sendQue') = Len(sendQue) - 1
      /\ \A i \in 1 .. Len(sendQue') : sendQue'[i] = sendQue[i + 1]
  BY <1>2, HeadTailProperties DEF WriteCallbackOk, TypeData
<1>4. /\ writing' = {}
      /\ UNCHANGED <<sent, stream, accepted, bClose>>
      /\ about' = [about EXCEPT ![IO] = NextNode(sendQue)]
      /\ sendQue' = Tail(sendQue)
      /\ sent[m] = FrameLen
  BY <1>1 DEF WriteCallbackOk
<1>n. accepted' = m + Len(sendQue')
  <2>1. accepted' = accepted /\ Len(sendQue') = Len(sendQue) - 1
    BY <1>3, <1>4
  <2>2. accepted \in Nat /\ Len(sendQue) \in Nat /\ m = accepted - Len(sendQue) + 1
    BY <1>2
  <2> HIDE DEF IInv
  <2> QED
    BY <2>1, <2>2
<1>5. NextPart' = NextPart /\ NextPart = <<m + 1, 1>>
  BY <1>1, <1>4, SendAssumption
     DEF NextPart, Channel!Expected, Channel!After, PeerExpects
<1>6. QueueNumbered'
  <2>1. /\ Len(sendQue) <= accepted
        /\ Len(sendQue) <= MaxSendQue + 1
        /\ \A i \in 1 .. Len(sendQue) : sendQue[i] = accepted - Len(sendQue) + i
    BY DEF QueueNumbered
  <2>2. ASSUME NEW i \in 1 .. Len(sendQue')
        PROVE  sendQue'[i] = accepted' - Len(sendQue') + i
    <3>1. i + 1 \in 1 .. Len(sendQue)
      BY <1>2, <1>3, <2>2
    <3> QED
      BY <1>2, <1>3, <1>4, <2>1, <2>2, <3>1
  <2> QED
    BY <1>2, <1>3, <1>4, <2>1, <2>2, SendAssumption DEF QueueNumbered
<1>7. CASE sendQue' = <<>>
  <2>1. \A t \in Thread : about'[t] = None
    BY <1>1, <1>4, <1>7 DEF NextNode, TypeData
  <2>2. accepted' = m
    <3>1. Len(sendQue') = 0
      BY <1>7, EmptySeq
    <3> QED
      BY <1>2, <1>n, <3>1
  <2>3. OneWriteAtATime' /\ BufferStaysQueued' /\ QueueHasWriter'
    BY <1>4, <1>7, <2>1
       DEF OneWriteAtATime, BufferStaysQueued, QueueHasWriter
  <2>4. PeerExpects'
    BY <1>2, <1>3, <1>4, <1>5, <2>1, <2>2, SendAssumption DEF PeerExpects
  <2> QED
    BY <1>4, <1>6, <2>3, <2>4 DEF StreamInOrder
<1>8. CASE sendQue' # <<>>
  <2>1. Head(sendQue') = m + 1
    <3>1. Len(sendQue') \in Nat \ {0}
      BY <1>3, <1>8, EmptySeq
    <3>2. sendQue'[1] = accepted' - Len(sendQue') + 1
      BY <1>6, <3>1 DEF QueueNumbered
    <3>3. m \in Int /\ Len(sendQue') \in Int /\ accepted' \in Int
      BY <1>2, <1>4, <3>1
    <3>4. sendQue'[1] = m + 1
      BY <1>n, <3>2, <3>3
    <3> QED
      BY <1>8, <3>4
  <2>2. \A t \in Thread : about'[t] = IF t = IO THEN m + 1 ELSE None
    BY <1>1, <1>4, <1>8, <2>1 DEF NextNode, TypeData
  <2>3. m + 1 # None
    BY <1>2 DEF None
  <2>4. OneWriteAtATime'
    BY <1>4, <2>2 DEF OneWriteAtATime
  <2>5. BufferStaysQueued'
    BY <1>4, <1>8, <2>1, <2>2 DEF BufferStaysQueued
  <2>6. QueueHasWriter'
    BY <2>2, <2>3 DEF QueueHasWriter, Thread
  <2>7. PeerExpects'
    BY <1>2, <1>3, <1>4, <1>5, <1>8, <2>2, SendAssumption DEF PeerExpects
  <2> QED
    BY <1>4, <1>6, <2>4, <2>5, <2>6, <2>7 DEF StreamInOrder
<1> QED
  BY <1>7, <1>8

\* A failed write and a closing reader only take writers and the socket away.
LEMMA CloseKeeps ==
  ASSUME IInv, TypeData', bClose' = TRUE, writing' \subseteq writing,
         UNCHANGED <<sendQue, about, sent, stream, accepted>>
  PROVE  IInv'
<1> USE DEF IInv
<1>1. NextPart' = NextPart
  BY DEF NextPart, Channel!Expected, Channel!After
<1>2. OneWriteAtATime'
  BY DEF OneWriteAtATime
<1>3. BufferStaysQueued'
  BY DEF BufferStaysQueued
<1>4. QueueHasWriter'
  BY DEF QueueHasWriter
<1>5. PeerExpects'
  BY <1>1 DEF PeerExpects
<1> QED
  BY <1>2, <1>3, <1>4, <1>5 DEF QueueNumbered, StreamInOrder

LEMMA IInvStep ==
  ASSUME IInv, [Next]_vars
  PROVE  IInv'
<1>1. TypeData'
  BY TypeDataStep DEF IInv
<1>2. ASSUME NEW t \in Sender, SendRefused(t) PROVE IInv'
  BY <1>1, <1>2
     DEF SendRefused, IInv, QueueNumbered, OneWriteAtATime, BufferStaysQueued,
         QueueHasWriter, PeerExpects, NextPart, StreamInOrder, Channel!Expected,
         Channel!After
<1>3. ASSUME NEW t \in Sender, SendAccepted(t) PROVE IInv'
  BY <1>1, <1>3, AcceptKeeps
<1>4. ASSUME NEW t \in Thread, AsyncWrite(t) PROVE IInv'
  BY <1>1, <1>4, AsyncWriteKeeps
<1>5. ASSUME NEW m \in Msg, Transmit(m) PROVE IInv'
  BY <1>1, <1>5, TransmitKeeps
<1>6. ASSUME NEW m \in Msg, WriteCallbackOk(m) PROVE IInv'
  BY <1>1, <1>6, CallbackOkKeeps
<1>7. ASSUME NEW m \in Msg, WriteCallbackError(m) PROVE IInv'
  BY <1>1, <1>7, CloseKeeps DEF WriteCallbackError, CloseAndRemove
<1>8. CASE ReaderClose
  BY <1>1, <1>8, CloseKeeps DEF ReaderClose, CloseAndRemove
<1>9. CASE UNCHANGED vars
  BY <1>1, <1>9
     DEF vars, IInv, QueueNumbered, OneWriteAtATime, BufferStaysQueued,
         QueueHasWriter, PeerExpects, NextPart, StreamInOrder, Channel!Expected,
         Channel!After
<1> QED
  BY <1>2, <1>3, <1>4, <1>5, <1>6, <1>7, <1>8, <1>9 DEF Next

LEMMA IInvInit == Init => IInv
<1> SUFFICES ASSUME Init PROVE IInv
  OBVIOUS
<1>1. /\ sendQue = <<>> /\ stream = <<>> /\ writing = {} /\ accepted = 0
      /\ \A t \in Thread : about[t] = None
  BY DEF Init
<1>2. TypeData
  BY EmptySeq, SendAssumption DEF Init, TypeData
<1>3. NextPart = <<1, 1>>
  BY <1>1 DEF NextPart, Channel!Expected
<1>4. Len(sendQue) = 0 /\ Len(stream) = 0
  BY <1>1, EmptySeq
<1>5. QueueNumbered /\ StreamInOrder
  BY <1>1, <1>4, SendAssumption DEF QueueNumbered, StreamInOrder
<1>6. OneWriteAtATime /\ BufferStaysQueued /\ QueueHasWriter
  BY <1>1 DEF OneWriteAtATime, BufferStaysQueued, QueueHasWriter
<1>7. PeerExpects
  BY <1>1, <1>3, <1>4, SendAssumption DEF PeerExpects
<1> QED
  BY <1>2, <1>5, <1>6, <1>7 DEF IInv

LEMMA IInvAlways == Spec => []IInv
<1>1. IInv /\ [Next]_vars => IInv'
  BY IInvStep
<1> QED
  BY <1>1, IInvInit, PTL DEF Spec

LEMMA FlagsAlways == Spec => []TypeFlags
<1>1. Init => TypeFlags
  BY DEF Init, TypeFlags
<1>2. TypeFlags /\ [Next]_vars => TypeFlags'
  BY TypeFlagsStep
<1> QED
  BY <1>1, <1>2, PTL DEF Spec

\* Every variable keeps its type: in particular write_callback_ never pops an
\* empty queue.
THEOREM TypeCorrect == Spec => []TypeOK
<1>1. IInv /\ TypeFlags => TypeOK
  BY TypeParts DEF IInv
<1> QED
  BY <1>1, IInvAlways, FlagsAlways, PTL

\* At most one thread is about to write or has a write outstanding.
THEOREM AlwaysOneWrite == Spec => []OneWriteAtATime
<1>1. IInv => OneWriteAtATime
  BY DEF IInv
<1> QED
  BY <1>1, IInvAlways, PTL

\* The buffer being written is the one of the queue's front node.
THEOREM BufferAlwaysQueued == Spec => []BufferStaysQueued
<1>1. IInv => BufferStaysQueued
  BY DEF IInv
<1> QED
  BY <1>1, IInvAlways, PTL

\* A queued message always has a writer, until the session closes.
THEOREM QueueAlwaysHasWriter == Spec => []QueueHasWriter
<1>1. IInv => QueueHasWriter
  BY DEF IInv
<1> QED
  BY <1>1, IInvAlways, PTL

\* The peer receives whole frames in the order of acceptance.
THEOREM StreamAlwaysInOrder == Spec => []StreamInOrder
<1>1. IInv => StreamInOrder
  BY DEF IInv
<1> QED
  BY <1>1, IInvAlways, PTL

-----------------------------------------------------------------------------
(***************************************************************************)
(* Refinement: SendAccepted is Accept, Transmit is Emit, the steps that    *)
(* close the socket are Shut, and all others leave the channel unchanged.  *)
(***************************************************************************)
LEMMA InitRefines == Init => Channel!ChannelInit
BY Zenon DEF Init, Channel!ChannelInit

\* The queue has room exactly when the channel has: the messages of which the
\* peer lacks the last part are queued.
LEMMA AcceptRefines ==
  ASSUME IInv, NEW t \in Sender, SendAccepted(t)
  PROVE  Channel!Accept
<1>1. /\ NextPart[1] \in Nat
      /\ NextPart[1] > accepted - Len(sendQue)
      /\ accepted \in Nat /\ Len(sendQue) \in Nat
  BY LenProperties DEF IInv, PeerExpects, TypeData
<1>2. Len(sendQue) <= MaxSendQue
  BY <1>1, SendAssumption DEF SendAccepted, Full
<1>3. accepted - (NextPart[1] - 1) < MaxSendQue + 1
  BY <1>1, <1>2, SendAssumption
<1>4. Channel!Finished(stream) = NextPart[1] - 1
  BY DEF Channel!Finished, NextPart
<1>5. accepted' = accepted + 1 /\ UNCHANGED <<stream, socketOpen>>
  BY DEF SendAccepted
<1> QED
  BY <1>3, <1>4, <1>5 DEF Channel!Accept

LEMMA TransmitRefines ==
  ASSUME IInv, NEW m \in Msg, Transmit(m)
  PROVE  Channel!Emit
<1>1. /\ writing = {m} /\ m # None
      /\ sent[m] < FrameLen
  BY NotNone DEF IInv, Transmit, OneWriteAtATime
<1>2. NextPart = <<m, sent[m] + 1>>
  BY <1>1 DEF IInv, PeerExpects
<1>3. NextPart[1] <= accepted
  <2>1. m = accepted - Len(sendQue) + 1 /\ Len(sendQue) \in Nat \ {0}
    BY <1>1, WriterHasFront DEF IInv
  <2> QED
    BY <1>2, <2>1 DEF IInv, TypeData
<1>4. /\ socketOpen
      /\ stream' = Append(stream, NextPart)
      /\ UNCHANGED <<accepted, socketOpen>>
  BY <1>2 DEF Transmit
<1> QED
  BY <1>3, <1>4 DEF Channel!Emit, NextPart

LEMMA ShutRefines ==
  ASSUME socketOpen' = FALSE, UNCHANGED <<accepted, stream>>
  PROVE  Channel!Shut
BY Zenon DEF Channel!Shut

LEMMA StutterRefines ==
  ASSUME UNCHANGED <<accepted, stream, socketOpen>>
  PROVE  UNCHANGED Channel!cvars
BY DEF Channel!cvars

LEMMA NextRefines ==
  ASSUME IInv, [Next]_vars
  PROVE  [Channel!ChannelNext]_(Channel!cvars)
<1>1. ASSUME NEW t \in Sender, SendAccepted(t) PROVE Channel!ChannelNext
  BY <1>1, AcceptRefines DEF Channel!ChannelNext
<1>2. ASSUME NEW m \in Msg, Transmit(m) PROVE Channel!ChannelNext
  BY <1>2, TransmitRefines DEF Channel!ChannelNext
<1>3. ASSUME NEW m \in Msg, WriteCallbackError(m) PROVE Channel!ChannelNext
  BY <1>3, ShutRefines
     DEF WriteCallbackError, CloseAndRemove, Channel!ChannelNext
<1>4. CASE ReaderClose
  BY <1>4, ShutRefines DEF ReaderClose, CloseAndRemove, Channel!ChannelNext
<1>5. CASE \/ \E t \in Sender : SendRefused(t)
           \/ \E t \in Thread : AsyncWrite(t)
           \/ \E m \in Msg : WriteCallbackOk(m)
           \/ UNCHANGED vars
  BY <1>5, StutterRefines DEF SendRefused, AsyncWrite, WriteCallbackOk, vars
<1> QED
  BY <1>1, <1>2, <1>3, <1>4, <1>5 DEF Next

\* The send path implements the abstract channel.
THEOREM Refinement == Spec => ImplementsChannel
<1>1. IInv /\ [Next]_vars => [Channel!ChannelNext]_(Channel!cvars)
  BY NextRefines
<1> QED
  BY <1>1, InitRefines, IInvAlways, PTL
     DEF Spec, ImplementsChannel, Channel!ChannelSpec
=============================================================================
