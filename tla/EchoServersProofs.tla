------------------------- MODULE EchoServersProofs --------------------------
(***************************************************************************)
(* Every server of the repository implements Echo as far as safety goes,   *)
(* serves exactly the connections it holds, and the parser of S04 to S06   *)
(* finds the frames in the stream: for any clients, buffers, lengths and   *)
(* numbers of requests.                                                    *)
(*                                                                         *)
(* One inductive invariant, IInv, has a part for each kind of program.     *)
(* For the parser it says where in the stream each byte of its two nodes   *)
(* and of data_ belongs.  For the servers without a protocol it says which *)
(* bytes of the client are in data_, in the write that is outstanding and  *)
(* in the queue.  For those that frame their messages it says which of the *)
(* client's messages are on their way to the server, in the queue of       *)
(* LogicSystem, in the queue of replies and on their way back: one behind  *)
(* the other, and none in two places but the front of the queue of replies *)
(* between its write and the callback of it.  A step concerns one client   *)
(* (RawLocal, FramedLocal); there is a lemma for each.                     *)
(***************************************************************************)
EXTENDS EchoServers, SequenceTheorems, TLAPS

-----------------------------------------------------------------------------
(***************************************************************************)
(* The parser.                                                             *)
(***************************************************************************)
FrameLength(f) == HeadLength + lens[f]

\* The i-th byte of the stream; after the last one, the byte written next.
At(i) == IF i = Len(stream) + 1 THEN pos ELSE stream[i]

\* The stream is the frames, one after the other: from the k-th byte of a
\* frame it goes on with the next one up to the end of the frame, and then
\* with the first of the next frame.
StreamOfFrames ==
  /\ At(1) = <<1, 1>>
  /\ \A i \in 1 .. Len(stream) + 1 :
       At(i)[1] <= Frames => At(i)[2] <= FrameLength(At(i)[1])
  /\ \A i, j \in 1 .. Len(stream) + 1 :
       i <= j /\ At(i)[1] <= Frames =>
         LET k == At(i)[2] + (j - i) IN
         /\ k <= FrameLength(At(i)[1]) => At(j) = <<At(i)[1], k>>
         /\ k = FrameLength(At(i)[1]) + 1 => At(j) = <<At(i)[1] + 1, 1>>

\* data_ holds the last bytes read from the socket, of which copyLen have
\* been parsed and left have not.
Buffered ==
  /\ reading => data = <<>> /\ copyLen = 0 /\ left = 0
  /\ left > 0 => Len(data) = copyLen + left
  /\ Len(data) <= taken /\ Len(data) <= MaxLength
  /\ \A i \in 1 .. Len(data) : data[i] = stream[taken - Len(data) + i]

\* The bytes k + 1 .. k + Len(s) of frame f.
IsPart(s, f, k) == \A i \in 1 .. Len(s) : s[i] = <<f, k + i>>

\* As long as the parser goes on, the two nodes hold the part of the frame
\* after the last one delivered that precedes the next byte.
Nodes ==
  reading \/ left > 0 =>
    LET f == Len(delivered) + 1
        next == At(taken - left + 1)
    IN /\ next[1] = f
       /\ ~headParse =>
            /\ next[2] = Len(headNode) + 1
            /\ IsPart(headNode, f, 0)
       /\ headParse =>
            /\ f <= Frames
            /\ totalLen = lens[f]
            /\ Len(msgNode) < totalLen
            /\ next[2] = HeadLength + Len(msgNode) + 1
            /\ IsPart(msgNode, f, HeadLength)

DeliveredBodies ==
  \A i \in 1 .. Len(delivered) :
    i <= Frames /\ lens[i] <= MaxLength /\ delivered[i] = Body(i)

ParserInv ==
  /\ TypeOK
  /\ StreamOfFrames
  /\ Buffered
  /\ Nodes
  /\ DeliveredBodies
  /\ registered => reading \/ left > 0 \/ threw

-----------------------------------------------------------------------------
(***************************************************************************)
(* The servers.                                                            *)
(***************************************************************************)
Programs == RawPrograms \cup FramedPrograms \cup {"parser"}

\* The programs that hand the messages to the thread of LogicSystem.
LogicPrograms == {"S08", "S09", "S12"}

Posted == [client : Client, msg : Nat \ {0}, len : Nat]

Types ==
  /\ program \in Programs
  /\ up \in BOOLEAN /\ listening \in BOOLEAN
  /\ peer \in [Client -> {"new", "open", "left"}]
  /\ conn \in [Client -> {"none", "backlog", "served", "closed"}]
  /\ asked \in [Client -> Nat] /\ back \in [Client -> Seq(Nat)]
  /\ consumed \in [Client -> Nat] /\ ses \in [Client -> Session]
  /\ sent \in [Client -> Seq(Frame)] /\ down \in [Client -> Seq(Frame)]
  /\ fses \in [Client -> FrameSession]
  /\ inbox \in Seq(Posted)

\* The programs that do not run leave no trace.
OthersOff ==
  /\ program \notin RawPrograms => RawOff
  /\ program \notin FramedPrograms => FramedOff
  /\ program \notin LogicPrograms => inbox = <<>>
  /\ program = "S15" =>
       /\ sent = [c \in Client |-> <<>>] /\ down = [c \in Client |-> <<>>]
       /\ fses = [c \in Client |-> NoFrameSession]
  /\ program = "parser" =>
       /\ asked = [c \in Client |-> 0] /\ back = [c \in Client |-> <<>>]
       /\ conn = [c \in Client |-> "none"] /\ peer = [c \in Client |-> "new"]
       /\ up

\* A connection is served as long as a read or a write of its session is
\* outstanding or its handler about to run.  What the server holds, it reads
\* from; or, where reading and writing take turns, it reads or writes.
RawHeld(c) ==
  LET s == ses[c] IN
  /\ conn[c] # "served" => s.rd = "no" /\ s.wr = "no" /\ ~s.held
  /\ conn[c] = "served" => s.rd # "no" \/ s.wr # "no"
  /\ conn[c] \in {"none", "backlog"} => ~s.spoilt
  /\ program = "queued" =>
       /\ s.held => s.rd # "no"
       /\ s.wr # "no" => s.queue # <<>>
  /\ program # "queued" =>
       /\ s.rd = "no" \/ s.wr = "no"
       /\ conn[c] = "served" => s.held

\* send() has refused a reply, or the session waits for a body of -1 bytes.
Spent(s) == s.refused \/ s.want < 0

\* In addition the queue of replies is empty exactly when none is written.
FramedHeld(c) ==
  LET s == fses[c] IN
  /\ conn[c] # "served" => s.rd = "no" /\ s.wr = "no" /\ ~s.held
  /\ conn[c] = "served" => s.rd # "no" \/ s.wr # "no"
  /\ conn[c] \in {"none", "backlog"} => ~Spent(s)
  /\ s.want < 0 => s.rd = "body"
  /\ s.held => s.rd # "no"
  /\ (s.queue = <<>>) = (s.wr = "no")
  /\ s.rd = "body" => sent[c] # <<>>

\* The bytes n + 1 .. n + Len(s).
Follow(s, n) == \A i \in 1 .. Len(s) : s[i] = n + i

\* Of x bytes read from the client b have been sent back; the others are in
\* data_, where the write that is outstanding has come to s.at.
InTurns(s, b, x) ==
  /\ s.rd = "begun" \/ s.wr = "done" => b = x
  /\ s.rd = "done" => b = x - Len(s.data)
  /\ s.wr = "begun" =>
       /\ s.src = "data" /\ s.len = Len(s.data) /\ s.at <= s.len
       /\ b = x - (s.len - s.at)
       /\ Follow(s.data, x - s.len)

\* The same with a queue: first what is in data_, then the nodes of the queue,
\* each of which goes on where the one before it ends.
InQueue(s, b, x) ==
  LET q == s.queue
      y == IF s.rd = "done" THEN x - Len(s.data) ELSE x
  IN /\ q = <<>> => s.wr = "no" /\ b = y
     /\ q # <<>> =>
          /\ s.wr # "no" /\ s.len = Len(q[1]) /\ s.at <= s.len
          /\ s.wr = "begun" => s.src = "node"
          /\ s.wr = "done" => s.at = s.len
          /\ \A i \in 1 .. Len(q) :
               /\ Len(q[i]) > 0 /\ Follow(q[i], q[i][1] - 1)
               /\ q[i][1] + Len(q[i]) <= y + 1
          /\ \A i \in 1 .. Len(q) - 1 : q[i + 1][1] = q[i][1] + Len(q[i])
          /\ q[Len(q)][1] + Len(q[Len(q)]) = y + 1
          /\ q[1][1] + s.at = b + 1

\* As long as the exchange with c goes on, what it wrote comes back in order.
RawOrdered(c) ==
  c \notin over =>
    LET s == ses[c]
        b == Len(back[c])
        x == consumed[c]
    IN /\ x <= asked[c]
       /\ s.rd # "failed" /\ s.wr # "failed"
       /\ conn[c] # "served" => b = 0 /\ x = 0 /\ s.queue = <<>>
       /\ s.rd = "done" => Len(s.data) > 0 /\ Follow(s.data, x - Len(s.data))
       /\ conn[c] = "served" /\ program # "queued" => InTurns(s, b, x)
       /\ conn[c] = "served" /\ program = "queued" => InQueue(s, b, x)

FollowMsg(s, n) == \A i \in 1 .. Len(s) : s[i].msg = n + i

\* The messages of c that wait in q for the thread of LogicSystem are lo + 1
\* .. hi, one behind the other.
InLine(q, c, lo, hi) ==
  /\ \A i, j \in 1 .. Len(q) :
       q[i].client = c /\ q[j].client = c /\ i < j => q[i].msg < q[j].msg
  /\ {q[i].msg : i \in {j \in 1 .. Len(q) : q[j].client = c}} = lo + 1 .. hi

\* The messages to which a reply has been queued: the b that came back, those
\* on their way in d, and those in the queue, whose front may be both.
Replies(b, d, s) ==
  b + Len(d) + Len(s.queue) - (IF s.wr = "done" THEN 1 ELSE 0)

\* The a messages of c are on their way one behind the other: n of them have
\* been read by the server, and the others wait in f.
InStep(c, b, d, s, q, f, a) ==
  LET r == Replies(b, d, s) IN
  /\ FollowMsg(d, b)
  /\ FollowMsg(s.queue, r - Len(s.queue))
  /\ \E n \in r .. a :
       InLine(q, c, r, n) /\ FollowMsg(f, n) /\ n + Len(f) = a

\* As long as the exchange with c goes on.
FramedOrdered(c) ==
  c \notin over /\ program # "S15" =>
    /\ conn[c] # "served" => /\ Replies(Len(back[c]), down[c], fses[c]) = 0
                             /\ InLine(inbox, c, 0, 0)
    /\ InStep(c, Len(back[c]), down[c], fses[c], inbox, sent[c], asked[c])

RpcOrdered(c) ==
  program = "S15" => asked[c] <= 1 /\ Len(back[c]) <= asked[c]

\* Who is connected has begun.
Peers == \A c \in Client : peer[c] = "new" => conn[c] = "none"

IInv ==
  /\ ParserInv
  /\ Types
  /\ Peers
  /\ OthersOff
  /\ up /\ program \in RawPrograms =>
       \A c \in Client : RawHeld(c) /\ RawOrdered(c)
  /\ up /\ program \in FramedPrograms =>
       \A c \in Client : FramedHeld(c) /\ FramedOrdered(c) /\ RpcOrdered(c)
  /\ ~up => /\ ses = [c \in Client |-> NoSession]
            /\ down = [c \in Client |-> <<>>]
            /\ fses = [c \in Client |-> NoFrameSession]

LEMMA ParserOffInv ==
  ASSUME ParserOff
  PROVE  ParserInv
<1> USE DEF ParserOff
<1>1. TypeOK
  <2>1. (CHOOSE n \in Lengths : TRUE) \in Lengths
    BY PacketAssumption
  <2>2. <<>> \in Seq(Byte) /\ <<>> \in Seq(Seq(Byte)) /\ Len(<<>>) = 0
    BY EmptySeq
  <2>3. pos \in (1 .. Frames + 1) \X (Nat \ {0})
    BY PacketAssumption
  <2>4. lens \in [1 .. Frames -> Lengths]
    BY <2>1
  <2>5. {reading, headParse, registered, threw} \subseteq BOOLEAN
    BY Zenon
  <2>6. /\ taken \in 0 .. Len(stream) /\ copyLen \in 0 .. MaxLength
        /\ left \in 0 .. MaxLength /\ Len(headNode) < HeadLength
        /\ Len(msgNode) <= totalLen /\ totalLen \in 0 .. MaxLength
    BY <2>2, PacketAssumption
  <2> QED
    BY <2>2, <2>3, <2>4, <2>5, <2>6 DEF TypeOK
<1>2. StreamOfFrames
  <2>1. Len(stream) = 0
    BY EmptySeq
  <2>2. \A i \in 1 .. Len(stream) + 1 : i = 1 /\ At(i) = <<1, 1>>
    BY <2>1 DEF At
  <2>3. 1 <= Frames => FrameLength(1) \in Nat \ {0}
    <3>1. lens \in [1 .. Frames -> Lengths]
      BY <1>1 DEF TypeOK
    <3>2. 1 <= Frames => lens[1] \in Lengths
      BY <3>1, PacketAssumption
    <3>3. 1 <= Frames => lens[1] \in Nat
      BY <3>2, PacketAssumption
    <3> QED
      BY <3>3, PacketAssumption DEF FrameLength
  <2> QED
    BY <2>1, <2>2, <2>3, PacketAssumption DEF StreamOfFrames
<1>3. Buffered
  BY EmptySeq, PacketAssumption DEF Buffered
<1>4. Nodes /\ DeliveredBodies
  BY EmptySeq DEF Nodes, DeliveredBodies
<1> QED
  BY <1>1, <1>2, <1>3, <1>4 DEF ParserInv

LEMMA ParserStarts ==
  ASSUME Init
  PROVE  ParserInv
<1> USE DEF Init
<1>1. TypeOK
  <2>2. <<>> \in Seq(Byte) /\ <<>> \in Seq(Seq(Byte)) /\ Len(<<>>) = 0
    BY EmptySeq
  <2>3. pos \in (1 .. Frames + 1) \X (Nat \ {0})
    BY PacketAssumption
  <2>4. lens \in [1 .. Frames -> Lengths]
    OBVIOUS
  <2>5. {reading, headParse, registered, threw} \subseteq BOOLEAN
    BY Zenon
  <2>6. /\ taken \in 0 .. Len(stream) /\ copyLen \in 0 .. MaxLength
        /\ left \in 0 .. MaxLength /\ Len(headNode) < HeadLength
        /\ Len(msgNode) <= totalLen /\ totalLen \in 0 .. MaxLength
    BY <2>2, PacketAssumption
  <2> QED
    BY <2>2, <2>3, <2>4, <2>5, <2>6 DEF TypeOK
<1>2. StreamOfFrames
  <2>1. Len(stream) = 0
    BY EmptySeq
  <2>2. \A i \in 1 .. Len(stream) + 1 : i = 1 /\ At(i) = <<1, 1>>
    BY <2>1 DEF At
  <2>3. 1 <= Frames => FrameLength(1) \in Nat \ {0}
    <3>1. lens \in [1 .. Frames -> Lengths]
      BY <1>1 DEF TypeOK
    <3>2. 1 <= Frames => lens[1] \in Lengths
      BY <3>1, PacketAssumption
    <3>3. 1 <= Frames => lens[1] \in Nat
      BY <3>2, PacketAssumption
    <3> QED
      BY <3>3, PacketAssumption DEF FrameLength
  <2> QED
    BY <2>1, <2>2, <2>3, PacketAssumption DEF StreamOfFrames
<1>3. Buffered
  BY EmptySeq, PacketAssumption DEF Buffered
<1>4. Nodes /\ DeliveredBodies
  BY EmptySeq DEF Nodes, DeliveredBodies, At, IsPart
<1> QED
  BY <1>1, <1>2, <1>3, <1>4 DEF ParserInv

\* What the invariant says of the types of the parts of the stream.
LEMMA StreamTypes ==
  ASSUME TypeOK
  PROVE  /\ Len(stream) \in Nat /\ Len(data) \in Nat /\ Len(delivered) \in Nat
         /\ Len(headNode) \in Nat /\ Len(msgNode) \in Nat
         /\ \A i \in 1 .. Len(stream) : At(i) = stream[i] /\ At(i) \in Byte
         /\ At(Len(stream) + 1) = pos
         /\ \A i \in 1 .. Len(stream) + 1 :
              At(i) \in (1 .. Frames + 1) \X (Nat \ {0})
         /\ \A f \in 1 .. Frames : lens[f] \in Nat /\ FrameLength(f) \in Nat
<1>1. /\ Len(stream) \in Nat /\ Len(data) \in Nat /\ Len(delivered) \in Nat
      /\ Len(headNode) \in Nat /\ Len(msgNode) \in Nat
  BY LenProperties DEF TypeOK
<1>2. \A i \in 1 .. Len(stream) : At(i) = stream[i] /\ At(i) \in Byte
  BY <1>1, ElementOfSeq DEF TypeOK, At
<1>3. At(Len(stream) + 1) = pos
  BY DEF At
<1>4. \A i \in 1 .. Len(stream) + 1 :
        At(i) \in (1 .. Frames + 1) \X (Nat \ {0})
  <2> SUFFICES ASSUME NEW i \in 1 .. Len(stream) + 1
               PROVE  At(i) \in (1 .. Frames + 1) \X (Nat \ {0})
    OBVIOUS
  <2>1. CASE i = Len(stream) + 1
    BY <1>3, <2>1 DEF TypeOK
  <2>2. CASE i \in 1 .. Len(stream)
    BY <1>2, <2>2, PacketAssumption DEF Byte
  <2> QED
    BY <1>1, <2>1, <2>2
<1>5. \A f \in 1 .. Frames : lens[f] \in Nat /\ FrameLength(f) \in Nat
  <2>1. lens \in [1 .. Frames -> Lengths]
    BY DEF TypeOK
  <2>2. \A f \in 1 .. Frames : lens[f] \in Lengths
    BY <2>1
  <2>3. \A f \in 1 .. Frames : lens[f] \in Nat
    BY <2>2, PacketAssumption
  <2> QED
    BY <2>3, PacketAssumption DEF FrameLength
<1> QED
  BY <1>1, <1>2, <1>3, <1>4, <1>5

\* While the parser has bytes left, the next one belongs to the frame after
\* the last one delivered, and what can be said of its place there.
LEMMA NextByte ==
  ASSUME ParserInv, left > 0
  PROVE  LET f == Len(delivered) + 1
             k == At(taken - left + 1)[2]
         IN /\ ~reading
            /\ f \in 1 .. Frames
            /\ k \in 1 .. FrameLength(f)
            /\ At(taken - left + 1) = <<f, k>>
            /\ lens[f] \in Nat /\ FrameLength(f) \in Nat
            /\ taken - left + 1 \in 1 .. Len(stream)
<1> DEFINE f == Len(delivered) + 1
           q == taken - left + 1
<1>1. TypeOK /\ Buffered /\ Nodes /\ StreamOfFrames
  BY DEF ParserInv
<1>2. ~reading
  BY <1>1 DEF Buffered, TypeOK
<1>3. q \in 1 .. Len(stream)
  BY <1>1, StreamTypes DEF Buffered, TypeOK
<1>4. At(q) \in Byte /\ At(q)[1] = f
  BY <1>1, <1>3, StreamTypes DEF Nodes
<1>5. f \in 1 .. Frames /\ At(q) = <<f, At(q)[2]>> /\ At(q)[2] \in Nat \ {0}
  BY <1>4 DEF Byte
<1>6. At(q)[2] <= FrameLength(f)
  <2> HIDE DEF q, f
  <2>1. q \in 1 .. Len(stream) + 1
    BY <1>1, <1>3, StreamTypes
  <2> QED
    BY <1>1, <1>4, <1>5, <2>1, PacketAssumption DEF StreamOfFrames
<1> QED
  BY <1>1, <1>2, <1>3, <1>5, <1>6, StreamTypes

\* A piece of data_ is the part of the stream that was not parsed before it.
LEMMA PieceIsPart ==
  ASSUME ParserInv, left > 0,
         NEW a \in Nat, NEW n \in Nat, a + n <= left,
         At(taken - left + 1)[2] + a + n - 1
           <= FrameLength(Len(delivered) + 1)
  PROVE  LET f == Len(delivered) + 1
             k == At(taken - left + 1)[2]
             piece == SubSeq(data, copyLen + a + 1, copyLen + a + n)
         IN /\ piece \in Seq(Byte)
            /\ Len(piece) = n
            /\ IsPart(piece, f, k + a - 1)
            /\ k + a + n - 1 < FrameLength(f) =>
                 At(taken - left + a + n + 1) = <<f, k + a + n>>
            /\ k + a + n - 1 = FrameLength(f) =>
                 At(taken - left + a + n + 1) = <<f + 1, 1>>
<1> DEFINE f == Len(delivered) + 1
           q == taken - left + 1
           k == At(q)[2]
           piece == SubSeq(data, copyLen + a + 1, copyLen + a + n)
<1>1. TypeOK /\ Buffered /\ StreamOfFrames
  BY DEF ParserInv
<1>2. /\ f \in 1 .. Frames /\ k \in 1 .. FrameLength(f) /\ At(q) = <<f, k>>
      /\ FrameLength(f) \in Nat /\ q \in 1 .. Len(stream)
  BY NextByte
<1>3. /\ Len(data) = copyLen + left /\ copyLen \in Nat /\ left \in Nat
      /\ taken \in 0 .. Len(stream) /\ Len(stream) \in Nat
      /\ Len(data) <= taken
  BY <1>1, StreamTypes DEF Buffered, TypeOK
<1>4. \A i \in 1 .. left : data[copyLen + i] = stream[taken - left + i]
  <2> SUFFICES ASSUME NEW i \in 1 .. left
               PROVE  data[copyLen + i] = stream[taken - left + i]
    OBVIOUS
  <2>1. data[copyLen + i] = stream[taken - Len(data) + (copyLen + i)]
    BY <1>1, <1>3 DEF Buffered
  <2>2. taken - Len(data) + (copyLen + i) = taken - left + i
    BY <1>3
  <2> QED
    BY <2>1, <2>2
<1>5. \A i \in copyLen + a + 1 .. copyLen + a + n : data[i] \in Byte
  <2>1. \A i \in copyLen + a + 1 .. copyLen + a + n : i \in 1 .. Len(data)
    BY <1>3
  <2> QED
    BY <1>1, <2>1, ElementOfSeq DEF TypeOK
<1>6. /\ piece \in Seq(Byte) /\ Len(piece) = n
      /\ \A j \in 1 .. n : piece[j] = data[copyLen + a + j]
  <2> DEFINE x == copyLen + a + 1
             y == copyLen + a + n
  <2>1. /\ x \in Int /\ y \in Int /\ y - x + 1 = n
        /\ x <= y \/ n = 0
        /\ \A j \in 1 .. n : x + j - 1 = copyLen + a + j
    BY <1>3
  <2>2. piece = SubSeq(data, x, y)
    OBVIOUS
  <2>3. \A j \in x .. y : data[j] \in Byte
    BY <1>5
  <2> HIDE DEF x, y, piece
  <2>4. /\ piece \in Seq(Byte)
        /\ Len(piece) = IF x <= y THEN y - x + 1 ELSE 0
        /\ \A j \in 1 .. y - x + 1 : piece[j] = data[x + j - 1]
    BY <2>1, <2>2, <2>3, SubSeqProperties
  <2>5. Len(piece) = n
    BY <2>1, <2>4
  <2> QED
    BY <2>1, <2>4, <2>5
<1>7. \A m \in 0 .. left :
        /\ k + m <= FrameLength(f) => At(q + m) = <<f, k + m>>
        /\ k + m = FrameLength(f) + 1 => At(q + m) = <<f + 1, 1>>
  <2> SUFFICES ASSUME NEW m \in 0 .. left
               PROVE  /\ k + m <= FrameLength(f) => At(q + m) = <<f, k + m>>
                      /\ k + m = FrameLength(f) + 1 => At(q + m) = <<f + 1, 1>>
    OBVIOUS
  <2>1. q \in 1 .. Len(stream) + 1 /\ q + m \in 1 .. Len(stream) + 1
    BY <1>2, <1>3
  <2>2. At(q)[1] = f /\ At(q)[2] = k /\ f <= Frames /\ q <= q + m
    BY <1>2, <2>1
  <2>3. k + (q + m - q) = k + m
    BY <1>2, <1>3
  <2>4. /\ k + (q + m - q) <= FrameLength(f) =>
             At(q + m) = <<f, k + (q + m - q)>>
        /\ k + (q + m - q) = FrameLength(f) + 1 => At(q + m) = <<f + 1, 1>>
    <3> HIDE DEF q, f, k
    <3>1. \A i, j \in 1 .. Len(stream) + 1 :
            i <= j /\ At(i)[1] <= Frames =>
            /\ At(i)[2] + (j - i) <= FrameLength(At(i)[1]) =>
                 At(j) = <<At(i)[1], At(i)[2] + (j - i)>>
            /\ At(i)[2] + (j - i) = FrameLength(At(i)[1]) + 1 =>
                 At(j) = <<At(i)[1] + 1, 1>>
      BY <1>1 DEF StreamOfFrames
    <3> QED
      BY <2>1, <2>2, <3>1
  <2> QED
    BY <2>3, <2>4
<1>8. \A j \in 1 .. n : piece[j] = <<f, k + a - 1 + j>>
  <2> SUFFICES ASSUME NEW j \in 1 .. n
               PROVE  piece[j] = <<f, k + a - 1 + j>>
    OBVIOUS
  <2>1. piece[j] = stream[taken - left + (a + j)]
    BY <1>3, <1>4, <1>6
  <2>2. q + (a + j - 1) = taken - left + (a + j)
    BY <1>3
  <2>3. q + (a + j - 1) \in 1 .. Len(stream)
    BY <1>2, <1>3
  <2>4. piece[j] = At(q + (a + j - 1))
    BY <1>1, <2>1, <2>2, <2>3, StreamTypes
  <2>5. a + j - 1 \in 0 .. left /\ k + (a + j - 1) <= FrameLength(f)
    BY <1>2, <1>3
  <2>6. At(q + (a + j - 1)) = <<f, k + (a + j - 1)>>
    BY <1>7, <2>5
  <2>7. k + (a + j - 1) = k + a - 1 + j
    <3>1. k \in Nat
      BY <1>2
    <3> HIDE DEF k
    <3> QED
      BY <3>1
  <2> QED
    BY <2>4, <2>6, <2>7
<1>9. /\ k + a + n - 1 < FrameLength(f) => At(q + (a + n)) = <<f, k + (a + n)>>
      /\ k + a + n - 1 = FrameLength(f) => At(q + (a + n)) = <<f + 1, 1>>
  <2>1. a + n \in 0 .. left
    OBVIOUS
  <2>2. k \in Nat /\ FrameLength(f) \in Nat
    BY <1>2
  <2> HIDE DEF k, f, q
  <2>3. /\ k + a + n - 1 < FrameLength(f) => k + (a + n) <= FrameLength(f)
        /\ k + a + n - 1 = FrameLength(f) => k + (a + n) = FrameLength(f) + 1
    BY <2>2
  <2> QED
    BY <1>7, <2>1, <2>3
<1>10. q + (a + n) = taken - left + a + n + 1 /\ k + (a + n) = k + a + n
  BY <1>2, <1>3
<1> QED
  BY <1>6, <1>8, <1>9, <1>10 DEF IsPart

\* The stream grows by the next byte of the frames.
LEMMA StreamGrows ==
  ASSUME ParserInv, PeerWrites
  PROVE  StreamOfFrames' /\ TypeOK'
<1> DEFINE L == Len(stream)
<1>1. TypeOK /\ StreamOfFrames
  BY DEF ParserInv
<1>2. /\ L \in Nat /\ Frames \in Nat
      /\ pos \in (1 .. Frames) \X (Nat \ {0})
      /\ lens' = lens /\ stream' = Append(stream, pos) /\ pos' = ByteAfter(pos)
  BY <1>1, StreamTypes, PacketAssumption DEF TypeOK, PeerWrites
<1>3. PICK f \in 1 .. Frames, k \in Nat \ {0} : pos = <<f, k>>
  BY <1>2
<1>4. /\ stream' \in Seq(Byte) /\ Len(stream') = L + 1
      /\ \A i \in 1 .. L : stream'[i] = stream[i]
      /\ stream'[L + 1] = pos
  BY <1>1, <1>2, AppendProperties DEF TypeOK, Byte
<1>5. /\ \A i \in 1 .. L + 1 : At(i)' = At(i)
      /\ \A i : i = L + 1 => At(i) = pos
      /\ \A i : i = L + 2 => At(i)' = ByteAfter(pos)
  <2>1. \A i \in 1 .. L : At(i)' = At(i)
    BY <1>2, <1>4 DEF At
  <2>2. \A i : i = L + 1 => At(i)' = stream'[i] /\ At(i) = pos
    BY <1>2, <1>4 DEF At
  <2>3. \A i : i = L + 2 => At(i)' = ByteAfter(pos)
    BY <1>2, <1>4 DEF At
  <2>4. \A i \in 1 .. L + 1 : i = L + 1 \/ i \in 1 .. L
    BY <1>2
  <2>5. \A i : i = L + 1 => At(i)' = At(i)
    BY <1>4, <2>2
  <2> QED
    BY <2>1, <2>2, <2>3, <2>4, <2>5
<1>6. k <= FrameLength(f) /\ FrameLength(f) \in Nat
      /\ \A g \in 1 .. Frames :
           lens[g] \in Nat /\ FrameLength(g) \in Nat \ {0}
           /\ FrameLength(g)' = FrameLength(g)
  <2>1. \A g \in 1 .. Frames : lens[g] \in Nat /\ FrameLength(g) \in Nat
    BY <1>1, StreamTypes
  <2>2. \A g \in 1 .. Frames :
          FrameLength(g) \in Nat \ {0} /\ FrameLength(g)' = FrameLength(g)
    BY <1>2, <2>1, PacketAssumption DEF FrameLength
  <2>3. L + 1 \in 1 .. Len(stream) + 1
    BY <1>2
  <2>4. k <= FrameLength(f)
    BY <1>1, <1>3, <1>5, <2>3 DEF StreamOfFrames
  <2> QED
    BY <2>1, <2>2, <2>4
<1>7. /\ k < FrameLength(f) => ByteAfter(pos) = <<f, k + 1>>
      /\ k = FrameLength(f) => ByteAfter(pos) = <<f + 1, 1>>
  BY <1>3, <1>6 DEF ByteAfter, FrameLength
<1>8. pos' \in (1 .. Frames + 1) \X (Nat \ {0})
  BY <1>2, <1>3, <1>6, <1>7
<1>9. TypeOK'
  BY <1>1, <1>2, <1>4, <1>8 DEF TypeOK, PeerWrites, node, fate
<1>10. \A i \in 1 .. L + 2 :
         At(i)'[1] <= Frames => At(i)'[2] <= FrameLength(At(i)'[1])
  <2> SUFFICES ASSUME NEW i \in 1 .. L + 2, At(i)'[1] <= Frames
               PROVE  At(i)'[2] <= FrameLength(At(i)'[1])
    OBVIOUS
  <2>1. CASE i \in 1 .. L + 1
    BY <1>1, <1>5, <2>1 DEF StreamOfFrames
  <2>2. CASE i = L + 2
    <3>1. PICK b : b = At(i)' /\ b = ByteAfter(pos)
      BY <1>5, <2>2
    <3>2. CASE k < FrameLength(f)
      <4>1. b = <<f, k + 1>>
        BY <1>7, <3>1, <3>2
      <4>2. k + 1 <= FrameLength(f)
        BY <1>3, <1>6, <3>2
      <4> QED
        BY <3>1, <4>1, <4>2
    <3>3. CASE k = FrameLength(f)
      <4>1. b = <<f + 1, 1>>
        BY <1>7, <3>1, <3>3
      <4>2. f + 1 \in 1 .. Frames
        BY <1>2, <1>3, <3>1, <4>1
      <4>3. 1 <= FrameLength(f + 1)
        BY <1>6, <4>2
      <4> QED
        BY <3>1, <4>1, <4>3
    <3> QED
      BY <1>3, <1>6, <3>2, <3>3
  <2> QED
    BY <1>2, <2>1, <2>2
<1>11. ASSUME NEW i \in 1 .. L + 2, NEW j \in 1 .. L + 2,
              i <= j, At(i)'[1] <= Frames
       PROVE  /\ At(i)'[2] + (j - i) <= FrameLength(At(i)'[1]) =>
                   At(j)' = <<At(i)'[1], At(i)'[2] + (j - i)>>
              /\ At(i)'[2] + (j - i) = FrameLength(At(i)'[1]) + 1 =>
                   At(j)' = <<At(i)'[1] + 1, 1>>
  <2>1. CASE j \in 1 .. L + 1
    <3>1. i \in 1 .. L + 1
      BY <1>2, <1>11, <2>1
    <3> QED
      BY <1>1, <1>5, <1>11, <2>1, <3>1 DEF StreamOfFrames
  <2>2. CASE j = L + 2 /\ i = L + 2
    <3>1. At(i)' \in (1 .. Frames + 1) \X (Nat \ {0})
      <4>1. At(i)' = pos'
        BY <1>2, <1>5, <2>2
      <4> QED
        BY <1>8, <4>1
    <3>2. At(i)'[2] + (j - i) = At(i)'[2] /\ At(i)' = <<At(i)'[1], At(i)'[2]>>
      BY <2>2, <3>1
    <3>3. At(i)'[2] <= FrameLength(At(i)'[1])
      BY <1>10, <1>11
    <3>4. At(i)'[1] \in 1 .. Frames
      BY <1>11, <3>1
    <3> QED
      BY <1>6, <2>2, <3>1, <3>2, <3>3, <3>4
  <2>3. CASE j = L + 2 /\ i \in 1 .. L + 1
    <3>0. PICK g, h : g = At(i)[1] /\ h = At(i)[2]
      OBVIOUS
    <3>1. At(i)' = At(i) /\ g \in 1 .. Frames /\ h \in Nat \ {0}
      <4>1. At(i)' = At(i)
        BY <1>5, <2>3
      <4>2. At(i) \in (1 .. Frames + 1) \X (Nat \ {0})
        BY <1>1, <2>3, StreamTypes
      <4> QED
        BY <1>2, <1>11, <3>0, <4>1, <4>2
    <3>2. /\ h + (L + 1 - i) <= FrameLength(g) =>
               pos = <<g, h + (L + 1 - i)>>
          /\ h + (L + 1 - i) = FrameLength(g) + 1 => pos = <<g + 1, 1>>
      <4>1. L + 1 \in 1 .. Len(stream) + 1 /\ i <= L + 1
        BY <1>2, <2>3
      <4>2. PICK n : n = L + 1 /\ At(n) = pos /\ n \in 1 .. Len(stream) + 1
        BY <1>5, <4>1
      <4>3. /\ h + (n - i) <= FrameLength(g) => At(n) = <<g, h + (n - i)>>
            /\ h + (n - i) = FrameLength(g) + 1 => At(n) = <<g + 1, 1>>
        BY <1>1, <1>11, <2>3, <3>0, <3>1, <4>1, <4>2 DEF StreamOfFrames
      <4> QED
        BY <4>2, <4>3
    <3>3. CASE h + (j - i) <= FrameLength(g)
      <4>1. h + (L + 1 - i) <= FrameLength(g) /\ h + (L + 1 - i) < FrameLength(g)
        BY <1>2, <1>6, <2>3, <3>1, <3>3
      <4>2. f = g /\ k = h + (L + 1 - i)
        BY <1>3, <3>2, <4>1
      <4>3. At(j)' = <<g, k + 1>>
        <5>1. At(j)' = ByteAfter(pos)
          BY <1>5, <2>3
        <5>2. ByteAfter(pos) = <<f, k + 1>>
          BY <1>7, <4>1, <4>2
        <5> QED
          BY <4>2, <5>1, <5>2
      <4>4. k + 1 = h + (j - i) /\ h + (j - i) # FrameLength(g) + 1
        BY <1>2, <1>6, <2>3, <3>1, <3>3, <4>2
      <4> QED
        BY <3>0, <3>1, <4>3, <4>4
    <3>4. CASE h + (j - i) = FrameLength(g) + 1
      <4>1. h + (L + 1 - i) <= FrameLength(g) /\ h + (L + 1 - i) = FrameLength(g)
        <5>1. h + (L + 2 - i) = FrameLength(g) + 1 /\ FrameLength(g) \in Nat
          BY <1>6, <2>3, <3>1, <3>4
        <5>2. h \in Nat /\ i \in Nat
          BY <3>1
        <5> QED
          BY <1>2, <5>1, <5>2
      <4>2. f = g /\ k = h + (L + 1 - i)
        BY <1>3, <3>2, <4>1
      <4>3. At(j)' = <<g + 1, 1>>
        <5>1. At(j)' = ByteAfter(pos)
          BY <1>5, <2>3
        <5>2. ByteAfter(pos) = <<f + 1, 1>>
          BY <1>7, <4>1, <4>2
        <5> QED
          BY <4>2, <5>1, <5>2
      <4>4. ~(h + (j - i) <= FrameLength(g))
        BY <1>2, <1>6, <2>3, <3>1, <3>4
      <4> QED
        BY <3>0, <3>1, <4>3, <4>4
    <3> QED
      BY <3>0, <3>1, <3>3, <3>4
  <2> QED
    BY <1>2, <2>1, <2>2, <2>3
<1>12. At(1)' = <<1, 1>>
  BY <1>1, <1>2, <1>5 DEF StreamOfFrames
<1> HIDE DEF L
<1>13. Len(stream)' + 1 = L + 2
  BY <1>2, <1>4
<1> QED
  BY <1>2, <1>9, <1>10, <1>11, <1>12, <1>13 DEF StreamOfFrames, FrameLength

LEMMA ParserPeerWrites ==
  ASSUME ParserInv, PeerWrites
  PROVE  ParserInv'
<1>1. TypeOK /\ Buffered /\ Nodes /\ DeliveredBodies
  BY DEF ParserInv
<1>2. Len(stream) \in Nat /\ taken \in 0 .. Len(stream)
  BY <1>1, StreamTypes DEF TypeOK
<1>3. /\ lens' = lens /\ stream' = Append(stream, pos)
      /\ taken' = taken /\ reading' = reading /\ data' = data
      /\ copyLen' = copyLen /\ left' = left /\ headParse' = headParse
      /\ headNode' = headNode /\ msgNode' = msgNode /\ totalLen' = totalLen
      /\ delivered' = delivered /\ registered' = registered /\ threw' = threw
  BY DEF PeerWrites, node, fate
<1>4. /\ Len(stream') = Len(stream) + 1
      /\ \A i \in 1 .. Len(stream) : stream'[i] = stream[i]
      /\ stream'[Len(stream) + 1] = pos
  BY <1>1, <1>3, AppendProperties, pos \in Byte DEF TypeOK, Byte, PeerWrites
<1>5. \A i \in 1 .. Len(stream) + 1 : At(i)' = At(i)
  BY <1>2, <1>3, <1>4 DEF At
<1>6. Buffered'
  <2>1. /\ reading => data = <<>> /\ copyLen = 0 /\ left = 0
        /\ left > 0 => Len(data) = copyLen + left
        /\ Len(data) <= taken /\ Len(data) <= MaxLength
    BY <1>1 DEF Buffered
  <2>2. ASSUME NEW i \in 1 .. Len(data)
        PROVE  data[i] = stream'[taken - Len(data) + i]
    <3>1. taken - Len(data) + i \in 1 .. Len(stream)
      BY <1>1, <1>2, <2>1, StreamTypes
    <3> QED
      BY <1>1, <1>4, <3>1 DEF Buffered
  <2> QED
    BY <1>3, <2>1, <2>2 DEF Buffered
<1>7. Nodes'
  <2> SUFFICES ASSUME reading \/ left > 0
               PROVE  At(taken - left + 1)' = At(taken - left + 1)
    BY <1>1, <1>3 DEF Nodes, IsPart
  <2>1. taken - left + 1 \in 1 .. Len(stream) + 1
    BY <1>1, <1>2, StreamTypes DEF Buffered, TypeOK
  <2>2. (taken - left + 1)' = taken - left + 1
    BY <1>3
  <2> QED
    BY <1>3, <1>5, <2>1 DEF At
<1>8. DeliveredBodies' /\ (registered => reading \/ left > 0 \/ threw)'
  BY <1>1, <1>3 DEF DeliveredBodies, Body, ParserInv
<1> QED
  BY <1>6, <1>7, <1>8, StreamGrows DEF ParserInv

\* Nothing is written: the stream is what it was.
LEMMA StreamStays ==
  ASSUME ParserInv, UNCHANGED wire
  PROVE  /\ StreamOfFrames' /\ \A i : At(i)' = At(i)
         /\ \A f : FrameLength(f)' = FrameLength(f) /\ Body(f)' = Body(f)
<1>1. lens' = lens /\ pos' = pos /\ stream' = stream
  BY DEF wire
<1>2. \A i : At(i)' = At(i)
  BY <1>1 DEF At
<1>3. \A f : FrameLength(f)' = FrameLength(f) /\ Body(f)' = Body(f)
  BY <1>1 DEF FrameLength, Body
<1> QED
  BY <1>1, <1>2, <1>3 DEF StreamOfFrames, ParserInv

LEMMA ParserReadSome ==
  ASSUME ParserInv, NEW n \in 1 .. MaxLength, ReadSome(n)
  PROVE  ParserInv'
<1>1. TypeOK /\ Buffered /\ Nodes /\ DeliveredBodies
  BY DEF ParserInv
<1>2. /\ Len(stream) \in Nat /\ taken \in 0 .. Len(stream)
      /\ MaxLength \in Nat /\ left = 0
  BY <1>1, StreamTypes, PacketAssumption DEF TypeOK, Buffered, ReadSome
<1>3. /\ UNCHANGED <<lens, pos, stream, node, delivered, fate>>
      /\ reading /\ reading' = FALSE /\ copyLen' = 0 /\ left' = n
      /\ taken' = taken + n /\ taken + n <= Len(stream)
  BY <1>1, <1>2 DEF ReadSome, Waiting, TypeOK
<1>4. /\ data' \in Seq(Byte) /\ Len(data') = n
      /\ \A i \in 1 .. n : data'[i] = stream[taken + i]
  <2> DEFINE x == taken + 1
             y == taken + n
  <2>1. /\ x \in Int /\ y \in Int /\ y - x + 1 = n /\ x <= y
        /\ \A i \in 1 .. n : x + i - 1 = taken + i
    BY <1>2
  <2>2. data' = SubSeq(stream, x, y)
    BY DEF ReadSome
  <2>3. \A i \in x .. y : stream[i] \in Byte
    BY <1>1, <1>2, <1>3, ElementOfSeq DEF TypeOK
  <2> HIDE DEF x, y
  <2>4. /\ data' \in Seq(Byte)
        /\ Len(data') = IF x <= y THEN y - x + 1 ELSE 0
        /\ \A i \in 1 .. y - x + 1 : data'[i] = stream[x + i - 1]
    BY <2>1, <2>2, <2>3, SubSeqProperties
  <2> QED
    BY <2>1, <2>4
<1>5. TypeOK'
  <2>1. {reading', headParse', registered', threw'} \subseteq BOOLEAN
    BY <1>1, <1>3 DEF TypeOK, node, fate
  <2>2. taken' \in 0 .. Len(stream) /\ copyLen' \in 0 .. MaxLength
        /\ left' \in 0 .. MaxLength
    BY <1>2, <1>3
  <2> QED
    BY <1>1, <1>3, <1>4, <2>1, <2>2 DEF TypeOK, node, fate
<1>6. StreamOfFrames' /\ (\A i : At(i)' = At(i)) /\ DeliveredBodies'
  <2>1. lens' = lens /\ pos' = pos /\ stream' = stream /\ delivered' = delivered
    BY <1>3
  <2>2. \A i : At(i)' = At(i)
    BY <2>1 DEF At
  <2>3. DeliveredBodies'
    BY <1>1, <2>1 DEF DeliveredBodies, Body
  <2>4. StreamOfFrames
    BY DEF ParserInv
  <2> QED
    BY <2>1, <2>2, <2>3, <2>4 DEF StreamOfFrames, FrameLength
<1>7. Buffered'
  <2>1. \A i \in 1 .. n : taken + n - n + i = taken + i
    BY <1>2
  <2> QED
    BY <1>2, <1>3, <1>4, <2>1 DEF Buffered
<1>8. Nodes'
  <2>1. taken' - left' + 1 = taken - left + 1
    BY <1>2, <1>3
  <2>2. At(taken - left + 1)' = At(taken - left + 1)
    BY <1>3, <2>1 DEF At
  <2> QED
    BY <1>1, <1>3, <2>2 DEF Nodes, IsPart, node
<1> QED
  BY <1>3, <1>5, <1>6, <1>7, <1>8 DEF ParserInv

\* The handler ends, with or without an exception, and starts no other read.
LEMMA ParserStops ==
  ASSUME ParserInv, TypeOK', UNCHANGED <<wire, delivered, data>>,
         ~reading', left' = 0, registered' => threw'
  PROVE  ParserInv'
<1>1. Buffered /\ DeliveredBodies
  BY DEF ParserInv
<1>2. Buffered' /\ DeliveredBodies' /\ Nodes'
  BY <1>1, StreamTypes
     DEF Buffered, DeliveredBodies, Nodes, Body, wire, TypeOK
<1> QED
  BY <1>2, StreamStays DEF ParserInv

LEMMA ParserReadError ==
  ASSUME ParserInv, ReadError
  PROVE  ParserInv'
<1>1. TypeOK /\ left = 0 /\ left' = 0 /\ ~reading' /\ ~registered'
  BY DEF ParserInv, Buffered, ReadError
<1>2. TypeOK'
  BY <1>1 DEF TypeOK, ReadError, wire, node
<1> QED
  BY <1>1, <1>2, ParserStops DEF ReadError

LEMMA ParserHeadInvalid ==
  ASSUME ParserInv, HeadInvalid
  PROVE  ParserInv'
<1>1. TypeOK /\ left > 0 /\ ~reading'
  BY NextByte DEF ParserInv, HeadInvalid, HeadComplete
<1>2. TypeOK'
  <2>1. {reading', headParse', registered', threw'} \subseteq BOOLEAN
    BY <1>1 DEF TypeOK, HeadInvalid, node
  <2> QED
    BY <1>1, <2>1, PacketAssumption DEF TypeOK, HeadInvalid, wire, node
<1> QED
  BY <1>1, <1>2, ParserStops DEF HeadInvalid

\* The bytes are used up, and the handler starts the next read: what is to be
\* shown is what it leaves in the nodes.
LEMMA ParserRearms ==
  ASSUME ParserInv, Rearm, UNCHANGED <<wire, fate>>,
         headParse' \in BOOLEAN,
         headNode' \in Seq(Byte), Len(headNode') < HeadLength,
         msgNode' \in Seq(Byte), Len(msgNode') <= totalLen',
         totalLen' \in 0 .. MaxLength,
         delivered' \in Seq(Seq(Byte)), DeliveredBodies',
         LET f == Len(delivered') + 1
             next == At(taken + 1)
         IN /\ next[1] = f
            /\ ~headParse' =>
                 /\ next[2] = Len(headNode') + 1
                 /\ IsPart(headNode', f, 0)
            /\ headParse' =>
                 /\ f <= Frames
                 /\ totalLen' = lens[f]
                 /\ Len(msgNode') < totalLen'
                 /\ next[2] = HeadLength + Len(msgNode') + 1
                 /\ IsPart(msgNode', f, HeadLength)
  PROVE  ParserInv'
<1>1. TypeOK
  BY DEF ParserInv
<1>2. /\ reading' /\ data' = <<>> /\ copyLen' = 0 /\ left' = 0
      /\ taken' = taken /\ lens' = lens /\ Len(data') = 0
      /\ data' \in Seq(Byte)
  BY EmptySeq DEF Rearm, wire
<1>3. TypeOK'
  <2>1. {reading', headParse', registered', threw'} \subseteq BOOLEAN
    BY <1>1, <1>2 DEF TypeOK, fate
  <2> QED
    BY <1>1, <1>2, <2>1, PacketAssumption DEF TypeOK, wire, fate
<1>4. Buffered'
  BY <1>1, <1>2, PacketAssumption DEF Buffered, TypeOK
<1>5. Nodes'
  <2>1. taken' - left' + 1 = taken + 1
    BY <1>1, <1>2 DEF TypeOK
  <2>2. At(taken - left + 1)' = At(taken + 1)
    BY <2>1 DEF At, wire
  <2> QED
    BY <1>2, <2>2 DEF Nodes
<1> QED
  BY <1>2, <1>3, <1>4, <1>5, StreamStays DEF ParserInv

LEMMA ParserHeadPartial ==
  ASSUME ParserInv, HeadPartial
  PROVE  ParserInv'
<1> DEFINE f == Len(delivered) + 1
           k == At(taken - left + 1)[2]
           h == Len(headNode)
           p == SubSeq(data, copyLen + 0 + 1, copyLen + 0 + left)
<1>1. /\ TypeOK /\ Nodes /\ DeliveredBodies /\ left > 0 /\ ~headParse
      /\ left + h < HeadLength
  BY DEF ParserInv, HeadPartial
<1>2. /\ left \in Nat \ {0} /\ copyLen \in Nat /\ h \in Nat
      /\ taken \in Nat /\ MaxLength \in Nat /\ HeadLength \in Nat
  BY <1>1, StreamTypes, PacketAssumption DEF TypeOK
<1>3. /\ f \in 1 .. Frames /\ k = h + 1 /\ IsPart(headNode, f, 0)
      /\ lens[f] \in Nat /\ FrameLength(f) = HeadLength + lens[f]
  BY <1>1, NextByte DEF Nodes, FrameLength
<1>4. /\ p \in Seq(Byte) /\ Len(p) = left /\ IsPart(p, f, h)
      /\ At(taken + 1) = <<f, h + 1 + left>>
  <2>1. k + 0 + left - 1 <= FrameLength(f) /\ k + 0 + left - 1 < FrameLength(f)
    BY <1>1, <1>2, <1>3
  <2>2. /\ p \in Seq(Byte) /\ Len(p) = left /\ IsPart(p, f, k + 0 - 1)
        /\ At(taken - left + 0 + left + 1) = <<f, k + 0 + left>>
    <3>1. left \in Nat /\ 0 \in Nat /\ 0 + left <= left
      BY <1>2
    <3> QED
      BY <1>1, <2>1, <3>1, PieceIsPart
  <2>3. /\ k + 0 - 1 = h /\ taken - left + 0 + left + 1 = taken + 1
        /\ k + 0 + left = h + 1 + left
    BY <1>2, <1>3
  <2> QED
    BY <2>2, <2>3
<1>5. /\ headNode' = headNode \o p
      /\ UNCHANGED <<wire, headParse, msgNode, totalLen, delivered, fate>>
      /\ Rearm
  <2>1. Piece(left) = p
    BY <1>2 DEF Piece
  <2> QED
    BY <2>1 DEF HeadPartial
<1>6. /\ headNode' \in Seq(Byte) /\ Len(headNode') = h + left
      /\ IsPart(headNode', f, 0)
  <2> HIDE DEF p, f
  <2>1. /\ headNode \o p \in Seq(Byte) /\ Len(headNode \o p) = h + Len(p)
        /\ \A i \in 1 .. h + Len(p) : (headNode \o p)[i] =
             IF i <= h THEN headNode[i] ELSE p[i - h]
    BY <1>1, <1>4, ConcatProperties DEF TypeOK
  <2>2. ASSUME NEW i \in 1 .. h + left
        PROVE  (headNode \o p)[i] = <<f, 0 + i>>
    <3>1. CASE i <= h
      BY <1>2, <1>3, <1>4, <2>1, <3>1 DEF IsPart
    <3>2. CASE i > h
      <4>1. i - h \in 1 .. left /\ h + (i - h) = 0 + i
        BY <1>2, <3>2
      <4>2. p[i - h] = <<f, h + (i - h)>>
        BY <1>4, <4>1 DEF IsPart
      <4> QED
        BY <1>2, <1>4, <2>1, <3>2, <4>1, <4>2
    <3>3. i <= h \/ i > h
      BY <1>2
    <3> QED
      BY <3>1, <3>2, <3>3
  <2>3. headNode' = headNode \o p /\ Len(headNode') = h + left
    BY <1>4, <1>5, <2>1
  <2> HIDE DEF h
  <2> QED
    BY <2>1, <2>2, <2>3 DEF IsPart
<1>7. DeliveredBodies'
  BY <1>1, <1>5 DEF DeliveredBodies, Body, wire
<1>8. At(taken + 1)[1] = f /\ At(taken + 1)[2] = Len(headNode') + 1
  BY <1>2, <1>4, <1>6
<1> HIDE DEF p, k, h
<1> QED
  BY <1>1, <1>2, <1>5, <1>6, <1>7, <1>8, ParserRearms DEF TypeOK

\* When the head is complete it encodes the length of the frame.
LEMMA HeadGivesLength ==
  ASSUME ParserInv, HeadComplete
  PROVE  LET f == Len(delivered) + 1
         IN /\ BodyLength = lens[f]
            /\ HeadRemain \in 1 .. left
            /\ At(taken - left + 1) = <<f, HeadLength - HeadRemain + 1>>
<1> DEFINE f == Len(delivered) + 1
           k == At(taken - left + 1)[2]
           h == Len(headNode)
           r == HeadRemain
           p == SubSeq(data, copyLen + 0 + 1, copyLen + 0 + r)
<1>1. /\ TypeOK /\ Nodes /\ left > 0 /\ ~headParse
      /\ left + h >= HeadLength
  BY DEF ParserInv, HeadComplete
<1>2. /\ left \in Nat \ {0} /\ copyLen \in Nat /\ h \in Nat
      /\ HeadLength \in Nat /\ r = HeadLength - h /\ r \in 1 .. left
  BY <1>1, StreamTypes, PacketAssumption DEF TypeOK, HeadRemain
<1>3. /\ f \in 1 .. Frames /\ k = h + 1 /\ IsPart(headNode, f, 0)
      /\ lens[f] \in Nat /\ FrameLength(f) = HeadLength + lens[f]
      /\ At(taken - left + 1) = <<f, k>>
  BY <1>1, NextByte DEF Nodes, FrameLength
<1>4. p \in Seq(Byte) /\ Len(p) = r /\ IsPart(p, f, h)
  <2>1. k + 0 + r - 1 <= FrameLength(f) /\ 0 + r <= left /\ r \in Nat
    BY <1>1, <1>2, <1>3
  <2>2. p \in Seq(Byte) /\ Len(p) = r /\ IsPart(p, f, k + 0 - 1)
    <3> HIDE DEF r
    <3> QED
      BY <1>1, <2>1, PieceIsPart
  <2>3. k + 0 - 1 = h
    BY <1>2, <1>3
  <2> QED
    BY <2>2, <2>3
<1>5. (headNode \o p)[1] = <<f, 1>>
  <2> HIDE DEF p, f, r
  <2>1. \A i \in 1 .. h + Len(p) : (headNode \o p)[i] =
          IF i <= h THEN headNode[i] ELSE p[i - h]
    BY <1>1, <1>4, ConcatProperties DEF TypeOK
  <2>2. CASE h = 0
    BY <1>2, <1>4, <2>1, <2>2 DEF IsPart
  <2>3. CASE h > 0
    BY <1>2, <1>3, <1>4, <2>1, <2>3 DEF IsPart
  <2>4. h = 0 \/ h > 0
    BY <1>2
  <2> QED
    BY <2>2, <2>3, <2>4
<1>6. Piece(HeadRemain) = p
  <2>1. copyLen + 0 + 1 = copyLen + 1 /\ copyLen + 0 + r = copyLen + r
    BY <1>2
  <2> QED
    BY <2>1 DEF Piece
<1>7. BodyLength = lens[f]
  <2>1. headNode \o Piece(HeadRemain) = headNode \o p
    BY <1>6
  <2> HIDE DEF p, f
  <2>2. (headNode \o p)[1][1] = f
    BY <1>5
  <2> QED
    BY <2>1, <2>2 DEF BodyLength, Head2Length
<1>8. k = HeadLength - r + 1
  BY <1>2, <1>3
<1> QED
  BY <1>2, <1>3, <1>7, <1>8

LEMMA ParserHeadThenPart ==
  ASSUME ParserInv, HeadThenPart
  PROVE  ParserInv'
<1> DEFINE f == Len(delivered) + 1
           k == At(taken - left + 1)[2]
           r == HeadRemain
           n == left - r
           p == SubSeq(data, copyLen + r + 1, copyLen + r + n)
<1>1. /\ TypeOK /\ Nodes /\ DeliveredBodies /\ left > 0
      /\ HeadComplete /\ BodyLength <= MaxLength /\ BodyMissing
  BY DEF ParserInv, HeadThenPart, HeadComplete
<1>2. /\ left \in Nat \ {0} /\ copyLen \in Nat
      /\ taken \in Nat /\ MaxLength \in Nat /\ HeadLength \in Nat
  BY <1>1, StreamTypes, PacketAssumption DEF TypeOK
<1>3. /\ f \in 1 .. Frames /\ k = HeadLength - r + 1 /\ r \in 1 .. left
      /\ BodyLength = lens[f]
      /\ lens[f] \in Nat /\ FrameLength(f) = HeadLength + lens[f]
  BY <1>1, NextByte, HeadGivesLength DEF FrameLength
<1>4. n \in Nat /\ n < lens[f]
  BY <1>1, <1>2, <1>3 DEF BodyMissing
<1>5. /\ p \in Seq(Byte) /\ Len(p) = n /\ IsPart(p, f, HeadLength)
      /\ At(taken + 1) = <<f, HeadLength + n + 1>>
  <2>1. /\ k + r + n - 1 < FrameLength(f) /\ k + r + n - 1 <= FrameLength(f)
        /\ r \in Nat /\ r + n <= left
    BY <1>2, <1>3, <1>4
  <2>2. /\ p \in Seq(Byte) /\ Len(p) = n /\ IsPart(p, f, k + r - 1)
        /\ At(taken - left + r + n + 1) = <<f, k + r + n>>
    <3> HIDE DEF r, n
    <3> QED
      BY <1>1, <1>4, <2>1, PieceIsPart
  <2>3. /\ k + r - 1 = HeadLength /\ taken - left + r + n + 1 = taken + 1
        /\ k + r + n = HeadLength + n + 1
    BY <1>2, <1>3
  <2> QED
    BY <2>2, <2>3
<1>6. /\ msgNode' = p /\ totalLen' = lens[f] /\ headParse'
      /\ UNCHANGED <<wire, headNode, delivered, fate>>
      /\ Rearm
  <2>1. copyLen + r + n = copyLen + left
    BY <1>2, <1>3
  <2> QED
    BY <1>3, <2>1 DEF HeadThenPart
<1>7. DeliveredBodies'
  BY <1>1, <1>6 DEF DeliveredBodies, Body, wire
<1>8. /\ At(taken + 1)[1] = f /\ At(taken + 1)[2] = HeadLength + Len(msgNode') + 1
      /\ totalLen' \in 0 .. MaxLength /\ Len(msgNode') < totalLen'
      /\ Len(msgNode') <= totalLen' /\ f <= Frames
  BY <1>1, <1>2, <1>3, <1>4, <1>5, <1>6
<1> HIDE DEF p, k, r, n
<1> QED
  BY <1>1, <1>2, <1>5, <1>6, <1>7, <1>8, ParserRearms DEF TypeOK

\* A whole body is there: the message is the frame after the last one
\* delivered, and what follows it begins the next frame.
LEMMA ParserHandles ==
  ASSUME ParserInv, left > 0, NEW n \in 1 .. left,
         Handle(msgNode', n), UNCHANGED <<wire, registered>>,
         msgNode' \in Seq(Byte), Len(msgNode') <= totalLen',
         totalLen' \in 0 .. MaxLength,
         LET f == Len(delivered) + 1
         IN /\ Len(msgNode') = lens[f]
            /\ IsPart(msgNode', f, HeadLength)
            /\ lens[f] <= MaxLength
            /\ At(taken - left + n + 1) = <<f + 1, 1>>
  PROVE  ParserInv'
<1> DEFINE f == Len(delivered) + 1
<1>1. TypeOK /\ Buffered /\ DeliveredBodies
  BY DEF ParserInv
<1>2. /\ left \in Nat \ {0} /\ n \in Nat \ {0} /\ copyLen \in Nat
      /\ left <= MaxLength /\ MaxLength \in Nat /\ taken \in Nat
      /\ HeadLength \in Nat \ {0} /\ Len(delivered) \in Nat
  <2>1. /\ left \in 0 .. MaxLength /\ copyLen \in 0 .. MaxLength
        /\ MaxLength \in Nat /\ HeadLength \in Nat \ {0}
        /\ taken \in 0 .. Len(stream) /\ Len(stream) \in Nat
        /\ Len(delivered) \in Nat
    BY <1>1, StreamTypes, PacketAssumption DEF TypeOK
  <2> QED
    BY <2>1
<1>3. /\ ~reading /\ f \in 1 .. Frames /\ lens[f] \in Nat
      /\ Len(data) = copyLen + left /\ Len(data) <= MaxLength
  BY <1>1, NextByte DEF Buffered
<1>4. CASE /\ delivered' = Append(delivered, msgNode')
           /\ headParse' = FALSE /\ headNode' = <<>>
           /\ Used(n) /\ UNCHANGED threw
  <2>1. /\ delivered' \in Seq(Seq(Byte)) /\ Len(delivered') = f
        /\ \A i \in 1 .. Len(delivered) : delivered'[i] = delivered[i]
        /\ delivered'[f] = msgNode'
    BY <1>1, <1>4, AppendProperties DEF TypeOK
  <2>2. msgNode' = Body(f)
    <3> HIDE DEF f
    <3>1. /\ msgNode' = [i \in 1 .. Len(msgNode') |-> msgNode'[i]]
      BY LenProperties
    <3>2. \A i \in 1 .. Len(msgNode') : msgNode'[i] = <<f, HeadLength + i>>
      BY DEF IsPart, f
    <3>3. Len(msgNode') = lens[f]
      BY DEF f
    <3> QED
      BY <3>1, <3>2, <3>3 DEF Body
  <2>3. DeliveredBodies'
    <3>1. ASSUME NEW i \in 1 .. Len(delivered')
          PROVE  i <= Frames /\ lens[i] <= MaxLength /\ delivered'[i] = Body(i)
      <4>1. CASE i \in 1 .. Len(delivered)
        BY <1>1, <2>1, <4>1 DEF DeliveredBodies
      <4>2. CASE i = f
        BY <1>3, <2>1, <2>2, <4>2
      <4> QED
        BY <1>2, <2>1, <4>1, <4>2
    <3>2. \A i : Body(i)' = Body(i)
      BY StreamStays
    <3>3. lens' = lens
      BY DEF wire
    <3> QED
      BY <3>1, <3>2, <3>3 DEF DeliveredBodies
  <2>4. /\ headNode' \in Seq(Byte) /\ Len(headNode') = 0
        /\ \A g, k : IsPart(headNode', g, k)
    BY <1>4, EmptySeq DEF IsPart
  <2>5. CASE left > n
    <3>1. /\ copyLen' = copyLen + n /\ left' = left - n
          /\ reading' = reading /\ data' = data
      BY <1>4, <2>5 DEF Used
    <3>2. copyLen' \in 0 .. MaxLength /\ left' \in 1 .. MaxLength
      BY <1>2, <1>3, <2>5, <3>1
    <3>3. TypeOK'
      <4>1. {reading', headParse', registered', threw'} \subseteq BOOLEAN
        BY <1>1, <1>4, <3>1 DEF TypeOK
      <4> QED
        BY <1>1, <1>2, <2>1, <2>4, <3>1, <3>2, <4>1 DEF TypeOK, wire
    <3>4. Buffered'
      <4>1. taken' = taken /\ stream' = stream
        BY DEF wire
      <4>2. Len(data) = copyLen' + left'
        BY <1>2, <1>3, <3>1
      <4> QED
        BY <1>1, <1>3, <3>1, <4>1, <4>2 DEF Buffered
    <3>5. Nodes'
      <4>1. taken' - left' + 1 = taken - left + n + 1
        BY <1>2, <3>1 DEF wire
      <4>2. At(taken - left + 1)' = At(taken - left + n + 1)
        BY <4>1 DEF At, wire
      <4>3. At(taken - left + n + 1) = <<f + 1, 1>>
        OBVIOUS
      <4> HIDE DEF f
      <4> QED
        BY <1>4, <2>1, <2>4, <4>2, <4>3 DEF Nodes
    <3>6. left' > 0
      BY <3>2
    <3> QED
      BY <2>3, <3>3, <3>4, <3>5, <3>6, StreamStays DEF ParserInv
  <2>6. CASE ~(left > n)
    <3>1. Rearm /\ left = n /\ headParse' = FALSE
      BY <1>2, <1>4, <2>6 DEF Used
    <3>2. At(taken + 1) = <<f + 1, 1>>
      <4>1. taken - left + n + 1 = taken + 1
        BY <1>2, <3>1
      <4> QED
        BY <4>1
    <3>3. UNCHANGED <<wire, fate>>
      BY <1>4 DEF fate
    <3>4. /\ Len(headNode') < HeadLength /\ headParse' \in BOOLEAN
          /\ At(taken + 1)[1] = f + 1 /\ Len(delivered') + 1 = f + 1
          /\ At(taken + 1)[2] = Len(headNode') + 1
      <4> HIDE DEF f
      <4>1. /\ At(taken + 1)[1] = f + 1 /\ At(taken + 1)[2] = 1
        BY <3>2
      <4>2. Len(delivered') + 1 = f + 1 /\ Len(headNode') + 1 = 1
        BY <2>1, <2>4
      <4>3. headParse' \in BOOLEAN
        BY <3>1, Zenon
      <4>4. Len(headNode') < HeadLength
        BY <1>2, <2>4
      <4> QED
        BY <4>1, <4>2, <4>3, <4>4
    <3> HIDE DEF f
    <3> QED
      BY <2>1, <2>3, <2>4, <3>1, <3>3, <3>4, ParserRearms
  <2> QED
    BY <2>5, <2>6
<1>5. CASE /\ threw' = TRUE /\ left' = 0
           /\ UNCHANGED <<reading, data, copyLen, headParse, headNode,
                          delivered>>
  <2>1. {reading', headParse', registered', threw'} \subseteq BOOLEAN
    BY <1>1, <1>5 DEF TypeOK
  <2>2. TypeOK'
    BY <1>1, <1>2, <1>5, <2>1 DEF TypeOK, wire
  <2> QED
    BY <1>3, <1>5, <2>2, ParserStops
<1> QED
  BY <1>4, <1>5 DEF Handle

LEMMA ParserHeadThenBody ==
  ASSUME ParserInv, HeadThenBody
  PROVE  ParserInv'
<1> DEFINE f == Len(delivered) + 1
           k == At(taken - left + 1)[2]
           r == HeadRemain
           n == lens[f]
           p == SubSeq(data, copyLen + r + 1, copyLen + r + n)
<1>1. /\ TypeOK /\ left > 0
      /\ HeadComplete /\ BodyLength <= MaxLength /\ ~BodyMissing
  BY DEF ParserInv, HeadThenBody, HeadComplete
<1>2. /\ left \in Nat \ {0} /\ copyLen \in Nat
      /\ taken \in Nat /\ MaxLength \in Nat /\ HeadLength \in Nat
  BY <1>1, StreamTypes, PacketAssumption DEF TypeOK
<1>3. /\ f \in 1 .. Frames /\ k = HeadLength - r + 1 /\ r \in 1 .. left
      /\ BodyLength = n
      /\ n \in Nat /\ FrameLength(f) = HeadLength + n
  BY <1>1, NextByte, HeadGivesLength DEF FrameLength
<1>4. n <= left - r /\ n <= MaxLength
  BY <1>1, <1>2, <1>3 DEF BodyMissing
<1>5. /\ p \in Seq(Byte) /\ Len(p) = n /\ IsPart(p, f, HeadLength)
      /\ At(taken - left + (r + n) + 1) = <<f + 1, 1>>
  <2>1. /\ k + r + n - 1 = FrameLength(f) /\ k + r + n - 1 <= FrameLength(f)
        /\ r \in Nat /\ r + n <= left
    <3> HIDE DEF k, r, n, f
    <3> QED
      BY <1>2, <1>3, <1>4
  <2>2. /\ p \in Seq(Byte) /\ Len(p) = n /\ IsPart(p, f, k + r - 1)
        /\ At(taken - left + r + n + 1) = <<f + 1, 1>>
    <3> HIDE DEF r, n
    <3> QED
      BY <1>1, <1>3, <2>1, PieceIsPart
  <2>3. /\ k + r - 1 = HeadLength
        /\ taken - left + r + n + 1 = taken - left + (r + n) + 1
    BY <1>2, <1>3
  <2> QED
    BY <2>2, <2>3
<1>6. /\ msgNode' = p /\ totalLen' = n
      /\ Handle(msgNode', r + n)
      /\ UNCHANGED <<wire, registered>>
  BY <1>3 DEF HeadThenBody
<1>7. /\ totalLen' \in 0 .. MaxLength /\ Len(msgNode') <= totalLen'
      /\ r + n \in 1 .. left
  <2> HIDE DEF p, k, r, n, f
  <2> QED
    BY <1>2, <1>3, <1>4, <1>5, <1>6
<1> HIDE DEF p, k, r
<1> QED
  BY <1>1, <1>4, <1>5, <1>6, <1>7, ParserHandles

\* In the body of a frame the parser knows how much of it is missing.
LEMMA BodyPlace ==
  ASSUME ParserInv, left > 0, headParse
  PROVE  LET f == Len(delivered) + 1
             m == Len(msgNode)
         IN /\ TypeOK /\ f \in 1 .. Frames /\ m \in Nat
            /\ IsPart(msgNode, f, HeadLength)
            /\ lens[f] \in Nat /\ totalLen = lens[f]
            /\ FrameLength(f) = HeadLength + lens[f]
            /\ At(taken - left + 1)[2] = HeadLength + m + 1
            /\ BodyRemain = lens[f] - m /\ BodyRemain \in Nat \ {0}
            /\ left \in Nat \ {0} /\ copyLen \in Nat /\ taken \in Nat
            /\ MaxLength \in Nat /\ HeadLength \in Nat
            /\ lens[f] <= MaxLength
<1>1. TypeOK /\ Nodes
  BY DEF ParserInv
<1>2. /\ left \in Nat \ {0} /\ copyLen \in Nat /\ taken \in Nat
      /\ MaxLength \in Nat /\ HeadLength \in Nat /\ Len(msgNode) \in Nat
      /\ totalLen \in 0 .. MaxLength
  BY <1>1, StreamTypes, PacketAssumption DEF TypeOK
<1>3. /\ Len(delivered) + 1 \in 1 .. Frames
      /\ lens[Len(delivered) + 1] \in Nat
  BY NextByte
<1> QED
  BY <1>1, <1>2, <1>3 DEF Nodes, FrameLength, BodyRemain

\* The bytes of data_ that go on with the body.
LEMMA BodyGoesOn ==
  ASSUME ParserInv, left > 0, headParse,
         NEW n \in 1 .. left, n <= BodyRemain
  PROVE  LET f == Len(delivered) + 1
             m == Len(msgNode)
             body == msgNode \o Piece(n)
         IN /\ body \in Seq(Byte)
            /\ Len(body) = m + n
            /\ IsPart(body, f, HeadLength)
            /\ n < BodyRemain =>
                 At(taken - left + n + 1) = <<f, HeadLength + m + n + 1>>
            /\ n = BodyRemain =>
                 At(taken - left + n + 1) = <<f + 1, 1>>
<1> DEFINE f == Len(delivered) + 1
           k == At(taken - left + 1)[2]
           m == Len(msgNode)
           p == SubSeq(data, copyLen + 0 + 1, copyLen + 0 + n)
<1>1. /\ TypeOK /\ f \in 1 .. Frames /\ m \in Nat
      /\ IsPart(msgNode, f, HeadLength)
      /\ lens[f] \in Nat /\ FrameLength(f) = HeadLength + lens[f]
      /\ k = HeadLength + m + 1 /\ BodyRemain = lens[f] - m
      /\ left \in Nat \ {0} /\ copyLen \in Nat /\ taken \in Nat
      /\ HeadLength \in Nat
  BY BodyPlace
<1>2. /\ p \in Seq(Byte) /\ Len(p) = n /\ IsPart(p, f, HeadLength + m)
      /\ n < BodyRemain =>
           At(taken - left + n + 1) = <<f, HeadLength + m + n + 1>>
      /\ n = BodyRemain =>
           At(taken - left + n + 1) = <<f + 1, 1>>
  <2>1. /\ k + 0 + n - 1 <= FrameLength(f)
        /\ n < BodyRemain => k + 0 + n - 1 < FrameLength(f)
        /\ n = BodyRemain => k + 0 + n - 1 = FrameLength(f)
        /\ 0 \in Nat /\ n \in Nat /\ 0 + n <= left
    <3> HIDE DEF k, f, m
    <3> QED
      BY <1>1
  <2>2. /\ p \in Seq(Byte) /\ Len(p) = n /\ IsPart(p, f, k + 0 - 1)
        /\ n < BodyRemain =>
             At(taken - left + 0 + n + 1) = <<f, k + 0 + n>>
        /\ n = BodyRemain =>
             At(taken - left + 0 + n + 1) = <<f + 1, 1>>
    BY <2>1, PieceIsPart
  <2>3. /\ k + 0 - 1 = HeadLength + m /\ k + 0 + n = HeadLength + m + n + 1
        /\ taken - left + 0 + n + 1 = taken - left + n + 1
    BY <1>1
  <2> QED
    BY <2>2, <2>3
<1>3. Piece(n) = p
  <2>1. copyLen + 0 + 1 = copyLen + 1 /\ copyLen + 0 + n = copyLen + n
    BY <1>1
  <2> QED
    BY <2>1 DEF Piece
<1> HIDE DEF p, f, k
<1>4. /\ msgNode \o p \in Seq(Byte) /\ Len(msgNode \o p) = m + n
      /\ \A i \in 1 .. m + n : (msgNode \o p)[i] =
           IF i <= m THEN msgNode[i] ELSE p[i - m]
  BY <1>1, <1>2, ConcatProperties DEF TypeOK
<1>5. ASSUME NEW i \in 1 .. m + n
      PROVE  (msgNode \o p)[i] = <<f, HeadLength + i>>
  <2>1. CASE i <= m
    BY <1>1, <1>4, <2>1 DEF IsPart
  <2>2. CASE i > m
    <3>1. i - m \in 1 .. n /\ HeadLength + m + (i - m) = HeadLength + i
      BY <1>1, <2>2
    <3>2. p[i - m] = <<f, HeadLength + m + (i - m)>>
      BY <1>2, <3>1 DEF IsPart
    <3> QED
      BY <1>1, <1>4, <2>2, <3>1, <3>2
  <2>3. i <= m \/ i > m
    BY <1>1
  <2> QED
    BY <2>1, <2>2, <2>3
<1>6. IsPart(msgNode \o p, f, HeadLength)
  BY <1>4, <1>5 DEF IsPart
<1> QED
  BY <1>2, <1>3, <1>4, <1>6 DEF f

LEMMA ParserBodyPartial ==
  ASSUME ParserInv, BodyPartial
  PROVE  ParserInv'
<1> DEFINE f == Len(delivered) + 1
           m == Len(msgNode)
<1>1. /\ left > 0 /\ headParse /\ left < BodyRemain
      /\ msgNode' = msgNode \o Piece(left) /\ Rearm
      /\ UNCHANGED <<wire, headParse, headNode, totalLen, delivered, fate>>
  BY DEF BodyPartial
<1>2. /\ TypeOK /\ f \in 1 .. Frames /\ m \in Nat
      /\ lens[f] \in Nat /\ totalLen = lens[f] /\ BodyRemain = lens[f] - m
      /\ left \in Nat \ {0} /\ taken \in Nat /\ HeadLength \in Nat
  BY <1>1, BodyPlace
<1>3. /\ msgNode' \in Seq(Byte) /\ Len(msgNode') = m + left
      /\ IsPart(msgNode', f, HeadLength)
      /\ At(taken - left + left + 1) = <<f, HeadLength + m + left + 1>>
  <2>1. left \in 1 .. left /\ left <= BodyRemain /\ left < BodyRemain
    BY <1>1, <1>2
  <2> QED
    BY <1>1, <2>1, BodyGoesOn
<1>4. /\ Len(msgNode') < totalLen' /\ Len(msgNode') <= totalLen'
      /\ taken - left + left + 1 = taken + 1
      /\ HeadLength + m + left + 1 = HeadLength + Len(msgNode') + 1
  BY <1>1, <1>2, <1>3
<1>5. DeliveredBodies'
  BY <1>1 DEF DeliveredBodies, Body, wire, ParserInv
<1>6. /\ At(taken + 1)[1] = f
      /\ At(taken + 1)[2] = HeadLength + Len(msgNode') + 1
      /\ f <= Frames
  BY <1>2, <1>3, <1>4
<1> HIDE DEF m
<1> QED
  BY <1>1, <1>2, <1>3, <1>4, <1>5, <1>6, ParserRearms DEF TypeOK

LEMMA ParserBodyRest ==
  ASSUME ParserInv, BodyRest
  PROVE  ParserInv'
<1> DEFINE f == Len(delivered) + 1
           m == Len(msgNode)
           n == BodyRemain
<1>1. /\ left > 0 /\ headParse /\ left >= n
      /\ msgNode' = msgNode \o Piece(n) /\ Handle(msgNode', n)
      /\ UNCHANGED <<wire, totalLen, registered>>
  BY DEF BodyRest
<1>2. /\ TypeOK /\ f \in 1 .. Frames /\ m \in Nat
      /\ lens[f] \in Nat /\ totalLen = lens[f] /\ n = lens[f] - m
      /\ n \in Nat \ {0} /\ lens[f] <= MaxLength
      /\ left \in Nat \ {0} /\ taken \in Nat /\ HeadLength \in Nat
  BY <1>1, BodyPlace
<1>3. /\ msgNode' \in Seq(Byte) /\ Len(msgNode') = m + n
      /\ IsPart(msgNode', f, HeadLength)
      /\ At(taken - left + n + 1) = <<f + 1, 1>>
  <2>1. n \in 1 .. left /\ n <= BodyRemain /\ n = BodyRemain
    BY <1>1, <1>2
  <2> HIDE DEF n
  <2> QED
    BY <1>1, <2>1, BodyGoesOn
<1>4. Len(msgNode') = lens[f] /\ Len(msgNode') <= totalLen' /\ n \in 1 .. left
  <2>1. Len(msgNode') = lens[f] /\ n \in 1 .. left /\ totalLen' = lens[f]
    <3> DEFINE e == lens[f]
    <3>1. e \in Nat /\ m \in Nat /\ n \in Nat \ {0} /\ n = e - m
      BY <1>2
    <3>2. totalLen' = e /\ n <= left /\ Len(msgNode') = m + n
      BY <1>1, <1>2, <1>3
    <3> HIDE DEF n, m, f, e
    <3>3. m + n = e /\ n \in 1 .. left
      BY <1>2, <3>1, <3>2
    <3> QED
      BY <3>2, <3>3 DEF e
  <2> QED
    BY <1>2, <2>1
<1> HIDE DEF m, n
<1> QED
  BY <1>1, <1>2, <1>3, <1>4, ParserHandles DEF TypeOK

LEMMA ParserStep ==
  ASSUME ParserInv, [Next]_vars
  PROVE  ParserInv'
<1>1. CASE PeerWrites
  BY <1>1, ParserPeerWrites
<1>2. ASSUME NEW n \in 1 .. MaxLength, ReadSome(n) PROVE ParserInv'
  BY <1>2, ParserReadSome
<1>3. CASE ReadError
  BY <1>3, ParserReadError
<1>4. CASE HeadPartial
  BY <1>4, ParserHeadPartial
<1>5. CASE HeadInvalid
  BY <1>5, ParserHeadInvalid
<1>6. CASE HeadThenPart
  BY <1>6, ParserHeadThenPart
<1>7. CASE HeadThenBody
  BY <1>7, ParserHeadThenBody
<1>8. CASE BodyPartial
  BY <1>8, ParserBodyPartial
<1>9. CASE BodyRest
  BY <1>9, ParserBodyRest
<1>10. CASE UNCHANGED vars
  <2>1. /\ UNCHANGED wire /\ reading' = reading /\ data' = data
        /\ copyLen' = copyLen /\ left' = left
        /\ UNCHANGED node /\ delivered' = delivered /\ UNCHANGED fate
    BY <1>10 DEF vars
  <2>2. \A i : At(i)' = At(i)
    BY StreamStays, <2>1
  <2>3. At(taken - left + 1)' = At(taken - left + 1)
    BY <2>1 DEF At, wire
  <2>4. TypeOK'
    BY <2>1 DEF TypeOK, wire, node, fate, ParserInv
  <2>5. Buffered'
    BY <2>1 DEF Buffered, wire, ParserInv
  <2>6. Nodes'
    BY <2>1, <2>3 DEF Nodes, IsPart, wire, node, ParserInv
  <2>7. DeliveredBodies'
    BY <2>1 DEF DeliveredBodies, Body, wire, ParserInv
  <2> QED
    BY <2>1, <2>4, <2>5, <2>6, <2>7, StreamStays DEF ParserInv, fate
<1> QED
  BY <1>1, <1>2, <1>3, <1>4, <1>5, <1>6, <1>7, <1>8, <1>9, <1>10
     DEF Next, Parse

LEMMA ParserInvSuffices ==
  ASSUME ParserInv
  PROVE  ParsedExactly /\ ServedWhileRegistered
<1>1. \A i \in 1 .. Len(delivered) :
        delivered[i] = Body(i) /\ lens[i] <= MaxLength
  BY DEF ParserInv, DeliveredBodies
<1>2. reading => Len(delivered) = FirstUnread[1] - 1
  <2> SUFFICES ASSUME reading PROVE Len(delivered) = FirstUnread[1] - 1
    OBVIOUS
  <2>1. /\ left = 0 /\ TypeOK
        /\ At(taken - left + 1)[1] = Len(delivered) + 1
    BY DEF ParserInv, Buffered, Nodes
  <2>2. /\ taken - left + 1 = taken + 1 /\ taken \in 0 .. Len(stream)
        /\ Len(stream) \in Nat /\ Len(delivered) \in Nat
    BY <2>1, StreamTypes DEF TypeOK
  <2>3. FirstUnread = At(taken + 1)
    BY <2>2 DEF FirstUnread, At
  <2> QED
    BY <2>1, <2>2, <2>3
<1> QED
  BY <1>1, <1>2 DEF ParsedExactly, ServedWhileRegistered, ParserInv

LEMMA ParserAlways == ServersSpec => []ParserInv
<1>1. ServersInit => ParserInv
  BY ParserStarts, ParserOffInv DEF ServersInit
<1>2. ParserInv /\ [ServersNext]_allVars => ParserInv'
  BY ParserStep DEF ServersNext, Parsing, allVars
<1> QED
  BY <1>1, <1>2, PTL DEF ServersSpec

\* StickyPacket, S04 to S06: the messages handled are exactly the bodies of
\* the frames sent, whatever the pieces in which the stream is read, and none
\* is held back once its last byte has been read, for any number and lengths
\* of frames, any length of the head and any size of the buffer.
THEOREM AlwaysParsedExactly == ServersSpec => []ParsedExactly
<1> QED
  BY ParserAlways, ParserInvSuffices, PTL

\* No frame over MAX_LENGTH, and none behind it, is handled; and a session in
\* the map has a read outstanding or bytes left to parse, unless the handling
\* of a message threw.
THEOREM AlwaysServedWhileRegistered == ServersSpec => []ServedWhileRegistered
<1> QED
  BY ParserAlways, ParserInvSuffices, PTL

-----------------------------------------------------------------------------
(***************************************************************************)
(* The clients and the network.                                            *)
(***************************************************************************)
LEMMA OverIs ==
  ASSUME NEW c \in Client
  PROVE  /\ c \in over <=> \/ ~up \/ peer[c] = "left" \/ conn[c] = "closed"
                           \/ ses[c].spoilt \/ Spent(fses[c])
         /\ c \in over' <=> \/ ~up' \/ peer'[c] = "left" \/ conn'[c] = "closed"
                            \/ ses'[c].spoilt \/ Spent(fses'[c])
<1>1. c \in over <=> \/ ~up \/ peer[c] = "left" \/ conn[c] = "closed"
                     \/ ses[c].spoilt \/ Spent(fses[c])
  BY Zenon DEF over, Gone, Spent
<1>2. c \in over' <=> \/ ~up' \/ peer'[c] = "left" \/ conn'[c] = "closed"
                      \/ ses'[c].spoilt \/ Spent(fses'[c])
  BY Zenon DEF over, Gone, Spent
<1> QED
  BY <1>1, <1>2

LEMMA NotSpent ==
  /\ ~Spent(NoFrameSession) /\ ~(NoFrameSession.want < 0)
  /\ LET s == [NoFrameSession EXCEPT !.rd = "head", !.held = TRUE]
     IN ~Spent(s) /\ ~(s.want < 0)
<1> DEFINE z == 0
           s == [NoFrameSession EXCEPT !.rd = "head", !.held = TRUE]
<1>1. ~(z < z)
  OBVIOUS
<1>2. /\ NoFrameSession.want = z /\ NoFrameSession.refused = FALSE
      /\ s.want = z /\ s.refused = FALSE
  BY DEF NoFrameSession
<1> HIDE DEF z, s
<1>3. ~(NoFrameSession.want < z) /\ ~(s.want < z)
  BY <1>1, <1>2
<1> QED
  BY <1>2, <1>3 DEF Spent, z, s

LEMMA EmptyTypes ==
  /\ NoSession \in Session /\ NoFrameSession \in FrameSession
  /\ [c \in Client |-> NoSession] \in [Client -> Session]
  /\ [c \in Client |-> NoFrameSession] \in [Client -> FrameSession]
  /\ [c \in Client |-> <<>>] \in [Client -> Seq(Frame)]
  /\ <<>> \in Seq(Posted)
<1>1. /\ <<>> \in Seq(Bytes) /\ <<>> \in Seq(MsgNode) /\ <<>> \in Seq(Frame)
      /\ <<>> \in Seq(Posted)
  BY EmptySeq
<1>2. NoSession \in Session
  BY <1>1 DEF NoSession, Session, Operation
<1>3. NoFrameSession \in FrameSession
  BY <1>1 DEF NoFrameSession, FrameSession
<1> QED
  BY <1>1, <1>2, <1>3

\* What is sent to a client that is there is added to what it has; when it is
\* what follows, that is an answer.
LEMMA Received ==
  ASSUME Types, NEW c \in Client, NEW bytes \in Seq(Nat), Receive(c, bytes)
  PROVE  /\ back' \in [Client -> Seq(Nat)]
         /\ \A d \in Client \ {c} : back'[d] = back[d]
         /\ peer[c] = "open" =>
              /\ back'[c] = back[c] \o bytes
              /\ Len(back'[c]) = Len(back[c]) + Len(bytes)
              /\ /\ asked' = asked
                 /\ Follow(bytes, Len(back[c]))
                 /\ Len(back[c]) + Len(bytes) <= asked[c]
                 => E!Answer(c) \/ E!Nothing(c)
<1>1. CASE peer[c] # "open"
  BY <1>1 DEF Receive, Types
<1>2. CASE peer[c] = "open"
  <2> DEFINE b == back[c]
             n == Len(b)
             k == Len(bytes)
  <2>1. b \in Seq(Nat)
    BY DEF Types
  <2>2. /\ b \o bytes \in Seq(Nat) /\ Len(b \o bytes) = n + k
        /\ n \in Nat /\ k \in Nat
    BY <2>1, ConcatProperties, LenProperties
  <2>3. back' = [back EXCEPT ![c] = b \o bytes]
    BY <1>2 DEF Receive
  <2>4. /\ back' \in [Client -> Seq(Nat)] /\ back'[c] = b \o bytes
        /\ \A d \in Client \ {c} : back'[d] = back[d]
    BY <2>2, <2>3 DEF Types
  <2>5. ASSUME asked' = asked, Follow(bytes, n), n + k <= asked[c]
        PROVE  E!Answer(c) \/ E!Nothing(c)
    <3>1. CASE k = 0
      <4>1. bytes = <<>>
        BY <3>1, EmptySeq
      <4>2. b \o bytes = b
        BY <2>1, <4>1, ConcatEmptySeq
      <4> QED
        BY <2>4, <2>5, <4>2 DEF E!Nothing
    <3>2. CASE k # 0
      <4>1. bytes = [i \in 1 .. k |-> n + i]
        <5>1. bytes = [i \in 1 .. k |-> bytes[i]]
          BY LenProperties
        <5>2. \A i \in 1 .. k : bytes[i] = n + i
          BY <2>5 DEF Follow
        <5> QED
          BY <5>1, <5>2
      <4>2. Len(back'[c]) = n + k /\ Len(back'[c]) - n = k
        BY <2>2, <2>4
      <4>3. Len(back'[c]) \in n + 1 .. asked[c]
        <5>1. asked[c] \in Nat
          BY DEF Types
        <5> HIDE DEF n, k
        <5> QED
          BY <2>2, <2>5, <3>2, <4>2, <5>1
      <4>4. back'[c] = b \o [i \in 1 .. Len(back'[c]) - n |-> n + i]
        BY <2>4, <4>1, <4>2
      <4> QED
        BY <2>5, <4>3, <4>4 DEF E!Answer
    <3> QED
      BY <3>1, <3>2
  <2> QED
    BY <2>2, <2>4, <2>5
<1> QED
  BY <1>1, <1>2

\* What a step for client c shows in the abstract specification.
Shown(c) ==
  /\ c \in over => c \in over'
  /\ c \in over' \/ E!Ask(c) \/ E!Answer(c) \/ E!Nothing(c)

\* To the others nothing happens, but that the acceptor may be closed.
OthersStay(c) ==
  \A d \in Client \ {c} :
    /\ peer'[d] = peer[d] /\ asked'[d] = asked[d] /\ back'[d] = back[d]
    /\ consumed'[d] = consumed[d] /\ ses'[d] = ses[d]
    /\ sent'[d] = sent[d] /\ down'[d] = down[d] /\ fses'[d] = fses[d]
    /\ \/ conn'[d] = conn[d]
       \/ conn[d] = "backlog" /\ conn'[d] = "closed"

LEMMA OthersShow ==
  ASSUME NEW c \in Client, OthersStay(c), UNCHANGED up, NEW d \in Client \ {c}
  PROVE  Shown(d)
<1>1. d \in over => d \in over'
  BY OverIs DEF OthersStay
<1>2. E!Nothing(d)
  BY DEF OthersStay, E!Nothing
<1> QED
  BY <1>1, <1>2 DEF Shown

LEMMA AllShown ==
  ASSUME \A c \in Client : Shown(c)
  PROVE  E!EchoNext
<1>1. over \subseteq Client
  BY DEF over, Gone
<1>2. over \subseteq over'
  BY <1>1 DEF Shown
<1> QED
  BY <1>2 DEF Shown, E!EchoNext

\* The process has ended: nothing is promised any more.
LEMMA EndsForAll ==
  ASSUME ~up', NEW c \in Client
  PROVE  Shown(c)
BY OverIs DEF Shown

-----------------------------------------------------------------------------
(***************************************************************************)
(* The servers without a protocol.                                         *)
(***************************************************************************)
\* It is enough to look at the client whose step it is.
LEMMA RawLocal ==
  ASSUME IInv, program \in RawPrograms, NEW c \in Client,
         UNCHANGED <<program, up, framed, vars>>, OthersStay(c),
         Types', peer'[c] = "new" => conn'[c] = "none",
         up => RawHeld(c)' /\ RawOrdered(c)' /\ Shown(c),
         ~up => ses' = ses
  PROVE  IInv' /\ E!EchoNext
<1>1. /\ Types /\ Peers /\ OthersOff /\ ParserInv
      /\ program' = program /\ up' = up /\ sent' = sent /\ down' = down
      /\ fses' = fses /\ inbox' = inbox
  BY DEF IInv, framed
<1>2. ParserInv'
  BY <1>1, ParserStep
<1>3. Peers'
  BY <1>1 DEF Peers, OthersStay, Types
<1>4. OthersOff'
  <2>1. program \notin FramedPrograms /\ program # "parser" /\ program # "S15"
        /\ program \notin LogicPrograms
    BY DEF RawPrograms, FramedPrograms, LogicPrograms
  <2> QED
    BY <1>1, <2>1 DEF OthersOff, FramedOff
<1>5. ASSUME up, NEW d \in Client \ {c}
      PROVE  RawHeld(d)' /\ RawOrdered(d)'
  <2>1. RawHeld(d) /\ RawOrdered(d)
    BY <1>5 DEF IInv
  <2>2. CASE conn'[d] = conn[d]
    <3>1. d \in over <=> d \in over'
      BY <1>1, <2>2, OverIs DEF OthersStay
    <3>2. /\ ses'[d] = ses[d] /\ back'[d] = back[d]
          /\ consumed'[d] = consumed[d] /\ asked'[d] = asked[d]
      BY DEF OthersStay
    <3>3. RawHeld(d)'
      BY <1>1, <2>1, <2>2, <3>2 DEF RawHeld
    <3>4. RawOrdered(d)'
      BY <1>1, <2>1, <2>2, <3>1, <3>2 DEF RawOrdered
    <3> QED
      BY <3>3, <3>4
  <2>3. CASE conn[d] = "backlog" /\ conn'[d] = "closed"
    <3>1. d \in over'
      BY <2>3, OverIs
    <3>2. RawOrdered(d)'
      BY <3>1 DEF RawOrdered
    <3>3. ses'[d] = ses[d]
      BY DEF OthersStay
    <3>4. RawHeld(d)'
      BY <1>1, <2>1, <2>3, <3>3 DEF RawHeld
    <3> QED
      BY <3>2, <3>4
  <2> QED
    BY <2>2, <2>3 DEF OthersStay
<1>6. up /\ program \in RawPrograms =>
        \A d \in Client : RawHeld(d)' /\ RawOrdered(d)'
  BY <1>5
<1>7. program \notin FramedPrograms
  BY DEF RawPrograms, FramedPrograms
<1>8. ~up => /\ ses' = [d \in Client |-> NoSession]
             /\ down' = [d \in Client |-> <<>>]
             /\ fses' = [d \in Client |-> NoFrameSession]
  BY <1>1 DEF IInv
<1>9. IInv'
  BY <1>1, <1>2, <1>3, <1>4, <1>6, <1>7, <1>8 DEF IInv
<1>10. \A d \in Client : Shown(d)
  <2>1. CASE up
    BY <1>1, <2>1, OthersShow
  <2>2. CASE ~up
    BY <1>1, <2>2, EndsForAll
  <2> QED
    BY <2>1, <2>2
<1> QED
  BY <1>9, <1>10, AllShown

\* A step of the server in which only the session, what was read and what
\* came back changes, and the connection may be closed.
LEMMA RawServes ==
  ASSUME IInv, program \in RawPrograms, up, NEW c \in Client,
         NEW t \in Session, ses' = [ses EXCEPT ![c] = t],
         UNCHANGED <<program, up, peer, asked, framed, vars>>,
         listening' \in BOOLEAN,
         NEW x \in Nat, consumed' = [consumed EXCEPT ![c] = x],
         back' \in [Client -> Seq(Nat)],
         \A d \in Client \ {c} : back'[d] = back[d],
         NEW n \in {"backlog", "served", "closed"},
         conn[c] \in {"backlog", "served"}, conn' = [conn EXCEPT ![c] = n],
         n = "served" /\ c \notin over /\ ~t.spoilt =>
           /\ E!Answer(c) \/ E!Nothing(c)
           /\ x <= asked[c]
           /\ t.rd # "failed" /\ t.wr # "failed"
           /\ t.rd = "done" => Len(t.data) > 0 /\ Follow(t.data, x - Len(t.data))
           /\ program # "queued" => InTurns(t, Len(back'[c]), x)
           /\ program = "queued" => InQueue(t, Len(back'[c]), x),
         n # "closed" => n = "served" /\ (t.rd # "no" \/ t.wr # "no"),
         n = "closed" => t.rd = "no" /\ t.wr = "no" /\ ~t.held,
         ses[c].spoilt => t.spoilt \/ n = "closed",
         program = "queued" => /\ t.held => t.rd # "no"
                               /\ t.wr # "no" => t.queue # <<>>,
         program # "queued" =>
           /\ t.rd = "no" \/ t.wr = "no"
           /\ n = "served" => t.held
  PROVE  IInv' /\ E!EchoNext
<1>1. /\ Types /\ Peers /\ OthersOff
      /\ program' = program /\ up' = up /\ peer' = peer /\ asked' = asked
      /\ sent' = sent /\ down' = down /\ fses' = fses /\ inbox' = inbox
  BY DEF IInv, framed
<1>2. /\ ses' \in [Client -> Session] /\ ses'[c] = t
      /\ consumed' \in [Client -> Nat] /\ consumed'[c] = x
      /\ conn' \in [Client -> {"none", "backlog", "served", "closed"}]
      /\ conn'[c] = n
      /\ \A d \in Client \ {c} : ses'[d] = ses[d] /\ consumed'[d] = consumed[d]
                                 /\ conn'[d] = conn[d]
  BY <1>1 DEF Types
<1>3. Types'
  BY <1>1, <1>2 DEF Types
<1>4. OthersStay(c)
  BY <1>1, <1>2 DEF OthersStay
<1>5. peer[c] # "new"
  BY <1>1 DEF Peers
<1>6. RawHeld(c)'
  BY <1>1, <1>2 DEF RawHeld
<1>7. RawOrdered(c)'
  <2>1. CASE c \in over'
    BY <2>1 DEF RawOrdered
  <2>2. CASE c \notin over'
    <3>1. c \notin over /\ n = "served" /\ ~t.spoilt
      BY <1>1, <1>2, <2>2, OverIs
    <3> QED
      BY <1>1, <1>2, <3>1 DEF RawOrdered
  <2> QED
    BY <2>1, <2>2
<1>8. Shown(c)
  <2>1. c \in over => c \in over'
    BY <1>1, <1>2, OverIs
  <2>2. CASE c \in over'
    BY <2>2 DEF Shown
  <2>3. CASE c \notin over'
    BY <1>2, <2>1, <2>3, OverIs DEF Shown
  <2> QED
    BY <2>1, <2>2, <2>3
<1> QED
  BY <1>1, <1>3, <1>4, <1>5, <1>6, <1>7, <1>8, RawLocal

\* What is known of a client before a step of the server.
LEMMA RawFacts ==
  ASSUME IInv, program \in RawPrograms, up, NEW c \in Client
  PROVE  /\ Types /\ RawHeld(c) /\ RawOrdered(c)
         /\ ses[c] \in Session /\ ses[c].data \in Seq(Nat)
         /\ Len(ses[c].data) \in Nat /\ ses[c].len \in Nat /\ ses[c].at \in Nat
         /\ Len(back[c]) \in Nat /\ consumed[c] \in Nat /\ asked[c] \in Nat
         /\ ses[c].rd # "no" \/ ses[c].wr # "no" => conn[c] = "served"
         /\ conn[c] = "served" => conn = [conn EXCEPT ![c] = "served"]
         /\ conn[c] # "none" /\ c \notin over => peer[c] = "open"
         /\ ~ses[c].spoilt /\ conn[c] = "served" /\ c \in over =>
              peer[c] = "left"
<1>1. /\ Types /\ RawHeld(c) /\ RawOrdered(c) /\ Peers /\ OthersOff
  BY DEF IInv
<1>2. /\ ses[c] \in Session /\ back[c] \in Seq(Nat)
      /\ consumed[c] \in Nat /\ asked[c] \in Nat
      /\ conn \in [Client -> {"none", "backlog", "served", "closed"}]
  BY <1>1 DEF Types
<1>3. /\ ses[c].data \in Seq(Nat) /\ ses[c].len \in Nat /\ ses[c].at \in Nat
  BY <1>2 DEF Session, Bytes
<1>4. Len(ses[c].data) \in Nat /\ Len(back[c]) \in Nat
  BY <1>2, <1>3, LenProperties
<1>5. ses[c].rd # "no" \/ ses[c].wr # "no" => conn[c] = "served"
  BY <1>1 DEF RawHeld
<1>6. conn[c] = "served" => conn = [conn EXCEPT ![c] = "served"]
  BY <1>2
<1>7. peer[c] \in {"new", "open", "left"}
  BY <1>1 DEF Types
<1>8. conn[c] # "none" /\ c \notin over => peer[c] = "open"
  BY <1>1, <1>7, OverIs DEF Peers
<1>9. ~Spent(fses[c])
  <2>1. program \notin FramedPrograms
    BY DEF RawPrograms, FramedPrograms
  <2> QED
    BY <1>1, <2>1, NotSpent DEF OthersOff, FramedOff
<1>10. ~ses[c].spoilt /\ conn[c] = "served" /\ c \in over => peer[c] = "left"
  BY <1>9, OverIs
<1> QED
  BY <1>1, <1>2, <1>3, <1>4, <1>5, <1>6, <1>8, <1>10

LEMMA RawArrive ==
  ASSUME IInv, program \in RawPrograms, up, NEW c \in Client,
         NEW n \in 1 .. BufLen, Arrive(c, n), UNCHANGED <<framed, vars>>
  PROVE  IInv' /\ E!EchoNext
<1> DEFINE s == ses[c]
           x == consumed[c]
           y == x + n
           d == [i \in 1 .. n |-> x + i]
           t == [s EXCEPT !.rd = "done", !.data = d]
<1>1. /\ Types /\ RawHeld(c) /\ RawOrdered(c)
      /\ s \in Session /\ x \in Nat /\ asked[c] \in Nat /\ n \in Nat \ {0}
      /\ conn[c] = "served" /\ conn = [conn EXCEPT ![c] = "served"]
      /\ s.rd = "begun" /\ n <= asked[c] - x /\ Len(back[c]) \in Nat
  BY RawFacts, RawAssumption DEF Arrive
<1>2. d \in Seq(Nat) /\ Len(d) = n
  <2>1. \A i \in 1 .. n : x + i \in Nat
    BY <1>1
  <2>2. n \in Nat
    BY <1>1
  <2> QED
    BY <2>1, <2>2, IsASeq
<1>3. /\ t \in Session /\ t.rd = "done" /\ t.data = d /\ t.wr = s.wr
      /\ t.queue = s.queue /\ t.src = s.src /\ t.len = s.len /\ t.at = s.at
      /\ t.held = s.held /\ t.spoilt = s.spoilt
  BY <1>1, <1>2 DEF Session, Operation, Bytes
<1>4. /\ ses' = [ses EXCEPT ![c] = t] /\ consumed' = [consumed EXCEPT ![c] = y]
      /\ UNCHANGED network
  BY DEF Arrive
<1>5. Follow(d, x) /\ y - Len(d) = x /\ y \in Nat /\ y <= asked[c]
  BY <1>1, <1>2 DEF Follow
<1>6. /\ back' = back /\ conn' = [conn EXCEPT ![c] = "served"]
      /\ listening' = listening /\ listening' \in BOOLEAN
      /\ back' \in [Client -> Seq(Nat)]
      /\ UNCHANGED <<program, up, peer, asked, framed, vars>>
      /\ \A e \in Client \ {c} : back'[e] = back[e]
      /\ E!Nothing(c)
  BY <1>1, <1>4 DEF network, E!Nothing, Types
<1> HIDE DEF t, d, y
<1>7. c \notin over =>
        /\ t.wr # "failed"
        /\ t.rd = "done" => Len(t.data) > 0 /\ Follow(t.data, y - Len(t.data))
        /\ program # "queued" => InTurns(t, Len(back'[c]), y)
        /\ program = "queued" => InQueue(t, Len(back'[c]), y)
  <2> SUFFICES ASSUME c \notin over
               PROVE  /\ t.wr # "failed"
                      /\ Len(t.data) > 0 /\ Follow(t.data, y - Len(t.data))
                      /\ program # "queued" => InTurns(t, Len(back[c]), y)
                      /\ program = "queued" => InQueue(t, Len(back[c]), y)
    BY <1>6
  <2> DEFINE b == Len(back[c])
  <2>1. /\ s.wr # "failed"
        /\ program # "queued" => s.wr = "no" /\ InTurns(s, b, x)
        /\ program = "queued" => InQueue(s, b, x)
    BY <1>1 DEF RawOrdered, RawHeld
  <2>2. Len(t.data) > 0 /\ y - Len(t.data) = x /\ Follow(t.data, x)
    BY <1>1, <1>2, <1>3, <1>5
  <2> HIDE DEF s, x, b
  <2>3. program # "queued" => InTurns(t, b, y)
    BY <1>1, <1>3, <2>1, <2>2 DEF InTurns
  <2>4. program = "queued" => InQueue(t, b, y)
    BY <1>1, <1>3, <2>1, <2>2 DEF InQueue
  <2> QED
    BY <1>3, <2>1, <2>2, <2>3, <2>4 DEF b
<1>8. /\ s.spoilt => t.spoilt
      /\ program = "queued" => /\ t.held => t.rd # "no"
                               /\ t.wr # "no" => t.queue # <<>>
      /\ program # "queued" => t.wr = "no" /\ t.held
      /\ t.rd # "no" /\ t.rd # "failed"
  BY <1>1, <1>3 DEF RawHeld
<1> QED
  BY <1>1, <1>3, <1>4, <1>5, <1>6, <1>7, <1>8, RawServes

\* A step of the server after which the connection is still served.
LEMMA RawGoesOn ==
  ASSUME IInv, program \in RawPrograms, up, NEW c \in Client,
         NEW t \in Session, ses' = [ses EXCEPT ![c] = t],
         UNCHANGED <<program, up, listening, peer, conn, asked, consumed,
                     framed, vars>>,
         conn[c] = "served", t.rd # "no" \/ t.wr # "no",
         back' \in [Client -> Seq(Nat)],
         \A d \in Client \ {c} : back'[d] = back[d],
         c \notin over /\ ~t.spoilt =>
           /\ E!Answer(c) \/ E!Nothing(c)
           /\ t.rd # "failed" /\ t.wr # "failed"
           /\ t.rd = "done" => Len(t.data) > 0
                               /\ Follow(t.data, consumed[c] - Len(t.data))
           /\ program # "queued" => InTurns(t, Len(back'[c]), consumed[c])
           /\ program = "queued" => InQueue(t, Len(back'[c]), consumed[c]),
         ses[c].spoilt => t.spoilt,
         program = "queued" => /\ t.held => t.rd # "no"
                               /\ t.wr # "no" => t.queue # <<>>,
         program # "queued" => (t.rd = "no" \/ t.wr = "no") /\ t.held
  PROVE  IInv' /\ E!EchoNext
<1>1. /\ Types /\ RawOrdered(c) /\ consumed[c] \in Nat
      /\ conn = [conn EXCEPT ![c] = "served"]
  BY RawFacts
<1>2. /\ listening' \in BOOLEAN /\ consumed' = [consumed EXCEPT ![c] = consumed[c]]
      /\ conn' = [conn EXCEPT ![c] = "served"]
      /\ UNCHANGED <<program, up, peer, asked, framed, vars>>
  BY <1>1 DEF Types
<1>3. c \notin over => consumed[c] <= asked[c]
  BY <1>1 DEF RawOrdered
<1> DEFINE x == consumed[c]
<1> HIDE DEF x
<1> QED
  BY <1>1, <1>2, <1>3, RawServes DEF x

\* A step of the server that ends the session.
LEMMA RawEnds ==
  ASSUME IInv, program \in RawPrograms, up, NEW c \in Client,
         NEW t \in Session, ses' = [ses EXCEPT ![c] = t],
         UNCHANGED <<program, up, listening, peer, back, asked, consumed,
                     framed, vars>>,
         conn[c] = "served", conn' = [conn EXCEPT ![c] = "closed"],
         t.rd = "no", t.wr = "no", ~t.held
  PROVE  IInv' /\ E!EchoNext
<1>1. /\ Types /\ consumed[c] \in Nat
  BY RawFacts
<1>2. /\ listening' \in BOOLEAN /\ consumed' = [consumed EXCEPT ![c] = consumed[c]]
      /\ back' \in [Client -> Seq(Nat)]
      /\ \A d \in Client \ {c} : back'[d] = back[d]
      /\ UNCHANGED <<program, up, peer, asked, framed, vars>>
  BY <1>1 DEF Types
<1> DEFINE x == consumed[c]
<1> HIDE DEF x
<1> QED
  BY <1>1, <1>2, RawServes DEF x

LEMMA RawFailure ==
  ASSUME IInv, program \in RawPrograms, up, NEW c \in Client,
         ReadFails(c) \/ WriteFails(c), UNCHANGED <<framed, vars>>
  PROVE  IInv' /\ E!EchoNext
<1> DEFINE s == ses[c]
<1>1. /\ Types /\ RawHeld(c) /\ s \in Session
      /\ s.rd # "no" \/ s.wr # "no" => conn[c] = "served"
  BY RawFacts
<1>2. /\ UNCHANGED <<program, up, listening, peer, conn, asked, consumed,
                     framed, vars>>
      /\ back' \in [Client -> Seq(Nat)]
      /\ \A d \in Client \ {c} : back'[d] = back[d]
      /\ c \in over
  BY <1>1, OverIs DEF ReadFails, WriteFails, network, Types
<1>3. CASE ReadFails(c)
  <2> DEFINE t == [s EXCEPT !.rd = "failed"]
  <2>1. ses' = [ses EXCEPT ![c] = t] /\ s.rd = "begun" /\ conn[c] = "served"
    BY <1>1, <1>3 DEF ReadFails
  <2>2. /\ t \in Session /\ t.rd = "failed" /\ t.wr = s.wr /\ t.held = s.held
        /\ t.spoilt = s.spoilt /\ t.queue = s.queue
    BY <1>1 DEF Session, Operation
  <2>3. /\ program # "queued" => t.wr = "no" /\ t.held
        /\ program = "queued" => (t.wr # "no" => t.queue # <<>>)
    BY <1>1, <2>1, <2>2 DEF RawHeld
  <2> HIDE DEF t
  <2> QED
    BY <1>2, <2>1, <2>2, <2>3, RawGoesOn
<1>4. CASE WriteFails(c)
  <2> DEFINE t == [s EXCEPT !.wr = "failed"]
  <2>1. ses' = [ses EXCEPT ![c] = t] /\ s.wr = "begun" /\ conn[c] = "served"
    BY <1>1, <1>4 DEF WriteFails
  <2>2. /\ t \in Session /\ t.wr = "failed" /\ t.rd = s.rd /\ t.held = s.held
        /\ t.spoilt = s.spoilt /\ t.queue = s.queue
    BY <1>1 DEF Session, Operation
  <2>3. /\ program # "queued" => t.rd = "no" /\ t.held
        /\ program = "queued" => /\ t.held => t.rd # "no"
                                 /\ t.wr # "no" => t.queue # <<>>
    BY <1>1, <2>1, <2>2 DEF RawHeld
  <2> HIDE DEF t
  <2> QED
    BY <1>2, <2>1, <2>2, <2>3, RawGoesOn
<1> QED
  BY <1>3, <1>4

\* What the server sends reaches the client, unless that has left.
LEMMA RawDelivers ==
  ASSUME IInv, program \in RawPrograms, up, NEW c \in Client,
         conn[c] = "served", asked' = asked, NEW bytes, Deliver(c, bytes),
         c \notin over => /\ bytes \in Seq(Nat)
                          /\ Follow(bytes, Len(back[c]))
                          /\ Len(back[c]) + Len(bytes) <= asked[c]
  PROVE  /\ back' \in [Client -> Seq(Nat)]
         /\ \A d \in Client \ {c} : back'[d] = back[d]
         /\ c \notin over =>
              /\ Len(back'[c]) = Len(back[c]) + Len(bytes)
              /\ E!Answer(c) \/ E!Nothing(c)
<1>1. /\ Types
      /\ c \notin over => peer[c] = "open"
      /\ ~ses[c].spoilt /\ c \in over => peer[c] = "left"
  BY RawFacts
<1>2. CASE c \in over
  <2>1. back' = back
    BY <1>1, <1>2 DEF Deliver, Receive
  <2> QED
    BY <1>1, <1>2, <2>1 DEF Types
<1>3. CASE c \notin over
  <2>1. Receive(c, bytes)
    BY <1>3, OverIs DEF Deliver
  <2> QED
    BY <1>1, <1>3, <2>1, Received
<1> QED
  BY <1>2, <1>3

LEMMA RawTransmit ==
  ASSUME IInv, program \in RawPrograms, up, NEW c \in Client,
         Transmit(c), UNCHANGED <<framed, vars>>
  PROVE  IInv' /\ E!EchoNext
<1> DEFINE s == ses[c]
           b == Len(back[c])
           x == consumed[c]
           l == s.len
           a == s.at
           n == l - a
           t == [s EXCEPT !.wr = "done", !.at = s.len]
<1>1. /\ Types /\ RawHeld(c) /\ RawOrdered(c)
      /\ s \in Session /\ x \in Nat /\ b \in Nat /\ asked[c] \in Nat
      /\ s.data \in Seq(Nat) /\ Len(s.data) \in Nat
      /\ l \in Nat /\ a \in Nat
      /\ conn[c] = "served" /\ s.wr = "begun"
  BY RawFacts DEF Transmit
<1>2. /\ t \in Session /\ t.wr = "done" /\ t.at = s.len /\ t.rd = s.rd
      /\ t.data = s.data /\ t.len = s.len /\ t.queue = s.queue
      /\ t.held = s.held /\ t.spoilt = s.spoilt
  BY <1>1 DEF Session, Operation
<1>3. /\ UNCHANGED <<program, up, listening, peer, conn, asked, consumed,
                     framed, vars>>
      /\ ses' = [ses EXCEPT ![c] = t] /\ Deliver(c, Rest(s))
  BY DEF Transmit
<1>4. ASSUME c \notin over
      PROVE  /\ Rest(s) \in Seq(Nat) /\ Len(Rest(s)) = n
             /\ Follow(Rest(s), b)
             /\ n \in Nat /\ b + n <= asked[c]
             /\ program # "queued" => b + n = x
  <2>1. x <= asked[c]
    BY <1>1, <1>4 DEF RawOrdered
  <2>2. CASE program # "queued"
    <3>1. /\ s.src = "data" /\ l = Len(s.data) /\ a <= l
          /\ b = x - n /\ Follow(s.data, x - l)
      BY <1>1, <1>4, <2>2 DEF RawOrdered, InTurns
    <3>2. n \in Nat /\ b + n = x
      <4> HIDE DEF b, x, l, a
      <4> QED
        BY <1>1, <3>1
    <3>3. Rest(s) = [i \in 1 .. n |-> b + i]
      <4>1. ASSUME NEW i \in 1 .. n
            PROVE  (IF s.src = "node" THEN Head(s.queue)[s.at + i]
                    ELSE IF s.at + i <= Len(s.data) THEN s.data[s.at + i]
                    ELSE 0) = b + i
        <5>1. a + i \in 1 .. l /\ x - l + (a + i) = b + i
          <6>1. b = x - n /\ n = l - a
            BY <3>1
          <6> HIDE DEF b, x, l, a, n
          <6> QED
            BY <1>1, <6>1
        <5>2. s.data[a + i] = x - l + (a + i)
          <6> HIDE DEF b, x, l, a, n
          <6>1. a + i \in 1 .. Len(s.data)
            BY <3>1, <5>1
          <6>2. s.data[a + i] = (x - l) + (a + i)
            BY <3>1, <6>1 DEF Follow
          <6> QED
            BY <6>2
        <5>3. s.at + i <= Len(s.data) /\ s.src # "node"
          BY <3>1, <5>1
        <5> QED
          BY <5>1, <5>2, <5>3
      <4> QED
        BY <4>1 DEF Rest
    <3> HIDE DEF n, b
    <3>4. Rest(s) \in Seq(Nat) /\ Len(Rest(s)) = n
      <4>1. \A i \in 1 .. n : b + i \in Nat
        BY <1>1
      <4> QED
        BY <3>2, <3>3, <4>1, IsASeq
    <3>5. Follow(Rest(s), b)
      BY <3>3, <3>4 DEF Follow
    <3> QED
      BY <2>1, <3>2, <3>4, <3>5
  <2>3. CASE program = "queued"
    <3> DEFINE q == s.queue
    <3>1. /\ InQueue(s, b, x)
          /\ s.rd = "done" => Len(s.data) > 0
      BY <1>1, <1>4, <2>3 DEF RawOrdered
    <3>2. /\ q # <<>> /\ l = Len(q[1]) /\ a <= l
          /\ s.src = "node" /\ q[1][1] + a = b + 1
      BY <1>1, <3>1 DEF InQueue
    <3>3. q \in Seq(MsgNode) /\ Len(q) \in Nat \ {0} /\ q[1] \in Seq(Nat)
      <4>1. q \in Seq(MsgNode)
        BY <1>1 DEF Session
      <4>2. Len(q) \in Nat \ {0}
        BY <3>2, <4>1, EmptySeq
      <4>3. q[1] \in MsgNode
        BY <4>1, <4>2, ElementOfSeq
      <4> QED
        BY <4>1, <4>2, <4>3 DEF MsgNode, Bytes
    <3>4. /\ Head(q) = q[1] /\ Len(q[1]) > 0 /\ Follow(q[1], q[1][1] - 1)
          /\ q[1][1] \in Nat
      <4>1. Len(q[1]) > 0 /\ Follow(q[1], q[1][1] - 1)
        BY <3>1, <3>2, <3>3 DEF InQueue
      <4>2. 1 \in 1 .. Len(q[1])
        BY <3>3, <4>1, LenProperties
      <4>3. q[1][1] \in Nat
        BY <3>3, <4>2, ElementOfSeq
      <4> QED
        BY <3>3, <4>1, <4>3
    <3>5. n \in Nat /\ b + n = q[1][1] + Len(q[1]) - 1
      <4> DEFINE e == q[1][1]
      <4>1. /\ e + a = b + 1 /\ e \in Nat /\ n = l - a /\ a <= l
            /\ b \in Nat /\ l \in Nat /\ a \in Nat
        BY <1>1, <3>2, <3>4
      <4> HIDE DEF b, l, a, e, n
      <4>2. n \in Nat /\ b + n = e + l - 1
        BY <4>1
      <4> QED
        BY <3>2, <4>2 DEF e
    <3>6. Rest(s) = [i \in 1 .. n |-> b + i]
      <4>1. ASSUME NEW i \in 1 .. n
            PROVE  (IF s.src = "node" THEN Head(s.queue)[s.at + i]
                    ELSE IF s.at + i <= Len(s.data) THEN s.data[s.at + i]
                    ELSE 0) = b + i
        <5>1. a + i \in 1 .. Len(q[1]) /\ q[1][1] - 1 + (a + i) = b + i
          <6> DEFINE e == q[1][1]
          <6>1. e + a = b + 1 /\ e \in Nat /\ n = l - a
            BY <3>2, <3>4
          <6> HIDE DEF b, l, a, e, n
          <6>2. a + i \in 1 .. l /\ e - 1 + (a + i) = b + i
            BY <1>1, <3>2, <6>1
          <6> QED
            BY <3>2, <6>2 DEF e
        <5>2. q[1][a + i] = q[1][1] - 1 + (a + i)
          BY <3>4, <5>1 DEF Follow
        <5> QED
          BY <3>2, <3>4, <5>1, <5>2
      <4> QED
        BY <4>1 DEF Rest
    <3> HIDE DEF n, b
    <3>7. b + n <= x
      <4> DEFINE y == IF s.rd = "done" THEN x - Len(s.data) ELSE x
                 e == q[1][1]
                 m == Len(q[1])
      <4>1. e + m <= y + 1
        BY <3>1, <3>2, <3>3 DEF InQueue
      <4>2. y <= x /\ y \in Int
        BY <1>1
      <4>3. e \in Nat /\ m \in Nat
        BY <3>3, <3>4, LenProperties
      <4> HIDE DEF y, e, m, x
      <4>4. b + n = e + m - 1
        BY <3>5 DEF e, m
      <4> QED
        BY <1>1, <4>1, <4>2, <4>3, <4>4
    <3>8. Rest(s) \in Seq(Nat) /\ Len(Rest(s)) = n
      <4>1. \A i \in 1 .. n : b + i \in Nat
        BY <1>1
      <4> QED
        BY <3>5, <3>6, <4>1, IsASeq
    <3>9. Follow(Rest(s), b)
      BY <3>6, <3>8 DEF Follow
    <3> QED
      BY <1>1, <2>1, <2>3, <3>5, <3>7, <3>8, <3>9
  <2> QED
    BY <2>2, <2>3

<1>5. /\ back' \in [Client -> Seq(Nat)]
      /\ \A d \in Client \ {c} : back'[d] = back[d]
      /\ c \notin over => /\ Len(back'[c]) = b + n
                          /\ E!Answer(c) \/ E!Nothing(c)
  <2> DEFINE bytes == Rest(s)
  <2>1. c \notin over => /\ bytes \in Seq(Nat) /\ Follow(bytes, b)
                         /\ Len(bytes) = n /\ b + Len(bytes) <= asked[c]
    BY <1>4
  <2>2. asked' = asked /\ Deliver(c, bytes)
    BY <1>3
  <2> HIDE DEF bytes
  <2> QED
    BY <1>1, <2>1, <2>2, RawDelivers
<1> HIDE DEF t
<1>6. ASSUME c \notin over
      PROVE  /\ t.rd # "failed"
             /\ t.rd = "done" => Len(t.data) > 0
                                 /\ Follow(t.data, x - Len(t.data))
             /\ program # "queued" => InTurns(t, b + n, x)
             /\ program = "queued" => InQueue(t, b + n, x)
  <2>0. l = a + n /\ n \in Nat
    <3>1. n \in Nat
      BY <1>4, <1>6
    <3> HIDE DEF l, a
    <3> QED
      BY <1>1, <3>1
  <2>1. /\ s.rd # "failed" /\ n \in Nat /\ l = a + n
        /\ s.rd = "done" => Len(s.data) > 0 /\ Follow(s.data, x - Len(s.data))
        /\ program # "queued" => b + n = x /\ s.rd = "no"
        /\ program = "queued" => InQueue(s, b, x)
    BY <1>1, <1>2, <1>4, <1>6, <2>0 DEF RawOrdered, RawHeld
  <2> HIDE DEF x, b, n
  <2>2. program # "queued" => InTurns(t, b + n, x)
    BY <1>1, <1>2, <2>1 DEF InTurns
  <2>3. ASSUME program = "queued"
        PROVE  InQueue(t, b + n, x)
    <3>1. InQueue(t, b + n, x)
      <4> DEFINE q == s.queue
                 y == IF s.rd = "done" THEN x - Len(s.data) ELSE x
      <4>1. q # <<>> =>
          /\ l = Len(q[1]) /\ a <= l
          /\ \A i \in 1 .. Len(q) :
               /\ Len(q[i]) > 0 /\ Follow(q[i], q[i][1] - 1)
               /\ q[i][1] + Len(q[i]) <= y + 1
          /\ \A i \in 1 .. Len(q) - 1 : q[i + 1][1] = q[i][1] + Len(q[i])
          /\ q[Len(q)][1] + Len(q[Len(q)]) = y + 1
          /\ q[1][1] + a = b + 1
        BY <2>1, <2>3 DEF InQueue
      <4>2. q # <<>>
        BY <1>1, <2>1, <2>3 DEF InQueue
      <4>3. q[1][1] \in Nat
        <5>1. s.queue \in Seq(MsgNode) /\ Len(q) \in Nat \ {0}
          BY <1>1, <4>2, EmptySeq DEF Session
        <5>2. q[1] \in Seq(Nat)
          BY <5>1, ElementOfSeq DEF MsgNode, Bytes
        <5>3. 1 \in 1 .. Len(q[1])
          BY <4>1, <4>2, <5>1, <5>2, LenProperties
        <5> QED
          BY <5>2, <5>3, ElementOfSeq
      <4>4. q[1][1] + t.at = (b + n) + 1
        <5> DEFINE e == q[1][1]
        <5>1. e + a = b + 1 /\ e \in Nat
          BY <4>1, <4>2, <4>3
        <5> HIDE DEF e, l, a
        <5>2. e + l = (b + n) + 1
          BY <1>1, <2>1, <5>1
        <5>3. t.at = l
          BY <1>2 DEF l
        <5> QED
          BY <5>2, <5>3 DEF e
      <4>5. t.queue = q /\ t.rd = s.rd /\ t.data = s.data /\ t.wr = "done"
            /\ t.at = t.len /\ t.len = s.len /\ t.at <= t.len
        BY <1>1, <1>2
      <4> HIDE DEF q
      <4> QED
        BY <4>1, <4>2, <4>4, <4>5 DEF InQueue
    <3> QED
      BY <3>1
  <2> QED
    BY <1>2, <2>1, <2>2, <2>3
<1>7. /\ s.spoilt => t.spoilt
      /\ program = "queued" => /\ t.held => t.rd # "no"
                               /\ t.wr # "no" => t.queue # <<>>
      /\ program # "queued" => t.rd = "no" /\ t.held
      /\ t.wr # "no" /\ t.wr # "failed"
  BY <1>1, <1>2 DEF RawHeld
<1> HIDE DEF n
<1> QED
  BY <1>1, <1>2, <1>3, <1>5, <1>6, <1>7, RawGoesOn

\* The first k bytes of what is to be sent reach the client at once.
LEMMA PartDelivered ==
  ASSUME IInv, program \in RawPrograms, up, NEW c \in Client,
         conn[c] = "served", asked' = asked, NEW bytes \in Seq(Nat),
         NEW k \in 0 .. Len(bytes), Deliver(c, SubSeq(bytes, 1, k)),
         c \notin over => /\ Follow(bytes, Len(back[c]))
                          /\ Len(back[c]) + Len(bytes) <= asked[c]
  PROVE  /\ back' \in [Client -> Seq(Nat)]
         /\ \A d \in Client \ {c} : back'[d] = back[d]
         /\ c \notin over =>
              /\ Len(back'[c]) = Len(back[c]) + k
              /\ E!Answer(c) \/ E!Nothing(c)
<1> DEFINE part == SubSeq(bytes, 1, k)
           b == Len(back[c])
           l == Len(bytes)
<1>1. l \in Nat /\ k \in Nat /\ k <= l
  BY LenProperties
<1>2. b \in Nat /\ asked[c] \in Nat
  BY RawFacts
<1>3. part \in Seq(Nat) /\ Len(part) = k /\ \A i \in 1 .. k : part[i] = bytes[i]
  <2> DEFINE first == 1
  <2>1. first \in 1 .. l + 1 /\ k \in first - 1 .. l
    BY <1>1
  <2>2. \A i \in 1 .. k : first + i - 1 = i
    BY <1>1
  <2>3. k - first + 1 = k
    BY <1>1
  <2> HIDE DEF first
  <2>4. /\ SubSeq(bytes, first, k) \in Seq(Nat)
        /\ Len(SubSeq(bytes, first, k)) = IF first <= k THEN k - first + 1 ELSE 0
        /\ \A i \in 1 .. k - first + 1 :
             SubSeq(bytes, first, k)[i] = bytes[first + i - 1]
    BY <2>1, SubSeqProperties
  <2>5. first = 1
    BY DEF first
  <2> QED
    BY <1>1, <2>2, <2>3, <2>4, <2>5
<1> HIDE DEF part
<1>4. c \notin over => /\ Follow(part, b) /\ b + Len(part) <= asked[c]
  <2> SUFFICES ASSUME c \notin over
               PROVE  Follow(part, b) /\ b + Len(part) <= asked[c]
    OBVIOUS
  <2>1. Follow(bytes, b) /\ b + l <= asked[c]
    OBVIOUS
  <2>2. Follow(part, b)
    <3>1. \A i \in 1 .. l : bytes[i] = b + i
      BY <2>1 DEF Follow
    <3> HIDE DEF b, l
    <3>2. \A i \in 1 .. k : i \in 1 .. l
      BY <1>1
    <3>3. \A i \in 1 .. Len(part) : part[i] = b + i
      BY <1>3, <3>1, <3>2
    <3> QED
      BY <3>3 DEF Follow
  <2> HIDE DEF b, l
  <2>3. b + k <= asked[c]
    BY <1>1, <1>2, <2>1
  <2> QED
    BY <1>3, <2>2, <2>3
<1>5. Deliver(c, part)
  BY DEF part
<1> QED
  BY <1>3, <1>4, <1>5, RawDelivers

LEMMA WritingIs ==
  ASSUME NEW s \in Session, NEW src \in {"data", "node"},
         NEW bytes \in Seq(Nat), NEW k \in 0 .. Len(bytes)
  PROVE  /\ Writing(s, src, bytes, k) \in Session
         /\ Writing(s, src, bytes, k).rd = s.rd
         /\ Writing(s, src, bytes, k).data = s.data
         /\ Writing(s, src, bytes, k).queue = s.queue
         /\ Writing(s, src, bytes, k).held = s.held
         /\ Writing(s, src, bytes, k).spoilt = s.spoilt
         /\ Writing(s, src, bytes, k).src = src
         /\ Writing(s, src, bytes, k).len = Len(bytes)
         /\ Writing(s, src, bytes, k).at = k
         /\ k = Len(bytes) => Writing(s, src, bytes, k).wr = "done"
         /\ k # Len(bytes) => Writing(s, src, bytes, k).wr = "begun"
<1> DEFINE l == Len(bytes)
           w == IF k = l THEN "done" ELSE "begun"
           t == [s EXCEPT !.src = src, !.len = l, !.at = k, !.wr = w]
<1>1. l \in Nat /\ k \in Nat
  BY LenProperties
<1>2. Writing(s, src, bytes, k) = t
  BY DEF Writing
<1>3. w \in Operation /\ (k = l => w = "done") /\ (k # l => w = "begun")
  BY DEF Operation
<1> HIDE DEF l, w
<1>4. /\ t \in Session /\ t.rd = s.rd /\ t.data = s.data /\ t.queue = s.queue
      /\ t.held = s.held /\ t.spoilt = s.spoilt /\ t.src = src /\ t.len = l
      /\ t.at = k /\ t.wr = w
  BY <1>1, <1>3 DEF Session
<1> QED
  BY <1>2, <1>3, <1>4 DEF l

\* What has been read is written back.
LEMMA RawEchoRead ==
  ASSUME IInv, program \in RawPrograms, program # "queued", up,
         NEW c \in Client, EchoRead(c), UNCHANGED <<framed, vars>>
  PROVE  IInv' /\ E!EchoNext
<1> DEFINE s == ses[c]
           b == Len(back[c])
           x == consumed[c]
           l == Len(s.data)
           T(k) == Writing([s EXCEPT !.rd = "no"], "data", s.data, k)
<1>1. /\ Types /\ RawHeld(c) /\ RawOrdered(c)
      /\ s \in Session /\ x \in Nat /\ b \in Nat /\ asked[c] \in Nat
      /\ s.data \in Seq(Nat) /\ l \in Nat
      /\ conn[c] = "served" /\ s.rd = "done"
  BY RawFacts DEF EchoRead
<1>2. PICK k \in 0 .. l : /\ Deliver(c, SubSeq(s.data, 1, k))
                          /\ ses' = [ses EXCEPT ![c] = T(k)]
  BY DEF EchoRead, Write
<1> DEFINE t == T(k)
<1>3. /\ t \in Session /\ t.rd = "no" /\ t.data = s.data /\ t.src = "data"
      /\ t.len = l /\ t.at = k /\ t.held = s.held /\ t.spoilt = s.spoilt
      /\ (k = l => t.wr = "done") /\ (k # l => t.wr = "begun")
      /\ k \in Nat /\ k <= l
  <2> DEFINE r == [s EXCEPT !.rd = "no"]
  <2>1. /\ r \in Session /\ r.rd = "no" /\ r.data = s.data
        /\ r.held = s.held /\ r.spoilt = s.spoilt
    BY <1>1 DEF Session, Operation
  <2>2. k \in Nat /\ k <= l
    BY <1>1
  <2>3. t = Writing(r, "data", s.data, k)
    OBVIOUS
  <2> DEFINE u == Writing(r, "data", s.data, k)
  <2> HIDE DEF r
  <2>4. /\ u \in Session /\ u.rd = r.rd /\ u.data = r.data /\ u.src = "data"
        /\ u.len = l /\ u.at = k /\ u.held = r.held /\ u.spoilt = r.spoilt
        /\ (k = l => u.wr = "done") /\ (k # l => u.wr = "begun")
    <3> DEFINE d == s.data
               src == "data"
    <3>1. d \in Seq(Nat) /\ k \in 0 .. Len(d) /\ r \in Session
          /\ src \in {"data", "node"} /\ Len(d) = l /\ src = "data"
      BY <1>1, <2>1
    <3>2. u = Writing(r, src, d, k)
      OBVIOUS
    <3> HIDE DEF d, src, u, l
    <3>3. /\ u \in Session /\ u.rd = r.rd /\ u.data = r.data /\ u.src = src
          /\ u.len = Len(d) /\ u.at = k /\ u.held = r.held
          /\ u.spoilt = r.spoilt
          /\ (k = Len(d) => u.wr = "done") /\ (k # Len(d) => u.wr = "begun")
      <4>1. u \in Session
        BY <3>1, <3>2, WritingIs
      <4>2. u.rd = r.rd /\ u.data = r.data /\ u.held = r.held
            /\ u.spoilt = r.spoilt
        BY <3>1, <3>2, WritingIs
      <4>3. u.src = src /\ u.len = Len(d) /\ u.at = k
        BY <3>1, <3>2, WritingIs
      <4>4. k = Len(d) => u.wr = "done"
        BY <3>1, <3>2, WritingIs
      <4>5. k # Len(d) => u.wr = "begun"
        BY <3>1, <3>2, WritingIs
      <4> QED
        BY <4>1, <4>2, <4>3, <4>4, <4>5
    <3> QED
      BY <3>1, <3>3
  <2> HIDE DEF t, T, u
  <2>5. t = u
    BY <2>3 DEF u
  <2> QED
    BY <2>1, <2>2, <2>4, <2>5
<1>4. c \notin over =>
        b = x - l /\ Follow(s.data, x - l) /\ x <= asked[c]
  BY <1>1 DEF RawOrdered, InTurns
<1>5. c \notin over => Follow(s.data, b) /\ b + l <= asked[c]
  <2> HIDE DEF b, x, l
  <2> QED
    BY <1>1, <1>4
<1>6. /\ UNCHANGED <<program, up, listening, peer, conn, asked, consumed,
                     framed, vars>>
      /\ ses' = [ses EXCEPT ![c] = t]
  BY <1>2 DEF EchoRead
<1>7. /\ back' \in [Client -> Seq(Nat)]
      /\ \A d \in Client \ {c} : back'[d] = back[d]
      /\ c \notin over => /\ Len(back'[c]) = b + k
                          /\ E!Answer(c) \/ E!Nothing(c)
  BY <1>1, <1>2, <1>5, <1>6, PartDelivered
<1> HIDE DEF t, T
<1>8. c \notin over => InTurns(t, b + k, x)
  <2> HIDE DEF b, x, l
  <2>1. t.wr # "no" /\ (t.wr = "done" \/ t.wr = "begun")
    BY <1>3
  <2>2. t.wr = "done" => k = l
    BY <1>3
  <2>3. Len(t.data) = l
    BY <1>3 DEF l
  <2>4. c \notin over => b + k = x - (l - k) /\ (k = l => b + k = x)
    BY <1>1, <1>3, <1>4
  <2> QED
    BY <1>3, <1>4, <2>1, <2>2, <2>3, <2>4 DEF InTurns
<1>9. t.held
  BY <1>1, <1>3 DEF RawHeld
<1> QED
  BY <1>1, <1>3, <1>6, <1>7, <1>8, <1>9, RawGoesOn

\* The write is complete: the next read starts.
LEMMA RawEchoWritten ==
  ASSUME IInv, program \in RawPrograms, program # "queued", up,
         NEW c \in Client, NEW bytes \in Seq(Nat),
         EchoWritten(c, [ses[c] EXCEPT !.data = bytes]),
         UNCHANGED <<framed, vars>>
  PROVE  IInv' /\ E!EchoNext
<1> DEFINE s == ses[c]
           t == Reading(Written([s EXCEPT !.data = bytes]))
<1>1. /\ Types /\ RawHeld(c) /\ RawOrdered(c) /\ s \in Session
      /\ conn[c] = "served" /\ s.wr = "done"
  BY RawFacts DEF EchoWritten
<1>2. /\ t \in Session /\ t.rd = "begun" /\ t.wr = "no" /\ t.held = s.held
      /\ t.spoilt = s.spoilt
  BY <1>1 DEF Session, Operation, Reading, Written, Bytes
<1>3. /\ UNCHANGED <<program, up, listening, peer, conn, asked, consumed,
                     framed, vars>>
      /\ ses' = [ses EXCEPT ![c] = t]
      /\ back' = back /\ back' \in [Client -> Seq(Nat)]
      /\ \A d \in Client \ {c} : back'[d] = back[d]
      /\ E!Nothing(c)
  BY <1>1 DEF EchoWritten, network, Types, E!Nothing
<1> HIDE DEF t
<1>4. c \notin over => InTurns(t, Len(back'[c]), consumed[c])
  BY <1>1, <1>2, <1>3 DEF RawOrdered, InTurns
<1>5. t.held
  BY <1>1, <1>2 DEF RawHeld
<1> QED
  BY <1>1, <1>2, <1>3, <1>4, <1>5, RawGoesOn

\* A failure ends the session.
LEMMA RawEchoEnds ==
  ASSUME IInv, program \in RawPrograms, up, NEW c \in Client,
         conn[c] = "served", EchoEnds(c), UNCHANGED <<framed, vars>>
  PROVE  IInv' /\ E!EchoNext
<1>1. NoSession \in Session /\ NoSession.rd = "no" /\ NoSession.wr = "no"
      /\ ~NoSession.held
  BY EmptyTypes DEF NoSession
<1>2. /\ UNCHANGED <<program, up, listening, peer, back, asked, consumed,
                     framed, vars>>
      /\ ses' = [ses EXCEPT ![c] = NoSession]
      /\ conn' = [conn EXCEPT ![c] = "closed"]
  BY DEF EchoEnds, End
<1> QED
  BY <1>1, <1>2, RawEnds

\* The session of a connection that is accepted begins to read.
LEMMA RawAccepted ==
  ASSUME IInv, program \in RawPrograms, up, NEW c \in Client,
         Accepted(c), UNCHANGED <<framed, vars>>
  PROVE  IInv' /\ E!EchoNext
<1> DEFINE x == consumed[c]
           t == Started(c)
<1>1. /\ Types /\ RawHeld(c) /\ RawOrdered(c) /\ conn[c] = "backlog"
      /\ x \in Nat
  BY RawFacts DEF Accepted
<1>2. /\ t \in Session /\ t.rd = "begun" /\ t.wr = "no" /\ t.held
      /\ t.queue = <<>>
  BY EmptyTypes DEF Session, Operation, Started, NoSession
<1>3. /\ UNCHANGED <<program, up, peer, asked, framed, vars>>
      /\ listening' \in BOOLEAN
      /\ consumed' = [consumed EXCEPT ![c] = x]
      /\ ses' = [ses EXCEPT ![c] = t]
      /\ conn' = [conn EXCEPT ![c] = "served"]
      /\ back' = back /\ back' \in [Client -> Seq(Nat)]
      /\ \A d \in Client \ {c} : back'[d] = back[d]
      /\ E!Nothing(c)
  BY <1>1 DEF Accepted, Types, E!Nothing
<1> HIDE DEF t, x
<1>4. c \notin over => x <= asked[c] /\ Len(back'[c]) = 0 /\ x = 0
  BY <1>1, <1>3 DEF RawOrdered, x
<1>5. c \notin over => /\ InTurns(t, Len(back'[c]), x)
                       /\ InQueue(t, Len(back'[c]), x)
  BY <1>2, <1>4 DEF InTurns, InQueue
<1>6. ~ses[c].spoilt
  BY <1>1 DEF RawHeld
<1> QED
  BY <1>1, <1>2, <1>3, <1>4, <1>5, <1>6, RawServes

\* A callback that starts nothing more.
LEMMA RawLetsGo ==
  ASSUME IInv, program \in RawPrograms, up, NEW c \in Client,
         NEW t \in Session, LetGo(c, t), UNCHANGED <<framed, vars>>,
         conn[c] = "served", ses[c].spoilt => t.spoilt,
         t.held => t.rd # "no", t.wr # "no" => t.queue # <<>>,
         program # "queued" => t.rd = "no" /\ t.wr = "no" /\ ~t.held,
         c \notin over =>
           /\ t.rd # "failed" /\ t.wr # "failed"
           /\ t.rd = "done" => Len(t.data) > 0
                               /\ Follow(t.data, consumed[c] - Len(t.data))
           /\ InQueue(t, Len(back[c]), consumed[c])
  PROVE  IInv' /\ E!EchoNext
<1>1. Types /\ back \in [Client -> Seq(Nat)]
  BY RawFacts DEF Types
<1>2. /\ ses' = [ses EXCEPT ![c] = t] /\ back' = back /\ asked' = asked
      /\ UNCHANGED <<program, up, listening, peer, back, asked, consumed,
                     framed, vars>>
      /\ E!Nothing(c)
  BY DEF LetGo, E!Nothing
<1>3. CASE t.rd = "no" /\ t.wr = "no"
  <2>1. conn' = [conn EXCEPT ![c] = "closed"] /\ ~t.held
    BY <1>3 DEF LetGo
  <2> QED
    BY <1>2, <1>3, <2>1, RawEnds
<1>4. CASE t.rd # "no" \/ t.wr # "no"
  <2>1. conn' = conn /\ program = "queued"
    BY <1>4 DEF LetGo
  <2>2. /\ back' \in [Client -> Seq(Nat)]
        /\ \A d \in Client \ {c} : back'[d] = back[d]
    BY <1>1, <1>2
  <2> QED
    BY <1>2, <1>4, <2>1, <2>2, RawGoesOn
<1> QED
  BY <1>3, <1>4

\* The read has failed.
LEMMA RawReadRemoves ==
  ASSUME IInv, program \in {"shared", "queued"}, up, NEW c \in Client,
         ses[c].rd = "failed", RemoveSession(c, [ses[c] EXCEPT !.rd = "no"]),
         UNCHANGED <<framed, vars>>
  PROVE  IInv' /\ E!EchoNext
<1> DEFINE s == ses[c]
           t == [[s EXCEPT !.rd = "no"] EXCEPT !.held = FALSE]
<1>1. program \in RawPrograms
  BY DEF RawPrograms
<1>2. /\ RawHeld(c) /\ RawOrdered(c) /\ s \in Session /\ conn[c] = "served"
      /\ s.rd # "no"
  BY <1>1, RawFacts
<1>3. /\ t \in Session /\ t.rd = "no" /\ t.wr = s.wr /\ ~t.held
      /\ t.spoilt = s.spoilt /\ t.queue = s.queue
  BY <1>2 DEF Session, Operation
<1>4. c \in over
  BY <1>2 DEF RawOrdered
<1>5. /\ program # "queued" => s.wr = "no"
      /\ s.wr # "no" => s.queue # <<>>
  BY <1>2 DEF RawHeld
<1>6. LetGo(c, t)
  BY DEF RemoveSession
<1> HIDE DEF t
<1> QED
  BY <1>1, <1>2, <1>3, <1>4, <1>5, <1>6, RawLetsGo

\* The write has failed.
LEMMA RawWriteRemoves ==
  ASSUME IInv, program \in {"shared", "queued"}, up, NEW c \in Client,
         ses[c].wr = "failed", RemoveSession(c, Written(ses[c])),
         UNCHANGED <<framed, vars>>
  PROVE  IInv' /\ E!EchoNext
<1> DEFINE s == ses[c]
           t == [Written(s) EXCEPT !.held = FALSE]
<1>1. program \in RawPrograms
  BY DEF RawPrograms
<1>2. /\ RawHeld(c) /\ RawOrdered(c) /\ s \in Session /\ conn[c] = "served"
      /\ s.wr # "no"
  BY <1>1, RawFacts
<1>3. /\ t \in Session /\ t.rd = s.rd /\ t.wr = "no" /\ ~t.held
      /\ t.spoilt = s.spoilt
  BY <1>2 DEF Session, Operation, Written
<1>4. c \in over
  BY <1>2 DEF RawOrdered
<1>5. program # "queued" => s.rd = "no"
  BY <1>2 DEF RawHeld
<1>6. LetGo(c, t)
  BY DEF RemoveSession
<1> HIDE DEF t
<1> QED
  BY <1>1, <1>2, <1>3, <1>4, <1>5, <1>6, RawLetsGo

\* The process ends, and with it every exchange.
LEMMA RawDies ==
  ASSUME IInv, program \in RawPrograms, Dies, UNCHANGED <<framed, vars>>
  PROVE  IInv' /\ E!EchoNext
<1>1. /\ Types /\ Peers /\ OthersOff /\ ParserInv
      /\ program' = program /\ ~up' /\ peer' = peer /\ asked' = asked
      /\ sent' = sent /\ down' = down /\ fses' = fses /\ inbox' = inbox
      /\ back' = back /\ consumed' = consumed /\ listening' = FALSE
      /\ ses' = [c \in Client |-> NoSession] /\ up' = FALSE
  BY DEF IInv, framed, Dies, ServerEnds, StopListening
<1>2. program \notin FramedPrograms /\ program # "parser" /\ program # "S15"
      /\ program \notin LogicPrograms
  BY DEF RawPrograms, FramedPrograms, LogicPrograms
<1>3. conn' = [c \in Client |->
                 IF conn[c] = "backlog" THEN "closed" ELSE conn[c]]
  BY DEF Dies, ServerEnds, StopListening
<1>4. /\ conn' \in [Client -> {"none", "backlog", "served", "closed"}]
      /\ \A c \in Client : conn[c] = "none" => conn'[c] = "none"
  BY <1>1, <1>3 DEF Types
<1>5. Types'
  BY <1>1, <1>4, EmptyTypes DEF Types
<1>6. Peers'
  BY <1>1, <1>4 DEF Peers
<1>7. OthersOff'
  BY <1>1, <1>2 DEF OthersOff, FramedOff
<1>8. ParserInv'
  BY <1>1, ParserStep
<1>9. FramedOff
  BY <1>1, <1>2 DEF OthersOff
<1>10. IInv'
  BY <1>1, <1>5, <1>6, <1>7, <1>8, <1>9 DEF IInv, FramedOff
<1>11. \A c \in Client : Shown(c)
  BY <1>1, EndsForAll
<1> QED
  BY <1>10, <1>11, AllShown

\* The acceptor is closed because a client has left before it was accepted.
LEMMA RawListenEnds ==
  ASSUME IInv, program \in RawPrograms, up, NEW c \in Client,
         Unaddressed(c), StopListening,
         UNCHANGED <<program, up, peer, asked, back, consumed, ses>>,
         UNCHANGED <<framed, vars>>
  PROVE  IInv' /\ E!EchoNext
<1>1. /\ Types /\ RawHeld(c) /\ conn[c] = "backlog" /\ peer[c] = "left"
  BY RawFacts DEF Unaddressed
<1>2. /\ conn' \in [Client -> {"none", "backlog", "served", "closed"}]
      /\ conn'[c] = "closed" /\ listening' = FALSE
      /\ \A d \in Client : \/ conn'[d] = conn[d]
                           \/ conn[d] = "backlog" /\ conn'[d] = "closed"
  <2>1. conn' = [d \in Client |->
                   IF conn[d] = "backlog" THEN "closed" ELSE conn[d]]
    BY DEF StopListening
  <2>2. listening' = FALSE
    BY DEF StopListening
  <2> QED
    BY <1>1, <2>1, <2>2 DEF Types
<1>3. Types'
  <2>1. listening' \in BOOLEAN
    BY <1>2
  <2> QED
    BY <1>1, <1>2, <2>1 DEF Types, framed
<1>4. OthersStay(c)
  BY <1>2 DEF OthersStay, framed
<1>5. c \in over'
  BY <1>2, OverIs
<1>6. RawHeld(c)' /\ RawOrdered(c)' /\ Shown(c)
  BY <1>1, <1>2, <1>5 DEF RawHeld, RawOrdered, Shown
<1> QED
  BY <1>1, <1>3, <1>4, <1>6, RawLocal

\* The clients.
LEMMA RawConnects ==
  ASSUME IInv, program \in RawPrograms, NEW c \in Client, Connect(c),
         UNCHANGED <<consumed, ses>>, UNCHANGED <<framed, vars>>
  PROVE  IInv' /\ E!EchoNext
<1>1. /\ Types /\ Peers /\ peer[c] = "new" /\ conn[c] = "none"
      /\ UNCHANGED <<program, up, listening, asked, back>>
  BY DEF Connect, IInv, Peers
<1>2. ASSUME up
      PROVE  RawHeld(c) /\ RawOrdered(c) /\ ses[c] \in Session
  BY <1>2, RawFacts
<1>3. CASE up /\ listening
  <2>1. /\ peer' = [peer EXCEPT ![c] = "open"]
        /\ conn' = [conn EXCEPT ![c] = "backlog"]
    BY <1>3 DEF Connect
  <2>2. Types' /\ peer'[c] = "open" /\ conn'[c] = "backlog"
    BY <1>1, <2>1 DEF Types, framed
  <2>3. OthersStay(c)
    BY <1>1, <2>1 DEF OthersStay, framed, Types
  <2>4. ~ses[c].spoilt /\ c \notin over /\ E!Nothing(c)
    <3>1. ~ses[c].spoilt /\ ~Spent(fses[c])
      <4>1. program \notin FramedPrograms /\ OthersOff
        BY DEF RawPrograms, FramedPrograms, IInv
      <4>2. fses[c] = NoFrameSession
        BY <4>1 DEF OthersOff, FramedOff
      <4> QED
        BY <1>1, <1>2, <1>3, <4>2, NotSpent DEF RawHeld
    <3> QED
      BY <1>1, <1>3, <3>1, OverIs DEF E!Nothing
  <2>5. RawHeld(c)'
    BY <1>1, <1>2, <1>3, <2>2, <2>4 DEF RawHeld
  <2>6. RawOrdered(c)'
    BY <1>1, <1>2, <1>3, <2>2, <2>4 DEF RawOrdered
  <2>7. Shown(c)
    BY <2>4 DEF Shown
  <2> QED
    BY <1>1, <1>3, <2>2, <2>3, <2>5, <2>6, <2>7, RawLocal
<1>4. CASE ~(up /\ listening)
  <2>1. peer' = [peer EXCEPT ![c] = "left"] /\ conn' = conn
    BY <1>4 DEF Connect
  <2>2. Types' /\ peer'[c] = "left"
    BY <1>1, <2>1 DEF Types, framed
  <2>3. OthersStay(c)
    BY <1>1, <2>1 DEF OthersStay, framed, Types
  <2>4. c \in over'
    BY <2>2, OverIs
  <2>5. up => RawHeld(c)' /\ RawOrdered(c)' /\ Shown(c)
    BY <1>1, <1>2, <2>1, <2>4 DEF RawHeld, RawOrdered, Shown
  <2> QED
    BY <1>1, <2>1, <2>2, <2>3, <2>5, RawLocal
<1> QED
  BY <1>3, <1>4

LEMMA RawAsks ==
  ASSUME IInv, program \in RawPrograms, NEW c \in Client,
         NEW n \in Nat \ {0}, Ask(c, n),
         UNCHANGED <<consumed, ses>>, UNCHANGED <<framed, vars>>
  PROVE  IInv' /\ E!EchoNext
<1>1. /\ Types /\ Peers /\ peer[c] = "open"
      /\ UNCHANGED <<program, up, listening, peer, conn, back>>
      /\ asked[c] \in Nat /\ asked[c] + n <= MaxAsked[c]
      /\ asked' = [asked EXCEPT ![c] = @ + n]
  BY DEF Ask, IInv, Types
<1>2. ASSUME up
      PROVE  RawHeld(c) /\ RawOrdered(c) /\ consumed[c] \in Nat
  BY <1>2, RawFacts
<1>3. /\ Types' /\ asked'[c] = asked[c] + n
  BY <1>1 DEF Types, framed
<1>4. OthersStay(c)
  BY <1>1 DEF OthersStay, framed, Types
<1>5. E!Ask(c)
  BY <1>1, <1>3, NetworkAssumption DEF E!Ask
<1>6. c \in over <=> c \in over'
  BY <1>1, OverIs DEF framed
<1>7. up => RawHeld(c)' /\ RawOrdered(c)' /\ Shown(c)
  <2>1. up => RawHeld(c)'
    BY <1>1, <1>2 DEF RawHeld
  <2>2. up => RawOrdered(c)'
    BY <1>1, <1>2, <1>3, <1>6 DEF RawOrdered
  <2> QED
    BY <1>5, <1>6, <2>1, <2>2 DEF Shown
<1> QED
  BY <1>1, <1>3, <1>4, <1>7, RawLocal

LEMMA RawLeaves ==
  ASSUME IInv, program \in RawPrograms, NEW c \in Client, Leave(c),
         UNCHANGED <<consumed, ses>>, UNCHANGED <<framed, vars>>
  PROVE  IInv' /\ E!EchoNext
<1>1. /\ Types /\ peer' = [peer EXCEPT ![c] = "left"]
      /\ UNCHANGED <<program, up, listening, conn, asked, back>>
  BY DEF Leave, IInv
<1>2. up => RawHeld(c)
  BY RawFacts
<1>3. Types' /\ peer'[c] = "left"
  BY <1>1 DEF Types, framed
<1>4. OthersStay(c)
  BY <1>1 DEF OthersStay, framed, Types
<1>5. c \in over'
  BY <1>3, OverIs
<1>6. up => RawHeld(c)' /\ RawOrdered(c)' /\ Shown(c)
  BY <1>1, <1>2, <1>5 DEF RawHeld, RawOrdered, Shown
<1> QED
  BY <1>1, <1>3, <1>4, <1>6, RawLocal

\* The nodes of a queue.
LEMMA NodesTyped ==
  ASSUME NEW q \in Seq(MsgNode), NEW i \in 1 .. Len(q), Len(q[i]) > 0
  PROVE  q[i] \in Seq(Nat) /\ q[i][1] \in Nat /\ Len(q[i]) \in Nat \ {0}
<1>1. q[i] \in Seq(Nat)
  BY ElementOfSeq DEF MsgNode, Bytes
<1>2. Len(q[i]) \in Nat
  BY <1>1, LenProperties
<1>3. 1 \in 1 .. Len(q[i])
  BY <1>2
<1> QED
  BY <1>1, <1>2, <1>3, ElementOfSeq

\* A copy of what has been read joins a queue that is not empty.
LEMMA QueueGrows ==
  ASSUME NEW s \in Session, NEW t \in Session, NEW b \in Nat, NEW x \in Nat,
         InQueue(s, b, x), s.queue # <<>>, s.rd = "done", Len(s.data) > 0,
         Follow(s.data, x - Len(s.data)),
         t.queue = Append(s.queue, s.data), t.rd = "begun", t.wr = s.wr,
         t.src = s.src, t.len = s.len, t.at = s.at
  PROVE  InQueue(t, b, x)
<1> DEFINE q == s.queue
           d == s.data
           Q == Append(q, d)
           m == Len(q)
           l == Len(d)
<1>1. /\ q \in Seq(MsgNode) /\ d \in MsgNode /\ d \in Seq(Nat)
      /\ m \in Nat \ {0} /\ l \in Nat \ {0}
  <2>1. q \in Seq(MsgNode) /\ d \in Seq(Nat)
    BY DEF Session, Bytes
  <2>2. m \in Nat \ {0} /\ l \in Nat
    BY <2>1, EmptySeq
  <2> QED
    BY <2>1, <2>2 DEF MsgNode, Bytes
<1>2. /\ Len(Q) = m + 1 /\ Q[m + 1] = d /\ Q # <<>>
      /\ \A i \in 1 .. m : Q[i] = q[i]
  BY <1>1, AppendProperties
<1>3. d[1] = x - l + 1 /\ d[1] \in Nat
  <2>1. 1 \in 1 .. l
    BY <1>1
  <2>2. d[1] = x - l + 1
    BY <2>1 DEF Follow
  <2>3. d[1] \in Nat
    BY <1>1, <2>1, ElementOfSeq
  <2> QED
    BY <2>2, <2>3
<1>4. /\ s.wr # "no" /\ s.len = Len(q[1]) /\ s.at <= s.len
      /\ s.wr = "begun" => s.src = "node"
      /\ s.wr = "done" => s.at = s.len
      /\ \A i \in 1 .. m : /\ Len(q[i]) > 0 /\ Follow(q[i], q[i][1] - 1)
                           /\ q[i][1] + Len(q[i]) <= (x - l) + 1
      /\ \A i \in 1 .. m - 1 : q[i + 1][1] = q[i][1] + Len(q[i])
      /\ q[m][1] + Len(q[m]) = (x - l) + 1
      /\ q[1][1] + s.at = b + 1
  BY DEF InQueue
<1>5. 1 \in 1 .. m /\ m \in 1 .. m /\ Q[1] = q[1] /\ Q[m] = q[m]
  BY <1>1, <1>2
<1>6. ASSUME NEW i \in 1 .. m + 1
      PROVE  /\ Len(Q[i]) > 0 /\ Follow(Q[i], Q[i][1] - 1)
             /\ Q[i][1] + Len(Q[i]) <= x + 1
  <2>1. CASE i = m + 1
    <3>1. d[1] - 1 = x - l /\ d[1] + l = x + 1
      <4> DEFINE e == d[1]
      <4>1. e = x - l + 1
        BY <1>3
      <4> HIDE DEF e, l
      <4>2. e - 1 = x - l /\ e + l = x + 1
        BY <1>1, <4>1
      <4> QED
        BY <4>2 DEF e
    <3>2. Follow(d, d[1] - 1) /\ d[1] + Len(d) <= x + 1
      BY <3>1
    <3> HIDE DEF Q, d
    <3> QED
      BY <1>1, <1>2, <2>1, <3>2
  <2>2. CASE i # m + 1
    <3>1. i \in 1 .. m
      BY <1>1, <2>2
    <3>2. /\ Len(q[i]) > 0 /\ Follow(q[i], q[i][1] - 1)
          /\ q[i][1] + Len(q[i]) <= (x - l) + 1
          /\ Q[i] = q[i]
      BY <1>2, <1>4, <3>1
    <3>3. q[i][1] \in Nat /\ Len(q[i]) \in Nat
      BY <1>1, <3>1, <3>2, NodesTyped
    <3> DEFINE e == q[i][1]
               n == Len(q[i])
    <3> HIDE DEF e, n, l
    <3>4. e + n <= x + 1
      BY <1>1, <3>2, <3>3 DEF e, n
    <3> QED
      BY <3>2, <3>4 DEF e, n
  <2> QED
    BY <2>1, <2>2
<1>7. ASSUME NEW i \in 1 .. m
      PROVE  Q[i + 1][1] = Q[i][1] + Len(Q[i])
  <2>1. CASE i = m
    BY <1>2, <1>3, <1>4, <1>5, <2>1
  <2>2. CASE i # m
    <3>1. i \in 1 .. m - 1 /\ i + 1 \in 1 .. m
      BY <1>1, <2>2
    <3> QED
      BY <1>2, <1>4, <3>1
  <2> QED
    BY <2>1, <2>2
<1>8. Q[m + 1][1] + Len(Q[m + 1]) = x + 1
  <2> DEFINE e == d[1]
  <2>1. e = x - l + 1
    BY <1>3
  <2> HIDE DEF e, l
  <2>2. e + l = x + 1
    BY <1>1, <2>1
  <2> QED
    BY <1>2, <2>2 DEF e, l
<1>9. Len(Q) - 1 = m /\ t.rd # "done" /\ t.queue = Q
  BY <1>1, <1>2
<1> HIDE DEF Q, q, d, m, l
<1> QED
  BY <1>2, <1>4, <1>5, <1>6, <1>7, <1>8, <1>9 DEF InQueue

\* It is the first of an empty queue.
LEMMA QueueStarts ==
  ASSUME NEW s \in Session, NEW t \in Session, NEW b \in Nat, NEW x \in Nat,
         InQueue(s, b, x), s.queue = <<>>, s.rd = "done", Len(s.data) > 0,
         Follow(s.data, x - Len(s.data)),
         t.queue = Append(s.queue, s.data), t.rd = "begun", t.wr = "done",
         t.len = Len(s.data), t.at = Len(s.data)
  PROVE  b = x - Len(s.data) /\ InQueue(t, b + Len(s.data), x)
<1> DEFINE d == s.data
           l == Len(d)
<1>1. d \in Seq(Nat) /\ l \in Nat \ {0}
  <2>1. d \in Seq(Nat)
    BY DEF Session, Bytes
  <2> QED
    BY <2>1
<1>2. t.queue = <<d>> /\ <<d>> # <<>> /\ Len(<<d>>) = 1 /\ <<d>>[1] = d
  OBVIOUS
<1>3. b = x - l
  BY DEF InQueue
<1>4. d[1] = x - l + 1
  <2>1. 1 \in 1 .. l
    BY <1>1
  <2> QED
    BY <2>1 DEF Follow
<1>5. Follow(d, d[1] - 1) /\ d[1] + l = x + 1 /\ d[1] + l = (b + l) + 1
  <2> DEFINE e == d[1]
  <2>1. e = x - l + 1
    BY <1>4
  <2> HIDE DEF e, l
  <2>2. e - 1 = x - l /\ e + l = x + 1 /\ e + l = (b + l) + 1
    BY <1>1, <1>3, <2>1
  <2> QED
    BY <2>2 DEF e, l
<1>6. \A i \in 1 .. 1 : i = 1
  OBVIOUS
<1>7. 1 .. 1 - 1 = {} /\ l <= l /\ l > 0 /\ x + 1 <= x + 1
  <2> HIDE DEF l
  <2> QED
    BY <1>1
<1>8. t.wr = "done" /\ t.rd = "begun" /\ t.len = l /\ t.at = l
  OBVIOUS
<1> DEFINE q == t.queue
<1>9. q # <<>> /\ Len(q) = 1 /\ q[1] = d
  BY <1>2
<1> HIDE DEF d, q
<1>10. q # <<>> =>
          /\ t.wr # "no" /\ t.len = Len(q[1]) /\ t.at <= t.len
          /\ t.wr = "begun" => t.src = "node"
          /\ t.wr = "done" => t.at = t.len
          /\ \A i \in 1 .. Len(q) :
               /\ Len(q[i]) > 0 /\ Follow(q[i], q[i][1] - 1)
               /\ q[i][1] + Len(q[i]) <= x + 1
          /\ \A i \in 1 .. Len(q) - 1 : q[i + 1][1] = q[i][1] + Len(q[i])
          /\ q[Len(q)][1] + Len(q[Len(q)]) = x + 1
          /\ q[1][1] + t.at = (b + l) + 1
  BY <1>5, <1>6, <1>7, <1>8, <1>9
<1> HIDE DEF l
<1>11. InQueue(t, b + l, x)
  BY <1>8, <1>9, <1>10 DEF InQueue, q
<1> QED
  BY <1>3, <1>11 DEF l, d

\* The front has been written and leaves the queue.
LEMMA QueueShrinks ==
  ASSUME NEW s \in Session, NEW b \in Nat, NEW x \in Nat,
         InQueue(s, b, x), s.wr = "done", s.rd = "done" => Len(s.data) > 0
  PROVE  LET q == s.queue
             y == IF s.rd = "done" THEN x - Len(s.data) ELSE x
             Q == Tail(q)
         IN /\ q # <<>> /\ q \in Seq(MsgNode) /\ Q \in Seq(MsgNode)
            /\ Q = <<>> => b = y
            /\ Q # <<>> =>
                 /\ Q[1] \in Seq(Nat) /\ Head(Q) = Q[1] /\ Q[1][1] = b + 1
                 /\ \A i \in 1 .. Len(Q) :
                      /\ Len(Q[i]) > 0 /\ Follow(Q[i], Q[i][1] - 1)
                      /\ Q[i][1] + Len(Q[i]) <= y + 1
                 /\ \A i \in 1 .. Len(Q) - 1 :
                      Q[i + 1][1] = Q[i][1] + Len(Q[i])
                 /\ Q[Len(Q)][1] + Len(Q[Len(Q)]) = y + 1
<1> DEFINE q == s.queue
           y == IF s.rd = "done" THEN x - Len(s.data) ELSE x
           Q == Tail(q)
           m == Len(q)
<1>1. q # <<>>
  BY DEF InQueue
<1>2. q \in Seq(MsgNode) /\ m \in Nat \ {0} /\ y \in Int
  <2>1. q \in Seq(MsgNode) /\ s.data \in Seq(Nat)
    BY DEF Session, Bytes
  <2>2. m \in Nat \ {0} /\ Len(s.data) \in Nat
    BY <1>1, <2>1, EmptySeq
  <2> QED
    BY <2>1, <2>2
<1>3. /\ Q \in Seq(MsgNode) /\ Len(Q) = m - 1
      /\ \A i \in 1 .. m - 1 : Q[i] = q[i + 1]
  BY <1>1, <1>2, HeadTailProperties
<1>4. /\ s.len = Len(q[1]) /\ s.at = s.len
      /\ \A i \in 1 .. m : /\ Len(q[i]) > 0 /\ Follow(q[i], q[i][1] - 1)
                           /\ q[i][1] + Len(q[i]) <= y + 1
      /\ \A i \in 1 .. m - 1 : q[i + 1][1] = q[i][1] + Len(q[i])
      /\ q[m][1] + Len(q[m]) = y + 1
      /\ q[1][1] + s.at = b + 1
  BY <1>1 DEF InQueue
<1>5. q[1][1] + Len(q[1]) = b + 1
  BY <1>4
<1> HIDE DEF Q, q, y, m
<1>6. Q = <<>> => b = y
  <2> SUFFICES ASSUME Q = <<>>
               PROVE  b = y
    OBVIOUS
  <2>1. m = 1
    BY <1>2, <1>3, EmptySeq
  <2>2. b + 1 = y + 1
    BY <1>4, <1>5, <2>1
  <2> QED
    BY <1>2, <2>2
<1>7. ASSUME Q # <<>>
      PROVE  /\ Q[1] \in Seq(Nat) /\ Head(Q) = Q[1] /\ Q[1][1] = b + 1
             /\ \A i \in 1 .. Len(Q) :
                  /\ Len(Q[i]) > 0 /\ Follow(Q[i], Q[i][1] - 1)
                  /\ Q[i][1] + Len(Q[i]) <= y + 1
             /\ \A i \in 1 .. Len(Q) - 1 :
                  Q[i + 1][1] = Q[i][1] + Len(Q[i])
             /\ Q[Len(Q)][1] + Len(Q[Len(Q)]) = y + 1
  <2>1. m - 1 \in Nat \ {0}
    BY <1>2, <1>3, <1>7, EmptySeq
  <2>2. /\ 1 \in 1 .. m - 1 /\ 2 \in 1 .. m /\ Q[1] = q[2]
        /\ m - 1 \in 1 .. m - 1 /\ (m - 1) + 1 = m
        /\ \A i \in 1 .. m - 1 : i + 1 \in 1 .. m
        /\ \A i \in 1 .. (m - 1) - 1 : i \in 1 .. m - 1 /\ i + 1 \in 1 .. m - 1
    <3>1. 1 \in 1 .. m - 1 /\ 2 \in 1 .. m /\ 1 + 1 = 2
      BY <1>2, <2>1
    <3> QED
      BY <1>2, <1>3, <2>1, <3>1
  <2>3. Q[1] \in Seq(Nat)
    BY <1>3, <2>2, ElementOfSeq DEF MsgNode, Bytes
  <2>4. Head(Q) = Q[1]
    BY <1>3, <1>7, HeadTailProperties
  <2>5. Q[1][1] = b + 1
    BY <1>4, <1>5, <2>2
  <2>6. \A i \in 1 .. Len(Q) :
                  /\ Len(Q[i]) > 0 /\ Follow(Q[i], Q[i][1] - 1)
                  /\ Q[i][1] + Len(Q[i]) <= y + 1
    BY <1>3, <1>4, <2>2
  <2>7. ASSUME NEW i \in 1 .. Len(Q) - 1
        PROVE  Q[i + 1][1] = Q[i][1] + Len(Q[i])
    <3> DEFINE j == i + 1
    <3>1. i \in 1 .. m - 1 /\ j \in 1 .. m - 1
      BY <1>3, <2>2
    <3>2. Q[i] = q[j] /\ Q[j] = q[j + 1]
      BY <1>3, <3>1
    <3>3. q[j + 1][1] = q[j][1] + Len(q[j])
      BY <1>4, <3>1
    <3> QED
      BY <3>2, <3>3
  <2>8. Q[Len(Q)][1] + Len(Q[Len(Q)]) = y + 1
    BY <1>3, <1>4, <2>2
  <2> QED
    BY <2>3, <2>4, <2>5, <2>6, <2>7, <2>8
<1> QED
  BY <1>1, <1>2, <1>3, <1>6, <1>7 DEF Q, q, y

\* What has been read joins the queue; the first is written at once.
LEMMA RawQueuedSend ==
  ASSUME IInv, program = "queued", up, NEW c \in Client, ses[c].rd = "done",
         QueuedSend(c, Reading(ses[c])),
         UNCHANGED <<program, up, listening, peer, conn, asked, consumed>>,
         UNCHANGED <<framed, vars>>
  PROVE  IInv' /\ E!EchoNext
<1> DEFINE s == ses[c]
           b == Len(back[c])
           x == consumed[c]
           d == s.data
           l == Len(d)
           r == [Reading(s) EXCEPT !.queue = Append(s.queue, d)]
<1>0. program \in RawPrograms
  BY DEF RawPrograms
<1>1. /\ Types /\ RawHeld(c) /\ RawOrdered(c)
      /\ s \in Session /\ x \in Nat /\ b \in Nat /\ asked[c] \in Nat
      /\ d \in Seq(Nat) /\ l \in Nat /\ conn[c] = "served"
  BY <1>0, RawFacts
<1>2. c \notin over => /\ InQueue(s, b, x) /\ l > 0 /\ Follow(d, x - l)
                       /\ x <= asked[c] /\ s.wr # "failed"
  BY <1>1 DEF RawOrdered
<1>3. /\ r \in Session /\ r.rd = "begun" /\ r.wr = s.wr /\ r.src = s.src
      /\ r.len = s.len /\ r.at = s.at /\ r.held = s.held
      /\ r.spoilt = s.spoilt /\ r.queue = Append(s.queue, d) /\ r.data = d
  <2>1. Append(s.queue, d) \in Seq(MsgNode)
    <3>1. s.queue \in Seq(MsgNode) /\ d \in MsgNode
      BY <1>1 DEF Session, MsgNode, Bytes
    <3> QED
      BY <3>1, AppendProperties
  <2> QED
    BY <1>1, <2>1 DEF Session, Operation, Reading
<1>4. /\ Reading(s).data = d /\ Reading(s).queue = s.queue
      /\ Reading(s).spoilt = s.spoilt
      /\ [Reading(s) EXCEPT !.queue = Append(@, d)] = r
  BY <1>1 DEF Session, Reading
<1>5. back \in [Client -> Seq(Nat)] /\ <<>> \in Seq(Bytes)
  BY <1>1, EmptySeq DEF Types
<1> HIDE DEF r
<1>6. CASE s.queue # <<>>
  <2> DEFINE t == Cleared(r)
  <2>1. ses' = [ses EXCEPT ![c] = t] /\ back' = back
    BY <1>4, <1>6 DEF QueuedSend
  <2>2. /\ t \in Session /\ t.rd = "begun" /\ t.wr = s.wr /\ t.src = s.src
        /\ t.len = s.len /\ t.at = s.at
        /\ t.spoilt = s.spoilt /\ t.queue = Append(s.queue, d)
    BY <1>3, <1>5 DEF Session, Cleared
  <2>0. Append(s.queue, d) # <<>>
    BY <1>1, AppendProperties DEF Session, MsgNode, Bytes
  <2> HIDE DEF t
  <2>3. c \notin over => InQueue(t, b, x)
    BY <1>1, <1>2, <1>6, <2>2, QueueGrows
  <2>4. /\ UNCHANGED <<program, up, listening, peer, conn, asked, consumed,
                       framed, vars>>
        /\ back' \in [Client -> Seq(Nat)]
        /\ \A e \in Client \ {c} : back'[e] = back[e]
        /\ E!Nothing(c)
    BY <1>5, <2>1 DEF E!Nothing
  <2> QED
    BY <1>0, <1>1, <1>2, <2>0, <2>1, <2>2, <2>3, <2>4, RawGoesOn
<1>7. CASE s.queue = <<>>
  <2>1. PICK k \in 0 .. l :
          /\ Deliver(c, SubSeq(d, 1, k))
          /\ ses' = [ses EXCEPT ![c] =
               [Cleared(Writing(r, "data", d, k)) EXCEPT
                  !.spoilt = s.spoilt \/ k < l]]
    BY <1>4, <1>7 DEF QueuedSend
  <2> DEFINE u == Writing(r, "data", d, k)
             spoils == s.spoilt \/ k < l
             t == [Cleared(u) EXCEPT !.spoilt = spoils]
  <2>2. c \notin over => b = x - l
    BY <1>2, <1>7 DEF InQueue
  <2>3. c \notin over => Follow(d, b) /\ b + l <= asked[c]
    <3> HIDE DEF b, x, l, d
    <3> QED
      BY <1>1, <1>2, <2>2
  <2>4. /\ back' \in [Client -> Seq(Nat)]
        /\ \A e \in Client \ {c} : back'[e] = back[e]
        /\ c \notin over => /\ Len(back'[c]) = b + k
                            /\ E!Answer(c) \/ E!Nothing(c)
    BY <1>0, <1>1, <2>1, <2>3, PartDelivered
  <2>5. /\ u \in Session /\ u.rd = "begun" /\ u.queue = Append(s.queue, d)
        /\ u.len = l /\ u.at = k
        /\ (k = l => u.wr = "done") /\ (k # l => u.wr = "begun")
    <3> DEFINE src == "data"
    <3>1. /\ d \in Seq(Nat) /\ k \in 0 .. Len(d) /\ r \in Session
          /\ src \in {"data", "node"} /\ Len(d) = l
      BY <1>1, <1>3
    <3>2. u = Writing(r, src, d, k)
      OBVIOUS
    <3> HIDE DEF d, src, u, l
    <3>3. u \in Session
      BY <3>1, <3>2, WritingIs
    <3>4. u.rd = r.rd /\ u.queue = r.queue
      BY <3>1, <3>2, WritingIs
    <3>5. u.len = Len(d) /\ u.at = k
      BY <3>1, <3>2, WritingIs
    <3>6. k = Len(d) => u.wr = "done"
      BY <3>1, <3>2, WritingIs
    <3>7. k # Len(d) => u.wr = "begun"
      BY <3>1, <3>2, WritingIs
    <3> QED
      BY <1>3, <3>1, <3>3, <3>4, <3>5, <3>6, <3>7
  <2> HIDE DEF u
  <2>6. spoils \in BOOLEAN /\ (~spoils => k = l) /\ (s.spoilt => spoils)
    <3>1. s.spoilt \in BOOLEAN
      BY <1>1 DEF Session
    <3>2. spoils \in BOOLEAN
      BY <3>1
    <3> HIDE DEF l
    <3>3. k < l \/ k = l
      BY <1>1
    <3> QED
      BY <3>2, <3>3
  <2> HIDE DEF spoils
  <2>7. /\ t \in Session /\ t.rd = "begun" /\ t.queue = Append(s.queue, d)
        /\ t.wr = u.wr /\ t.len = l /\ t.at = k /\ t.spoilt = spoils
    BY <1>5, <2>5, <2>6 DEF Session, Cleared
  <2>8. /\ UNCHANGED <<program, up, listening, peer, conn, asked, consumed,
                       framed, vars>>
        /\ ses' = [ses EXCEPT ![c] = t]
    BY <2>1 DEF spoils, u
  <2>0. Append(s.queue, d) # <<>>
    BY <1>1, AppendProperties DEF Session, MsgNode, Bytes
  <2> HIDE DEF t
  <2>9. t.rd # "no" /\ t.wr # "no" /\ t.wr # "failed" /\ t.queue # <<>>
    BY <2>0, <2>5, <2>7
  <2>10. c \notin over /\ ~t.spoilt => InQueue(t, Len(back'[c]), x)
    <3> SUFFICES ASSUME c \notin over, ~t.spoilt
                 PROVE  InQueue(t, b + l, x)
      BY <2>4, <2>6, <2>7
    <3>1. k = l /\ t.wr = "done"
      BY <2>5, <2>6, <2>7
    <3> QED
      BY <1>1, <1>2, <1>7, <2>7, <3>1, QueueStarts
  <2> QED
    BY <1>0, <1>1, <2>4, <2>6, <2>7, <2>8, <2>9, <2>10, RawGoesOn
<1> QED
  BY <1>6, <1>7

\* The front leaves the queue, and the node after it is written.
LEMMA RawQueuedWrite ==
  ASSUME IInv, program = "queued", up, NEW c \in Client, ses[c].wr = "done",
         QueuedHandleWrite(c), UNCHANGED <<framed, vars>>
  PROVE  IInv' /\ E!EchoNext
<1> DEFINE s == ses[c]
           b == Len(back[c])
           x == consumed[c]
           q == s.queue
           y == IF s.rd = "done" THEN x - Len(s.data) ELSE x
           Q == Tail(q)
           r == [Written(s) EXCEPT !.queue = Q]
<1>0. program \in RawPrograms
  BY DEF RawPrograms
<1>1. /\ Types /\ RawHeld(c) /\ RawOrdered(c)
      /\ s \in Session /\ x \in Nat /\ b \in Nat /\ asked[c] \in Nat
      /\ s.data \in Seq(Nat) /\ Len(s.data) \in Nat /\ conn[c] = "served"
  BY <1>0, RawFacts
<1>2. ASSUME c \notin over
      PROVE  /\ InQueue(s, b, x) /\ s.rd # "failed" /\ x <= asked[c]
             /\ s.rd = "done" => /\ Len(s.data) > 0
                                 /\ Follow(s.data, x - Len(s.data))
  <2>1. InQueue(s, b, x) /\ s.rd # "failed" /\ x <= asked[c]
    BY <1>1, <1>2 DEF RawOrdered
  <2>2. s.rd = "done" => Len(s.data) > 0 /\ Follow(s.data, x - Len(s.data))
    BY <1>1, <1>2 DEF RawOrdered
  <2> QED
    BY <2>1, <2>2, Zenon
<1>3. q \in Seq(MsgNode) /\ q # <<>> /\ Q \in Seq(MsgNode)
  <2>1. q \in Seq(MsgNode) /\ q # <<>>
    BY <1>1 DEF Session, RawHeld
  <2> QED
    BY <2>1, HeadTailProperties
<1>4. /\ r \in Session /\ r.rd = s.rd /\ r.data = s.data /\ r.wr = "no"
      /\ r.held = s.held /\ r.spoilt = s.spoilt /\ r.queue = Q
  <2> HIDE DEF Q
  <2> QED
    BY <1>1, <1>3 DEF Session, Operation, Written
<1>5. r = [Written(s) EXCEPT !.queue = AfterPop(s)]
  BY DEF AfterPop
<1>6. s.held => s.rd # "no"
  BY <1>1 DEF RawHeld
<1>7. ASSUME c \notin over
      PROVE  /\ Q = <<>> => b = y
             /\ Q # <<>> =>
                  /\ Q[1] \in Seq(Nat) /\ Head(Q) = Q[1] /\ Q[1][1] = b + 1
                  /\ \A i \in 1 .. Len(Q) :
                       /\ Len(Q[i]) > 0 /\ Follow(Q[i], Q[i][1] - 1)
                       /\ Q[i][1] + Len(Q[i]) <= y + 1
                  /\ \A i \in 1 .. Len(Q) - 1 :
                       Q[i + 1][1] = Q[i][1] + Len(Q[i])
                  /\ Q[Len(Q)][1] + Len(Q[Len(Q)]) = y + 1
  BY <1>1, <1>2, <1>7, QueueShrinks
<1> HIDE DEF r, Q
<1>8. CASE Q = <<>>
  <2>1. LetGo(c, r)
    BY <1>4, <1>5, <1>8 DEF QueuedHandleWrite
  <2>2. c \notin over => InQueue(r, b, x)
    BY <1>4, <1>7, <1>8 DEF InQueue
  <2> QED
    BY <1>0, <1>1, <1>2, <1>4, <1>6, <1>8, <2>1, <2>2, RawLetsGo
<1>9. CASE Q # <<>>
  <2> DEFINE d == Head(Q)
             l == Len(d)
             T(k) == Writing(r, "node", d, k)
  <2>1. d \in Seq(Nat) /\ l \in Nat
    BY <1>3, <1>9, HeadTailProperties DEF MsgNode, Bytes
  <2>2. /\ Write(c, r, "node", d)
        /\ UNCHANGED <<program, up, listening, peer, conn, asked, consumed>>
    BY <1>4, <1>5, <1>9 DEF QueuedHandleWrite
  <2>3. PICK k \in 0 .. l : /\ Deliver(c, SubSeq(d, 1, k))
                            /\ ses' = [ses EXCEPT ![c] = T(k)]
    BY <2>2 DEF Write
  <2> DEFINE t == T(k)
  <2>4. /\ t \in Session /\ t.rd = s.rd /\ t.data = s.data /\ t.held = s.held
        /\ t.queue = Q /\ t.spoilt = s.spoilt /\ t.src = "node"
        /\ t.len = l /\ t.at = k
        /\ (k = l => t.wr = "done") /\ (k # l => t.wr = "begun")
        /\ k \in Nat /\ k <= l
    <3> DEFINE src == "node"
    <3>1. /\ d \in Seq(Nat) /\ k \in 0 .. Len(d) /\ r \in Session
          /\ src \in {"data", "node"} /\ Len(d) = l /\ src = "node"
      BY <1>4, <2>1
    <3>2. t = Writing(r, src, d, k)
      OBVIOUS
    <3>3. k \in Nat /\ k <= l
      BY <2>1
    <3> HIDE DEF d, src, t, T, l
    <3>4. t \in Session
      BY <3>1, <3>2, WritingIs
    <3>5. t.rd = r.rd /\ t.data = r.data /\ t.held = r.held
          /\ t.spoilt = r.spoilt
      BY <3>1, <3>2, WritingIs
    <3>6. t.queue = r.queue /\ t.src = src /\ t.len = Len(d) /\ t.at = k
      BY <3>1, <3>2, WritingIs
    <3>7. k = Len(d) => t.wr = "done"
      BY <3>1, <3>2, WritingIs
    <3>8. k # Len(d) => t.wr = "begun"
      BY <3>1, <3>2, WritingIs
    <3> QED
      BY <1>4, <3>1, <3>3, <3>4, <3>5, <3>6, <3>7, <3>8
  <2>5. ASSUME c \notin over
        PROVE  Follow(d, b) /\ b + l <= asked[c]
    <3>1. /\ d = Q[1] /\ Q[1][1] = b + 1 /\ 1 \in 1 .. Len(Q)
      BY <1>3, <1>7, <1>9, <2>5, EmptySeq
    <3>2. /\ Follow(d, d[1] - 1) /\ d[1] + l <= y + 1 /\ d[1] = b + 1
      BY <1>7, <1>9, <2>5, <3>1
    <3>3. y <= x /\ y \in Int
      BY <1>1
    <3>4. x <= asked[c]
      BY <1>2, <2>5
    <3> DEFINE e == d[1]
    <3>5. Follow(d, e - 1) /\ e + l <= y + 1 /\ e = b + 1
      BY <3>2
    <3> HIDE DEF b, l, x, y, e, d
    <3>6. e - 1 = b /\ b + l <= asked[c]
      BY <1>1, <2>1, <3>3, <3>4, <3>5
    <3> QED
      BY <3>5, <3>6
  <2>6. /\ UNCHANGED <<program, up, listening, peer, conn, asked, consumed,
                       framed, vars>>
        /\ ses' = [ses EXCEPT ![c] = t]
    BY <2>2, <2>3
  <2>7. /\ back' \in [Client -> Seq(Nat)]
        /\ \A e \in Client \ {c} : back'[e] = back[e]
        /\ c \notin over => /\ Len(back'[c]) = b + k
                            /\ E!Answer(c) \/ E!Nothing(c)
    BY <1>0, <1>1, <2>1, <2>3, <2>5, <2>6, PartDelivered
  <2> HIDE DEF t, T
  <2>8. t.wr # "no" /\ t.wr # "failed" /\ t.queue # <<>>
    BY <1>9, <2>4
  <2>9. c \notin over => InQueue(t, b + k, x)
    <3> SUFFICES ASSUME c \notin over
                 PROVE  InQueue(t, b + k, x)
      OBVIOUS
    <3>1. /\ d = Q[1] /\ Q[1][1] = b + 1
          /\ \A i \in 1 .. Len(Q) :
                /\ Len(Q[i]) > 0 /\ Follow(Q[i], Q[i][1] - 1)
                /\ Q[i][1] + Len(Q[i]) <= y + 1
          /\ \A i \in 1 .. Len(Q) - 1 : Q[i + 1][1] = Q[i][1] + Len(Q[i])
          /\ Q[Len(Q)][1] + Len(Q[Len(Q)]) = y + 1
      BY <1>7, <1>9
    <3>2. t.wr = "done" => t.at = t.len
      BY <2>4
    <3>3. t.wr # "no" /\ t.len = Len(Q[1]) /\ t.at <= t.len /\ t.src = "node"
      BY <2>4, <2>8, <3>1
    <3>4. Q[1][1] + t.at = (b + k) + 1
      <4> DEFINE e == Q[1][1]
      <4>1. e = b + 1 /\ t.at = k
        BY <2>4, <3>1
      <4> HIDE DEF e, b
      <4>2. e + k = (b + k) + 1
        BY <1>1, <2>4, <4>1
      <4> QED
        BY <4>1, <4>2 DEF e
    <3>5. y = (IF t.rd = "done" THEN x - Len(t.data) ELSE x)
      BY <2>4
    <3> HIDE DEF y, d
    <3> QED
      BY <1>9, <2>4, <3>1, <3>2, <3>3, <3>4, <3>5 DEF InQueue
  <2> QED
    BY <1>0, <1>1, <1>2, <1>6, <2>4, <2>6, <2>7, <2>8, <2>9, RawGoesOn
<1> QED
  BY <1>8, <1>9

\* Every step of the servers without a protocol, and of their clients.
LEMMA RawStep ==
  ASSUME IInv, RawNext, UNCHANGED <<framed, vars>>
  PROVE  IInv' /\ E!EchoNext
<1>1. ASSUME NEW c \in Client, RawClient(c)
      PROVE  IInv' /\ E!EchoNext
  <2>1. /\ program \in RawPrograms /\ UNCHANGED <<consumed, ses>>
        /\ Connect(c) \/ (\E n \in Lines : Ask(c, n)) \/ Leave(c)
    BY <1>1 DEF RawClient, BlockingClient, CoroutineClient, AsyncClient,
                RawPrograms
  <2> QED
    BY <2>1, RawConnects, RawAsks, RawLeaves, RawAssumption
<1>2. ASSUME NEW c \in Client, up, Sockets(c)
      PROVE  IInv' /\ E!EchoNext
  <2>1. "begun" \in {ses[c].rd, ses[c].wr}
    BY <1>2 DEF Sockets, Arrive, ReadFails, WriteFails, Transmit
  <2>2. program \in RawPrograms
    BY <2>1 DEF IInv, OthersOff, RawOff, NoSession
  <2> QED
    BY <1>2, <2>2, RawArrive, RawFailure, RawTransmit DEF Sockets
<1>3. ASSUME NEW c \in Client, up, program \in RawPrograms
      PROVE  /\ Failed(c) => conn[c] = "served"
             /\ ses[c].rd # "no" => conn[c] = "served"
             /\ ses[c].wr # "no" => conn[c] = "served"
             /\ ses[c].data \in Seq(Nat)
             /\ ses[c] = [ses[c] EXCEPT !.data = ses[c].data]
  BY <1>3, RawFacts DEF Failed, Session
<1>4. <<>> \in Seq(Nat)
  BY EmptySeq
<1>5. ASSUME NEW c \in Client, up, Blocking(c)
      PROVE  IInv' /\ E!EchoNext
  <2>1. program = "blocking" /\ program \in RawPrograms
    BY <1>5 DEF Blocking, RawPrograms
  <2> QED
    BY <1>3, <1>4, <1>5, <2>1, RawEchoRead, RawEchoWritten, RawEchoEnds,
       RawAccepted
    DEF Blocking, BlockingSession, BlockingServer
<1>6. ASSUME NEW c \in Client, up, Coroutine(c)
      PROVE  IInv' /\ E!EchoNext
  <2>1. program = "coroutine" /\ program \in RawPrograms
    BY <1>6 DEF Coroutine, RawPrograms
  <2> DEFINE bytes == ses[c].data
  <2>2. bytes \in Seq(Nat) /\ ses[c] = [ses[c] EXCEPT !.data = bytes]
    BY <1>3, <1>6, <2>1
  <2> HIDE DEF bytes
  <2> QED
    BY <1>3, <1>6, <2>1, <2>2, RawEchoRead, RawEchoWritten, RawEchoEnds,
       RawAccepted, RawListenEnds
    DEF Coroutine, CoroutineEcho, Listen
<1>7. ASSUME NEW c \in Client, RunThrows(c), program \in RawPrograms
      PROVE  IInv' /\ E!EchoNext
  BY <1>7, RawDies DEF RunThrows
<1>8. ASSUME NEW c \in Client, up, Manual(c)
      PROVE  IInv' /\ E!EchoNext
  <2>1. program = "manual" /\ program \in RawPrograms
    BY <1>8 DEF Manual, RawPrograms
  <2> QED
    BY <1>3, <1>4, <1>7, <1>8, <2>1, RawEchoRead, RawEchoWritten, RawEchoEnds,
       RawAccepted
    DEF Manual, ErrHandleRead, ErrHandleWrite, ErrHandleAccept, Cleared
<1>9. ASSUME NEW c \in Client, up, Shared(c)
      PROVE  IInv' /\ E!EchoNext
  <2>1. program = "shared" /\ program \in RawPrograms
    BY <1>9 DEF Shared, RawPrograms
  <2> QED
    BY <1>3, <1>4, <1>7, <1>9, <2>1, RawEchoRead, RawEchoWritten,
       RawReadRemoves, RawWriteRemoves, RawAccepted
    DEF Shared, SharedHandleRead, SharedHandleWrite, SharedHandleAccept,
        Cleared
<1>10. ASSUME NEW c \in Client, up, Queued(c)
       PROVE  IInv' /\ E!EchoNext
  <2>1. program = "queued" /\ program \in RawPrograms
    BY <1>10 DEF Queued, RawPrograms
  <2>2. CASE QueuedHandleRead(c)
    BY <1>10, <2>1, <2>2, RawQueuedSend, RawReadRemoves DEF QueuedHandleRead
  <2>3. CASE QueuedHandleWrite(c)
    BY <1>10, <2>1, <2>3, RawQueuedWrite, RawWriteRemoves
    DEF QueuedHandleWrite
  <2>4. CASE QueuedHandleAccept(c)
    BY <1>7, <1>10, <2>1, <2>4, RawAccepted DEF QueuedHandleAccept
  <2> QED
    BY <1>10, <2>2, <2>3, <2>4 DEF Queued
<1>11. ASSUME NEW c \in Client, RawServer(c)
       PROVE  IInv' /\ E!EchoNext
  BY <1>2, <1>5, <1>6, <1>8, <1>9, <1>10, <1>11 DEF RawServer
<1>12. CASE BlockingMain \/ SignalStops
  BY <1>12, RawDies DEF BlockingMain, SignalStops, RawPrograms
<1> QED
  BY <1>1, <1>11, <1>12 DEF RawNext

-----------------------------------------------------------------------------
(***************************************************************************)
(* The servers that frame their messages: the line of a client's messages  *)
(* in the queue of LogicSystem, and the way of the others.                 *)
(***************************************************************************)
\* Nobody is in an empty line.
LEMMA LineEmpty ==
  ASSUME NEW c, NEW lo \in Int, NEW hi \in Int
  PROVE  /\ lo = hi => InLine(<<>>, c, lo, hi)
         /\ lo <= hi /\ InLine(<<>>, c, lo, hi) => lo = hi
<1>1. Len(<<>>) = 0 /\ 1 .. 0 = {}
  OBVIOUS
<1>2. {<<>>[i].msg : i \in {j \in 1 .. Len(<<>>) : <<>>[j].client = c}} = {}
  BY <1>1
<1>3. lo + 1 .. hi = {} <=> hi <= lo
  <2>1. hi > lo => lo + 1 \in lo + 1 .. hi
    OBVIOUS
  <2>2. hi <= lo => lo + 1 .. hi = {}
    OBVIOUS
  <2> QED
    BY <2>1, <2>2
<1>4. lo = hi => InLine(<<>>, c, lo, hi)
  BY <1>1, <1>2, <1>3 DEF InLine
<1>5. lo <= hi /\ InLine(<<>>, c, lo, hi) => lo = hi
  <2> SUFFICES ASSUME lo <= hi, InLine(<<>>, c, lo, hi)
               PROVE  lo = hi
    OBVIOUS
  <2>1. lo + 1 .. hi = {}
    BY <1>2 DEF InLine
  <2> QED
    BY <1>3, <2>1
<1> QED
  BY <1>4, <1>5

\* A message of another client is of no concern.
LEMMA LineAside ==
  ASSUME NEW q \in Seq(Posted), NEW m \in Posted, NEW c, m.client # c,
         NEW lo, NEW hi, InLine(q, c, lo, hi)
  PROVE  InLine(Append(q, m), c, lo, hi)
<1> DEFINE l == Len(q)
           Q == Append(q, m)
<1>1. l \in Nat /\ Len(Q) = l + 1 /\ Q[l + 1] = m /\ \A i \in 1 .. l : Q[i] = q[i]
  BY AppendProperties
<1>2. \A i \in 1 .. l + 1 : Q[i].client = c => i \in 1 .. l
  <2>1. \A i \in 1 .. l + 1 : i # l + 1 => i \in 1 .. l
    BY <1>1
  <2> HIDE DEF Q
  <2> QED
    BY <1>1, <2>1
<1>3. {j \in 1 .. l + 1 : Q[j].client = c} = {j \in 1 .. l : q[j].client = c}
  <2>1. \A j \in 1 .. l : j \in 1 .. l + 1
    BY <1>1
  <2> HIDE DEF Q
  <2> QED
    BY <1>1, <1>2, <2>1
<1>4. {Q[i].msg : i \in {j \in 1 .. l + 1 : Q[j].client = c}} = lo + 1 .. hi
  <2>1. {q[i].msg : i \in {j \in 1 .. l : q[j].client = c}} = lo + 1 .. hi
    BY DEF InLine
  <2>2. \A i \in {j \in 1 .. l : q[j].client = c} : Q[i].msg = q[i].msg
    BY <1>1
  <2> HIDE DEF Q, l
  <2>3. {Q[i].msg : i \in {j \in 1 .. l : q[j].client = c}}
          = {q[i].msg : i \in {j \in 1 .. l : q[j].client = c}}
    BY <2>2
  <2> QED
    BY <1>3, <2>1, <2>3
<1>5. ASSUME NEW i \in 1 .. l + 1, NEW j \in 1 .. l + 1,
             Q[i].client = c, Q[j].client = c, i < j
      PROVE  Q[i].msg < Q[j].msg
  <2>1. i \in 1 .. l /\ j \in 1 .. l
    BY <1>2, <1>5
  <2> HIDE DEF Q
  <2> QED
    BY <1>1, <1>5, <2>1 DEF InLine
<1> HIDE DEF Q
<1> QED
  BY <1>1, <1>4, <1>5 DEF InLine, Q

\* The next message of the client joins the line.
LEMMA LineGrows ==
  ASSUME NEW q \in Seq(Posted), NEW m \in Posted, NEW c, m.client = c,
         NEW lo \in Int, NEW hi \in Int, lo <= hi, m.msg = hi + 1,
         InLine(q, c, lo, hi)
  PROVE  InLine(Append(q, m), c, lo, hi + 1)
<1> DEFINE l == Len(q)
           Q == Append(q, m)
<1>1. l \in Nat /\ Len(Q) = l + 1 /\ Q[l + 1] = m /\ \A i \in 1 .. l : Q[i] = q[i]
  BY AppendProperties
<1>2. \A i \in 1 .. l + 1 : i # l + 1 => i \in 1 .. l
  BY <1>1
<1>3. {q[i].msg : i \in {j \in 1 .. l : q[j].client = c}} = lo + 1 .. hi
  BY DEF InLine
<1>4. l + 1 \in 1 .. l + 1 /\ \A i \in 1 .. l : i \in 1 .. l + 1
  BY <1>1
<1> HIDE DEF Q, l
<1>5. {Q[i].msg : i \in {j \in 1 .. l + 1 : Q[j].client = c}} = lo + 1 .. hi + 1
  <2>1. ASSUME NEW i \in 1 .. l + 1, Q[i].client = c
        PROVE  Q[i].msg \in lo + 1 .. hi + 1
    <3>1. CASE i = l + 1
      BY <1>1, <3>1
    <3>2. CASE i # l + 1
      <4>1. i \in 1 .. l /\ Q[i] = q[i]
        BY <1>1, <1>2, <3>2
      <4>2. q[i].msg \in lo + 1 .. hi
        BY <1>3, <2>1, <4>1
      <4> QED
        BY <4>1, <4>2
    <3> QED
      BY <3>1, <3>2
  <2>2. ASSUME NEW k \in lo + 1 .. hi + 1
        PROVE  \E i \in 1 .. l + 1 : Q[i].client = c /\ Q[i].msg = k
    <3>1. CASE k = hi + 1
      BY <1>1, <1>4, <3>1
    <3>2. CASE k # hi + 1
      <4>1. k \in lo + 1 .. hi
        BY <3>2
      <4>2. PICK i \in 1 .. l : q[i].client = c /\ q[i].msg = k
        BY <1>3, <4>1
      <4> QED
        BY <1>1, <1>4, <4>2
    <3> QED
      BY <3>1, <3>2
  <2> QED
    BY <2>1, <2>2
<1>6. ASSUME NEW i \in 1 .. l + 1, NEW j \in 1 .. l + 1,
             Q[i].client = c, Q[j].client = c, i < j
      PROVE  Q[i].msg < Q[j].msg
  <2>1. i \in 1 .. l /\ Q[i] = q[i]
    BY <1>1, <1>6
  <2>2. CASE j = l + 1
    <3>1. q[i].msg \in lo + 1 .. hi
      BY <1>3, <1>6, <2>1
    <3> QED
      BY <1>1, <2>1, <2>2, <3>1
  <2>3. CASE j # l + 1
    <3>1. j \in 1 .. l /\ Q[j] = q[j]
      BY <1>1, <1>2, <2>3
    <3> QED
      BY <1>6, <2>1, <3>1 DEF InLine, l
  <2> QED
    BY <2>2, <2>3
<1> QED
  BY <1>1, <1>5, <1>6 DEF InLine, Q

\* The front of the queue is taken: when it is of the client, it is the first
\* in the line, and the others follow.
LEMMA LineShrinks ==
  ASSUME NEW q \in Seq(Posted), q # <<>>, NEW c, NEW lo \in Int, NEW hi \in Int,
         InLine(q, c, lo, hi)
  PROVE  /\ Head(q).client # c => InLine(Tail(q), c, lo, hi)
         /\ Head(q).client = c => /\ Head(q).msg = lo + 1 /\ lo < hi
                                  /\ InLine(Tail(q), c, lo + 1, hi)
<1> DEFINE l == Len(q)
           Q == Tail(q)
           m == Head(q)
<1>1. /\ l \in Nat \ {0} /\ Len(Q) = l - 1 /\ m = q[1] /\ m \in Posted
      /\ \A i \in 1 .. l - 1 : Q[i] = q[i + 1]
  <2>1. l \in Nat \ {0}
    BY EmptySeq
  <2> QED
    BY <2>1, HeadTailProperties
<1>2. {q[i].msg : i \in {j \in 1 .. l : q[j].client = c}} = lo + 1 .. hi
  BY DEF InLine
<1>3. \A i, j \in 1 .. l :
        q[i].client = c /\ q[j].client = c /\ i < j => q[i].msg < q[j].msg
  BY DEF InLine
<1> HIDE DEF l, Q, m
<1>4. /\ 1 \in 1 .. l
      /\ \A i \in 1 .. l - 1 : i + 1 \in 1 .. l /\ 1 < i + 1
      /\ \A i \in 1 .. l : i # 1 => i - 1 \in 1 .. l - 1 /\ (i - 1) + 1 = i
      /\ \A i, j \in 1 .. l - 1 : i < j => i + 1 < j + 1
  BY <1>1
<1>5. ASSUME NEW i \in 1 .. l - 1, NEW j \in 1 .. l - 1,
             Q[i].client = c, Q[j].client = c, i < j
      PROVE  Q[i].msg < Q[j].msg
  <2> DEFINE x == i + 1
             y == j + 1
  <2>1. x \in 1 .. l /\ y \in 1 .. l /\ x < y
    BY <1>4, <1>5
  <2>2. Q[i] = q[x] /\ Q[j] = q[y]
    BY <1>1
  <2> HIDE DEF x, y
  <2> QED
    BY <1>3, <1>5, <2>1, <2>2
<1>6. ASSUME m.client # c
      PROVE  InLine(Q, c, lo, hi)
  <2>1. ASSUME NEW i \in 1 .. l - 1, Q[i].client = c
        PROVE  Q[i].msg \in lo + 1 .. hi
    BY <1>1, <1>2, <1>4, <2>1
  <2>2. ASSUME NEW k \in lo + 1 .. hi
        PROVE  \E i \in 1 .. l - 1 : Q[i].client = c /\ Q[i].msg = k
    <3>1. PICK i \in 1 .. l : q[i].client = c /\ q[i].msg = k
      BY <1>2
    <3>2. i # 1
      BY <1>1, <1>6, <3>1
    <3>3. i - 1 \in 1 .. l - 1 /\ Q[i - 1] = q[i]
      BY <1>1, <1>4, <3>2
    <3> QED
      BY <3>1, <3>3
  <2>3. {Q[i].msg : i \in {j \in 1 .. l - 1 : Q[j].client = c}} = lo + 1 .. hi
    BY <2>1, <2>2
  <2> QED
    BY <1>1, <1>5, <2>3 DEF InLine
<1>7. ASSUME m.client = c
      PROVE  m.msg = lo + 1 /\ lo < hi /\ InLine(Q, c, lo + 1, hi)
  <2>1. m.msg \in lo + 1 .. hi /\ lo < hi
    <3>1. m.msg \in lo + 1 .. hi
      BY <1>1, <1>2, <1>4, <1>7
    <3> QED
      BY <3>1
  <2>2. m.msg = lo + 1
    <3>1. lo + 1 \in lo + 1 .. hi
      BY <2>1
    <3>2. PICK i \in 1 .. l : q[i].client = c /\ q[i].msg = lo + 1
      BY <1>2, <3>1
    <3>3. CASE i = 1
      BY <1>1, <3>2, <3>3
    <3>4. CASE i # 1
      <4>1. q[1].msg < q[i].msg
        BY <1>1, <1>3, <1>4, <1>7, <3>2, <3>4
      <4> QED
        BY <1>1, <2>1, <3>2, <4>1
    <3> QED
      BY <3>3, <3>4
  <2>3. ASSUME NEW i \in 1 .. l - 1, Q[i].client = c
        PROVE  Q[i].msg \in (lo + 1) + 1 .. hi
    <3>1. Q[i] = q[i + 1] /\ i + 1 \in 1 .. l /\ 1 < i + 1
      BY <1>1, <1>4
    <3>2. q[i + 1].msg \in lo + 1 .. hi
      BY <1>2, <2>3, <3>1
    <3>3. q[1].msg < q[i + 1].msg
      BY <1>1, <1>3, <1>4, <1>7, <2>3, <3>1
    <3> QED
      BY <1>1, <2>2, <3>1, <3>2, <3>3
  <2>4. ASSUME NEW k \in (lo + 1) + 1 .. hi
        PROVE  \E i \in 1 .. l - 1 : Q[i].client = c /\ Q[i].msg = k
    <3>1. k \in lo + 1 .. hi /\ k # lo + 1
      OBVIOUS
    <3>2. PICK i \in 1 .. l : q[i].client = c /\ q[i].msg = k
      BY <1>2, <3>1
    <3>3. i # 1
      BY <1>1, <2>2, <3>1, <3>2
    <3>4. i - 1 \in 1 .. l - 1 /\ Q[i - 1] = q[i]
      BY <1>1, <1>4, <3>3
    <3> QED
      BY <3>2, <3>4
  <2>5. {Q[i].msg : i \in {j \in 1 .. l - 1 : Q[j].client = c}}
          = (lo + 1) + 1 .. hi
    BY <2>3, <2>4
  <2> QED
    BY <1>1, <1>5, <2>1, <2>2, <2>5 DEF InLine
<1> QED
  BY <1>6, <1>7 DEF m, Q

\* The numbers of replies.
LEMMA RepliesAre ==
  ASSUME NEW b \in Nat, NEW d \in Seq(Frame), NEW s \in FrameSession,
         (s.queue = <<>>) = (s.wr = "no")
  PROVE  /\ Len(d) \in Nat /\ Len(s.queue) \in Nat
         /\ Replies(b, d, s) \in Nat /\ b + Len(d) <= Replies(b, d, s)
         /\ s.wr = "done" =>
              Replies(b, d, s) - Len(s.queue) = b + Len(d) - 1
         /\ s.wr # "done" => Replies(b, d, s) - Len(s.queue) = b + Len(d)
<1> DEFINE l == Len(d)
           n == Len(s.queue)
<1>1. l \in Nat /\ n \in Nat /\ s.queue \in Seq(Frame)
  BY DEF FrameSession
<1>2. s.wr = "done" => n # 0
  BY <1>1, EmptySeq
<1>3. Replies(b, d, s) = b + l + n - (IF s.wr = "done" THEN 1 ELSE 0)
  BY DEF Replies
<1> HIDE DEF l, n
<1> DEFINE r == Replies(b, d, s)
<1>4. /\ s.wr = "done" => r = b + l + n - 1
      /\ s.wr # "done" => r = b + l + n
  BY <1>1, <1>3
<1> HIDE DEF r
<1>5. /\ r \in Nat /\ b + l <= r
      /\ s.wr = "done" => r - n = b + l - 1
      /\ s.wr # "done" => r - n = b + l
  BY <1>1, <1>2, <1>4
<1> QED
  BY <1>1, <1>5 DEF r, l, n

LEMMA FollowAppends ==
  ASSUME NEW s \in Seq(Frame), NEW m \in Frame, NEW n \in Int,
         FollowMsg(s, n), m.msg = n + Len(s) + 1
  PROVE  FollowMsg(Append(s, m), n)
<1> DEFINE l == Len(s)
           S == Append(s, m)
<1>1. l \in Nat /\ Len(S) = l + 1 /\ S[l + 1] = m /\ \A i \in 1 .. l : S[i] = s[i]
  BY AppendProperties
<1>2. \A i \in 1 .. l + 1 : i # l + 1 => i \in 1 .. l
  BY <1>1
<1> HIDE DEF S
<1>3. \A i \in 1 .. l + 1 : S[i].msg = n + i
  BY <1>1, <1>2 DEF FollowMsg
<1> QED
  BY <1>1, <1>3 DEF FollowMsg, S

LEMMA FollowTail ==
  ASSUME NEW s \in Seq(Frame), s # <<>>, NEW n \in Int, FollowMsg(s, n)
  PROVE  /\ Head(s) \in Frame /\ Head(s).msg = n + 1
         /\ Tail(s) \in Seq(Frame) /\ Len(s) \in Nat \ {0}
         /\ Len(Tail(s)) = Len(s) - 1 /\ FollowMsg(Tail(s), n + 1)
<1> DEFINE l == Len(s)
           S == Tail(s)
<1>1. /\ l \in Nat \ {0} /\ Len(S) = l - 1 /\ S \in Seq(Frame)
      /\ Head(s) = s[1] /\ Head(s) \in Frame
      /\ \A i \in 1 .. l - 1 : S[i] = s[i + 1]
  <2>1. l \in Nat \ {0}
    BY EmptySeq
  <2> QED
    BY <2>1, HeadTailProperties
<1>2. 1 \in 1 .. l /\ \A i \in 1 .. l - 1 : i + 1 \in 1 .. l
  BY <1>1
<1>3. s[1].msg = n + 1
  BY <1>2 DEF FollowMsg
<1> HIDE DEF S
<1>4. ASSUME NEW i \in 1 .. l - 1
      PROVE  S[i].msg = (n + 1) + i
  <2>1. S[i] = s[i + 1] /\ s[i + 1].msg = n + (i + 1)
    BY <1>1, <1>2 DEF FollowMsg
  <2> QED
    BY <1>1, <2>1
<1>5. FollowMsg(S, n + 1)
  BY <1>1, <1>4 DEF FollowMsg
<1> QED
  BY <1>1, <1>3, <1>5 DEF S

\* A step of the session that leaves its queue alone.
LEMMA StepsKept ==
  ASSUME NEW c, NEW b, NEW d, NEW s, NEW t, NEW q, NEW f, NEW a,
         t.queue = s.queue, t.wr = s.wr
  PROVE  /\ Replies(b, d, t) = Replies(b, d, s)
         /\ InStep(c, b, d, s, q, f, a) => InStep(c, b, d, t, q, f, a)
BY DEF InStep, Replies

\* The client writes its next message.
LEMMA StepsAsk ==
  ASSUME NEW c, NEW b \in Nat, NEW d \in Seq(Frame), NEW s \in FrameSession,
         (s.queue = <<>>) = (s.wr = "no"), NEW q, NEW f \in Seq(Frame),
         NEW a \in Nat, InStep(c, b, d, s, q, f, a),
         NEW m \in Frame, m.msg = a + 1
  PROVE  InStep(c, b, d, s, q, Append(f, m), a + 1)
<1> DEFINE r == Replies(b, d, s)
<1>1. r \in Nat
  BY RepliesAre
<1>2. PICK n \in r .. a : InLine(q, c, r, n) /\ FollowMsg(f, n)
                          /\ n + Len(f) = a
  BY DEF InStep
<1>3. FollowMsg(d, b) /\ FollowMsg(s.queue, r - Len(s.queue))
  BY DEF InStep
<1> HIDE DEF r
<1>4. n \in Int /\ n \in r .. a + 1 /\ m.msg = n + Len(f) + 1
  BY <1>1, <1>2
<1>5. FollowMsg(Append(f, m), n)
  BY <1>2, <1>4, FollowAppends
<1> DEFINE l == Len(f)
           L == Len(Append(f, m))
<1>6. L = l + 1 /\ l \in Nat
  BY AppendProperties
<1>7. n + l = a
  BY <1>2
<1> HIDE DEF l, L
<1>8. n + L = a + 1
  BY <1>4, <1>6, <1>7
<1> QED
  BY <1>2, <1>3, <1>4, <1>5, <1>8 DEF InStep, r, L

\* A reply comes back: it is to the first message not yet answered.
LEMMA StepsReply ==
  ASSUME NEW c, NEW b \in Nat, NEW d \in Seq(Frame), NEW s \in FrameSession,
         (s.queue = <<>>) = (s.wr = "no"), NEW q, NEW f \in Seq(Frame),
         NEW a \in Nat, InStep(c, b, d, s, q, f, a), d # <<>>
  PROVE  /\ Head(d).msg = b + 1 /\ b + 1 <= a
         /\ InStep(c, b + 1, Tail(d), s, q, f, a)
<1> DEFINE r == Replies(b, d, s)
           e == Tail(d)
           l == Len(d)
           k == Len(s.queue)
<1>1. /\ Head(d).msg = b + 1 /\ e \in Seq(Frame) /\ l \in Nat \ {0}
      /\ Len(e) = l - 1 /\ FollowMsg(e, b + 1)
  BY FollowTail DEF InStep
<1>2. r \in Nat /\ b + l <= r /\ k \in Nat
  BY RepliesAre
<1>3. PICK n \in r .. a : InLine(q, c, r, n) /\ FollowMsg(f, n)
                          /\ n + Len(f) = a
  BY DEF InStep
<1>4. FollowMsg(s.queue, r - k)
  BY DEF InStep
<1>5. Replies(b + 1, e, s) = r
  <2> DEFINE w == IF s.wr = "done" THEN 1 ELSE 0
  <2>1. w \in Int
    OBVIOUS
  <2>2. r = b + l + k - w /\ Replies(b + 1, e, s) = (b + 1) + Len(e) + k - w
    BY DEF Replies
  <2> HIDE DEF r, l, k, w, e
  <2> QED
    BY <1>1, <1>2, <2>1, <2>2
<1> HIDE DEF r, l, e, k
<1>6. b + 1 <= a
  BY <1>1, <1>2, <1>3
<1>7. InStep(c, b + 1, e, s, q, f, a)
  BY <1>1, <1>3, <1>4, <1>5 DEF InStep, k
<1> QED
  BY <1>1, <1>6, <1>7 DEF e

\* The reply to the message after those answered joins the queue of replies.
LEMMA ReplyQueued ==
  ASSUME NEW b \in Nat, NEW d \in Seq(Frame), NEW s \in FrameSession,
         (s.queue = <<>>) = (s.wr = "no"),
         FollowMsg(s.queue, Replies(b, d, s) - Len(s.queue)),
         NEW m \in Frame, m.msg = Replies(b, d, s) + 1,
         NEW t, t.queue = Append(s.queue, m),
         t.wr = IF s.queue = <<>> THEN "begun" ELSE s.wr
  PROVE  /\ Replies(b, d, t) = Replies(b, d, s) + 1
         /\ FollowMsg(t.queue, Replies(b, d, t) - Len(t.queue))
<1> DEFINE r == Replies(b, d, s)
           R == Replies(b, d, t)
           k == Len(s.queue)
           l == Len(d)
           w == IF s.wr = "done" THEN 1 ELSE 0
           v == IF t.wr = "done" THEN 1 ELSE 0
<1>1. r \in Nat /\ k \in Nat /\ l \in Nat
  BY RepliesAre
<1>2. s.queue \in Seq(Frame)
  BY DEF FrameSession
<1>3. Len(t.queue) = k + 1
  BY <1>2, AppendProperties
<1>4. w = v /\ w \in Int
  OBVIOUS
<1>5. r = b + l + k - w /\ R = b + l + (k + 1) - v
  BY <1>3 DEF Replies
<1> HIDE DEF r, R, k, l, w, v
<1>6. R = r + 1 /\ R - (k + 1) = r - k /\ r - k \in Int
      /\ r + 1 = (r - k) + k + 1
  BY <1>1, <1>4, <1>5
<1>7. FollowMsg(Append(s.queue, m), r - k)
  <2>1. m.msg = (r - k) + k + 1
    BY <1>6 DEF r
  <2>2. FollowMsg(s.queue, r - k) /\ k = Len(s.queue)
    BY DEF r, k
  <2> QED
    BY <1>2, <1>6, <2>1, <2>2, FollowAppends
<1> QED
  BY <1>3, <1>6, <1>7 DEF r, R

\* The session answers the next message itself.
LEMMA StepsServed ==
  ASSUME NEW c, NEW b \in Nat, NEW d \in Seq(Frame), NEW s \in FrameSession,
         (s.queue = <<>>) = (s.wr = "no"), NEW f \in Seq(Frame), NEW a \in Nat,
         InStep(c, b, d, s, <<>>, f, a), f # <<>>,
         NEW m \in Frame, m.msg = Head(f).msg,
         NEW t, t.queue = Append(s.queue, m),
         t.wr = IF s.queue = <<>> THEN "begun" ELSE s.wr
  PROVE  InStep(c, b, d, t, <<>>, Tail(f), a)
<1> DEFINE r == Replies(b, d, s)
           R == Replies(b, d, t)
           l == Len(f)
           g == Tail(f)
<1>1. r \in Nat
  BY RepliesAre
<1>2. PICK n \in r .. a : InLine(<<>>, c, r, n) /\ FollowMsg(f, n) /\ n + l = a
  BY DEF InStep
<1>3. FollowMsg(d, b) /\ FollowMsg(s.queue, r - Len(s.queue))
  BY DEF InStep
<1>4. n \in Int /\ n = r
  BY <1>1, <1>2, LineEmpty
<1>5. /\ Head(f).msg = n + 1 /\ l \in Nat \ {0} /\ Len(g) = l - 1
      /\ FollowMsg(g, n + 1)
  BY <1>2, <1>4, FollowTail
<1>6. R = r + 1 /\ FollowMsg(t.queue, R - Len(t.queue))
  <2>1. m.msg = r + 1
    BY <1>4, <1>5
  <2> QED
    BY <1>3, <2>1, ReplyQueued
<1> HIDE DEF r, R, l, g
<1>7. n + 1 \in R .. a /\ (n + 1) + Len(g) = a
  BY <1>1, <1>2, <1>4, <1>5, <1>6
<1>8. InLine(<<>>, c, R, n + 1)
  BY <1>1, <1>4, <1>6, LineEmpty
<1> QED
  BY <1>3, <1>5, <1>6, <1>7, <1>8 DEF InStep, R, g

\* The session posts the next message to LogicSystem.
LEMMA StepsPost ==
  ASSUME NEW c, NEW b \in Nat, NEW d \in Seq(Frame), NEW s \in FrameSession,
         (s.queue = <<>>) = (s.wr = "no"), NEW q \in Seq(Posted),
         NEW f \in Seq(Frame), NEW a \in Nat,
         InStep(c, b, d, s, q, f, a), f # <<>>,
         NEW m \in Posted, m.client = c, m.msg = Head(f).msg
  PROVE  InStep(c, b, d, s, Append(q, m), Tail(f), a)
<1> DEFINE r == Replies(b, d, s)
           l == Len(f)
           g == Tail(f)
<1>1. r \in Nat
  BY RepliesAre
<1>2. PICK n \in r .. a : InLine(q, c, r, n) /\ FollowMsg(f, n) /\ n + l = a
  BY DEF InStep
<1>3. FollowMsg(d, b) /\ FollowMsg(s.queue, r - Len(s.queue))
  BY DEF InStep
<1>4. n \in Int /\ r \in Int /\ r <= n
  BY <1>1, <1>2
<1>5. /\ Head(f).msg = n + 1 /\ l \in Nat \ {0} /\ Len(g) = l - 1
      /\ FollowMsg(g, n + 1)
  BY <1>2, <1>4, FollowTail
<1>6. InLine(Append(q, m), c, r, n + 1)
  <2> HIDE DEF r
  <2> QED
    BY <1>2, <1>4, <1>5, LineGrows
<1> HIDE DEF r, l, g
<1>7. n + 1 \in r .. a /\ (n + 1) + Len(g) = a
  BY <1>1, <1>2, <1>4, <1>5
<1> QED
  BY <1>3, <1>5, <1>6, <1>7 DEF InStep, r, g

\* LogicSystem answers its next message.
LEMMA StepsAnswered ==
  ASSUME NEW c, NEW b \in Nat, NEW d \in Seq(Frame), NEW s \in FrameSession,
         (s.queue = <<>>) = (s.wr = "no"), NEW q \in Seq(Posted),
         NEW f \in Seq(Frame), NEW a \in Nat,
         InStep(c, b, d, s, q, f, a), q # <<>>, Head(q).client = c,
         NEW m \in Frame, m.msg = Head(q).msg,
         NEW t, t.queue = Append(s.queue, m),
         t.wr = IF s.queue = <<>> THEN "begun" ELSE s.wr
  PROVE  InStep(c, b, d, t, Tail(q), f, a)
<1> DEFINE r == Replies(b, d, s)
           R == Replies(b, d, t)
<1>1. r \in Nat
  BY RepliesAre
<1>2. PICK n \in r .. a : InLine(q, c, r, n) /\ FollowMsg(f, n)
                          /\ n + Len(f) = a
  BY DEF InStep
<1>3. FollowMsg(d, b) /\ FollowMsg(s.queue, r - Len(s.queue))
  BY DEF InStep
<1>4. n \in Int /\ r \in Int
  BY <1>1, <1>2
<1>5. Head(q).msg = r + 1 /\ r < n /\ InLine(Tail(q), c, r + 1, n)
  <2> HIDE DEF r
  <2> QED
    BY <1>2, <1>4, LineShrinks
<1>6. R = r + 1 /\ FollowMsg(t.queue, R - Len(t.queue))
  BY <1>3, <1>5, ReplyQueued
<1> HIDE DEF r, R
<1>7. n \in R .. a
  BY <1>1, <1>2, <1>4, <1>5, <1>6
<1> QED
  BY <1>2, <1>3, <1>5, <1>6, <1>7 DEF InStep, R

\* What the others post, and what is done with it, is of no concern.
LEMMA StepsAside ==
  ASSUME NEW c, NEW b \in Nat, NEW d \in Seq(Frame), NEW s \in FrameSession,
         (s.queue = <<>>) = (s.wr = "no"), NEW q \in Seq(Posted), NEW f,
         NEW a \in Nat, InStep(c, b, d, s, q, f, a), NEW Q,
         \/ Q = q
         \/ \E m \in Posted : m.client # c /\ Q = Append(q, m)
         \/ q # <<>> /\ Head(q).client # c /\ Q = Tail(q)
  PROVE  InStep(c, b, d, s, Q, f, a)
<1> DEFINE r == Replies(b, d, s)
<1>1. r \in Nat
  BY RepliesAre
<1>2. PICK n \in r .. a : InLine(q, c, r, n) /\ FollowMsg(f, n)
                          /\ n + Len(f) = a
  BY DEF InStep
<1>3. FollowMsg(d, b) /\ FollowMsg(s.queue, r - Len(s.queue))
  BY DEF InStep
<1>4. n \in Int /\ r \in Int
  BY <1>1, <1>2
<1>5. InLine(Q, c, r, n)
  <2> HIDE DEF r
  <2> QED
    BY <1>2, <1>4, LineAside, LineShrinks
<1> HIDE DEF r
<1> QED
  BY <1>2, <1>3, <1>5 DEF InStep, r

\* The front of the queue of replies is written.
LEMMA StepsWritten ==
  ASSUME NEW c, NEW b \in Nat, NEW d \in Seq(Frame), NEW s \in FrameSession,
         (s.queue = <<>>) = (s.wr = "no"), NEW q, NEW f, NEW a,
         InStep(c, b, d, s, q, f, a), s.wr = "begun",
         NEW t, t.queue = s.queue, t.wr = "done"
  PROVE  InStep(c, b, Append(d, Head(s.queue)), t, q, f, a)
<1> DEFINE D == Append(d, Head(s.queue))
           l == Len(d)
           k == Len(s.queue)
           r == Replies(b, d, s)
           R == Replies(b, D, t)
<1>1. /\ l \in Nat /\ k \in Nat /\ r \in Nat /\ r - k = b + l
  BY RepliesAre
<1>2. s.queue \in Seq(Frame) /\ s.queue # <<>>
  BY DEF FrameSession
<1>3. FollowMsg(d, b) /\ FollowMsg(s.queue, r - k)
  BY DEF InStep
<1>4. Head(s.queue) \in Frame /\ Head(s.queue).msg = (b + l) + 1
  <2>1. b + l \in Int
    BY <1>1
  <2>2. FollowMsg(s.queue, b + l)
    BY <1>1, <1>3
  <2> HIDE DEF l
  <2> QED
    BY <1>2, <2>1, <2>2, FollowTail
<1>5. FollowMsg(D, b) /\ Len(D) = l + 1
  <2>1. Head(s.queue).msg = b + Len(d) + 1
    BY <1>4
  <2> QED
    BY <1>3, <1>4, <2>1, FollowAppends, AppendProperties
<1>6. R = r
  <2>1. r = b + l + k - 0 /\ R = b + Len(D) + k - 1
    BY DEF Replies
  <2> HIDE DEF r, R, l, k, D
  <2> QED
    BY <1>1, <1>5, <2>1
<1>7. PICK n \in r .. a : InLine(q, c, r, n) /\ FollowMsg(f, n)
                          /\ n + Len(f) = a
  BY DEF InStep
<1>8. t.queue = s.queue
  OBVIOUS
<1> HIDE DEF r, R, D
<1> QED
  BY <1>3, <1>5, <1>6, <1>7, <1>8 DEF InStep, R, D

\* It leaves the queue.
LEMMA StepsPopped ==
  ASSUME NEW c, NEW b \in Nat, NEW d \in Seq(Frame), NEW s \in FrameSession,
         (s.queue = <<>>) = (s.wr = "no"), NEW q, NEW f, NEW a,
         InStep(c, b, d, s, q, f, a), s.wr = "done",
         NEW t, t.queue = Tail(s.queue), t.wr # "done"
  PROVE  InStep(c, b, d, t, q, f, a)
<1> DEFINE l == Len(d)
           k == Len(s.queue)
           r == Replies(b, d, s)
           R == Replies(b, d, t)
<1>1. l \in Nat /\ k \in Nat /\ r \in Nat
  BY RepliesAre
<1>2. s.queue \in Seq(Frame) /\ s.queue # <<>>
  BY DEF FrameSession
<1>3. FollowMsg(d, b) /\ FollowMsg(s.queue, r - k)
  BY DEF InStep
<1>4. /\ Len(t.queue) = k - 1 /\ FollowMsg(t.queue, (r - k) + 1)
  <2>1. r - k \in Int
    BY <1>1
  <2> HIDE DEF r
  <2> QED
    BY <1>2, <1>3, <2>1, FollowTail
<1>5. R = r /\ r - (k - 1) = (r - k) + 1
  <2>1. r = b + l + k - 1 /\ R = b + l + Len(t.queue) - 0
    BY DEF Replies
  <2> HIDE DEF r, R, l, k
  <2> QED
    BY <1>1, <1>4, <2>1
<1>6. PICK n \in r .. a : InLine(q, c, r, n) /\ FollowMsg(f, n)
                          /\ n + Len(f) = a
  BY DEF InStep
<1> HIDE DEF r, R
<1> QED
  BY <1>3, <1>4, <1>5, <1>6 DEF InStep, R

-----------------------------------------------------------------------------
\* What a step for client c does to the queue of LogicSystem.
InboxMoves(c) ==
  \/ inbox' = inbox
  \/ /\ program \in LogicPrograms
     /\ \/ \E m \in Posted : m.client = c /\ inbox' = Append(inbox, m)
        \/ inbox # <<>> /\ Head(inbox).client = c /\ inbox' = Tail(inbox)

\* It is enough to look at the client whose step it is.
LEMMA FramedLocal ==
  ASSUME IInv, program \in FramedPrograms, NEW c \in Client,
         UNCHANGED <<program, up, raw, vars>>, OthersStay(c), InboxMoves(c),
         Types', peer'[c] = "new" => conn'[c] = "none",
         program = "S15" => sent' = sent /\ down' = down /\ fses' = fses,
         up => FramedHeld(c)' /\ FramedOrdered(c)' /\ RpcOrdered(c)' /\ Shown(c),
         ~up => down' = down /\ fses' = fses
  PROVE  IInv' /\ E!EchoNext
<1>1. /\ Types /\ Peers /\ OthersOff /\ ParserInv
      /\ program' = program /\ up' = up /\ consumed' = consumed /\ ses' = ses
  BY DEF IInv, raw
<1>2. ParserInv'
  BY <1>1, ParserStep
<1>3. Peers'
  BY <1>1 DEF Peers, OthersStay, Types
<1>4. program \notin RawPrograms /\ program # "parser"
  BY DEF RawPrograms, FramedPrograms
<1>5. OthersOff'
  <2>1. program \notin LogicPrograms => inbox' = inbox
    BY DEF InboxMoves
  <2> QED
    BY <1>1, <1>4, <2>1 DEF OthersOff, RawOff
<1>6. ASSUME up, NEW d \in Client \ {c}
      PROVE  FramedHeld(d)' /\ FramedOrdered(d)' /\ RpcOrdered(d)'
  <2>1. FramedHeld(d) /\ FramedOrdered(d) /\ RpcOrdered(d)
    BY <1>6 DEF IInv
  <2>2. /\ fses'[d] = fses[d] /\ back'[d] = back[d] /\ down'[d] = down[d]
        /\ sent'[d] = sent[d] /\ asked'[d] = asked[d]
        /\ \/ conn'[d] = conn[d]
           \/ conn[d] = "backlog" /\ conn'[d] = "closed"
    BY DEF OthersStay
  <2>3. FramedHeld(d)'
    BY <1>1, <2>1, <2>2 DEF FramedHeld
  <2>4. RpcOrdered(d)'
    BY <1>1, <2>1, <2>2 DEF RpcOrdered
  <2>5. FramedOrdered(d)'
    <3> SUFFICES ASSUME d \notin over', program # "S15"
                 PROVE  /\ conn'[d] # "served" =>
                             /\ Replies(Len(back[d]), down[d], fses[d]) = 0
                             /\ InLine(inbox', d, 0, 0)
                        /\ InStep(d, Len(back[d]), down[d], fses[d], inbox',
                                  sent[d], asked[d])
      BY <1>1, <2>2 DEF FramedOrdered
    <3>1. conn'[d] # "closed" /\ conn'[d] = conn[d] /\ d \notin over
      BY <1>1, <2>2, OverIs DEF OthersStay
    <3> DEFINE b == Len(back[d])
    <3>2. /\ conn[d] # "served" => /\ Replies(b, down[d], fses[d]) = 0
                                   /\ InLine(inbox, d, 0, 0)
          /\ InStep(d, b, down[d], fses[d], inbox, sent[d], asked[d])
      BY <2>1, <3>1 DEF FramedOrdered
    <3>3. /\ b \in Nat /\ down[d] \in Seq(Frame) /\ fses[d] \in FrameSession
          /\ asked[d] \in Nat /\ inbox \in Seq(Posted)
          /\ (fses[d].queue = <<>>) = (fses[d].wr = "no")
      BY <1>1, <2>1 DEF Types, FramedHeld
    <3>4. \/ inbox' = inbox
          \/ \E m \in Posted : m.client # d /\ inbox' = Append(inbox, m)
          \/ inbox # <<>> /\ Head(inbox).client # d /\ inbox' = Tail(inbox)
      BY DEF InboxMoves
    <3>5. InLine(inbox, d, 0, 0) => InLine(inbox', d, 0, 0)
      <4> DEFINE z == 0
      <4>1. z \in Int
        OBVIOUS
      <4> HIDE DEF z
      <4>2. ASSUME InLine(inbox, d, z, z), NEW m \in Posted, m.client # d,
                   inbox' = Append(inbox, m)
            PROVE  InLine(inbox', d, z, z)
        BY <3>3, <4>2, LineAside
      <4>3. ASSUME InLine(inbox, d, z, z), inbox # <<>>,
                   Head(inbox).client # d, inbox' = Tail(inbox)
            PROVE  InLine(inbox', d, z, z)
        BY <3>3, <4>1, <4>3, LineShrinks
      <4>4. InLine(inbox, d, z, z) => InLine(inbox', d, z, z)
        BY <3>4, <4>2, <4>3
      <4> QED
        BY <4>4 DEF z
    <3> HIDE DEF b
    <3>6. InStep(d, b, down[d], fses[d], inbox', sent[d], asked[d])
      BY <3>2, <3>3, <3>4, StepsAside
    <3> QED
      BY <3>1, <3>2, <3>5, <3>6 DEF b
  <2> QED
    BY <2>3, <2>4, <2>5
<1>7. up => \A d \in Client : FramedHeld(d)' /\ FramedOrdered(d)'
                              /\ RpcOrdered(d)'
  BY <1>6
<1>8. ~up => /\ ses' = [d \in Client |-> NoSession]
             /\ down' = [d \in Client |-> <<>>]
             /\ fses' = [d \in Client |-> NoFrameSession]
  BY <1>1 DEF IInv
<1>9. IInv'
  BY <1>1, <1>2, <1>3, <1>4, <1>5, <1>7, <1>8 DEF IInv
<1>10. \A d \in Client : Shown(d)
  <2>1. CASE up
    BY <1>1, <2>1, OthersShow
  <2>2. CASE ~up
    BY <1>1, <2>2, EndsForAll
  <2> QED
    BY <2>1, <2>2
<1> QED
  BY <1>9, <1>10, AllShown

\* What is known of a client before a step.
LEMMA FramedFacts ==
  ASSUME IInv, program \in FramedPrograms, up, NEW c \in Client
  PROVE  /\ Types /\ FramedHeld(c) /\ FramedOrdered(c)
         /\ fses[c] \in FrameSession /\ fses[c].queue \in Seq(Frame)
         /\ sent[c] \in Seq(Frame) /\ down[c] \in Seq(Frame)
         /\ inbox \in Seq(Posted)
         /\ Len(back[c]) \in Nat /\ asked[c] \in Nat
         /\ (fses[c].queue = <<>>) = (fses[c].wr = "no")
         /\ fses[c].rd # "no" \/ fses[c].wr # "no" => conn[c] = "served"
         /\ c \in over \/ program = "S15" \/
              InStep(c, Len(back[c]), down[c], fses[c], inbox, sent[c],
                     asked[c])
<1>1. Types /\ FramedHeld(c) /\ FramedOrdered(c)
  BY DEF IInv
<1>2. /\ fses[c] \in FrameSession /\ sent[c] \in Seq(Frame)
      /\ down[c] \in Seq(Frame) /\ inbox \in Seq(Posted)
      /\ back[c] \in Seq(Nat) /\ asked[c] \in Nat
  BY <1>1 DEF Types
<1>3. fses[c].queue \in Seq(Frame) /\ Len(back[c]) \in Nat
  BY <1>2 DEF FrameSession
<1>4. /\ (fses[c].queue = <<>>) = (fses[c].wr = "no")
      /\ fses[c].rd # "no" \/ fses[c].wr # "no" => conn[c] = "served"
  BY <1>1 DEF FramedHeld
<1>5. c \in over \/ program = "S15" \/
        InStep(c, Len(back[c]), down[c], fses[c], inbox, sent[c], asked[c])
  BY <1>1 DEF FramedOrdered
<1> QED
  BY <1>1, <1>2, <1>3, <1>4, <1>5

\* A step of the server in which nothing comes back and nothing is asked.
LEMMA FramedServes ==
  ASSUME IInv, program \in FramedPrograms, program # "S15", up, NEW c \in Client,
         NEW t \in FrameSession, fses' = [fses EXCEPT ![c] = t],
         NEW d \in Seq(Frame), down' = [down EXCEPT ![c] = d],
         NEW f \in Seq(Frame), sent' = [sent EXCEPT ![c] = f],
         UNCHANGED <<program, up, listening, peer, asked, back>>,
         UNCHANGED <<raw, vars>>, InboxMoves(c), inbox' \in Seq(Posted),
         NEW n \in {"backlog", "served", "closed"},
         conn[c] \in {"backlog", "served"}, conn' = [conn EXCEPT ![c] = n],
         n = "served" <=> t.rd # "no" \/ t.wr # "no",
         t.held => t.rd # "no",
         (t.queue = <<>>) = (t.wr = "no"), t.rd = "body" => f # <<>>,
         t.want < 0 => t.rd = "body",
         Spent(fses[c]) => Spent(t) \/ n = "closed",
         n = "backlog" => ~Spent(t),
         n # "closed" /\ c \notin over /\ ~Spent(t) =>
           /\ n = "served"
           /\ InStep(c, Len(back[c]), d, t, inbox', f, asked[c])
  PROVE  IInv' /\ E!EchoNext
<1>1. /\ Types /\ Peers /\ OthersOff
      /\ program' = program /\ up' = up /\ peer' = peer /\ asked' = asked
      /\ back' = back /\ consumed' = consumed /\ ses' = ses
  BY DEF IInv, raw
<1>2. /\ fses' \in [Client -> FrameSession] /\ fses'[c] = t
      /\ down' \in [Client -> Seq(Frame)] /\ down'[c] = d
      /\ sent' \in [Client -> Seq(Frame)] /\ sent'[c] = f
      /\ conn' \in [Client -> {"none", "backlog", "served", "closed"}]
      /\ conn'[c] = n
      /\ \A e \in Client \ {c} :
           /\ fses'[e] = fses[e] /\ down'[e] = down[e] /\ sent'[e] = sent[e]
           /\ conn'[e] = conn[e]
  BY <1>1 DEF Types
<1>3. Types'
  BY <1>1, <1>2 DEF Types
<1>4. OthersStay(c)
  BY <1>1, <1>2 DEF OthersStay
<1>5. peer[c] # "new"
  BY <1>1 DEF Peers
<1>6. FramedHeld(c)'
  <2>1. t.held \in BOOLEAN
    BY DEF FrameSession
  <2>2. n # "served" => t.rd = "no" /\ t.wr = "no" /\ ~t.held
    BY <2>1
  <2>3. n = "served" => t.rd # "no" \/ t.wr # "no"
    OBVIOUS
  <2>4. n = "backlog" => ~Spent(t)
    OBVIOUS
  <2> QED
    BY <1>2, <2>2, <2>3, <2>4 DEF FramedHeld
<1>7. c \in over => c \in over'
  BY <1>1, <1>2, OverIs
<1>8. FramedOrdered(c)'
  <2> SUFFICES ASSUME c \notin over'
               PROVE  /\ n = "served"
                      /\ InStep(c, Len(back[c]), d, t, inbox', f, asked[c])
    BY <1>1, <1>2 DEF FramedOrdered
  <2>1. n # "closed" /\ c \notin over /\ ~Spent(t)
    BY <1>1, <1>2, <1>7, OverIs
  <2> QED
    BY <2>1
<1>9. Shown(c)
  BY <1>1, <1>7 DEF Shown, E!Nothing
<1>10. RpcOrdered(c)'
  BY <1>1 DEF RpcOrdered
<1> QED
  BY <1>1, <1>3, <1>4, <1>5, <1>6, <1>8, <1>9, <1>10, FramedLocal

\* The bytes of a header, in the other order.
LEMMA SwapIs == ASSUME NEW n \in Nat PROVE Swap(n) \in Nat /\ Swap(n) <= 65535
<1> DEFINE e == n \div 256
           x == n % 256
           y == e % 256
<1>1. e \in Nat /\ x \in 0 .. 255
  OBVIOUS
<1> HIDE DEF e, x
<1>2. y \in 0 .. 255
  BY <1>1
<1> HIDE DEF y
<1>3. x * 256 + y \in Nat /\ x * 256 + y <= 65535
  BY <1>1, <1>2
<1>4. Swap(n) = x * 256 + y
  BY DEF Swap, e, x, y
<1> QED
  BY <1>3, <1>4

LEMMA HeadIs ==
  ASSUME NEW k \in Nat \ {0}, NEW n \in Nat, NEW h \in Nat, h <= 65535
  PROVE  [msg |-> k, len |-> n, head |-> h] \in Frame
<1> DEFINE m == 65535
<1>1. m \in Nat /\ h <= m
  OBVIOUS
<1>2. Frame = [msg : Nat \ {0}, len : Nat, head : 0 .. m]
  BY DEF Frame
<1> HIDE DEF m
<1>3. h \in 0 .. m
  BY <1>1
<1> QED
  BY <1>2, <1>3

LEMMA HeadOf ==
  \A f \in Frame : f.msg \in Nat \ {0} /\ f.len \in Nat /\ f.head \in Nat
<1> DEFINE m == 65535
<1>1. m \in Nat
  OBVIOUS
<1>2. Frame = [msg : Nat \ {0}, len : Nat, head : 0 .. m]
  BY DEF Frame
<1> HIDE DEF m
<1>3. \A f \in Frame :
        f.msg \in Nat \ {0} /\ f.len \in Nat /\ f.head \in 0 .. m
  BY <1>2
<1> QED
  BY <1>1, <1>3

\* The nodes are frames.
LEMMA NodesAre ==
  ASSUME NEW k \in Nat \ {0}, NEW n \in Nat
  PROVE  /\ S04Node(k, n) \in Frame /\ S04Node(k, n).msg = k
         /\ S05Node(k, n) \in Frame /\ S05Node(k, n).msg = k
         /\ S06Node(k, n) \in Frame /\ S06Node(k, n).msg = k
         /\ S07Node(k, n) \in Frame /\ S07Node(k, n).msg = k
         /\ SendNode(k, n) \in Frame /\ SendNode(k, n).msg = k
         /\ SendNode12(k, n) \in Frame /\ SendNode12(k, n).msg = k
<1> DEFINE h == Swap(n)
           g == n % 65536
<1>1. h \in Nat /\ h <= 65535
  BY SwapIs
<1>2. g \in Nat /\ g <= 65535
  OBVIOUS
<1> HIDE DEF h, g
<1>3. /\ [msg |-> k, len |-> n, head |-> h] \in Frame
      /\ [msg |-> k, len |-> n, head |-> g] \in Frame
  BY <1>1, <1>2, HeadIs
<1>4. S04Node(k, n) \in Frame /\ S04Node(k, n).msg = k
  BY <1>3 DEF S04Node, h
<1>5. S05Node(k, n) \in Frame /\ S05Node(k, n).msg = k
  BY <1>3 DEF S05Node, h
<1>6. S06Node(k, n) \in Frame /\ S06Node(k, n).msg = k
  BY <1>3 DEF S06Node, h
<1>7. S07Node(k, n) \in Frame /\ S07Node(k, n).msg = k
  BY <1>3 DEF S07Node, g
<1>8. SendNode(k, n) \in Frame /\ SendNode(k, n).msg = k
  BY <1>3 DEF SendNode, h
<1>9. SendNode12(k, n) \in Frame /\ SendNode12(k, n).msg = k
  BY <1>3 DEF SendNode12, h
<1> QED
  BY <1>4, <1>5, <1>6, <1>7, <1>8, <1>9

\* The length decoded from a head.
LEMMA LengthIs == ASSUME NEW f \in Frame PROVE DataLen(f.head) \in Int
<1> DEFINE h == f.head
<1>1. h \in Nat
  BY HeadOf
<1> HIDE DEF h
<1> DEFINE g == Swap(h)
<1>2. g \in Nat
  BY <1>1, SwapIs
<1> HIDE DEF g
<1>3. AsShort(h) \in Int /\ AsShort(g) \in Int
  BY <1>1, <1>2 DEF AsShort
<1> QED
  BY <1>3 DEF DataLen, h, g

\* What send() does to a session.
LEMMA SendIs ==
  ASSUME NEW s \in FrameSession, NEW m \in Frame,
         (s.queue = <<>>) = (s.wr = "no"), NEW t, t = Send(s, m)
  PROVE  /\ t \in FrameSession /\ t.rd = s.rd /\ t.held = s.held
         /\ t.want = s.want /\ (s.refused => t.refused)
         /\ (t.queue = <<>>) = (t.wr = "no")
         /\ s.wr # "no" => t.wr # "no"
         /\ ~t.refused =>
              /\ t.queue = Append(s.queue, m)
              /\ t.wr = IF s.queue = <<>> THEN "begun" ELSE s.wr
<1>1. s.queue \in Seq(Frame) /\ Append(s.queue, m) \in Seq(Frame)
      /\ Append(s.queue, m) # <<>>
  BY AppendProperties DEF FrameSession
<1>2. CASE Len(s.queue) > MaxSendQue
  <2>1. t = [s EXCEPT !.refused = TRUE]
    BY <1>2 DEF Send
  <2>2. t.refused = TRUE
    BY <2>1 DEF FrameSession
  <2> QED
    BY <2>1, <2>2 DEF FrameSession
<1>3. CASE ~(Len(s.queue) > MaxSendQue)
  <2> DEFINE w == IF s.queue = <<>> THEN "begun" ELSE s.wr
             q == Append(s.queue, m)
  <2>1. t = [s EXCEPT !.queue = q, !.wr = w]
    BY <1>3 DEF Send
  <2>2. /\ w \in {"no", "begun", "done"} /\ w # "no"
        /\ q \in Seq(Frame) /\ q # <<>>
    BY <1>1 DEF FrameSession
  <2> HIDE DEF w, q
  <2>3. t \in FrameSession /\ t.rd = s.rd /\ t.held = s.held
        /\ t.want = s.want
        /\ t.refused = s.refused /\ t.queue = q /\ t.wr = w
    BY <2>1, <2>2 DEF FrameSession
  <2> QED
    BY <2>2, <2>3 DEF q, w
<1> QED
  BY <1>2, <1>3

\* A step that ends with what becomes of the session.
LEMMA FramedPuts ==
  ASSUME IInv, program \in FramedPrograms, program # "S15", up, NEW c \in Client,
         NEW t \in FrameSession, Put(c, t),
         NEW d \in Seq(Frame), down' = [down EXCEPT ![c] = d],
         NEW f \in Seq(Frame), sent' = [sent EXCEPT ![c] = f],
         UNCHANGED <<raw, vars>>, InboxMoves(c), inbox' \in Seq(Posted),
         conn[c] = "served", t.held => t.rd # "no",
         (t.queue = <<>>) = (t.wr = "no"), t.rd = "body" => f # <<>>,
         t.want < 0 => t.rd = "body",
         Spent(fses[c]) => Spent(t) \/ (t.rd = "no" /\ t.wr = "no"),
         c \notin over /\ ~Spent(t) /\ (t.rd # "no" \/ t.wr # "no") =>
           InStep(c, Len(back[c]), d, t, inbox', f, asked[c])
  PROVE  IInv' /\ E!EchoNext
<1>1. /\ fses' = [fses EXCEPT ![c] = t]
      /\ UNCHANGED <<program, up, listening, peer, asked, back>>
  BY DEF Put
<1>2. conn \in [Client -> {"none", "backlog", "served", "closed"}]
  BY DEF IInv, Types
<1>3. CASE t.rd = "no" /\ t.wr = "no"
  <2>1. conn' = [conn EXCEPT ![c] = "closed"]
    BY <1>3 DEF Put, FrameSession
  <2> QED
    BY <1>1, <1>3, <2>1, FramedServes
<1>4. CASE t.rd # "no" \/ t.wr # "no"
  <2>1. conn' = [conn EXCEPT ![c] = "served"]
    BY <1>2, <1>4 DEF Put
  <2> QED
    BY <1>1, <1>4, <2>1, FramedServes
<1> QED
  BY <1>3, <1>4

\* What the steps that leave some of it alone have in common.
LEMMA FramedSame ==
  ASSUME IInv, NEW c \in Client
  PROVE  /\ down = [down EXCEPT ![c] = down[c]]
         /\ sent = [sent EXCEPT ![c] = sent[c]]
         /\ inbox' = inbox => InboxMoves(c) /\ inbox' \in Seq(Posted)
BY DEF IInv, Types, InboxMoves

LEMMA FramedCloses ==
  ASSUME IInv, program \in FramedPrograms, program # "S15", up, NEW c \in Client,
         conn[c] = "served", CloseAndRemove(c), UNCHANGED <<raw, vars>>
  PROVE  IInv' /\ E!EchoNext
<1> DEFINE t == NoFrameSession
           f == <<>>
           d == down[c]
<1>1. /\ t \in FrameSession /\ t.rd = "no" /\ t.wr = "no" /\ t.queue = <<>>
      /\ ~t.held /\ ~(t.want < 0)
  BY EmptyTypes, NotSpent DEF NoFrameSession
<1>2. f \in Seq(Frame) /\ d \in Seq(Frame)
  BY FramedFacts, EmptySeq
<1>3. /\ Put(c, t) /\ sent' = [sent EXCEPT ![c] = f]
      /\ down' = [down EXCEPT ![c] = d] /\ inbox' = inbox
  BY FramedSame DEF CloseAndRemove
<1> HIDE DEF t, f, d
<1> QED
  BY <1>1, <1>2, <1>3, FramedSame, FramedPuts

LEMMA FramedAccepts ==
  ASSUME IInv, program \in FramedPrograms, program # "S15", up, NEW c \in Client,
         FrameAccepted(c), UNCHANGED <<raw, vars>>
  PROVE  IInv' /\ E!EchoNext
<1> DEFINE t == [NoFrameSession EXCEPT !.rd = "head", !.held = TRUE]
           s == fses[c]
           d == down[c]
           f == sent[c]
<1>1. /\ Types /\ FramedHeld(c) /\ d \in Seq(Frame) /\ f \in Seq(Frame)
      /\ conn[c] = "backlog"
      /\ c \notin over => InStep(c, Len(back[c]), d, s, inbox, f, asked[c])
  BY FramedFacts DEF FrameAccepted
<1>2. /\ t \in FrameSession /\ t.rd = "head" /\ t.wr = "no" /\ t.queue = <<>>
      /\ ~Spent(t) /\ ~(t.want < 0)
  <2>1. ~Spent(t) /\ ~(t.want < 0)
    BY NotSpent
  <2> QED
    BY <2>1, EmptyTypes DEF NoFrameSession, FrameSession
<1>3. s.wr = "no" /\ s.queue = <<>> /\ ~Spent(s)
  BY <1>1 DEF FramedHeld
<1>4. c \notin over => InStep(c, Len(back[c]), d, t, inbox, f, asked[c])
  <2> HIDE DEF t
  <2> QED
    BY <1>1, <1>2, <1>3, StepsKept
<1>5. /\ fses' = [fses EXCEPT ![c] = t] /\ down' = [down EXCEPT ![c] = d]
      /\ sent' = [sent EXCEPT ![c] = f]
      /\ UNCHANGED <<program, up, listening, peer, asked, back>>
      /\ conn' = [conn EXCEPT ![c] = "served"] /\ inbox' = inbox
      /\ InboxMoves(c) /\ inbox' \in Seq(Posted)
  BY FramedSame DEF FrameAccepted
<1> HIDE DEF t, d, f
<1> QED
  BY <1>1, <1>2, <1>3, <1>4, <1>5, FramedServes

\* The front of the queue of replies is written.
LEMMA FramedWrites ==
  ASSUME IInv, program \in FramedPrograms, program # "S15", up, NEW c \in Client,
         FrameWritten(c), UNCHANGED <<raw, vars>>
  PROVE  IInv' /\ E!EchoNext
<1> DEFINE s == fses[c]
           t == [s EXCEPT !.wr = "done"]
           m == Head(s.queue)
           d == Append(down[c], m)
           f == sent[c]
           b == Len(back[c])
<1>1. /\ Types /\ FramedHeld(c) /\ s \in FrameSession /\ s.queue \in Seq(Frame)
      /\ down[c] \in Seq(Frame) /\ f \in Seq(Frame)
      /\ b \in Nat /\ asked[c] \in Nat /\ inbox \in Seq(Posted)
      /\ (s.queue = <<>>) = (s.wr = "no") /\ conn[c] = "served"
      /\ c \notin over => InStep(c, b, down[c], s, inbox, f, asked[c])
      /\ s.wr = "begun"
  BY FramedFacts DEF FrameWritten
<1>2. m \in Frame /\ d \in Seq(Frame)
  <2>1. m \in Frame
    BY <1>1, HeadTailProperties
  <2> QED
    BY <1>1, <2>1, AppendProperties
<1>3. /\ t \in FrameSession /\ t.rd = s.rd /\ t.wr = "done" /\ t.queue = s.queue
      /\ t.held = s.held /\ t.refused = s.refused /\ t.want = s.want
  BY <1>1 DEF FrameSession
<1> HIDE DEF t
<1>4. c \notin over => InStep(c, b, d, t, inbox, f, asked[c])
  BY <1>1, <1>3, StepsWritten
<1>5. /\ fses' = [fses EXCEPT ![c] = t] /\ down' = [down EXCEPT ![c] = d]
      /\ sent' = [sent EXCEPT ![c] = f]
      /\ UNCHANGED <<program, up, listening, peer, asked, back>>
      /\ conn' = [conn EXCEPT ![c] = "served"] /\ inbox' = inbox
      /\ InboxMoves(c) /\ inbox' \in Seq(Posted)
  BY <1>1, FramedSame DEF FrameWritten, network, t, Types
<1>6. /\ t.held => t.rd # "no"
      /\ t.rd = "body" => f # <<>>
      /\ t.want < 0 => t.rd = "body"
      /\ Spent(s) => Spent(t)
  BY <1>1, <1>3 DEF FramedHeld, Spent
<1> HIDE DEF d, f, b
<1> QED
  BY <1>1, <1>2, <1>3, <1>4, <1>5, <1>6, FramedServes DEF b

\* It leaves the queue.
LEMMA FramedPops ==
  ASSUME IInv, program \in FramedPrograms, program # "S15", up, NEW c \in Client,
         WriteCallback(c), UNCHANGED <<raw, vars>>
  PROVE  IInv' /\ E!EchoNext
<1> DEFINE s == fses[c]
           q == Tail(s.queue)
           w == NextWrite(q)
           t == [s EXCEPT !.queue = q, !.wr = w]
           d == down[c]
           f == sent[c]
           b == Len(back[c])
<1>1. /\ Types /\ FramedHeld(c) /\ s \in FrameSession /\ s.queue \in Seq(Frame)
      /\ d \in Seq(Frame) /\ f \in Seq(Frame)
      /\ b \in Nat /\ asked[c] \in Nat /\ inbox \in Seq(Posted)
      /\ (s.queue = <<>>) = (s.wr = "no") /\ conn[c] = "served"
      /\ c \notin over => InStep(c, b, d, s, inbox, f, asked[c])
      /\ s.wr = "done"
  BY FramedFacts DEF WriteCallback
<1>2. q \in Seq(Frame) /\ w \in {"no", "begun"} /\ (q = <<>>) = (w = "no")
  <2>1. q \in Seq(Frame)
    BY <1>1, HeadTailProperties
  <2> QED
    BY <2>1 DEF NextWrite
<1> HIDE DEF w, q
<1>3. /\ t \in FrameSession /\ t.rd = s.rd /\ t.wr = w /\ t.queue = q
      /\ t.held = s.held /\ t.refused = s.refused /\ t.want = s.want
  BY <1>1, <1>2 DEF FrameSession
<1>4. /\ Put(c, t) /\ down' = [down EXCEPT ![c] = d]
      /\ sent' = [sent EXCEPT ![c] = f] /\ inbox' = inbox
      /\ InboxMoves(c) /\ inbox' \in Seq(Posted)
  BY FramedSame DEF WriteCallback, q, w
<1> HIDE DEF t
<1>5. c \notin over => InStep(c, b, d, t, inbox, f, asked[c])
  <2>1. t.queue = Tail(s.queue) /\ t.wr # "done"
    BY <1>2, <1>3 DEF q
  <2> QED
    BY <1>1, <2>1, StepsPopped
<1>6. /\ t.held => t.rd # "no"
      /\ t.rd = "body" => f # <<>>
      /\ t.want < 0 => t.rd = "body"
      /\ Spent(s) => Spent(t)
      /\ (t.queue = <<>>) = (t.wr = "no")
  BY <1>1, <1>2, <1>3 DEF FramedHeld, Spent
<1> HIDE DEF d, f, b
<1> QED
  BY <1>1, <1>3, <1>4, <1>5, <1>6, FramedPuts DEF b

\* The next frame of the stream is complete: it is answered, or its length is
\* not valid and the session reads no more.
LEMMA FramedReads ==
  ASSUME IInv, program \in FramedPrograms, program # "S15",
         program \notin LogicPrograms, up, NEW c \in Client, NEW replies,
         sent[c] # <<>> /\ LenRead(c) = Head(sent[c]).len =>
           \A m \in replies : m \in Frame /\ m.msg = MsgRead(c),
         ReadCallback(c, replies), UNCHANGED <<raw, vars>>
  PROVE  IInv' /\ E!EchoNext
<1> DEFINE s == fses[c]
           d == down[c]
           f == sent[c]
           b == Len(back[c])
<1>1. /\ Types /\ FramedHeld(c) /\ s \in FrameSession /\ s.queue \in Seq(Frame)
      /\ d \in Seq(Frame) /\ f \in Seq(Frame) /\ f # <<>>
      /\ b \in Nat /\ asked[c] \in Nat
      /\ (s.queue = <<>>) = (s.wr = "no") /\ conn[c] = "served"
      /\ c \notin over => InStep(c, b, d, s, inbox, f, asked[c])
      /\ s.rd = "head" /\ ~(s.want < 0)
  BY FramedFacts DEF ReadCallback, FramedHeld
<1>2. inbox = <<>>
  BY DEF IInv, OthersOff
<1>3. /\ down' = [down EXCEPT ![c] = d] /\ inbox' = inbox
      /\ InboxMoves(c) /\ inbox' \in Seq(Posted)
  BY FramedSame DEF ReadCallback
<1>4. CASE DataLen(Head(f).head) > MAX_LENGTH
  <2> DEFINE t == [s EXCEPT !.rd = "no", !.held = FALSE]
  <2>1. /\ t \in FrameSession /\ t.rd = "no" /\ ~t.held /\ t.wr = s.wr
        /\ t.queue = s.queue /\ t.refused = s.refused /\ t.want = s.want
    BY <1>1 DEF FrameSession
  <2>2. Put(c, t) /\ sent' = [sent EXCEPT ![c] = f]
    BY <1>4, FramedSame DEF ReadCallback
  <2> HIDE DEF t
  <2>3. c \notin over => InStep(c, b, d, t, inbox', f, asked[c])
    BY <1>1, <1>3, <2>1, StepsKept
  <2>4. ~(t.want < 0) /\ (Spent(s) => Spent(t))
    BY <1>1, <2>1 DEF Spent
  <2> HIDE DEF d, f, b
  <2> QED
    BY <1>1, <1>3, <2>1, <2>2, <2>3, <2>4, FramedPuts DEF b
<1>5. CASE ~(DataLen(Head(f).head) > MAX_LENGTH)
  <2>1. /\ LenRead(c) = Head(f).len /\ sent' = [sent EXCEPT ![c] = Tail(f)]
        /\ \E m \in replies : Put(c, Send(s, m))
    BY <1>5 DEF ReadCallback, LenRead
  <2>2. PICK m \in replies : Put(c, Send(s, m))
    BY <2>1
  <2>3. m \in Frame /\ m.msg = Head(f).msg
    BY <1>1, <2>1 DEF MsgRead
  <2> DEFINE t == Send(s, m)
             g == Tail(f)
  <2>4. /\ t \in FrameSession /\ t.rd = s.rd /\ t.held = s.held
        /\ t.want = s.want /\ (s.refused => t.refused)
        /\ (t.queue = <<>>) = (t.wr = "no")
        /\ ~t.refused => /\ t.queue = Append(s.queue, m)
                         /\ t.wr = IF s.queue = <<>> THEN "begun" ELSE s.wr
    <3>1. /\ s \in FrameSession /\ m \in Frame /\ (s.queue = <<>>) = (s.wr = "no")
          /\ t = Send(s, m)
      BY <1>1, <2>3
    <3> HIDE DEF t, s
    <3>2. t \in FrameSession
      BY <3>1, SendIs
    <3>3. t.rd = s.rd /\ t.held = s.held /\ t.want = s.want
      BY <3>1, SendIs
    <3>4. (s.refused => t.refused) /\ (t.queue = <<>>) = (t.wr = "no")
      BY <3>1, SendIs
    <3>5. ~t.refused => /\ t.queue = Append(s.queue, m)
                        /\ t.wr = IF s.queue = <<>> THEN "begun" ELSE s.wr
      BY <3>1, SendIs
    <3> QED
      BY <3>2, <3>3, <3>4, <3>5
  <2> HIDE DEF t
  <2>5. g \in Seq(Frame)
    BY <1>1, HeadTailProperties
  <2>6. c \notin over /\ ~t.refused => InStep(c, b, d, t, inbox', g, asked[c])
    BY <1>1, <1>2, <1>3, <2>3, <2>4, StepsServed
  <2>7. Put(c, t) /\ sent' = [sent EXCEPT ![c] = g]
    BY <2>1, <2>2 DEF t
  <2>8. ~(t.want < 0) /\ (Spent(s) => Spent(t)) /\ (t.refused => Spent(t))
    BY <1>1, <2>4 DEF Spent
  <2> HIDE DEF d, f, b, g
  <2> QED
    BY <1>1, <1>3, <2>4, <2>5, <2>6, <2>7, <2>8, FramedPuts DEF b
<1> QED
  BY <1>4, <1>5

\* The header is there.
LEMMA FramedHeads ==
  ASSUME IInv, program \in FramedPrograms, program # "S15", up, NEW c \in Client,
         ReadHead(c), UNCHANGED <<raw, vars>>
  PROVE  IInv' /\ E!EchoNext
<1> DEFINE s == fses[c]
           d == down[c]
           f == sent[c]
           b == Len(back[c])
           w == LenRead(c)
           u == [s EXCEPT !.rd = "body", !.want = w]
           t == IF w > MAX_LENGTH THEN [u EXCEPT !.held = FALSE] ELSE u
<1>1. /\ Types /\ FramedHeld(c) /\ s \in FrameSession /\ s.queue \in Seq(Frame)
      /\ d \in Seq(Frame) /\ f \in Seq(Frame) /\ f # <<>>
      /\ b \in Nat /\ asked[c] \in Nat
      /\ (s.queue = <<>>) = (s.wr = "no") /\ conn[c] = "served"
      /\ c \notin over => InStep(c, b, d, s, inbox, f, asked[c])
      /\ s.rd = "head" /\ ~(s.want < 0)
  BY FramedFacts DEF ReadHead, FramedHeld
<1>2. w \in Int
  BY <1>1, LengthIs, HeadTailProperties DEF LenRead
<1>3. /\ down' = [down EXCEPT ![c] = d] /\ inbox' = inbox
      /\ InboxMoves(c) /\ inbox' \in Seq(Posted)
      /\ sent' = [sent EXCEPT ![c] = f]
  BY FramedSame DEF ReadHead
<1>4. Put(c, t)
  BY DEF ReadHead
<1> HIDE DEF w
<1>5. /\ t \in FrameSession /\ t.rd = "body" /\ t.wr = s.wr
      /\ t.queue = s.queue /\ t.refused = s.refused
  <2>1. /\ u \in FrameSession /\ u.rd = "body" /\ u.wr = s.wr
        /\ u.queue = s.queue /\ u.refused = s.refused
    BY <1>1, <1>2 DEF FrameSession
  <2> DEFINE v == [u EXCEPT !.held = FALSE]
  <2> HIDE DEF u
  <2>2. /\ v \in FrameSession /\ v.rd = "body" /\ v.wr = s.wr
        /\ v.queue = s.queue /\ v.refused = s.refused
    BY <2>1 DEF FrameSession
  <2> QED
    BY <2>1, <2>2
<1> HIDE DEF t
<1>6. c \notin over => InStep(c, b, d, t, inbox', f, asked[c])
  BY <1>1, <1>3, <1>5, StepsKept
<1>7. Spent(s) => Spent(t)
  BY <1>1, <1>5 DEF Spent
<1> HIDE DEF d, f, b
<1> QED
  BY <1>1, <1>3, <1>4, <1>5, <1>6, <1>7, FramedPuts DEF b

\* What is known when the body is there.
LEMMA BodyFacts ==
  ASSUME IInv, program \in FramedPrograms, up, NEW c \in Client, BodyRead(c)
  PROVE  /\ fses[c].rd = "body" /\ sent[c] # <<>> /\ Head(sent[c]) \in Frame
         /\ Head(sent[c]).msg \in Nat \ {0} /\ fses[c].want \in Nat
         /\ Tail(sent[c]) \in Seq(Frame) /\ conn[c] = "served"
<1>1. fses[c].rd = "body" /\ fses[c].want = Head(sent[c]).len
  BY DEF BodyRead
<1>2. /\ sent[c] # <<>> /\ sent[c] \in Seq(Frame) /\ conn[c] = "served"
  BY <1>1, FramedFacts DEF FramedHeld
<1>3. Head(sent[c]) \in Frame /\ Tail(sent[c]) \in Seq(Frame)
  BY <1>2, HeadTailProperties
<1>4. Head(sent[c]).msg \in Nat \ {0} /\ Head(sent[c]).len \in Nat
  BY <1>3, HeadOf
<1> QED
  BY <1>1, <1>2, <1>3, <1>4

LEMMA FramedAnswers ==
  ASSUME IInv, program = "S07", up, NEW c \in Client, S07ReadMsg(c),
         UNCHANGED <<raw, vars>>
  PROVE  IInv' /\ E!EchoNext
<1> DEFINE s == fses[c]
           d == down[c]
           f == sent[c]
           g == Tail(f)
           b == Len(back[c])
           m == S07Node(Head(f).msg, s.want)
           u == [s EXCEPT !.rd = "head"]
           t == Send(u, m)
<1>1. program \in FramedPrograms /\ program # "S15" /\ program \notin LogicPrograms
  BY DEF FramedPrograms, LogicPrograms
<1>2. /\ Types /\ FramedHeld(c) /\ s \in FrameSession /\ s.queue \in Seq(Frame)
      /\ d \in Seq(Frame) /\ f \in Seq(Frame)
      /\ b \in Nat /\ asked[c] \in Nat
      /\ (s.queue = <<>>) = (s.wr = "no")
      /\ c \notin over => InStep(c, b, d, s, inbox, f, asked[c])
  BY <1>1, FramedFacts
<1>3. /\ s.rd = "body" /\ f # <<>> /\ Head(f).msg \in Nat \ {0}
      /\ s.want \in Nat /\ g \in Seq(Frame) /\ conn[c] = "served"
  BY <1>1, BodyFacts DEF S07ReadMsg
<1>4. m \in Frame /\ m.msg = Head(f).msg
  BY <1>3, NodesAre
<1>5. inbox = <<>>
  BY <1>1 DEF IInv, OthersOff
<1>6. /\ down' = [down EXCEPT ![c] = d] /\ inbox' = inbox
      /\ InboxMoves(c) /\ inbox' \in Seq(Posted)
      /\ sent' = [sent EXCEPT ![c] = g] /\ Put(c, t)
  BY FramedSame DEF S07ReadMsg, BodyRead
<1>7. /\ u \in FrameSession /\ u.rd = "head" /\ u.wr = s.wr
      /\ u.queue = s.queue /\ u.refused = s.refused /\ u.want = s.want
  BY <1>2 DEF FrameSession
<1> HIDE DEF u, m
<1>8. /\ t \in FrameSession /\ t.rd = "head" /\ t.want = s.want
      /\ s.refused => t.refused
      /\ (t.queue = <<>>) = (t.wr = "no")
      /\ ~t.refused => /\ t.queue = Append(s.queue, m)
                       /\ t.wr = IF s.queue = <<>> THEN "begun" ELSE s.wr
  <2>1. t = Send(u, m) /\ (u.queue = <<>>) = (u.wr = "no")
    BY <1>2, <1>7
  <2> HIDE DEF t
  <2>2. t \in FrameSession
    BY <1>4, <1>7, <2>1, SendIs
  <2>3. t.rd = u.rd /\ t.want = u.want
    BY <1>4, <1>7, <2>1, SendIs
  <2>4. (u.refused => t.refused) /\ (t.queue = <<>>) = (t.wr = "no")
    BY <1>4, <1>7, <2>1, SendIs
  <2>5. ~t.refused => /\ t.queue = Append(u.queue, m)
                      /\ t.wr = IF u.queue = <<>> THEN "begun" ELSE u.wr
    BY <1>4, <1>7, <2>1, SendIs
  <2> QED
    BY <1>7, <2>2, <2>3, <2>4, <2>5
<1> HIDE DEF t
<1>9. c \notin over /\ ~t.refused => InStep(c, b, d, t, inbox', g, asked[c])
  BY <1>2, <1>3, <1>4, <1>5, <1>6, <1>8, StepsServed
<1>10. ~(t.want < 0) /\ (Spent(s) => Spent(t)) /\ (t.refused => Spent(t))
  BY <1>3, <1>8 DEF Spent
<1> HIDE DEF d, f, b, g
<1> QED
  BY <1>1, <1>2, <1>3, <1>6, <1>8, <1>9, <1>10, FramedPuts DEF b

LEMMA FramedPosts ==
  ASSUME IInv, program \in LogicPrograms, up, NEW c \in Client, PostMsg(c),
         UNCHANGED <<raw, vars>>
  PROVE  IInv' /\ E!EchoNext
<1> DEFINE s == fses[c]
           d == down[c]
           f == sent[c]
           g == Tail(f)
           b == Len(back[c])
           m == [client |-> c, msg |-> Head(f).msg, len |-> s.want]
           t == [s EXCEPT !.rd = "head"]
<1>1. program \in FramedPrograms /\ program # "S15"
  BY DEF FramedPrograms, LogicPrograms
<1>2. /\ Types /\ FramedHeld(c) /\ s \in FrameSession /\ s.queue \in Seq(Frame)
      /\ d \in Seq(Frame) /\ f \in Seq(Frame) /\ inbox \in Seq(Posted)
      /\ b \in Nat /\ asked[c] \in Nat
      /\ (s.queue = <<>>) = (s.wr = "no")
      /\ c \notin over => InStep(c, b, d, s, inbox, f, asked[c])
  BY <1>1, FramedFacts
<1>3. /\ s.rd = "body" /\ f # <<>> /\ Head(f).msg \in Nat \ {0}
      /\ s.want \in Nat /\ g \in Seq(Frame) /\ conn[c] = "served"
  BY <1>1, BodyFacts DEF PostMsg
<1>4. m \in Posted /\ m.client = c /\ m.msg = Head(f).msg
  <2> DEFINE k == Head(f).msg
             l == s.want
  <2>1. k \in Nat \ {0} /\ l \in Nat
    BY <1>3
  <2> HIDE DEF k, l
  <2>2. [client |-> c, msg |-> k, len |-> l] \in Posted
    BY <2>1 DEF Posted
  <2> QED
    BY <2>2 DEF k, l
<1>5. /\ t \in FrameSession /\ t.rd = "head" /\ t.wr = s.wr
      /\ t.queue = s.queue /\ t.refused = s.refused /\ t.held = s.held
      /\ t.want = s.want
  BY <1>2 DEF FrameSession
<1>6. /\ down' = [down EXCEPT ![c] = d] /\ sent' = [sent EXCEPT ![c] = g]
      /\ fses' = [fses EXCEPT ![c] = t] /\ inbox' = Append(inbox, m)
      /\ UNCHANGED <<program, up, listening, peer, asked, back>>
      /\ conn' = [conn EXCEPT ![c] = "served"]
  BY <1>2, <1>3, FramedSame DEF PostMsg, BodyRead, network, Types
<1> HIDE DEF m, t
<1>7. InboxMoves(c) /\ inbox' \in Seq(Posted)
  BY <1>2, <1>4, <1>6, AppendProperties DEF InboxMoves
<1>8. c \notin over => InStep(c, b, d, t, inbox', g, asked[c])
  <2>1. c \notin over => InStep(c, b, d, s, inbox', g, asked[c])
    BY <1>2, <1>3, <1>4, <1>6, StepsPost
  <2> QED
    BY <1>5, <2>1, StepsKept
<1>9. ~(t.want < 0) /\ (Spent(s) => Spent(t))
  BY <1>3, <1>5 DEF Spent
<1> HIDE DEF d, f, b, g
<1> QED
  BY <1>1, <1>2, <1>3, <1>5, <1>6, <1>7, <1>8, <1>9, FramedServes DEF b

\* LogicSystem answers the next message, if the connection is still served.
LEMMA FramedReplies ==
  ASSUME IInv, up, HelloWorldCallback, UNCHANGED <<raw, vars>>,
         NEW c, c = Head(inbox).client
  PROVE  IInv' /\ E!EchoNext
<1> DEFINE n == Head(inbox)
           s == fses[c]
           d == down[c]
           f == sent[c]
           b == Len(back[c])
           m == SendNode(n.msg, n.len + LongerBy)
           t == Send(s, m)
<1>1. /\ program \in LogicPrograms /\ program \in FramedPrograms
      /\ program # "S15"
  BY DEF HelloWorldCallback, LogicPrograms, FramedPrograms
<1>2. inbox \in Seq(Posted) /\ inbox # <<>>
  BY DEF HelloWorldCallback, IInv, Types
<1>3. n \in Posted /\ Tail(inbox) \in Seq(Posted)
  BY <1>2, HeadTailProperties
<1>4. c \in Client /\ n.msg \in Nat \ {0} /\ n.len \in Nat
  BY <1>3 DEF Posted
<1>5. m \in Frame /\ m.msg = n.msg
  <2> DEFINE k == n.msg
             l == n.len + LongerBy
  <2>1. k \in Nat \ {0} /\ l \in Nat
    BY <1>4 DEF LongerBy
  <2> HIDE DEF k, l
  <2>2. SendNode(k, l) \in Frame /\ SendNode(k, l).msg = k
    BY <2>1, NodesAre
  <2> QED
    BY <2>2 DEF k, l
<1>6. /\ Types /\ FramedHeld(c) /\ FramedOrdered(c)
      /\ s \in FrameSession /\ d \in Seq(Frame) /\ f \in Seq(Frame)
      /\ b \in Nat /\ asked[c] \in Nat /\ (s.queue = <<>>) = (s.wr = "no")
      /\ c \notin over => InStep(c, b, d, s, inbox, f, asked[c])
  BY <1>1, <1>4, FramedFacts
<1>7. /\ inbox' = Tail(inbox) /\ down' = down /\ sent' = sent
      /\ UNCHANGED <<program, up, listening, peer, conn, asked, back>>
      /\ fses' = IF conn[c] = "served" THEN [fses EXCEPT ![c] = t] ELSE fses
  BY DEF HelloWorldCallback, network
<1>8. InboxMoves(c) /\ inbox' \in Seq(Posted)
  BY <1>1, <1>2, <1>3, <1>7 DEF InboxMoves
<1>9. CASE conn[c] = "served"
  <2>1. /\ fses' = [fses EXCEPT ![c] = t] /\ down' = [down EXCEPT ![c] = d]
        /\ sent' = [sent EXCEPT ![c] = f]
        /\ conn' = [conn EXCEPT ![c] = "served"]
    BY <1>6, <1>7, <1>9 DEF Types
  <2>2. t = Send(s, m)
    OBVIOUS
  <2>3. /\ s.rd # "no" \/ s.wr # "no"
        /\ s.held => s.rd # "no"
        /\ s.rd = "body" => f # <<>>
    BY <1>6, <1>9 DEF FramedHeld
  <2> HIDE DEF t, m
  <2>4. /\ t \in FrameSession /\ t.rd = s.rd /\ t.held = s.held
        /\ t.want = s.want /\ (s.refused => t.refused)
    <3> HIDE DEF s
    <3> QED
      BY <1>5, <1>6, <2>2, SendIs
  <2>5. (t.queue = <<>>) = (t.wr = "no")
    <3> HIDE DEF s
    <3> QED
      BY <1>5, <1>6, <2>2, SendIs
  <2>6. s.wr # "no" => t.wr # "no"
    <3> HIDE DEF s
    <3> QED
      BY <1>5, <1>6, <2>2, SendIs
  <2>7. ~t.refused => /\ t.queue = Append(s.queue, m)
                      /\ t.wr = IF s.queue = <<>> THEN "begun" ELSE s.wr
    <3> HIDE DEF s
    <3> QED
      BY <1>5, <1>6, <2>2, SendIs
  <2>8. c \notin over /\ ~t.refused => InStep(c, b, d, t, inbox', f, asked[c])
    BY <1>2, <1>5, <1>6, <1>7, <2>7, StepsAnswered
  <2>9. t.rd # "no" \/ t.wr # "no"
    BY <2>3, <2>4, <2>6
  <2>10. /\ t.held => t.rd # "no"
         /\ t.rd = "body" => f # <<>>
         /\ t.want < 0 => t.rd = "body"
         /\ (Spent(s) => Spent(t)) /\ (t.refused => Spent(t))
    BY <1>6, <2>3, <2>4 DEF FramedHeld, Spent
  <2>11. UNCHANGED <<program, up, listening, peer, asked, back>>
    BY <1>7
  <2>12. c \notin over /\ ~Spent(t) => InStep(c, b, d, t, inbox', f, asked[c])
    BY <2>8, <2>10
  <2> HIDE DEF d, f, b, n
  <2>13. /\ t \in FrameSession /\ d \in Seq(Frame) /\ f \in Seq(Frame)
         /\ t.rd = "body" => f # <<>>
    BY <1>6, <2>4, <2>10
  <2>14. Spent(fses[c]) => Spent(t)
    BY <2>10
  <2> HIDE DEF s
  <2> QED
    BY <1>1, <1>4, <1>8, <1>9, <2>1, <2>5, <2>9, <2>10, <2>11, <2>12, <2>13,
       <2>14, FramedServes DEF b
<1>10. CASE conn[c] # "served"
  <2>1. fses' = fses /\ conn' = conn
    BY <1>7, <1>10
  <2>2. c \in over
    <3>1. InLine(inbox, c, 0, 0) \/ c \in over
      BY <1>1, <1>6, <1>10 DEF FramedOrdered
    <3> DEFINE z == 0
    <3>2. z \in Int /\ ~(z < z)
      OBVIOUS
    <3> HIDE DEF z
    <3>3. ~InLine(inbox, c, z, z)
      BY <1>2, <3>2, LineShrinks
    <3> QED
      BY <3>1, <3>3 DEF z
  <2>3. c \in over'
    BY <1>4, <1>7, <2>1, <2>2, OverIs DEF raw
  <2>4. Types'
    BY <1>6, <1>7, <1>8, <2>1 DEF Types, raw
  <2>5. OthersStay(c)
    BY <1>7, <2>1 DEF OthersStay, raw
  <2>6. FramedHeld(c)'
    BY <1>6, <1>7, <2>1 DEF FramedHeld
  <2>7. FramedOrdered(c)' /\ RpcOrdered(c)'
    BY <1>1, <1>7, <2>3 DEF FramedOrdered, RpcOrdered
  <2>8. Shown(c)
    BY <2>3 DEF Shown
  <2>9. peer'[c] = "new" => conn'[c] = "none"
    BY <1>4, <1>7 DEF IInv, Peers
  <2> QED
    BY <1>1, <1>4, <1>7, <1>8, <2>1, <2>4, <2>5, <2>6, <2>7, <2>8, <2>9,
       FramedLocal
<1> QED
  BY <1>9, <1>10

\* A read or a write fails.
LEMMA FramedFails ==
  ASSUME IInv, program \in FramedPrograms, program # "S15", up, NEW c \in Client,
         FrameReadError(c) \/ WriteCallbackError(c), UNCHANGED <<raw, vars>>
  PROVE  IInv' /\ E!EchoNext
<1>1. CloseAndRemove(c) /\ (fses[c].rd # "no" \/ fses[c].wr # "no")
  BY DEF FrameReadError, WriteCallbackError
<1>2. conn[c] = "served"
  BY <1>1, FramedFacts
<1> QED
  BY <1>1, <1>2, FramedCloses

\* The sending half of any session.
LEMMA FramedSends ==
  ASSUME IInv, program \in FramedPrograms, program # "S15", up, NEW c \in Client,
         Sending(c), UNCHANGED <<raw, vars>>
  PROVE  IInv' /\ E!EchoNext
BY FramedWrites, FramedFails, FramedPops DEF Sending

\* The coroutine of S12.
LEMMA FramedStarts ==
  ASSUME IInv, program = "S12", up, NEW c \in Client,
         S12Start(c), UNCHANGED <<raw, vars>>
  PROVE  IInv' /\ E!EchoNext
<1>1. /\ program \in FramedPrograms /\ program # "S15"
      /\ program \in LogicPrograms
  BY DEF FramedPrograms, LogicPrograms
<1>2. CASE PostMsg(c)
  BY <1>1, <1>2, FramedPosts
<1>3. CASE ReadHead(c)
  BY <1>1, <1>3, FramedHeads
<1>4. CASE fses[c].rd = "head" /\ CloseAndRemove(c)
  <2>1. conn[c] = "served"
    BY <1>1, <1>4, FramedFacts
  <2> QED
    BY <1>1, <1>4, <2>1, FramedCloses
<1> QED
  BY <1>2, <1>3, <1>4 DEF S12Start

\* The process ends, and with it every exchange.
LEMMA FramedDies ==
  ASSUME IInv, FramedMain, UNCHANGED <<raw, vars>>
  PROVE  IInv' /\ E!EchoNext
<1>1. /\ Types /\ Peers /\ OthersOff /\ ParserInv
      /\ program' = program /\ ~up' /\ peer' = peer /\ asked' = asked
      /\ back' = back /\ listening' = FALSE /\ up' = FALSE
      /\ consumed' = consumed /\ ses' = ses
      /\ sent' = [c \in Client |-> <<>>] /\ down' = [c \in Client |-> <<>>]
      /\ fses' = [c \in Client |-> NoFrameSession] /\ inbox' = <<>>
  BY DEF IInv, raw, FramedMain, ServerEnds, StopListening
<1>2. /\ program \notin RawPrograms /\ program # "parser"
      /\ program \in FramedPrograms
  BY DEF RawPrograms, FramedPrograms, FramedMain
<1>3. conn' = [c \in Client |->
                 IF conn[c] = "backlog" THEN "closed" ELSE conn[c]]
  BY DEF FramedMain, ServerEnds, StopListening
<1>4. /\ conn' \in [Client -> {"none", "backlog", "served", "closed"}]
      /\ \A c \in Client : conn[c] = "none" => conn'[c] = "none"
  BY <1>1, <1>3 DEF Types
<1>5. Types'
  BY <1>1, <1>4, EmptyTypes DEF Types
<1>6. Peers'
  BY <1>1, <1>4 DEF Peers
<1>7. RawOff
  BY <1>1, <1>2 DEF OthersOff
<1>8. OthersOff'
  BY <1>1, <1>2, <1>7 DEF OthersOff, RawOff
<1>9. ParserInv'
  BY <1>1, ParserStep
<1>10. IInv'
  BY <1>1, <1>5, <1>6, <1>7, <1>8, <1>9 DEF IInv, RawOff
<1>11. \A c \in Client : Shown(c)
  BY <1>1, EndsForAll
<1> QED
  BY <1>10, <1>11, AllShown

\* The clients.
LEMMA FramedConnects ==
  ASSUME IInv, program \in FramedPrograms, NEW c \in Client, Connect(c),
         UNCHANGED framed, UNCHANGED <<raw, vars>>
  PROVE  IInv' /\ E!EchoNext
<1>1. /\ Types /\ Peers /\ peer[c] = "new" /\ conn[c] = "none"
      /\ UNCHANGED <<program, up, listening, asked, back>>
      /\ UNCHANGED <<sent, down, fses, inbox, consumed, ses>>
  BY DEF Connect, IInv, Peers, framed, raw
<1>2. InboxMoves(c)
  BY <1>1 DEF InboxMoves
<1>3. up => FramedHeld(c) /\ FramedOrdered(c) /\ RpcOrdered(c)
  BY DEF IInv
<1>4. CASE up /\ listening
  <2>1. /\ peer' = [peer EXCEPT ![c] = "open"]
        /\ conn' = [conn EXCEPT ![c] = "backlog"]
    BY <1>4 DEF Connect
  <2>2. Types' /\ peer'[c] = "open" /\ conn'[c] = "backlog"
    BY <1>1, <2>1 DEF Types
  <2>3. OthersStay(c)
    BY <1>1, <2>1 DEF OthersStay, Types
  <2>4. c \in over <=> c \in over'
    BY <1>1, <2>2, OverIs
  <2>5. FramedHeld(c)'
    BY <1>1, <1>3, <1>4, <2>2 DEF FramedHeld
  <2>6. FramedOrdered(c)' /\ RpcOrdered(c)'
    BY <1>1, <1>3, <1>4, <2>2, <2>4 DEF FramedOrdered, RpcOrdered
  <2>7. Shown(c)
    BY <1>1, <2>4 DEF Shown, E!Nothing
  <2> QED
    BY <1>1, <1>2, <1>4, <2>2, <2>3, <2>5, <2>6, <2>7, FramedLocal
<1>5. CASE ~(up /\ listening)
  <2>1. peer' = [peer EXCEPT ![c] = "left"] /\ conn' = conn
    BY <1>5 DEF Connect
  <2>2. Types' /\ peer'[c] = "left"
    BY <1>1, <2>1 DEF Types
  <2>3. OthersStay(c)
    BY <1>1, <2>1 DEF OthersStay, Types
  <2>4. c \in over'
    BY <2>2, OverIs
  <2>5. up => /\ FramedHeld(c)' /\ FramedOrdered(c)' /\ RpcOrdered(c)'
              /\ Shown(c)
    BY <1>1, <1>3, <2>1, <2>4 DEF FramedHeld, FramedOrdered, RpcOrdered, Shown
  <2> QED
    BY <1>1, <1>2, <2>1, <2>2, <2>3, <2>5, FramedLocal
<1> QED
  BY <1>4, <1>5

LEMMA FramedLeaves ==
  ASSUME IInv, program \in FramedPrograms, NEW c \in Client, Leave(c),
         down' = [down EXCEPT ![c] = <<>>], UNCHANGED <<sent, fses, inbox>>,
         UNCHANGED <<raw, vars>>
  PROVE  IInv' /\ E!EchoNext
<1>1. /\ Types /\ OthersOff /\ peer' = [peer EXCEPT ![c] = "left"]
      /\ UNCHANGED <<program, up, listening, conn, asked, back>>
      /\ UNCHANGED <<sent, fses, inbox, consumed, ses>>
  BY DEF Leave, IInv, raw
<1>2. InboxMoves(c)
  BY <1>1 DEF InboxMoves
<1>3. up => FramedHeld(c) /\ RpcOrdered(c)
  BY DEF IInv
<1>4. <<>> \in Seq(Frame)
  BY EmptySeq
<1>5. Types' /\ peer'[c] = "left"
  BY <1>1, <1>4 DEF Types
<1>6. OthersStay(c)
  BY <1>1 DEF OthersStay, Types
<1>7. c \in over'
  BY <1>5, OverIs
<1>8. up => FramedHeld(c)' /\ FramedOrdered(c)' /\ RpcOrdered(c)' /\ Shown(c)
  BY <1>1, <1>3, <1>7 DEF FramedHeld, FramedOrdered, RpcOrdered, Shown
<1>9. down = [e \in Client |-> <<>>] => down' = down
  OBVIOUS
<1>10. /\ program = "S15" => sent' = sent /\ down' = down /\ fses' = fses
       /\ ~up => down' = down /\ fses' = fses
  BY <1>1, <1>9 DEF IInv, OthersOff
<1> QED
  BY <1>1, <1>2, <1>5, <1>6, <1>8, <1>10, FramedLocal

\* What asking shows.
LEMMA AskShown ==
  ASSUME IInv, NEW c \in Client, Ask(c, 1)
  PROVE  /\ asked[c] \in Nat /\ asked[c] + 1 <= MaxAsked[c]
         /\ asked' \in [Client -> Nat] /\ asked'[c] = asked[c] + 1
         /\ \A d \in Client \ {c} : asked'[d] = asked[d]
         /\ UNCHANGED <<program, up, listening, peer, conn, back>>
         /\ peer[c] = "open" /\ E!Ask(c)
<1>1. /\ asked \in [Client -> Nat] /\ asked' = [asked EXCEPT ![c] = @ + 1]
      /\ asked[c] + 1 <= MaxAsked[c] /\ peer[c] = "open"
      /\ UNCHANGED <<program, up, listening, peer, conn, back>>
  BY DEF Ask, IInv, Types
<1>2. /\ asked[c] \in Nat /\ asked' \in [Client -> Nat]
      /\ asked'[c] = asked[c] + 1
      /\ \A d \in Client \ {c} : asked'[d] = asked[d]
  BY <1>1
<1>3. E!Ask(c)
  BY <1>1, <1>2, NetworkAssumption DEF E!Ask
<1> QED
  BY <1>1, <1>2, <1>3

\* A client writes a message.
LEMMA FramedAsks ==
  ASSUME IInv, program \in FramedPrograms, program # "S15", NEW c \in Client,
         NEW m \in Frame, m.msg = Number(c), WriteFrame(c, m),
         UNCHANGED <<raw, vars>>
  PROVE  IInv' /\ E!EchoNext
<1> DEFINE s == fses[c]
           d == down[c]
           f == sent[c]
           b == Len(back[c])
           a == asked[c]
           g == Append(f, m)
<1>1. /\ Types /\ Peers /\ f \in Seq(Frame)
      /\ UNCHANGED <<down, fses, inbox, consumed, ses>>
      /\ sent' = [sent EXCEPT ![c] = g]
  BY DEF WriteFrame, IInv, Types, raw
<1>2. /\ a \in Nat /\ asked' \in [Client -> Nat] /\ asked'[c] = a + 1
      /\ \A e \in Client \ {c} : asked'[e] = asked[e]
      /\ UNCHANGED <<program, up, listening, peer, conn, back>>
      /\ peer[c] = "open" /\ E!Ask(c) /\ m.msg = a + 1
  BY AskShown DEF WriteFrame, Number
<1>3. g \in Seq(Frame) /\ g # <<>>
  BY <1>1, AppendProperties
<1> HIDE DEF g
<1>4. /\ sent' \in [Client -> Seq(Frame)] /\ sent'[c] = g
      /\ \A e \in Client \ {c} : sent'[e] = sent[e]
  BY <1>1, <1>3 DEF Types
<1>5. Types'
  BY <1>1, <1>2, <1>4 DEF Types
<1>6. OthersStay(c)
  BY <1>1, <1>2, <1>4 DEF OthersStay
<1>7. c \in over <=> c \in over'
  BY <1>1, <1>2, OverIs
<1>8. ASSUME up
      PROVE  FramedHeld(c)' /\ FramedOrdered(c)' /\ RpcOrdered(c)' /\ Shown(c)
  <2>1. /\ FramedHeld(c) /\ FramedOrdered(c) /\ s \in FrameSession
        /\ d \in Seq(Frame) /\ b \in Nat /\ (s.queue = <<>>) = (s.wr = "no")
        /\ c \notin over => InStep(c, b, d, s, inbox, f, a)
    BY <1>8, FramedFacts
  <2>2. FramedHeld(c)'
    BY <1>1, <1>2, <1>3, <1>4, <2>1 DEF FramedHeld
  <2>3. c \notin over => InStep(c, b, d, s, inbox, g, a + 1)
    BY <1>1, <1>2, <2>1, StepsAsk DEF g
  <2>4. FramedOrdered(c)'
    BY <1>1, <1>2, <1>4, <1>7, <2>1, <2>3 DEF FramedOrdered
  <2>5. RpcOrdered(c)'
    BY <1>2 DEF RpcOrdered
  <2>6. Shown(c)
    BY <1>2, <1>7 DEF Shown
  <2> QED
    BY <2>2, <2>4, <2>5, <2>6
<1>9. InboxMoves(c) /\ (peer'[c] = "new" => conn'[c] = "none")
  BY <1>1, <1>2 DEF InboxMoves
<1> QED
  BY <1>1, <1>2, <1>5, <1>6, <1>8, <1>9, FramedLocal

\* A client reads a reply.
LEMMA FramedGets ==
  ASSUME IInv, NEW c \in Client, ReadReply(c), UNCHANGED <<raw, vars>>
  PROVE  IInv' /\ E!EchoNext
<1> DEFINE s == fses[c]
           d == down[c]
           e == Tail(d)
           f == sent[c]
           b == Len(back[c])
           a == asked[c]
           k == Head(d).msg
<1>1. /\ Types /\ Peers /\ OthersOff /\ d # <<>> /\ peer[c] = "open"
      /\ UNCHANGED <<program, up, listening, peer, conn, asked, sent, fses,
                     inbox, consumed, ses>>
      /\ down' = [down EXCEPT ![c] = e] /\ Receive(c, <<k>>)
  BY DEF ReadReply, IInv, raw
<1>2. up
  BY <1>1 DEF IInv
<1>3. program \in FramedPrograms /\ program # "S15"
  BY <1>1 DEF OthersOff, FramedOff
<1>4. /\ FramedHeld(c) /\ FramedOrdered(c) /\ s \in FrameSession
      /\ d \in Seq(Frame) /\ f \in Seq(Frame) /\ b \in Nat /\ a \in Nat
      /\ (s.queue = <<>>) = (s.wr = "no")
      /\ c \notin over => InStep(c, b, d, s, inbox, f, a)
  BY <1>2, <1>3, FramedFacts
<1>5. e \in Seq(Frame) /\ Head(d) \in Frame
  BY <1>1, <1>4, HeadTailProperties
<1>6. k \in Nat
  BY <1>5, HeadOf
<1> HIDE DEF k
<1>7. <<k>> \in Seq(Nat) /\ Len(<<k>>) = 1 /\ <<k>>[1] = k
  BY <1>6
<1>8. /\ back' \in [Client -> Seq(Nat)]
      /\ \A i \in Client \ {c} : back'[i] = back[i]
      /\ Len(back'[c]) = b + 1
      /\ Follow(<<k>>, b) /\ b + 1 <= a => E!Answer(c) \/ E!Nothing(c)
  BY <1>1, <1>7, Received
<1>9. /\ down' \in [Client -> Seq(Frame)] /\ down'[c] = e
      /\ \A i \in Client \ {c} : down'[i] = down[i]
  BY <1>1, <1>5 DEF Types
<1>10. Types'
  BY <1>1, <1>8, <1>9 DEF Types
<1>11. OthersStay(c)
  BY <1>1, <1>8, <1>9 DEF OthersStay
<1>12. c \in over <=> c \in over'
  BY <1>1, OverIs
<1>13. FramedHeld(c)' /\ RpcOrdered(c)'
  BY <1>1, <1>3, <1>4 DEF FramedHeld, RpcOrdered
<1>14. c \notin over => /\ k = b + 1 /\ b + 1 <= a
                        /\ InStep(c, b + 1, e, s, inbox, f, a)
  BY <1>1, <1>4, StepsReply DEF k
<1>15. c \notin over => conn[c] = "served"
  <2> DEFINE r == Replies(b, d, s)
             l == Len(d)
  <2>1. r \in Nat /\ b + l <= r
    BY <1>4, RepliesAre
  <2>2. l \in Nat \ {0} /\ b \in Nat
    BY <1>1, <1>4, EmptySeq
  <2>3. r # 0
    <3> HIDE DEF r, l, b
    <3> QED
      BY <2>1, <2>2
  <2>4. c \notin over /\ conn[c] # "served" => Replies(b, d, s) = 0
    BY <1>3, <1>4 DEF FramedOrdered
  <2> QED
    BY <2>3, <2>4
<1>16. FramedOrdered(c)'
  BY <1>1, <1>3, <1>4, <1>8, <1>9, <1>12, <1>14, <1>15 DEF FramedOrdered
<1>17. Shown(c)
  <2>1. k = b + 1 => Follow(<<k>>, b)
    BY <1>7 DEF Follow
  <2> QED
    BY <1>8, <1>12, <1>14, <2>1 DEF Shown
<1>18. InboxMoves(c) /\ (peer'[c] = "new" => conn'[c] = "none")
  BY <1>1 DEF InboxMoves
<1> QED
  BY <1>1, <1>2, <1>3, <1>10, <1>11, <1>13, <1>16, <1>17, <1>18, FramedLocal

\* S15: the call, and its answer.
LEMMA RpcAsks ==
  ASSUME IInv, NEW c \in Client, RpcClient(c), UNCHANGED <<raw, vars>>
  PROVE  IInv' /\ E!EchoNext
<1>1. /\ Types /\ program = "S15" /\ program \in FramedPrograms
      /\ asked[c] = 0 /\ UNCHANGED <<sent, down, fses, inbox, consumed, ses>>
  BY DEF RpcClient, IInv, FramedPrograms, raw
<1>2. /\ asked' \in [Client -> Nat] /\ asked'[c] = 1
      /\ \A e \in Client \ {c} : asked'[e] = asked[e]
      /\ UNCHANGED <<program, up, listening, peer, conn, back>>
      /\ peer[c] = "open" /\ E!Ask(c)
  BY <1>1, AskShown DEF RpcClient
<1>3. Types'
  BY <1>1, <1>2 DEF Types
<1>4. OthersStay(c)
  BY <1>1, <1>2 DEF OthersStay
<1>5. c \in over <=> c \in over'
  BY <1>1, <1>2, OverIs
<1>6. InboxMoves(c) /\ (peer'[c] = "new" => conn'[c] = "none")
  BY <1>1, <1>2 DEF InboxMoves
<1>7. ASSUME up
      PROVE  FramedHeld(c)' /\ FramedOrdered(c)' /\ RpcOrdered(c)' /\ Shown(c)
  <2>1. FramedHeld(c) /\ RpcOrdered(c) /\ Len(back[c]) \in Nat
    BY <1>1, <1>7, FramedFacts DEF IInv
  <2>2. FramedHeld(c)'
    BY <1>1, <1>2, <2>1 DEF FramedHeld
  <2>3. FramedOrdered(c)'
    BY <1>1, <1>2 DEF FramedOrdered
  <2>4. RpcOrdered(c)'
    BY <1>1, <1>2, <2>1 DEF RpcOrdered
  <2> QED
    BY <1>2, <1>5, <2>2, <2>3, <2>4 DEF Shown
<1> QED
  BY <1>1, <1>2, <1>3, <1>4, <1>6, <1>7, FramedLocal

LEMMA RpcAnswers ==
  ASSUME IInv, up, NEW c \in Client, RpcServer(c), UNCHANGED <<raw, vars>>
  PROVE  IInv' /\ E!EchoNext
<1> DEFINE a == asked[c]
           b == Len(back[c])
<1>1. /\ Types /\ Peers /\ program = "S15" /\ program \in FramedPrograms
      /\ UNCHANGED <<program, up, listening, peer, conn, asked, sent, down,
                     fses, inbox, consumed, ses>>
      /\ conn[c] = "backlog" /\ a > b /\ Receive(c, <<a>>)
  BY DEF RpcServer, IInv, FramedPrograms, raw
<1>2. FramedHeld(c) /\ RpcOrdered(c) /\ b \in Nat /\ a \in Nat
  BY <1>1, FramedFacts DEF IInv
<1>3. a = 1 /\ b = 0
  BY <1>1, <1>2 DEF RpcOrdered
<1> HIDE DEF a
<1>4. <<a>> \in Seq(Nat) /\ Len(<<a>>) = 1 /\ <<a>>[1] = a
  BY <1>2
<1>5. /\ back' \in [Client -> Seq(Nat)]
      /\ \A d \in Client \ {c} : back'[d] = back[d]
      /\ peer[c] = "open" =>
           /\ Len(back'[c]) = b + 1
           /\ Follow(<<a>>, b) /\ b + 1 <= asked[c] =>
                E!Answer(c) \/ E!Nothing(c)
  BY <1>1, <1>4, Received
<1>6. Follow(<<a>>, b)
  BY <1>3, <1>4 DEF Follow
<1>7. CASE peer[c] = "open"
  <2>1. (E!Answer(c) \/ E!Nothing(c)) /\ Len(back'[c]) = 1 /\ asked'[c] = 1
    BY <1>1, <1>3, <1>5, <1>6, <1>7 DEF a
  <2> HIDE DEF b
  <2>2. Types'
    BY <1>1, <1>5 DEF Types
  <2>3. OthersStay(c)
    BY <1>1, <1>5 DEF OthersStay
  <2>4. c \in over <=> c \in over'
    BY <1>1, OverIs
  <2>5. FramedHeld(c)'
    BY <1>1, <1>2 DEF FramedHeld
  <2>6. FramedOrdered(c)' /\ RpcOrdered(c)'
    BY <1>1, <2>1 DEF FramedOrdered, RpcOrdered
  <2>7. Shown(c)
    BY <2>1, <2>4 DEF Shown
  <2>8. InboxMoves(c) /\ (peer'[c] = "new" => conn'[c] = "none")
    BY <1>1, <1>7 DEF InboxMoves
  <2> QED
    BY <1>1, <2>2, <2>3, <2>5, <2>6, <2>7, <2>8, FramedLocal
<1>8. CASE peer[c] # "open"
  <2>1. back' = back
    BY <1>1, <1>8 DEF Receive
  <2>2. Types'
    BY <1>1, <2>1 DEF Types
  <2>3. OthersStay(c)
    BY <1>1, <2>1 DEF OthersStay
  <2>4. c \in over <=> c \in over'
    BY <1>1, OverIs
  <2>5. FramedHeld(c)'
    BY <1>1, <1>2 DEF FramedHeld
  <2>6. FramedOrdered(c)' /\ RpcOrdered(c)'
    BY <1>1, <1>2, <2>1 DEF FramedOrdered, RpcOrdered
  <2>7. Shown(c)
    BY <1>1, <2>1, <2>4 DEF Shown, E!Nothing
  <2>8. InboxMoves(c) /\ (peer'[c] = "new" => conn'[c] = "none")
    BY <1>1 DEF InboxMoves, Peers
  <2> QED
    BY <1>1, <2>2, <2>3, <2>5, <2>6, <2>7, <2>8, FramedLocal
<1> QED
  BY <1>7, <1>8

\* The lengths that are decoded, and the numbers of the messages read.
LEMMA ReadFacts ==
  ASSUME IInv, program \in FramedPrograms, NEW c \in Client, sent[c] # <<>>
  PROVE  /\ MsgRead(c) \in Nat \ {0}
         /\ LenRead(c) = Head(sent[c]).len => LenRead(c) \in Nat
<1>1. sent[c] \in Seq(Frame)
  BY DEF IInv, Types
<1>2. Head(sent[c]) \in Frame
  BY <1>1, HeadTailProperties
<1> QED
  BY <1>2, HeadOf DEF MsgRead

LEMMA FramedStep ==
  ASSUME IInv, FramedNext, UNCHANGED <<raw, vars>>
  PROVE  IInv' /\ E!EchoNext
<1>1. ASSUME NEW c \in Client
      PROVE  /\ Number(c) \in Nat \ {0}
             /\ \A n \in Nat : Styled(n) \in Nat
             /\ \A m : WriteFrame(c, m) => Typed(Number(c)) \subseteq Nat
  <2>1. asked[c] \in Nat
    BY DEF IInv, Types
  <2>2. Number(c) \in Nat \ {0} /\ Number(c) = asked[c] + 1
    BY <2>1 DEF Number
  <2>3. ASSUME NEW m, WriteFrame(c, m)
        PROVE  Number(c) \in 1 .. MaxAsked[c]
    BY <2>1, <2>2, <2>3, NetworkAssumption DEF WriteFrame, Ask
  <2> QED
    BY <2>2, <2>3, FramedAssumption DEF Styled
<1>2. ASSUME NEW c \in Client, NEW n \in Nat
      PROVE  /\ program \in FramedPrograms /\ program # "S15" =>
                  \A m \in {S04Node(Number(c), n), S05Node(Number(c), n),
                            S06Node(Number(c), n), S07Node(Number(c), n),
                            SendNode(Number(c), n), SendNode12(Number(c), n)} :
                     WriteFrame(c, m) => IInv' /\ E!EchoNext
  <2>1. Number(c) \in Nat \ {0}
    BY <1>1
  <2> DEFINE k == Number(c)
  <2> HIDE DEF k
  <2>2. \A m \in {S04Node(k, n), S05Node(k, n), S06Node(k, n), S07Node(k, n),
                  SendNode(k, n), SendNode12(k, n)} : m \in Frame /\ m.msg = k
    BY <2>1, NodesAre DEF k
  <2> QED
    BY <2>2, FramedAsks DEF k
<1>3. ASSUME NEW c \in Client, FramedClient(c)
      PROVE  IInv' /\ E!EchoNext
  <2>1. CASE program \in FramedPrograms /\ ComeAndGo(c)
    BY <2>1, FramedConnects, FramedLeaves DEF ComeAndGo, framed
  <2>2. CASE ReadReply(c)
    BY <2>2, FramedGets
  <2>3. CASE program = "S04" /\ (S04Client(c) \/ Foreign(c, MAX_LENGTH + 1))
    BY <1>1, <1>2, <2>2, <2>3
    DEF S04Client, Foreign, MAX_LENGTH, FramedPrograms
  <2>4. CASE program = "S05" /\ S05Client(c)
    BY <1>2, <2>2, <2>4 DEF S05Client, FramedPrograms
  <2>5. CASE program = "S06" /\ S06Client(c)
    BY <1>2, <2>2, <2>5 DEF S06Client, FramedPrograms
  <2>6. CASE program = "S07" /\ S07Client(c)
    BY <1>1, <1>2, <2>2, <2>6 DEF S07Client, FramedPrograms
  <2>7. CASE program = "S08" /\ S08Client(c)
    BY <1>1, <1>2, <2>2, <2>7 DEF S08Client, FramedPrograms
  <2>8. CASE program = "S09" /\ S09Client(c)
    BY <1>2, <2>2, <2>8 DEF S09Client, FramedPrograms
  <2>9. CASE program = "S12" /\ S12Client(c)
    BY <1>2, <2>2, <2>9 DEF S12Client, FramedPrograms
  <2>10. CASE program = "S12" /\
                \E n \in {MAX_LENGTH + 1, 40000, 65535} : Foreign(c, n)
    BY <1>2, <2>10 DEF Foreign, MAX_LENGTH, FramedPrograms
  <2> QED
    BY <1>3, <2>1, <2>3, <2>4, <2>5, <2>6, <2>7, <2>8, <2>9, <2>10
    DEF FramedClient
<1>4. ASSUME NEW c \in Client, up, FramedServer(c)
      PROVE  IInv' /\ E!EchoNext
  <2> DEFINE k == MsgRead(c)
             n == LenRead(c)
  <2>1. ASSUME program \in FramedPrograms, sent[c] # <<>>, n = Head(sent[c]).len
        PROVE  /\ S04Node(k, n) \in Frame /\ S04Node(k, n).msg = k
               /\ S05Node(k, n + 32) \in Frame /\ S05Node(k, n + 32).msg = k
               /\ S05Node(k, n) \in Frame /\ S05Node(k, n).msg = k
               /\ S06Node(k, n + 37) \in Frame /\ S06Node(k, n + 37).msg = k
    <3>1. k \in Nat \ {0} /\ n \in Nat
      BY <2>1, ReadFacts
    <3> HIDE DEF k, n
    <3>2. n + 32 \in Nat /\ n + 37 \in Nat
      BY <3>1
    <3> QED
      BY <3>1, <3>2, NodesAre
  <2>2. CASE program \in FramedPrograms \ {"S15"}
             /\ (FrameAccepted(c) \/ FrameReadError(c))
    BY <1>4, <2>2, FramedAccepts, FramedFails
  <2>3. CASE program \in FramedPrograms /\ program # "S15" /\ Sending(c)
    BY <1>4, <2>3, FramedSends
  <2>4. CASE S04Server(c)
    <3>1. /\ program \in FramedPrograms /\ program # "S15"
          /\ program \notin LogicPrograms
      BY <2>4 DEF S04Server, FramedPrograms, LogicPrograms
    <3>2. CASE ReadCallback(c, {S04Node(k, n)})
      <4>1. sent[c] # <<>> /\ n = Head(sent[c]).len =>
              \A m \in {S04Node(k, n)} : m \in Frame /\ m.msg = k
        BY <2>1, <3>1
      <4> QED
        BY <1>4, <3>1, <3>2, <4>1, FramedReads
    <3> QED
      BY <2>3, <2>4, <3>1, <3>2 DEF S04Server
  <2>5. CASE S05Server(c)
    <3>1. /\ program \in FramedPrograms /\ program # "S15"
          /\ program \notin LogicPrograms
      BY <2>5 DEF S05Server, FramedPrograms, LogicPrograms
    <3>2. CASE ReadCallback(c, {S05Node(k, n + 32), S05Node(k, n)})
      <4>1. sent[c] # <<>> /\ n = Head(sent[c]).len =>
              \A m \in {S05Node(k, n + 32), S05Node(k, n)} :
                m \in Frame /\ m.msg = k
        BY <2>1, <3>1
      <4> QED
        BY <1>4, <3>1, <3>2, <4>1, FramedReads
    <3> QED
      BY <2>3, <2>5, <3>1, <3>2 DEF S05Server
  <2>6. CASE S06Server(c)
    <3>1. /\ program \in FramedPrograms /\ program # "S15"
          /\ program \notin LogicPrograms
      BY <2>6 DEF S06Server, FramedPrograms, LogicPrograms
    <3>2. CASE ReadCallback(c, {S06Node(k, n + 37)})
      <4>1. sent[c] # <<>> /\ n = Head(sent[c]).len =>
              \A m \in {S06Node(k, n + 37)} : m \in Frame /\ m.msg = k
        BY <2>1, <3>1
      <4> QED
        BY <1>4, <3>1, <3>2, <4>1, FramedReads
    <3> QED
      BY <2>3, <2>6, <3>1, <3>2 DEF S06Server
  <2>7. CASE S07Server(c)
    BY <1>4, <2>3, <2>7, FramedHeads, FramedAnswers
    DEF S07Server, FramedPrograms
  <2>8. CASE S08Server(c)
    BY <1>4, <2>3, <2>8, FramedHeads, FramedPosts
    DEF S08Server, FramedPrograms, LogicPrograms
  <2>9. CASE S12Server(c)
    BY <1>4, <2>3, <2>9, FramedStarts DEF S12Server, FramedPrograms
  <2>10. CASE RpcServer(c)
    BY <1>4, <2>10, RpcAnswers
  <2> QED
    BY <1>4, <2>2, <2>4, <2>5, <2>6, <2>7, <2>8, <2>9, <2>10 DEF FramedServer
<1>5. ASSUME NEW c \in Client, RpcClient(c)
      PROVE  IInv' /\ E!EchoNext
  BY <1>5, RpcAsks
<1>6. CASE up /\ HelloWorldCallback
  BY <1>6, FramedReplies
<1>7. CASE FramedMain
  BY <1>7, FramedDies
<1>8. \A c \in Client : FramedServer(c) => up
  BY DEF FramedServer
<1> QED
  BY <1>3, <1>4, <1>5, <1>6, <1>7, <1>8 DEF FramedNext

-----------------------------------------------------------------------------
(***************************************************************************)
(* The theorems.                                                           *)
(***************************************************************************)
\* A step of the parser, and a step in which nothing happens.
LEMMA NetworkStays ==
  ASSUME IInv, UNCHANGED <<network, raw, framed>>, ParserInv'
  PROVE  IInv' /\ UNCHANGED E!evars
<1>1. /\ UNCHANGED <<program, up, listening, peer, conn, asked, back>>
      /\ UNCHANGED <<consumed, ses>> /\ UNCHANGED <<sent, down, fses, inbox>>
  BY DEF network, raw, framed
<1>2. over' = over
  BY <1>1 DEF over, Gone
<1>3. Types' /\ Peers'
  BY <1>1 DEF IInv, Types, Peers
<1>4. OthersOff'
  BY <1>1 DEF IInv, OthersOff, RawOff, FramedOff
<1>5. up /\ program \in RawPrograms =>
        \A c \in Client : RawHeld(c)' /\ RawOrdered(c)'
  BY <1>1, <1>2 DEF IInv, RawHeld, RawOrdered
<1>6. up /\ program \in FramedPrograms =>
        \A c \in Client : FramedHeld(c)' /\ FramedOrdered(c)' /\ RpcOrdered(c)'
  BY <1>1, <1>2 DEF IInv, FramedHeld, FramedOrdered, RpcOrdered
<1>7. ~up => /\ ses' = [c \in Client |-> NoSession]
             /\ down' = [c \in Client |-> <<>>]
             /\ fses' = [c \in Client |-> NoFrameSession]
  BY <1>1 DEF IInv
<1> QED
  BY <1>1, <1>2, <1>3, <1>4, <1>5, <1>6, <1>7 DEF IInv, E!evars

LEMMA ServersStart ==
  ASSUME ServersInit
  PROVE  IInv /\ E!EchoInit
<1>1. /\ NetworkInit /\ RawOff /\ FramedOff /\ program \in Programs /\ ParserInv
  BY ParserOffInv, ParserStarts
  DEF ServersInit, RawInit, FramedInit, RawOff, FramedOff, Programs
<1>2. Types /\ Peers
  <2>1. <<>> \in Seq(Nat)
    BY EmptySeq
  <2> QED
    BY <1>1, <2>1, EmptyTypes DEF NetworkInit, RawOff, FramedOff, Types, Peers
<1>3. OthersOff
  BY <1>1 DEF NetworkInit, RawOff, FramedOff, OthersOff
<1>4. over = {} /\ E!EchoInit
  <2>1. Gone = {}
    BY <1>1 DEF NetworkInit, Gone
  <2>2. \A c \in Client : ~ses[c].spoilt /\ ~Spent(fses[c])
    BY <1>1, NotSpent DEF RawOff, FramedOff, NoSession
  <2>3. over = {}
    BY <2>1, <2>2 DEF over, Spent
  <2> QED
    BY <1>1, <2>3 DEF NetworkInit, E!EchoInit
<1>5. ASSUME NEW c \in Client
      PROVE  RawHeld(c) /\ RawOrdered(c)
  <2>1. /\ conn[c] = "none" /\ ses[c] = NoSession /\ back[c] = <<>>
        /\ consumed[c] = 0 /\ asked[c] = 0
    BY <1>1 DEF NetworkInit, RawOff
  <2> QED
    BY <2>1, EmptySeq DEF RawHeld, RawOrdered, NoSession
<1>6. ASSUME NEW c \in Client
      PROVE  FramedHeld(c) /\ FramedOrdered(c) /\ RpcOrdered(c)
  <2>1. /\ conn[c] = "none" /\ fses[c] = NoFrameSession /\ back[c] = <<>>
        /\ sent[c] = <<>> /\ down[c] = <<>> /\ asked[c] = 0 /\ inbox = <<>>
    BY <1>1 DEF NetworkInit, FramedOff
  <2>2. /\ fses[c].rd = "no" /\ fses[c].wr = "no" /\ ~fses[c].held
        /\ ~Spent(fses[c]) /\ ~(fses[c].want < 0) /\ fses[c].queue = <<>>
    BY <2>1, NotSpent DEF NoFrameSession
  <2>3. FramedHeld(c) /\ RpcOrdered(c)
    BY <2>1, <2>2, EmptySeq DEF FramedHeld, RpcOrdered
  <2> DEFINE z == 0
  <2>4. z \in Int /\ Len(<<>>) = z /\ z + z = z /\ z - z = z /\ z \in z .. z
    BY EmptySeq
  <2>5. Replies(Len(back[c]), down[c], fses[c]) = z
    BY <2>1, <2>2, EmptySeq DEF Replies
  <2> HIDE DEF z
  <2>6. InLine(inbox, c, z, z)
    BY <2>1, <2>4, LineEmpty
  <2>7. \A i : FollowMsg(<<>>, i)
    BY EmptySeq DEF FollowMsg
  <2>8. InStep(c, Len(back[c]), down[c], fses[c], inbox, sent[c], asked[c])
    <3>1. asked[c] = z /\ Len(sent[c]) = z
      BY <2>1, <2>4 DEF z
    <3> QED
      BY <2>1, <2>2, <2>4, <2>5, <2>6, <2>7, <3>1 DEF InStep
  <2>9. FramedOrdered(c)
    BY <2>5, <2>6, <2>8 DEF FramedOrdered, z
  <2> QED
    BY <2>3, <2>9
<1>7. up
  BY <1>1 DEF NetworkInit
<1> QED
  BY <1>1, <1>2, <1>3, <1>4, <1>5, <1>6, <1>7 DEF IInv

LEMMA ServersStep ==
  ASSUME IInv, [ServersNext]_allVars
  PROVE  IInv' /\ [E!EchoNext]_E!evars
<1>1. ParserInv
  BY DEF IInv
<1>2. CASE RawNext /\ UNCHANGED <<framed, vars>>
  BY <1>2, RawStep
<1>3. CASE FramedNext /\ UNCHANGED <<raw, vars>>
  BY <1>3, FramedStep
<1>4. CASE program = "parser" /\ Next /\ UNCHANGED <<network, raw, framed>>
  BY <1>1, <1>4, ParserStep, NetworkStays
<1>5. CASE UNCHANGED allVars
  BY <1>1, <1>5, ParserStep, NetworkStays DEF allVars
<1> QED
  BY <1>2, <1>3, <1>4, <1>5 DEF ServersNext, Parsing

LEMMA ServersAlways == ServersSpec => []IInv
<1>1. ServersInit => IInv
  BY ServersStart
<1>2. IInv /\ [ServersNext]_allVars => IInv'
  BY ServersStep
<1> QED
  BY <1>1, <1>2, PTL DEF ServersSpec

\* The types of what the servers, the parser and their clients hold.
THEOREM AlwaysServersTypeOK == ServersSpec => []ServersTypeOK
<1>1. IInv => ServersTypeOK
  BY DEF IInv, ParserInv, Types, ServersTypeOK
<1> QED
  BY <1>1, ServersAlways, PTL

\* Each server, whatever it is made of, waits for a read or a write of every
\* connection it serves, and for none of a connection it does not; no session
\* is held that would not notice the end of its connection.
THEOREM AlwaysHeldWhileServed == ServersSpec => []HeldWhileServed
<1>1. ASSUME IInv
      PROVE  HeldWhileServed
  <2> SUFFICES ASSUME NEW c \in Client, up
               PROVE  LET raws == program \in RawPrograms
                          idle == IF raws THEN ses[c].rd = "no" /\ ses[c].wr = "no"
                                  ELSE fses[c].rd = "no" /\ fses[c].wr = "no"
                          holds == IF raws THEN ses[c].held ELSE fses[c].held
                      IN /\ holds => ~idle
                         /\ program # "S15" => (conn[c] = "served") = ~idle
                         /\ program \in {"blocking", "coroutine", "manual",
                                         "shared"} => holds = ~idle
    BY DEF HeldWhileServed
  <2>1. Types /\ OthersOff
    BY <1>1 DEF IInv
  <2>2. CASE program \in RawPrograms
    <3>1. RawHeld(c)
      BY <1>1, <2>2 DEF IInv
    <3>2. ses[c].held \in BOOLEAN
      BY <2>1 DEF Types, Session
    <3>3. \/ conn[c] = "served" /\ (ses[c].rd # "no" \/ ses[c].wr # "no")
          \/ /\ conn[c] # "served" /\ ses[c].rd = "no" /\ ses[c].wr = "no"
             /\ ~ses[c].held
      BY <3>1 DEF RawHeld
    <3>4. program # "queued" /\ conn[c] = "served" => ses[c].held
      BY <3>1 DEF RawHeld
    <3> QED
      BY <2>2, <3>2, <3>3, <3>4
  <2>3. CASE program \in FramedPrograms
    <3>1. FramedHeld(c)
      BY <1>1, <2>3 DEF IInv
    <3>2. program \notin RawPrograms
      BY <2>3 DEF RawPrograms, FramedPrograms
    <3>3. program \notin {"blocking", "coroutine", "manual", "shared"}
      BY <2>3 DEF FramedPrograms
    <3>4. \/ conn[c] = "served" /\ (fses[c].rd # "no" \/ fses[c].wr # "no")
          \/ /\ conn[c] # "served" /\ fses[c].rd = "no" /\ fses[c].wr = "no"
             /\ ~fses[c].held
      BY <3>1 DEF FramedHeld
    <3> QED
      BY <3>2, <3>3, <3>4
  <2>4. CASE program = "parser"
    <3>1. program \notin RawPrograms /\ program \notin FramedPrograms
      BY <2>4 DEF RawPrograms, FramedPrograms
    <3>2. fses[c] = NoFrameSession /\ conn[c] = "none"
      BY <2>1, <2>4, <3>1 DEF OthersOff, FramedOff
    <3> QED
      BY <2>4, <3>1, <3>2 DEF NoFrameSession
  <2> QED
    BY <2>1, <2>2, <2>3, <2>4 DEF Types, Programs
<1> QED
  BY <1>1, ServersAlways, PTL

\* Every server of the repository is an implementation of Echo as far as
\* safety goes: no answer is lost, repeated or out of order as long as the
\* exchange with the client goes on, and an exchange that is over stays so.
THEOREM ServersRefineEcho ==
  ServersSpec => E!EchoInit /\ [][E!EchoNext]_E!evars
<1>1. ServersInit => E!EchoInit
  BY ServersStart
<1>2. IInv /\ [ServersNext]_allVars => [E!EchoNext]_E!evars
  BY ServersStep
<1> QED
  BY <1>1, <1>2, ServersAlways, PTL DEF ServersSpec
=============================================================================
