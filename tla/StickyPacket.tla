---------------------------- MODULE StickyPacket ----------------------------
(***************************************************************************)
(* The receiving half of a CSession of the servers with length-prefixed    *)
(* messages (S04, S05 and S06): async_read_some into the buffer data_ and  *)
(* the incremental parser in the read callback, which has to find the      *)
(* messages whatever pieces the byte stream arrives in ("sticky packets"). *)
(*                                                                         *)
(* The peer sends Frames frames; frame f is HeadLength bytes of head and   *)
(* lens[f] bytes of body.  A byte is the pair <<f, k>>: the k-th byte of   *)
(* frame f.  What the head encodes is lens[f].  A buffer with a fill count *)
(* (recv_head_node_, recv_msg_node_) is the sequence of the bytes in it.   *)
(*                                                                         *)
(* An iteration of the parser's loop is a step.  The handler is the only   *)
(* code that touches this state, so nothing can come between.              *)
(***************************************************************************)
EXTENDS Integers, Sequences

CONSTANTS
  Frames,      \* bound: frames the peer sends
  HeadLength,  \* HEAD_LENGTH
  MaxLength,   \* MAX_LENGTH: of a body, and of the buffer data_
  Lengths,     \* bound: lengths of body the peer sends
  MayThrow     \* handling a message may throw (S06: JSON of another shape)

ASSUME PacketAssumption ==
  /\ Frames \in Nat
  /\ HeadLength \in Nat \ {0}
  /\ MaxLength \in Nat \ {0}
  /\ Lengths \subseteq Nat /\ Lengths # {}
  /\ MayThrow \in BOOLEAN

VARIABLES
  lens,       \* length of the body of each frame the peer sends
  pos,        \* the byte the peer writes next
  stream,     \* the bytes the peer has written
  taken,      \* how many of them have been read from the socket
  reading,    \* an async_read_some is outstanding
  data,       \* data_, as far as it is filled
  copyLen,    \* copy_len: bytes of data_ already parsed
  left,       \* bytes_transferred: bytes of data_ still to be parsed
  headParse,  \* b_head_parse_
  headNode,   \* recv_head_node_, up to cur_len
  msgNode,    \* recv_msg_node_, up to cur_len
  totalLen,   \* total_len of recv_msg_node_
  delivered,  \* bodies of the messages handled, in order
  registered, \* the server holds the session
  threw       \* the handling of a message has thrown

wire == <<lens, pos, stream, taken>>
node == <<headParse, headNode, msgNode, totalLen>>
fate == <<registered, threw>>
vars == <<wire, reading, data, copyLen, left, node, delivered, fate>>

\* The constructor and start(): the first read is outstanding.
Init ==
  /\ lens \in [1 .. Frames -> Lengths]
  /\ pos = <<1, 1>>
  /\ stream = <<>>
  /\ taken = 0
  /\ reading = TRUE
  /\ data = <<>>
  /\ copyLen = 0
  /\ left = 0
  /\ headParse = FALSE
  /\ headNode = <<>>
  /\ msgNode = <<>>
  /\ totalLen = 0
  /\ delivered = <<>>
  /\ registered = TRUE
  /\ threw = FALSE

-----------------------------------------------------------------------------
\* External: the peer writes its frames, byte by byte.  More than MaxLength
\* bytes waiting in the socket differ in nothing from MaxLength.
ByteAfter(p) ==
  IF p[2] < HeadLength + lens[p[1]] THEN <<p[1], p[2] + 1>>
                                    ELSE <<p[1] + 1, 1>>

Waiting == Len(stream) - taken

PeerWrites ==
  /\ pos[1] <= Frames
  /\ Waiting < MaxLength
  /\ stream' = Append(stream, pos)
  /\ pos' = ByteAfter(pos)
  /\ UNCHANGED <<lens, taken, reading, data, copyLen, left, node,
                 delivered, fate>>

\* External: async_read_some completes with any number of the waiting bytes.
ReadSome(n) ==
  /\ reading
  /\ n <= Waiting
  /\ data' = SubSeq(stream, taken + 1, taken + n)
  /\ taken' = taken + n
  /\ copyLen' = 0
  /\ left' = n
  /\ reading' = FALSE
  /\ UNCHANGED <<lens, pos, stream, node, delivered, fate>>

\* The read callback with an error: close() and remove_session().
ReadError ==
  /\ reading
  /\ reading' = FALSE
  /\ registered' = FALSE
  /\ UNCHANGED <<wire, data, copyLen, left, node, delivered, threw>>

-----------------------------------------------------------------------------
\* The next n bytes of data_.
Piece(n) == SubSeq(data, copyLen + 1, copyLen + n)

\* The handler clears data_ and starts the next read.
Rearm ==
  /\ reading' = TRUE
  /\ data' = <<>>
  /\ copyLen' = 0
  /\ left' = 0

\* Mutated: copy_len is set, not advanced.
UsedFromStart(n) ==
  IF left > n
  THEN /\ copyLen' = n
       /\ left' = left - n
       /\ UNCHANGED <<reading, data>>
  ELSE Rearm

\* Mutated: no read is started when data_ is used up.
UsedWithoutRead(n) ==
  /\ copyLen' = copyLen + n
  /\ left' = left - n
  /\ UNCHANGED <<reading, data>>

\* n bytes of data_ have been used; the loop goes on if any is left.
Used(n) ==
  IF left > n
  THEN /\ copyLen' = copyLen + n
       /\ left' = left - n
       /\ UNCHANGED <<reading, data>>
  ELSE Rearm

\* The head is not complete with what has arrived.
HeadPartial ==
  /\ left > 0
  /\ ~headParse
  /\ left + Len(headNode) < HeadLength
  /\ headNode' = headNode \o Piece(left)
  /\ Rearm
  /\ UNCHANGED <<wire, headParse, msgNode, totalLen, delivered, fate>>

\* The bytes of data_ that complete the head, and the length it encodes.
HeadRemain == HeadLength - Len(headNode)
Head2Length(head) == lens[head[1][1]]
BodyLength == Head2Length(headNode \o Piece(HeadRemain))

HeadComplete ==
  /\ left > 0
  /\ ~headParse
  /\ left + Len(headNode) >= HeadLength

\* Mutated: `<=' for `<'.
BodyNotPassed == left - HeadRemain <= BodyLength

\* Less than the whole body follows the head in data_.
BodyMissing == left - HeadRemain < BodyLength

\* Mutated: without the call of remove_session().
HeadInvalidKept ==
  /\ HeadComplete
  /\ BodyLength > MaxLength
  /\ left' = 0
  /\ UNCHANGED <<wire, reading, data, copyLen, node, delivered, fate>>

\* The length is invalid: the session leaves the server's map and nothing is
\* read any more.
HeadInvalid ==
  /\ HeadComplete
  /\ BodyLength > MaxLength
  /\ registered' = FALSE
  /\ left' = 0
  /\ UNCHANGED <<wire, reading, data, copyLen, node, delivered, threw>>

\* The head, and less than the whole body after it.
HeadThenPart ==
  /\ HeadComplete
  /\ BodyLength <= MaxLength
  /\ BodyMissing
  /\ msgNode' = SubSeq(data, copyLen + HeadRemain + 1, copyLen + left)
  /\ totalLen' = BodyLength
  /\ headParse' = TRUE
  /\ Rearm
  /\ UNCHANGED <<wire, headNode, delivered, fate>>

\* A message is complete, n bytes of data_ after the last: it is answered, or
\* its handling throws and the handler ends there, with no read outstanding.
Handle(body, n) ==
  \/ /\ delivered' = Append(delivered, body)
     /\ headParse' = FALSE
     /\ headNode' = <<>>
     /\ Used(n)
     /\ UNCHANGED threw
  \/ /\ MayThrow
     /\ threw' = TRUE
     /\ left' = 0
     /\ UNCHANGED <<reading, data, copyLen, headParse, headNode, delivered>>

\* The head, and at least the whole body after it.
HeadThenBody ==
  /\ HeadComplete
  /\ BodyLength <= MaxLength
  /\ ~BodyMissing
  /\ msgNode' = SubSeq(data, copyLen + HeadRemain + 1,
                             copyLen + HeadRemain + BodyLength)
  /\ totalLen' = BodyLength
  /\ Handle(msgNode', HeadRemain + BodyLength)
  /\ UNCHANGED <<wire, registered>>

\* More of a body whose head has been parsed before, but not all of it.
BodyRemain == totalLen - Len(msgNode)

\* Mutated: without the test that the body is still incomplete.
BodyPartialAlways ==
  /\ left > 0
  /\ headParse
  /\ msgNode' = msgNode \o Piece(left)
  /\ Rearm
  /\ UNCHANGED <<wire, headParse, headNode, totalLen, delivered, fate>>

BodyPartial ==
  /\ left > 0
  /\ headParse
  /\ left < BodyRemain
  /\ msgNode' = msgNode \o Piece(left)
  /\ Rearm
  /\ UNCHANGED <<wire, headParse, headNode, totalLen, delivered, fate>>

\* The rest of such a body.
BodyRest ==
  /\ left > 0
  /\ headParse
  /\ left >= BodyRemain
  /\ msgNode' = msgNode \o Piece(BodyRemain)
  /\ Handle(msgNode', BodyRemain)
  /\ UNCHANGED <<wire, totalLen, registered>>

Parse ==
  HeadPartial \/ HeadInvalid \/ HeadThenPart \/ HeadThenBody
  \/ BodyPartial \/ BodyRest

Next ==
  \/ PeerWrites
  \/ \E n \in 1 .. MaxLength : ReadSome(n)
  \/ ReadError
  \/ Parse

-----------------------------------------------------------------------------
Byte == (1 .. Frames) \X (Nat \ {0})

TypeOK ==
  /\ lens \in [1 .. Frames -> Lengths]
  /\ pos \in (1 .. Frames + 1) \X (Nat \ {0})
  /\ stream \in Seq(Byte)
  /\ taken \in 0 .. Len(stream)
  /\ data \in Seq(Byte)
  /\ copyLen \in 0 .. MaxLength
  /\ left \in 0 .. MaxLength
  /\ headNode \in Seq(Byte) /\ Len(headNode) < HeadLength
  /\ msgNode \in Seq(Byte) /\ Len(msgNode) <= totalLen
  /\ totalLen \in 0 .. MaxLength
  /\ delivered \in Seq(Seq(Byte))
  /\ {reading, headParse, registered, threw} \subseteq BOOLEAN

Body(f) == [k \in 1 .. lens[f] |-> <<f, HeadLength + k>>]

\* The first byte that has not been read from the socket.
FirstUnread == IF taken = Len(stream) THEN pos ELSE stream[taken + 1]

\* The n-th message handled is exactly the body of the n-th frame sent,
\* whatever the pieces in which the stream was read: no byte of a head, of a
\* neighbour or of an earlier read is in it, and none is missing.  When the
\* handler waits for more, every message whose last byte has been read has
\* been handled: none is held back until the next read, or handled early.
ParsedExactly ==
  /\ \A i \in 1 .. Len(delivered) : delivered[i] = Body(i)
  /\ reading => Len(delivered) = FirstUnread[1] - 1

\* A frame whose length is over MAX_LENGTH, and what follows it, is never
\* handled, and a session is only kept in the map while it can still receive,
\* unless handling a message threw.
ServedWhileRegistered ==
  /\ \A i \in 1 .. Len(delivered) : lens[i] <= MaxLength
  /\ registered => reading \/ left > 0 \/ threw

\* Every frame is handled in the end, unless one before it is too long, the
\* connection fails, or the handling of one before it throws.
EveryFrameHandled ==
  <>(Len(delivered) = Frames \/ ~registered \/ threw)
=============================================================================
