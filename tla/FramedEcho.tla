----------------------------- MODULE FramedEcho -----------------------------
(***************************************************************************)
(* The programs that frame their messages, from end to end: the client of  *)
(* a step, the header it encodes, the server that decodes it, the reply    *)
(* through the send queue, and the client that decodes that.               *)
(*   "S04"         a length before the message, parsed from the stream     *)
(*   "S05", "S06"  the same with a protobuf or a JSON message              *)
(*   "S07"         header and body in two reads, no byte order             *)
(*   "S08"         an id too, and replies from the thread of LogicSystem   *)
(*   "S09"         the same for a hundred clients in a hundred threads;    *)
(*                 S10 is no different here                                *)
(*   "S12"         the same with a coroutine that reads                    *)
(*   "S15"         a call over gRPC, whose transport is the library's      *)
(*                                                                         *)
(* The requests of EchoNetwork are messages.  A frame is the number of its *)
(* message, the length of its body, and the two bytes of its header that   *)
(* encode the length, as the unsigned 16-bit number memcpy() reads there.  *)
(* How S04 to S06 find the frames in the stream is StickyPacket; what the  *)
(* threads of S08 to S12 can do between the steps here is LogicQueue,      *)
(* IOServicePool, StrandServer, CoroutineServer and SessionSend.           *)
(***************************************************************************)
EXTENDS EchoNetwork

CONSTANTS
  MaxSendQue,  \* MAX_SENDQUE
  Typed(_)     \* bound: the lengths of the line a user types as the k-th;
               \* getline() leaves at most 2047 characters of a line

ASSUME FramedAssumption ==
  /\ MaxSendQue \in Nat
  /\ \A c \in Client : \A k \in 1 .. MaxAsked[c] : Typed(k) \subseteq Nat

VARIABLES
  sent,   \* frames each client has written and the server has not read
  down,   \* frames the server has written and the client has not read
  fses,   \* the session of each client
  inbox   \* msg_que_ of LogicSystem: messages posted, of all clients

fvars == <<network, sent, down, fses, inbox>>

FramedPrograms ==
  {"S04", "S05", "S06", "S07", "S08", "S09", "S12", "S15"}

Frame == [msg : Nat \ {0}, len : Nat, head : 0 .. 65535]

\* The read that is outstanding and, of a body, the length decoded for it;
\* the queue of replies and whether the write of its front is outstanding or
\* done; whether the server's map holds the session; and whether send() has
\* refused a reply because the queue was full.
FrameSession ==
  [rd : {"no", "head", "body"}, want : Int, queue : Seq(Frame),
   wr : {"no", "begun", "done"}, held : BOOLEAN, refused : BOOLEAN]

NoFrameSession ==
  [rd |-> "no", want |-> 0, queue |-> <<>>, wr |-> "no", held |-> FALSE,
   refused |-> FALSE]

FramedInit ==
  /\ program \in FramedPrograms
  /\ NetworkInit
  /\ sent = [c \in Client |-> <<>>]
  /\ down = [c \in Client |-> <<>>]
  /\ fses = [c \in Client |-> NoFrameSession]
  /\ inbox = <<>>

-----------------------------------------------------------------------------
(* Headers.                                                                *)

MAX_LENGTH == 2048

\* host_to_network_short(), network_to_host_short() on a little-endian host.
Swap(n) == ((n % 256) * 256) + ((n \div 256) % 256)

\* What a short of the code holds.
AsShort(n) == IF n < 32768 THEN n ELSE n - 65536

\* The length the program makes of a head.
DataLen(head) ==
  IF program = "S07" THEN AsShort(head) ELSE AsShort(Swap(head))

\* Constructors of the message that is sent, one for each protocol.
S04Node(k, n) == [msg |-> k, len |-> n, head |-> Swap(n)]
S05Node(k, n) == [msg |-> k, len |-> n, head |-> Swap(n)]
S06Node(k, n) == [msg |-> k, len |-> n, head |-> Swap(n)]
S07Node(k, n) == [msg |-> k, len |-> n, head |-> n % 65536]
SendNode(k, n) == [msg |-> k, len |-> n, head |-> Swap(n)]
SendNode12(k, n) == [msg |-> k, len |-> n, head |-> Swap(n)]

\* Mutated: the length of the whole node for that of the body.
SendNodeTotal(k, n) == [msg |-> k, len |-> n, head |-> Swap(n + 4)]

-----------------------------------------------------------------------------
(* Clients.                                                                *)

WriteFrame(c, node) ==
  /\ Ask(c, 1)
  /\ sent' = [sent EXCEPT ![c] = Append(@, node)]
  /\ UNCHANGED <<down, fses, inbox>>

\* The client reads a reply: header, then as many bytes as it decodes from it.
\* With any other number of bytes it would wait, or lose the frames.
ReadReply(c) ==
  /\ peer[c] = "open"
  /\ down[c] # <<>>
  /\ DataLen(Head(down[c]).head) = Head(down[c]).len
  /\ Receive(c, <<Head(down[c]).msg>>)
  /\ down' = [down EXCEPT ![c] = Tail(@)]
  /\ UNCHANGED <<program, up, listening, peer, conn, asked, sent, fses, inbox>>

\* The number of the next message of c.
Number(c) == asked[c] + 1

\* A line of 2047 characters and its header are one byte more than the array
\* send_data holds: the client may as well crash, which is Leave.
S04Client(c) ==
  \/ \E n \in Typed(Number(c)) : WriteFrame(c, S04Node(Number(c), n))
  \/ ReadReply(c)

\* One message, whose length is fixed.
S05Client(c) ==
  \/ asked[c] = 0 /\ WriteFrame(c, S05Node(Number(c), 16))
  \/ ReadReply(c)

S06Client(c) ==
  \/ asked[c] = 0 /\ WriteFrame(c, S06Node(Number(c), 46))
  \/ ReadReply(c)

S07Client(c) ==
  \/ \E n \in Typed(Number(c)) : WriteFrame(c, S07Node(Number(c), n))
  \/ ReadReply(c)

\* JSON around the line: a long line makes a body over MAX_LENGTH.
Styled(n) == n + 35

S08Client(c) ==
  \/ \E n \in Typed(Number(c)) : WriteFrame(c, SendNode(Number(c), Styled(n)))
  \/ ReadReply(c)

\* One of the threads of the client: the same message, MaxAsked times.
S09Client(c) ==
  \/ WriteFrame(c, SendNode(Number(c), 46))
  \/ ReadReply(c)

S12Client(c) ==
  \/ WriteFrame(c, SendNode12(Number(c), 46))
  \/ ReadReply(c)

\* Any other client of the port may send a length that is not valid: over the
\* limit, or negative as a short (40000, and 65535, which is -1).
Foreign(c, n) == WriteFrame(c, S04Node(Number(c), n))

\* What a client that has left has not read is lost.
ComeAndGo(c) ==
  \/ Connect(c) /\ UNCHANGED <<sent, down, fses, inbox>>
  \/ /\ Leave(c)
     /\ down' = [down EXCEPT ![c] = <<>>]
     /\ UNCHANGED <<sent, fses, inbox>>

FramedClient(c) ==
  \/ program \in FramedPrograms /\ ComeAndGo(c)
  \/ program = "S04" /\ (S04Client(c) \/ Foreign(c, MAX_LENGTH + 1))
  \/ program = "S05" /\ S05Client(c)
  \/ program = "S06" /\ S06Client(c)
  \/ program = "S07" /\ S07Client(c)
  \/ program = "S08" /\ S08Client(c)
  \/ program = "S09" /\ S09Client(c)
  \/ /\ program = "S12"
     /\ S12Client(c) \/ (\E n \in {MAX_LENGTH + 1, 40000, 65535} : Foreign(c, n))

-----------------------------------------------------------------------------
(* The sending half of a session.                                          *)

\* send(): refused when the queue is full, and written at once when no other
\* write is outstanding.
Send(s, node) ==
  IF Len(s.queue) > MaxSendQue
  THEN [s EXCEPT !.refused = TRUE]
  ELSE [s EXCEPT !.queue = Append(@, node),
                 !.wr = IF s.queue = <<>> THEN "begun" ELSE s.wr]

\* A session with nothing outstanding that the map does not hold is gone,
\* and its socket with it.
Put(c, s) ==
  /\ fses' = [fses EXCEPT ![c] = s]
  /\ conn' = IF s.rd = "no" /\ s.wr = "no" /\ ~s.held
             THEN [conn EXCEPT ![c] = "closed"] ELSE conn
  /\ UNCHANGED <<program, up, listening, peer, asked, back>>

\* close() and remove_session().  What is still outstanding fails, and its
\* callback does the same again; what has not been read is lost.
CloseAndRemove(c) ==
  /\ Put(c, NoFrameSession)
  /\ sent' = [sent EXCEPT ![c] = <<>>]
  /\ UNCHANGED <<down, inbox>>

\* External: the front of the queue is written, or the write fails because
\* the client is gone.
FrameWritten(c) ==
  /\ fses[c].wr = "begun"
  /\ fses' = [fses EXCEPT ![c].wr = "done"]
  /\ down' = [down EXCEPT ![c] = Append(@, Head(fses[c].queue))]
  /\ UNCHANGED <<network, sent, inbox>>

WriteCallbackError(c) ==
  /\ fses[c].wr = "begun"
  /\ peer[c] = "left"
  /\ CloseAndRemove(c)

\* Mutated: the next write is started only when two messages wait.
NextWrite2(queue) == IF Len(queue) > 1 THEN "begun" ELSE "no"

NextWrite(queue) == IF queue # <<>> THEN "begun" ELSE "no"

\* The write callback: the front leaves the queue, the next is written.
WriteCallback(c) ==
  LET queue == Tail(fses[c].queue) IN
  /\ fses[c].wr = "done"
  /\ Put(c, [fses[c] EXCEPT !.queue = queue, !.wr = NextWrite(queue)])
  /\ UNCHANGED <<sent, down, inbox>>

FrameReadError(c) ==
  /\ fses[c].rd # "no"
  /\ peer[c] = "left"
  /\ CloseAndRemove(c)

Sending(c) ==
  FrameWritten(c) \/ WriteCallbackError(c) \/ WriteCallback(c)

-----------------------------------------------------------------------------
(* The receiving half.                                                     *)

\* accept_callback_() and start().
FrameAccepted(c) ==
  /\ conn[c] = "backlog"
  /\ conn' = [conn EXCEPT ![c] = "served"]
  /\ fses' = [fses EXCEPT ![c] = [NoFrameSession EXCEPT !.rd = "head",
                                                        !.held = TRUE]]
  /\ UNCHANGED <<program, up, listening, peer, asked, back, sent, down, inbox>>

\* S04 to S06: the next frame of the stream is complete in the buffer; it is
\* answered with one of replies.  After a length that is not valid the
\* session leaves the map and reads no more.
ReadCallback(c, replies) ==
  /\ fses[c].rd = "head"
  /\ sent[c] # <<>>
  /\ LET f == Head(sent[c]) IN
     IF DataLen(f.head) > MAX_LENGTH
     THEN /\ Put(c, [fses[c] EXCEPT !.rd = "no", !.held = FALSE])
          /\ UNCHANGED sent
     ELSE /\ DataLen(f.head) = f.len
          /\ \E node \in replies : Put(c, Send(fses[c], node))
          /\ sent' = [sent EXCEPT ![c] = Tail(@)]
  /\ UNCHANGED <<down, inbox>>

MsgRead(c) == Head(sent[c]).msg
LenRead(c) == DataLen(Head(sent[c]).head)

S04Server(c) ==
  /\ program = "S04"
  /\ ReadCallback(c, {S04Node(MsgRead(c), LenRead(c))}) \/ Sending(c)

\* The reply, or, when the body came in more than one piece, the request.
S05Server(c) ==
  /\ program = "S05"
  /\ \/ ReadCallback(c, {S05Node(MsgRead(c), LenRead(c) + 32),
                         S05Node(MsgRead(c), LenRead(c))})
     \/ Sending(c)

S06Server(c) ==
  /\ program = "S06"
  /\ ReadCallback(c, {S06Node(MsgRead(c), LenRead(c) + 37)}) \/ Sending(c)

\* S07 to S12: the header, then the body.  After a length that is not valid
\* the session leaves the map, but goes on to read the body.
ReadHead(c) ==
  /\ fses[c].rd = "head"
  /\ sent[c] # <<>>
  /\ LET s == [fses[c] EXCEPT !.rd = "body", !.want = LenRead(c)]
     IN Put(c, IF LenRead(c) > MAX_LENGTH THEN [s EXCEPT !.held = FALSE] ELSE s)
  /\ UNCHANGED <<sent, down, inbox>>

\* The body is there.
BodyRead(c) ==
  /\ fses[c].rd = "body"
  /\ fses[c].want = Head(sent[c]).len
  /\ sent' = [sent EXCEPT ![c] = Tail(@)]

S07ReadMsg(c) ==
  /\ BodyRead(c)
  /\ Put(c, Send([fses[c] EXCEPT !.rd = "head"],
                 S07Node(Head(sent[c]).msg, fses[c].want)))
  /\ UNCHANGED <<down, inbox>>

S07Server(c) ==
  program = "S07" /\ (ReadHead(c) \/ S07ReadMsg(c) \/ Sending(c))

\* The message is posted to LogicSystem.
PostMsg(c) ==
  /\ BodyRead(c)
  /\ fses' = [fses EXCEPT ![c].rd = "head"]
  /\ inbox' = Append(inbox, [client |-> c, msg |-> Head(sent[c]).msg,
                             len |-> fses[c].want])
  /\ UNCHANGED <<network, down>>

\* hello_world_callback_() in the worker: the reply has more text, by a space
\* less in S12.
LongerBy == IF program = "S12" THEN 37 ELSE 38

HelloWorldCallback ==
  /\ program \in {"S08", "S09", "S12"}
  /\ inbox # <<>>
  /\ LET m == Head(inbox) IN
       fses' = IF conn[m.client] = "served"
               THEN [fses EXCEPT ![m.client] =
                       Send(@, SendNode(m.msg, m.len + LongerBy))]
               ELSE fses
  /\ inbox' = Tail(inbox)
  /\ UNCHANGED <<network, sent, down>>

S08Server(c) ==
  /\ program \in {"S08", "S09"}
  /\ ReadHead(c) \/ PostMsg(c) \/ Sending(c)

\* A length over the limit, one below -1, for which no array can be made, and
\* a body of length zero close the session.  A length of -1 passes for valid:
\* its array is empty, the zero at its end is written before it, and the read
\* that follows has no bound.  Undefined: the session waits for ever for such
\* a body, or the process ends (FramedMain).
S12Start(c) ==
  \/ /\ fses[c].rd = "head"
     /\ sent[c] # <<>>
     /\ IF LenRead(c) = -1 \/ LenRead(c) \in 1 .. MAX_LENGTH
        THEN ReadHead(c)
        ELSE CloseAndRemove(c)
  \/ PostMsg(c)

S12Server(c) == program = "S12" /\ (S12Start(c) \/ Sending(c))

\* An exception leaves run(), or a signal stops it: main() ends.
FramedMain ==
  /\ program \in FramedPrograms
  /\ up
  /\ ServerEnds
  /\ sent' = [c \in Client |-> <<>>]
  /\ down' = sent'
  /\ fses' = [c \in Client |-> NoFrameSession]
  /\ inbox' = <<>>

-----------------------------------------------------------------------------
(* S15: a call of the stub, answered by the service or by an error.        *)

RpcServer(c) ==
  /\ program = "S15"
  /\ conn[c] = "backlog" /\ asked[c] > Len(back[c])
  /\ Receive(c, <<asked[c]>>)
  /\ UNCHANGED <<program, up, listening, peer, conn, asked, sent, down, fses,
                 inbox>>

RpcClient(c) ==
  /\ program = "S15"
  /\ asked[c] = 0 /\ Ask(c, 1)
  /\ UNCHANGED <<sent, down, fses, inbox>>

-----------------------------------------------------------------------------
\* What the server does for c.
FramedServer(c) ==
  /\ up
  /\ \/ program \in FramedPrograms \ {"S15"}
        /\ (FrameAccepted(c) \/ FrameReadError(c))
     \/ S04Server(c) \/ S05Server(c) \/ S06Server(c) \/ S07Server(c)
     \/ S08Server(c) \/ S12Server(c) \/ RpcServer(c)

FramedNext ==
  \/ \E c \in Client : FramedClient(c) \/ RpcClient(c) \/ FramedServer(c)
  \/ up /\ HelloWorldCallback
  \/ FramedMain
=============================================================================
