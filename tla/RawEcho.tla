------------------------------- MODULE RawEcho -------------------------------
(***************************************************************************)
(* The servers that send back the bytes they receive, without a protocol,  *)
(* and their clients:                                                      *)
(*   "blocking"   S02, a thread for each client                            *)
(*   "manual"     S03 ServerErr and SessionErr, callbacks, `delete this'   *)
(*   "shared"     S03 CServer and CSession, kept alive by shared_ptr       *)
(*   "queued"     S03 CServer2 and CSession2, with a queue for sending     *)
(*   "coroutine"  S11, a coroutine for each client                         *)
(*                                                                         *)
(* The requests of EchoNetwork are bytes; a byte is its number in what the *)
(* client writes, and 0 is the zero byte memset() leaves in data_.  What   *)
(* is different in the five programs is the order of reading and writing,  *)
(* what a failure ends, and what keeps the session alive.                  *)
(***************************************************************************)
EXTENDS EchoNetwork

CONSTANTS
  Lines,   \* bound: lengths of the lines a client writes
  BufLen   \* MAX_LENGTH: size of data_

ASSUME RawAssumption == Lines \subseteq Nat \ {0} /\ BufLen \in Nat \ {0}

VARIABLES
  consumed,  \* bytes of each client that have been read from the socket
  ses     \* the session of each client

rvars == <<network, consumed, ses>>

RawPrograms == {"blocking", "manual", "shared", "queued", "coroutine"}

\* A read or a write: not started, outstanding, or ended and its handler not
\* yet run.
Operation == {"no", "begun", "done", "failed"}

Bytes == Nat

\* A message of the send queue: a copy of the bytes it was made from.
MsgNode == Seq(Bytes)

\* data_ up to the bytes received; the operations; of the write, where its
\* bytes are (data_, or the first node of the queue), how many there are and
\* how many are sent; the queue; and whether the server holds the session
\* (in its map, or as the running thread, coroutine or object it is).
\* spoilt: part of a message stayed unsent when data_ was cleared.
Session ==
  [data : Seq(Bytes), rd : Operation, wr : Operation, src : {"data", "node"},
   len : Nat, at : Nat, queue : Seq(MsgNode), held : BOOLEAN,
   spoilt : BOOLEAN]

NoSession ==
  [data |-> <<>>, rd |-> "no", wr |-> "no", src |-> "data", len |-> 0,
   at |-> 0, queue |-> <<>>, held |-> FALSE, spoilt |-> FALSE]

RawInit ==
  /\ program \in RawPrograms
  /\ NetworkInit
  /\ consumed = [c \in Client |-> 0]
  /\ ses = [c \in Client |-> NoSession]

-----------------------------------------------------------------------------
(* The sockets (external).                                                 *)

\* A read ends with any number of the bytes that wait, at most BufLen.
Arrive(c, n) ==
  /\ ses[c].rd = "begun"
  /\ n <= asked[c] - consumed[c]
  /\ consumed' = [consumed EXCEPT ![c] = @ + n]
  /\ ses' = [ses EXCEPT ![c].rd = "done",
                        ![c].data = [i \in 1 .. n |-> consumed[c] + i]]
  /\ UNCHANGED network

\* Once the client is gone a read or a write fails.
ReadFails(c) ==
  /\ ses[c].rd = "begun"
  /\ peer[c] = "left"
  /\ ses' = [ses EXCEPT ![c].rd = "failed"]
  /\ UNCHANGED <<network, consumed>>

WriteFails(c) ==
  /\ ses[c].wr = "begun"
  /\ peer[c] = "left"
  /\ ses' = [ses EXCEPT ![c].wr = "failed"]
  /\ UNCHANGED <<network, consumed>>

\* The client receives bytes.  Once a message is spoilt, what the client
\* receives is not recorded.
Deliver(c, bytes) ==
  IF ses[c].spoilt THEN UNCHANGED back ELSE Receive(c, bytes)

\* What is left of the write: the bytes that are now where it began.  After
\* the bytes received, and once it is cleared, data_ holds zeros.
Rest(s) ==
  [i \in 1 .. s.len - s.at |->
     IF s.src = "node" THEN Head(s.queue)[s.at + i]
     ELSE IF s.at + i <= Len(s.data) THEN s.data[s.at + i] ELSE 0]

\* No write is outstanding.
Written(s) == [s EXCEPT !.wr = "no", !.src = "data", !.len = 0, !.at = 0]

Transmit(c) ==
  /\ ses[c].wr = "begun"
  /\ Deliver(c, Rest(ses[c]))
  /\ ses' = [ses EXCEPT ![c].wr = "done", ![c].at = ses[c].len]
  /\ UNCHANGED <<program, up, listening, peer, conn, asked, consumed>>

-----------------------------------------------------------------------------
(* What the programs do with them.                                         *)

Reading(s) == [s EXCEPT !.rd = "begun"]

\* A write starts: the socket takes as many of the bytes as it has room for
\* at once, and the rest later.
Writing(s, src, bytes, k) ==
  [s EXCEPT !.src = src, !.len = Len(bytes), !.at = k,
            !.wr = IF k = Len(bytes) THEN "done" ELSE "begun"]

Write(c, s, src, bytes) ==
  \E k \in 0 .. Len(bytes) :
    /\ Deliver(c, SubSeq(bytes, 1, k))
    /\ ses' = [ses EXCEPT ![c] = Writing(s, src, bytes, k)]

\* The session is over and its socket closed.
End(c) ==
  /\ ses' = [ses EXCEPT ![c] = NoSession]
  /\ conn' = [conn EXCEPT ![c] = "closed"]

\* Reading and writing in turn: what was read is written, then the next read
\* starts; a failure of either ends the session.
EchoRead(c) ==
  /\ ses[c].rd = "done"
  /\ Write(c, [ses[c] EXCEPT !.rd = "no"], "data", ses[c].data)
  /\ UNCHANGED <<program, up, listening, peer, conn, asked, consumed>>

EchoWritten(c, s) ==
  /\ ses[c].wr = "done"
  /\ ses' = [ses EXCEPT ![c] = Reading(Written(s))]
  /\ UNCHANGED <<network, consumed>>

Failed(c) == "failed" \in {ses[c].rd, ses[c].wr}

EchoEnds(c) ==
  /\ End(c)
  /\ UNCHANGED <<program, up, listening, peer, asked, back, consumed>>

Started(c) == [NoSession EXCEPT !.rd = "begun", !.held = TRUE]

\* A connection is accepted and its session starts to read.
Accepted(c) ==
  /\ conn[c] = "backlog"
  /\ conn' = [conn EXCEPT ![c] = "served"]
  /\ ses' = [ses EXCEPT ![c] = Started(c)]
  /\ UNCHANGED <<program, up, listening, peer, asked, back, consumed>>

\* The peer of an accepted connection is asked for its address, which throws
\* when the connection has been reset meanwhile.
Unaddressed(c) == conn[c] = "backlog" /\ peer[c] = "left"

\* memset().
Cleared(s) == [s EXCEPT !.data = <<>>]

Dies ==
  /\ ServerEnds
  /\ ses' = [c \in Client |-> NoSession]
  /\ UNCHANGED consumed

-----------------------------------------------------------------------------
(* S02: session() in a thread of its own, server() in the main thread.     *)

\* One turn of the loop.  The address of the peer is asked inside the try
\* block, so that only this session ends when that throws.
BlockingSession(c) ==
  \/ EchoRead(c)
  \/ EchoWritten(c, [ses[c] EXCEPT !.data = <<>>])
  \/ Failed(c) /\ EchoEnds(c)
  \/ ses[c].rd = "done" /\ peer[c] = "left" /\ EchoEnds(c)

BlockingServer(c) == Accepted(c)

\* accept(), or the start of a thread, throws: main() ends without joining
\* the threads of the sessions, and the process ends with it.
BlockingMain == program = "blocking" /\ up /\ Dies

\* The client: a line, then its echo.
BlockingClient(c) ==
  /\ program = "blocking"
  /\ Connect(c) \/ (\E n \in Lines : Ask(c, n)) \/ Leave(c)

Blocking(c) == program = "blocking" /\ (BlockingSession(c) \/ BlockingServer(c))

-----------------------------------------------------------------------------
(* S11: the coroutines echo() and listen().                                *)

CoroutineEcho(c) ==
  \/ EchoRead(c)
  \/ EchoWritten(c, ses[c])
  \/ Failed(c) /\ EchoEnds(c)

\* An exception leaves listen(), detached: the acceptor is closed, the
\* sessions go on.
Listen(c) ==
  \/ Accepted(c)
  \/ /\ Unaddressed(c)
     /\ StopListening
     /\ UNCHANGED <<program, up, peer, asked, back, consumed, ses>>

\* A signal stops the io_context.
SignalStops == program = "coroutine" /\ up /\ Dies

\* The client asks once, and ends when somebody presses a key.
CoroutineClient(c) ==
  /\ program = "coroutine"
  /\ Connect(c) \/ (asked[c] = 0 /\ \E n \in Lines : Ask(c, n)) \/ Leave(c)

Coroutine(c) == program = "coroutine" /\ (CoroutineEcho(c) \/ Listen(c))

-----------------------------------------------------------------------------
(* S03: the callbacks of the three sessions, on one thread.                *)

\* An exception leaves run(), and main() ends.
RunThrows(c) == Unaddressed(c) /\ Dies

ErrHandleRead(c) ==
  \/ EchoRead(c)
  \/ ses[c].rd = "failed" /\ EchoEnds(c)

ErrHandleWrite(c) ==
  \/ EchoWritten(c, Cleared(ses[c]))
  \/ ses[c].wr = "failed" /\ EchoEnds(c)

ErrHandleAccept(c) == Accepted(c) \/ RunThrows(c)

Manual(c) ==
  /\ program = "manual"
  /\ ErrHandleRead(c) \/ ErrHandleWrite(c) \/ ErrHandleAccept(c)

\* A callback that starts nothing more: with the last shared_ptr, when that
\* is its own, the session goes.
LetGo(c, s) ==
  /\ ses' = [ses EXCEPT ![c] = s]
  /\ conn' = IF s.rd = "no" /\ s.wr = "no" /\ ~s.held
             THEN [conn EXCEPT ![c] = "closed"] ELSE conn
  /\ UNCHANGED <<program, up, listening, peer, asked, back, consumed>>

\* Mutated: the callback does not call remove_session().
RemoveSessionKept(c, s) == LetGo(c, s)

\* remove_session() in such a callback.
RemoveSession(c, s) == LetGo(c, [s EXCEPT !.held = FALSE])

SharedHandleRead(c) ==
  \/ EchoRead(c)
  \/ ses[c].rd = "failed" /\ RemoveSession(c, [ses[c] EXCEPT !.rd = "no"])

SharedHandleWrite(c) ==
  \/ EchoWritten(c, Cleared(ses[c]))
  \/ ses[c].wr = "failed" /\ RemoveSession(c, Written(ses[c]))

SharedHandleAccept(c) == Accepted(c) \/ RunThrows(c)

Shared(c) ==
  /\ program = "shared"
  /\ SharedHandleRead(c) \/ SharedHandleWrite(c) \/ SharedHandleAccept(c)

\* send(): a copy joins the queue; the first message is written at once, but
\* from the caller's buffer.  The caller is the read callback, which clears
\* that buffer: data_.
QueuedSend(c, s) ==
  LET queued == [s EXCEPT !.queue = Append(@, s.data)] IN
  IF s.queue # <<>>
  THEN /\ ses' = [ses EXCEPT ![c] = Cleared(queued)]
       /\ UNCHANGED back
  ELSE \E k \in 0 .. Len(s.data) :
         /\ Deliver(c, SubSeq(s.data, 1, k))
         /\ ses' = [ses EXCEPT ![c] =
              [Cleared(Writing(queued, "data", s.data, k)) EXCEPT
                 !.spoilt = s.spoilt \/ k < Len(s.data)]]

QueuedHandleRead(c) ==
  \/ /\ ses[c].rd = "done"
     /\ QueuedSend(c, Reading(ses[c]))
     /\ UNCHANGED <<program, up, listening, peer, conn, asked, consumed>>
  \/ ses[c].rd = "failed" /\ RemoveSession(c, [ses[c] EXCEPT !.rd = "no"])

\* Mutated: the front is used before it is popped.
AfterNoPop(s) == s.queue

\* What is written when a write is done: the message after it.
AfterPop(s) == Tail(s.queue)

QueuedHandleWrite(c) ==
  LET s == [Written(ses[c]) EXCEPT !.queue = AfterPop(ses[c])] IN
  \/ /\ ses[c].wr = "done"
     /\ IF s.queue = <<>>
        THEN LetGo(c, s)
        ELSE /\ Write(c, s, "node", Head(s.queue))
             /\ UNCHANGED <<program, up, listening, peer, conn, asked, consumed>>
  \/ /\ ses[c].wr = "failed"
     /\ RemoveSession(c, Written(ses[c]))

QueuedHandleAccept(c) == Accepted(c) \/ RunThrows(c)

Queued(c) ==
  /\ program = "queued"
  /\ QueuedHandleRead(c) \/ QueuedHandleWrite(c) \/ QueuedHandleAccept(c)

AsyncClient(c) ==
  /\ program \in {"manual", "shared", "queued"}
  /\ Connect(c) \/ (\E n \in Lines : Ask(c, n)) \/ Leave(c)

-----------------------------------------------------------------------------
Sockets(c) ==
  (\E n \in 1 .. BufLen : Arrive(c, n)) \/ ReadFails(c) \/ WriteFails(c)
  \/ Transmit(c)

RawClient(c) ==
  /\ BlockingClient(c) \/ CoroutineClient(c) \/ AsyncClient(c)
  /\ UNCHANGED <<consumed, ses>>

\* What the server and its sockets do for c.
RawServer(c) ==
  /\ up
  /\ \/ Sockets(c)
     \/ Blocking(c) \/ Coroutine(c) \/ Manual(c) \/ Shared(c) \/ Queued(c)

RawNext ==
  \/ \E c \in Client : RawClient(c) \/ RawServer(c)
  \/ BlockingMain
  \/ SignalStops
=============================================================================
