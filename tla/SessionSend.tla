---------------------------- MODULE SessionSend -----------------------------
(***************************************************************************)
(* The sending half of a Session of the coroutine server (S12): send(),    *)
(* the queue send_que_, the composed asio::async_write operations and      *)
(* write_callback_.                                                        *)
(*                                                                         *)
(* send() is called by the logic thread; any set of callers is allowed.    *)
(* write_callback_ and the read coroutine run on the one thread of the     *)
(* session's io_context (IO).  Both unlock mutex_ BEFORE they call         *)
(* async_write, so a thread can hold a message it is about to write while  *)
(* the other one locks the queue: `about' is that local msg_node.          *)
(*                                                                         *)
(* A message is the number of its acceptance by send(); its frame is       *)
(* FrameLen parts, because async_write sends a buffer by several           *)
(* async_write_some calls.  The asio operations are external: modelled by  *)
(* what their completion handlers may observe.                             *)
(***************************************************************************)
EXTENDS Integers, Sequences, FiniteSets

CONSTANTS
  Sender,      \* threads that call send()
  IO,          \* the thread of the session's io_context
  MaxSendQue,  \* MAX_SENDQUE_SIZE
  FrameLen,    \* parts a frame is transmitted in
  MaxCalls     \* bound: calls of send()

ASSUME SendAssumption ==
  /\ IO \notin Sender
  /\ MaxSendQue \in Nat
  /\ FrameLen \in Nat \ {0}
  /\ MaxCalls \in Nat

Thread == Sender \cup {IO}
Msg == 1 .. MaxCalls
None == 0

VARIABLES
  sendQue,     \* send_que_
  about,       \* per thread: the msg_node it is about to pass to async_write
  writing,     \* messages of the outstanding async_write operations
  sent,        \* per message: parts of its frame already transmitted
  stream,      \* what the peer received: pairs <<message, part>>
  accepted,    \* messages pushed so far (numbers them)
  dropped,     \* calls of send() refused because the queue was full
  socketOpen,  \* socket_ has not been closed
  bClose,      \* b_close_
  registered   \* the server still holds the session in sessions_

vars == <<sendQue, about, writing, sent, stream, accepted, dropped,
          socketOpen, bClose, registered>>

\* A session that has been started and inserted in the server's map.
Init ==
  /\ sendQue = <<>>
  /\ about = [t \in Thread |-> None]
  /\ writing = {}
  /\ sent = [m \in Msg |-> 0]
  /\ stream = <<>>
  /\ accepted = 0
  /\ dropped = 0
  /\ socketOpen = TRUE
  /\ bClose = FALSE
  /\ registered = TRUE

(***************************************************************************)
(* Session::send(), the part under mutex_.  The size is read before the    *)
(* push: only the caller that found the queue empty goes on to write.      *)
(***************************************************************************)
\* Mutated: the limit is one message later.
FullOneLater == Len(sendQue) > MaxSendQue + 1

Full == Len(sendQue) > MaxSendQue

\* Mutated: without `if (send_que_size > 0) return'.
AlwaysWrite == TRUE

\* Nothing was queued before this message: its caller starts the writing.
MustWrite == sendQue = <<>>

Calling(t) == about[t] = None /\ accepted + dropped < MaxCalls

SendRefused(t) ==
  /\ Calling(t)
  /\ Full
  /\ dropped' = dropped + 1
  /\ UNCHANGED <<sendQue, about, writing, sent, stream, accepted,
                 socketOpen, bClose, registered>>

SendAccepted(t) ==
  /\ Calling(t)
  /\ ~Full
  /\ accepted' = accepted + 1
  /\ sendQue' = Append(sendQue, accepted + 1)
  /\ about' = IF MustWrite
              THEN [about EXCEPT ![t] = Head(sendQue')]
              ELSE about
  /\ UNCHANGED <<writing, sent, stream, dropped,
                 socketOpen, bClose, registered>>

\* async_write after the unlock, by a caller of send() or by write_callback_.
AsyncWrite(t) ==
  /\ about[t] # None
  /\ writing' = writing \cup {about[t]}
  /\ sent' = [sent EXCEPT ![about[t]] = 0]
  /\ about' = [about EXCEPT ![t] = None]
  /\ UNCHANGED <<sendQue, stream, accepted, dropped,
                 socketOpen, bClose, registered>>

(***************************************************************************)
(* External: one async_write_some of an outstanding operation.             *)
(***************************************************************************)
\* Mutated: the length given to async_write is one part too long.
TransmitPastEnd(m) ==
  /\ m \in writing
  /\ socketOpen
  /\ sent[m] <= FrameLen
  /\ sent' = [sent EXCEPT ![m] = @ + 1]
  /\ stream' = Append(stream, <<m, sent[m] + 1>>)
  /\ UNCHANGED <<sendQue, about, writing, accepted, dropped,
                 socketOpen, bClose, registered>>

Transmit(m) ==
  /\ m \in writing
  /\ socketOpen
  /\ sent[m] < FrameLen
  /\ sent' = [sent EXCEPT ![m] = @ + 1]
  /\ stream' = Append(stream, <<m, sent[m] + 1>>)
  /\ UNCHANGED <<sendQue, about, writing, accepted, dropped,
                 socketOpen, bClose, registered>>

(***************************************************************************)
(* Handlers of the session's io_context: one at a time, so none starts     *)
(* while write_callback_ is between its unlock and its async_write.        *)
(***************************************************************************)
HandlerMayRun == about[IO] = None

\* Session::close() followed by Server::remove_session().
CloseAndRemove ==
  /\ socketOpen' = FALSE
  /\ bClose' = TRUE
  /\ registered' = FALSE

\* Mutated: the front is read before the pop.
FrontBeforePop(q) == IF Tail(q) # <<>> THEN Head(q) ELSE None

\* Mutated: the next write is started only when two messages wait.
NextOfTwo(q) == IF Len(Tail(q)) > 1 THEN Head(Tail(q)) ELSE None

\* The node write_callback_ writes next, after it popped the queue q.
NextNode(q) == IF Tail(q) # <<>> THEN Head(Tail(q)) ELSE None

\* write_callback_ without error: pop the written message, start the next.
WriteCallbackOk(m) ==
  /\ HandlerMayRun
  /\ m \in writing
  /\ sent[m] = FrameLen
  /\ writing' = writing \ {m}
  /\ sendQue' = Tail(sendQue)
  /\ about' = [about EXCEPT ![IO] = NextNode(sendQue)]
  /\ UNCHANGED <<sent, stream, accepted, dropped,
                 socketOpen, bClose, registered>>

\* write_callback_ with an error: the connection failed or was closed before
\* the whole frame was out.  The queue keeps the message.
WriteCallbackError(m) ==
  /\ HandlerMayRun
  /\ m \in writing
  /\ sent[m] < FrameLen
  /\ writing' = writing \ {m}
  /\ CloseAndRemove
  /\ UNCHANGED <<sendQue, about, sent, stream, accepted, dropped>>

\* The read coroutine ends the session: end of stream, error or bad header.
ReaderClose ==
  /\ HandlerMayRun
  /\ ~bClose
  /\ CloseAndRemove
  /\ UNCHANGED <<sendQue, about, writing, sent, stream, accepted, dropped>>

Next ==
  \/ \E t \in Sender : SendRefused(t) \/ SendAccepted(t)
  \/ \E t \in Thread : AsyncWrite(t)
  \/ \E m \in Msg : Transmit(m) \/ WriteCallbackOk(m) \/ WriteCallbackError(m)
  \/ ReaderClose

\* Threads run, the io_context dispatches its handlers, and the peer reads.
Fairness ==
  /\ \A t \in Thread : WF_vars(AsyncWrite(t))
  /\ \A m \in Msg : /\ WF_vars(Transmit(m))
                    /\ WF_vars(WriteCallbackOk(m))

Spec == Init /\ [][Next]_vars

FairSpec == Spec /\ Fairness
-----------------------------------------------------------------------------
\* The frames as the peer sees them (see FrameChannel).
Channel == INSTANCE FrameChannel
             WITH Capacity <- MaxSendQue + 1, closed <- ~socketOpen

TypeOK ==
  /\ sendQue \in Seq(Msg)
  /\ about \in [Thread -> Msg \cup {None}]
  /\ writing \in SUBSET Msg
  /\ sent \in [Msg -> 0 .. FrameLen]
  /\ stream \in Seq(Msg \X (1 .. FrameLen))
  /\ accepted \in Nat
  /\ dropped \in Nat
  /\ accepted + dropped <= MaxCalls
  /\ socketOpen \in BOOLEAN
  /\ bClose \in BOOLEAN
  /\ registered \in BOOLEAN

\* The buffer handed to async_write belongs to the node at the front of
\* send_que_, and asio does not own it: for as long as an operation is
\* outstanding, or a thread is about to start one, that node must still be
\* the front of the queue, whoever locks the queue in between.
BufferStaysQueued ==
  \A m \in writing \cup {about[t] : t \in Thread} :
    m # None => sendQue # <<>> /\ Head(sendQue) = m

\* However the callers of send() and write_callback_ interleave around the
\* early unlock, at most one of them is about to write or has a write
\* outstanding: asio forbids a second async_write before the first completes.
OneWriteAtATime ==
  /\ \A t, u \in Thread : about[t] # None /\ about[u] # None => t = u
  /\ \A t \in Thread : about[t] # None => writing = {}
  /\ \A m, n \in writing : m = n

\* The peer receives whole frames, in the order in which send() accepted
\* them, with nothing lost, repeated or interleaved.
StreamInOrder ==
  \A i \in 1 .. Len(stream) :
    stream[i] = IF i = 1 THEN <<1, 1>> ELSE Channel!After(stream[i - 1])

\* No message is forgotten: while messages are queued and the session is not
\* closed, somebody is about to write the front one or has its write
\* outstanding.  Every later send() relies on that writer and returns early.
QueueHasWriter ==
  sendQue # <<>> /\ ~bClose =>
    writing # {} \/ \E t \in Thread : about[t] # None

\* The send path implements the abstract channel: the frames leave in order,
\* none after the socket is closed, and send() accepts a message only while
\* fewer than MAX_SENDQUE_SIZE + 1 accepted ones are unsent (the test before
\* the push is `>').
ImplementsChannel == Channel!ChannelSpec

\* Every message send() accepted is completely transmitted in the end, unless
\* the session closes first: the chain of writes that write_callback_ keeps
\* going reaches every queued message.
AcceptedIsSent ==
  \A m \in Msg : accepted >= m ~> bClose \/ Channel!Finished(stream) >= m
=============================================================================
