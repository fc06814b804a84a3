------------------------------ MODULE AsyncApi ------------------------------
(***************************************************************************)
(* The Session of S01 (AsyncApi), on which the three ways of writing       *)
(* asynchronously and the two of reading are tried out.  No program of the *)
(* repository creates one; here a caller does, sticks to one way of        *)
(* writing, and keeps its strings.                                          *)
(*   "err"    write_to_socket_err(): no queue                              *)
(*   "queue"  write_to_socket(): a queue, and the rest of a message after  *)
(*            a write that has not taken all of it                         *)
(*   "all"    write_all_to_socket(): the queue, and async_send()           *)
(* A byte is <<number of its message, place in it>>.  The io_context runs  *)
(* on one thread, the caller's calls come between the callbacks.           *)
(***************************************************************************)
EXTENDS Integers, Sequences

CONSTANTS
  MaxMessages,  \* bound: messages the caller writes, and nodes it reads
  Length,       \* bound: bytes of a message
  RECEV_SIZE    \* size of a node that is read into

VARIABLES
  way,      \* how the caller writes
  given,    \* messages it has written
  queue,    \* send_queue_: messages
  node,     \* send_node_, 0 when null
  curLen,   \* cur_len_ of the node of each message
  pending,  \* send_pending_
  ops,      \* async writes that have not ended: <<message, bytes before>>
  ended,    \* those that have: <<message, bytes taken>>; a callback is due
  wire,     \* what the socket has taken
  failed,   \* a write has failed: the connection is gone
  crashed,  \* a null pointer has been used
  recvNode, \* cur_len of recv_node_, {} when null
  recvPending, \* recv_pending_
  reads     \* reads outstanding: the way each was started

writeVars ==
  <<way, given, queue, node, curLen, pending, ops, ended, wire, failed,
    crashed>>
readVars == <<recvNode, recvPending, reads>>
vars == <<writeVars, readVars>>

\* The constructor.
Init ==
  /\ way \in {"err", "queue", "all"}
  /\ given = 0
  /\ queue = <<>> /\ node = 0
  /\ curLen = [m \in 1 .. MaxMessages |-> 0]
  /\ pending = FALSE
  /\ ops = <<>> /\ ended = <<>>
  /\ wire = <<>>
  /\ failed = FALSE
  /\ crashed = FALSE
  /\ recvNode = {} /\ recvPending = FALSE /\ reads = <<>>

-----------------------------------------------------------------------------
\* External: the first of the writes takes some of its bytes.
SocketTakes ==
  /\ ~failed
  /\ ops # <<>>
  /\ LET op == Head(ops)
         rest == Length - op[2]
     IN \E n \in (IF rest = 0 THEN {0} ELSE 1 .. rest) :
          /\ ended' = Append(ended, <<op[1], n>>)
          /\ wire' = wire \o [i \in 1 .. n |-> <<op[1], op[2] + i>>]
  /\ ops' = Tail(ops)
  /\ UNCHANGED <<way, given, queue, node, curLen, pending, failed, crashed,
                 readVars>>

\* External: a write fails, as all do from then on: no byte of it is taken.
SocketFails ==
  /\ ops # <<>>
  /\ failed' = TRUE
  /\ ended' = Append(ended, <<Head(ops)[1], 0>>)
  /\ ops' = Tail(ops)
  /\ UNCHANGED <<way, given, queue, node, curLen, pending, wire, crashed,
                 readVars>>

Call ==
  /\ ~crashed
  /\ given < MaxMessages
  /\ given' = given + 1

\* send_node_ is the message, whatever it was before.
WriteToSocketErr ==
  /\ way = "err"
  /\ Call
  /\ node' = given + 1
  /\ ops' = Append(ops, <<given + 1, 0>>)
  /\ UNCHANGED <<way, queue, curLen, pending, ended, wire, failed, crashed,
                 readVars>>

\* The callback of the first write that has ended.
Callback(kind) ==
  /\ way = kind /\ ~crashed
  /\ ended # <<>>
  /\ ended' = Tail(ended)

\* The callback is bound to the node that was written, and goes on with
\* send_node_; it does not look at its error.
WriteCallbackErr ==
  /\ Callback("err")
  /\ LET done == Head(ended)
         sent == curLen[node] + done[2]
     IN IF done[2] + curLen[done[1]] < Length
        THEN /\ curLen' = [curLen EXCEPT ![node] = sent]
             /\ ops' = Append(ops, <<node, sent>>)
             /\ crashed' = (sent > Length)
        ELSE UNCHANGED <<curLen, ops, crashed>>
  /\ UNCHANGED <<way, given, queue, node, pending, wire, failed, readVars>>

\* The first message is written at once, the others wait in the queue.
WriteToSocket ==
  /\ way \in {"queue", "all"}
  /\ Call
  /\ queue' = Append(queue, given + 1)
  /\ ops' = IF pending THEN ops ELSE Append(ops, <<given + 1, 0>>)
  /\ pending' = TRUE
  /\ UNCHANGED <<way, node, curLen, ended, wire, failed, crashed, readVars>>

\* The next message: its offset is that of send_node_, which only
\* write_to_socket_err() sets.
WriteNext ==
  /\ queue' = Tail(queue)
  /\ pending' = (queue' # <<>>)
  /\ crashed' = (queue' # <<>> /\ node = 0)
  /\ UNCHANGED ops

\* After an error the callback returns: the queue and send_pending_ stay as
\* they are, and nothing more is written.
WriteFailed ==
  /\ Head(ended)[2] = 0
  /\ UNCHANGED <<queue, curLen, pending, ops, crashed>>

WriteGoesOn ==
  /\ Head(ended)[2] > 0
  /\ LET m == Head(queue) IN
       /\ curLen' = [curLen EXCEPT ![m] = @ + Head(ended)[2]]
       /\ IF curLen'[m] < Length
          THEN /\ ops' = Append(ops, <<m, curLen'[m]>>)
               /\ UNCHANGED <<queue, pending, crashed>>
          ELSE WriteNext

WriteCallback ==
  /\ Callback("queue")
  /\ WriteFailed \/ WriteGoesOn
  /\ UNCHANGED <<way, given, node, wire, failed, readVars>>

\* The message counts as sent, however much of it was.
WriteAllCallback ==
  /\ Callback("all")
  /\ WriteFailed \/ (Head(ended)[2] > 0 /\ WriteNext /\ UNCHANGED curLen)
  /\ UNCHANGED <<way, given, node, wire, failed, readVars>>

-----------------------------------------------------------------------------
\* recv_pending_ is never reset by this way of reading, and never set by the
\* other.
ReadFromSocket ==
  /\ ~recvPending /\ Len(reads) < MaxMessages
  /\ recvNode' = {0}
  /\ recvPending' = TRUE
  /\ reads' = Append(reads, "some")
  /\ UNCHANGED writeVars

\* n bytes have arrived: the rest of the node is read.
ReadCallback(n) ==
  \E len \in recvNode :
    /\ reads # <<>> /\ Head(reads) = "some"
    /\ n <= RECEV_SIZE - len
    /\ recvNode' = {len + n}
    /\ reads' = IF len + n < RECEV_SIZE THEN Append(Tail(reads), "some")
                                        ELSE Tail(reads)
    /\ UNCHANGED <<writeVars, recvPending>>

ReadAllFromSocket ==
  /\ ~recvPending /\ Len(reads) < MaxMessages
  /\ recvNode' = {0}
  /\ reads' = Append(reads, "all")
  /\ UNCHANGED <<writeVars, recvPending>>

\* recv_node_ is null afterwards: a second read that is outstanding uses it.
ReadAllCallback ==
  /\ reads # <<>> /\ Head(reads) = "all"
  /\ recvNode' = {}
  /\ recvPending' = FALSE
  /\ reads' = Tail(reads)
  /\ crashed' = (crashed \/ recvNode = {})
  /\ UNCHANGED <<way, given, queue, node, curLen, pending, ops, ended, wire,
                 failed>>

Next ==
  \/ SocketTakes \/ SocketFails
  \/ WriteToSocketErr \/ WriteCallbackErr
  \/ WriteToSocket \/ WriteCallback \/ WriteAllCallback
  \/ ReadFromSocket \/ \E n \in 1 .. RECEV_SIZE : ReadCallback(n)
  \/ ReadAllFromSocket \/ ReadAllCallback

Spec == Init /\ [][Next]_vars
-----------------------------------------------------------------------------
\* write_to_socket() and write_callback() keep the order of the messages by
\* their queue: the socket has taken their bytes one after another, and as long
\* as a message is queued and no write has failed, its next bytes are being
\* written.
QueuedInOrder ==
  way = "queue" =>
    /\ \A i \in 1 .. Len(wire) :
         wire[i] = <<((i - 1) \div Length) + 1, ((i - 1) % Length) + 1>>
    /\ queue # <<>> => ops \o ended # <<>> \/ failed
=============================================================================
