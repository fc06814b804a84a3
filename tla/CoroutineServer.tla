-------------------------- MODULE CoroutineServer ---------------------------
(***************************************************************************)
(* The coroutine server (S12) as a whole: the main thread that accepts     *)
(* connections and ends the process on a signal, the one thread of the     *)
(* IOContextPool that runs the sessions' read coroutines and write         *)
(* callbacks, the logic thread, and the clients.                           *)
(*                                                                         *)
(* The main thread STARTS a session before it inserts it into sessions_,   *)
(* and the coroutine runs on the other thread: a session can end, and be   *)
(* removed, before it is inserted.                                         *)
(*                                                                         *)
(* The parts modelled in detail elsewhere appear here by what they         *)
(* promise: the sending of a session (SessionSend) as a bounded FIFO of    *)
(* whole frames, the logic system (LogicSystem) as a FIFO handled by one   *)
(* thread.  A session is named by the client it serves.  A request is its  *)
(* number among the requests of its client, with what becomes of it:       *)
(*   "known"    its id has a callback, which replies by send()             *)
(*   "unknown"  its id has none                                            *)
(*   "throws"   its callback throws on the JSON it is given                *)
(*   "empty"    its length is zero                                         *)
(*   "invalid"  its id or its length exceeds MAX_MSG_LENGTH                *)
(***************************************************************************)
EXTENDS Integers, Sequences, FiniteSets

CONSTANTS
  Client,       \* clients; each connects once
  MaxSendQue,   \* MAX_SENDQUE_SIZE
  MaxRequests,  \* bound: requests a client sends
  Kind,         \* bound: the kinds of requests that are sent ...
  Sends(_, _)   \* bound: ... and those of them client c may send as its n-th

ASSUME ServerAssumption ==
  /\ MaxSendQue \in Nat
  /\ MaxRequests \in Nat
  /\ Kind \subseteq {"known", "unknown", "throws", "empty", "invalid"}

HasBody == {"known", "unknown", "throws"}
Request == (1 .. MaxRequests) \X Kind
NoClient == "no client"
NoRequest == <<0, "invalid">>

VARIABLES
  mpc,        \* where the main thread is
  accepting,  \* the session between its start() and its insert()
  sessions,   \* sessions_
  spc,        \* where the read coroutine of each session is
  reading,    \* per session: the request whose header has been read
  open,       \* sessions whose socket_ has not been closed
  bClose,     \* sessions whose b_close_ is set
  out,        \* per session: send_que_
  writing,    \* sessions with an outstanding async_write
  written,    \* those of them whose frame is out, write_callback_ queued
  iopc,       \* the I/O thread: "running" or "exited"
  msgQue,     \* LogicSystem::msg_que_: pairs <<client, request>>
  peer,       \* per client: "new", "connected" or "gone"
  inbound,    \* per client: what it wrote and the session did not read
  begun,      \* per client: requests it began to write
  half,       \* per client: a request written without its body yet
  got,        \* per client: numbers of the requests whose reply it received
  handled,    \* history, per session: requests the logic thread handled
  dropped,    \* history: <<client, number>> whose reply send() refused
  raced       \* history: sessions removed before they were inserted

mainVars == <<mpc, accepting, iopc>>
readVars == <<spc, reading>>
closeVars == <<sessions, open, bClose, raced>>
sendVars == <<out, writing, written>>
logicVars == <<msgQue, handled, dropped>>
peerVars == <<peer, begun, half>>
vars == <<mainVars, readVars, closeVars, sendVars, logicVars, peerVars,
          inbound, got>>

Init ==
  /\ mpc = "accept"
  /\ accepting = NoClient
  /\ sessions = {}
  /\ spc = [c \in Client |-> "none"]
  /\ reading = [c \in Client |-> NoRequest]
  /\ open = Client
  /\ bClose = {}
  /\ out = [c \in Client |-> <<>>]
  /\ writing = {}
  /\ written = {}
  /\ iopc = "running"
  /\ msgQue = <<>>
  /\ peer = [c \in Client |-> "new"]
  /\ inbound = [c \in Client |-> <<>>]
  /\ begun = [c \in Client |-> 0]
  /\ half = [c \in Client |-> NoRequest]
  /\ got = [c \in Client |-> <<>>]
  /\ handled = [c \in Client |-> <<>>]
  /\ dropped = {}
  /\ raced = {}

Alive == mpc # "terminated"

-----------------------------------------------------------------------------
(***************************************************************************)
(* External: the clients.                                                  *)
(***************************************************************************)
Connect(c) ==
  /\ Alive
  /\ peer[c] = "new"
  /\ peer' = [peer EXCEPT ![c] = "connected"]
  /\ UNCHANGED <<mainVars, readVars, closeVars, sendVars, logicVars,
                 inbound, begun, half, got>>

\* The header of the next request.
WriteHead(c, k) ==
  /\ Alive
  /\ peer[c] = "connected"
  /\ half[c] = NoRequest
  /\ begun[c] < MaxRequests
  /\ k \in Sends(c, begun[c] + 1)
  /\ begun' = [begun EXCEPT ![c] = @ + 1]
  /\ inbound' = [inbound EXCEPT ![c] = Append(@, <<begun[c] + 1, k>>)]
  /\ half' = [half EXCEPT ![c] = IF k \in HasBody
                                 THEN <<begun[c] + 1, k>> ELSE NoRequest]
  /\ UNCHANGED <<mainVars, readVars, closeVars, sendVars, logicVars,
                 peer, got>>

\* The body of the request whose header was written last.
WriteBody(c) ==
  /\ Alive
  /\ peer[c] = "connected"
  /\ half[c] # NoRequest
  /\ inbound' = [inbound EXCEPT ![c] = Append(@, half[c])]
  /\ half' = [half EXCEPT ![c] = NoRequest]
  /\ UNCHANGED <<mainVars, readVars, closeVars, sendVars, logicVars,
                 peer, begun, got>>

Leave(c) ==
  /\ Alive
  /\ peer[c] = "connected"
  /\ peer' = [peer EXCEPT ![c] = "gone"]
  /\ UNCHANGED <<mainVars, readVars, closeVars, sendVars, logicVars,
                 inbound, begun, half, got>>

-----------------------------------------------------------------------------
(***************************************************************************)
(* The main thread: accept_callback_, the handler of the signal, and what  *)
(* follows ioc.run().  A failed accept changes nothing: the next one is    *)
(* started in either case.                                                 *)
(***************************************************************************)
\* accept_callback_ up to start(): the coroutine is posted to the I/O thread.
AcceptStart(c) ==
  /\ mpc = "accept"
  /\ peer[c] # "new"
  /\ spc[c] = "none"
  /\ spc' = [spc EXCEPT ![c] = "head"]
  /\ accepting' = c
  /\ mpc' = "insert"
  /\ UNCHANGED <<iopc, reading, closeVars, sendVars, logicVars, peerVars,
                 inbound, got>>

\* accept_callback_ under mutex_, and start_accept_.
AcceptInsert ==
  /\ mpc = "insert"
  /\ sessions' = sessions \cup {accepting}
  /\ accepting' = NoClient
  /\ mpc' = "accept"
  /\ UNCHANGED <<iopc, readVars, open, bClose, raced, sendVars, logicVars,
                 peerVars, inbound, got>>

\* SIGINT or SIGTERM: ioc.stop(), and pool.stop() as far as its join().
Signal ==
  /\ mpc = "accept"
  /\ mpc' = "join"
  /\ UNCHANGED <<accepting, iopc, readVars, closeVars, sendVars, logicVars,
                 peerVars, inbound, got>>

\* join() returns, so does ioc.run(); the Server is destroyed.
Join ==
  /\ mpc = "join"
  /\ iopc = "exited"
  /\ mpc' = "exited"
  /\ UNCHANGED <<accepting, iopc, readVars, closeVars, sendVars, logicVars,
                 peerVars, inbound, got>>

-----------------------------------------------------------------------------
(***************************************************************************)
(* The I/O thread: io_context::run() with one handler after the other.     *)
(***************************************************************************)
IORunning == Alive /\ iopc = "running"

\* Mutated: the session is closed and not removed.
CloseOnly(c) ==
  /\ open' = open \ {c}
  /\ bClose' = bClose \cup {c}
  /\ UNCHANGED <<sessions, raced>>

\* Session::close() and Server::remove_session().
CloseAndRemove(c) ==
  /\ open' = open \ {c}
  /\ bClose' = bClose \cup {c}
  /\ sessions' = sessions \ {c}
  /\ raced' = IF accepting = c THEN raced \cup {c} ELSE raced

\* External: the async_read of a header or of a body has all its bytes; its
\* completion is queued.  A body of length zero needs none.
Arrive(c, from, to) ==
  /\ IORunning
  /\ c \in open
  /\ spc[c] = from
  /\ inbound[c] # <<>>
  /\ inbound' = [inbound EXCEPT ![c] = Tail(@)]
  /\ reading' = [reading EXCEPT ![c] = Head(inbound[c])]
  /\ spc' = [spc EXCEPT ![c] = to]
  /\ UNCHANGED <<mainVars, closeVars, sendVars, logicVars, peerVars, got>>

\* The header is good: go on to the body.
HeadRead(c) ==
  /\ IORunning
  /\ spc[c] = "gotHead"
  /\ reading[c][2] # "invalid"
  /\ spc' = [spc EXCEPT ![c] = IF reading[c][2] = "empty"
                               THEN "gotNothing" ELSE "body"]
  /\ UNCHANGED <<mainVars, reading, closeVars, sendVars, logicVars, peerVars,
                 inbound, got>>

\* An id or a length above the limit, or a body read of zero bytes, which is
\* taken for the closing of the connection: the session ends.
HeadRejected(c) ==
  /\ IORunning
  /\ \/ spc[c] = "gotHead" /\ reading[c][2] = "invalid"
     \/ spc[c] = "gotNothing"
  /\ CloseAndRemove(c)
  /\ spc' = [spc EXCEPT ![c] = "done"]
  /\ UNCHANGED <<mainVars, reading, sendVars, logicVars, peerVars,
                 inbound, got>>

\* Mutated: the new request is put in front of the others.
PostInFront(c) ==
  /\ IORunning
  /\ spc[c] = "gotBody"
  /\ msgQue' = <<<<c, reading[c]>>>> \o msgQue
  /\ spc' = [spc EXCEPT ![c] = IF c \in bClose THEN "done" ELSE "head"]
  /\ UNCHANGED <<mainVars, reading, closeVars, sendVars, handled, dropped,
                 peerVars, inbound, got>>

\* The body is complete: post it, and `while (!b_close_)'.
BodyRead(c) ==
  /\ IORunning
  /\ spc[c] = "gotBody"
  /\ msgQue' = Append(msgQue, <<c, reading[c]>>)
  /\ spc' = [spc EXCEPT ![c] = IF c \in bClose THEN "done" ELSE "head"]
  /\ UNCHANGED <<mainVars, reading, closeVars, sendVars, handled, dropped,
                 peerVars, inbound, got>>

\* Mutated: the exception is caught inside the loop, which goes on.
ReadThrowsInLoop(c) ==
  /\ IORunning
  /\ spc[c] \in {"head", "body"}
  /\ peer[c] = "gone" \/ c \notin open
  /\ CloseAndRemove(c)
  /\ spc' = [spc EXCEPT ![c] = "head"]
  /\ UNCHANGED <<mainVars, reading, sendVars, logicVars, peerVars,
                 inbound, got>>

\* async_read fails (the peer left or the socket was closed): its exception
\* is caught, the session ends.
ReadThrows(c) ==
  /\ IORunning
  /\ spc[c] \in {"head", "body"}
  /\ peer[c] = "gone" \/ c \notin open
  /\ CloseAndRemove(c)
  /\ spc' = [spc EXCEPT ![c] = "done"]
  /\ UNCHANGED <<mainVars, reading, sendVars, logicVars, peerVars,
                 inbound, got>>

\* External: the async_write has sent the whole front frame.
Transmit(c) ==
  /\ IORunning
  /\ c \in writing \ written
  /\ c \in open
  /\ written' = written \cup {c}
  /\ got' = IF peer[c] = "connected"
            THEN [got EXCEPT ![c] = Append(@, Head(out[c]))]
            ELSE got
  /\ UNCHANGED <<mainVars, readVars, closeVars, out, writing, logicVars,
                 peerVars, inbound>>

\* Mutated: the frame that is out is not popped.
WriteWithoutPop(c) ==
  /\ IORunning
  /\ c \in written
  /\ written' = written \ {c}
  /\ UNCHANGED <<mainVars, readVars, closeVars, out, writing, logicVars,
                 peerVars, inbound, got>>

\* write_callback_ without error: pop, go on with the next if there is one.
WriteCallbackOk(c) ==
  /\ IORunning
  /\ c \in written
  /\ written' = written \ {c}
  /\ out' = [out EXCEPT ![c] = Tail(@)]
  /\ writing' = IF Len(out[c]) > 1 THEN writing ELSE writing \ {c}
  /\ UNCHANGED <<mainVars, readVars, closeVars, logicVars, peerVars,
                 inbound, got>>

\* write_callback_ with an error.
WriteCallbackError(c) ==
  /\ IORunning
  /\ c \in writing \ written
  /\ peer[c] = "gone" \/ c \notin open
  /\ writing' = writing \ {c}
  /\ CloseAndRemove(c)
  /\ UNCHANGED <<mainVars, readVars, out, written, logicVars, peerVars, inbound, got>>

\* run() returns: the work guard is gone and no operation is outstanding.
IOExit ==
  /\ iopc = "running"
  /\ mpc = "join"
  /\ \A c \in Client : spc[c] \in {"none", "done"} /\ c \notin writing
  /\ iopc' = "exited"
  /\ UNCHANGED <<mpc, accepting, readVars, closeVars, sendVars, logicVars,
                 peerVars, inbound, got>>

-----------------------------------------------------------------------------
(***************************************************************************)
(* The logic thread: the front request.                                    *)
(***************************************************************************)
\* Mutated: no limit.
ReplyUnlimited(c, n) ==
  /\ out' = [out EXCEPT ![c] = Append(@, n)]
  /\ writing' = IF out[c] = <<>> THEN writing \cup {c} ELSE writing
  /\ UNCHANGED <<written, dropped>>

\* Mutated: the reply is queued and nobody writes it.
ReplyQueued(c, n) ==
  /\ out' = [out EXCEPT ![c] = Append(@, n)]
  /\ UNCHANGED <<writing, written, dropped>>

\* The callback's send(): refused when too many replies wait; the caller that
\* finds the queue empty starts the writing.
Reply(c, n) ==
  IF Len(out[c]) > MaxSendQue
  THEN /\ dropped' = dropped \cup {<<c, n>>}
       /\ UNCHANGED sendVars
  ELSE /\ out' = [out EXCEPT ![c] = Append(@, n)]
       /\ writing' = IF out[c] = <<>> THEN writing \cup {c} ELSE writing
       /\ UNCHANGED <<written, dropped>>

LogicHandle ==
  /\ Alive
  /\ msgQue # <<>>
  /\ msgQue' = Tail(msgQue)
  /\ LET c == Head(msgQue)[1]
         n == Head(msgQue)[2][1]
         k == Head(msgQue)[2][2]
     IN /\ handled' = [handled EXCEPT ![c] = Append(@, <<n, k>>)]
        /\ \/ k = "known" /\ Reply(c, n) /\ UNCHANGED mpc
           \/ k = "unknown" /\ UNCHANGED <<sendVars, dropped, mpc>>
           \/ k = "throws" /\ mpc' = "terminated"
                           /\ UNCHANGED <<sendVars, dropped>>
  /\ UNCHANGED <<accepting, iopc, readVars, closeVars, peerVars, inbound, got>>

Clients(c) ==
  \/ Connect(c) \/ WriteBody(c) \/ Leave(c)
  \/ \E k \in Kind : WriteHead(c, k)

MainThread == (\E c \in Client : AcceptStart(c)) \/ AcceptInsert \/ Join

Coroutine(c) ==
  \/ Arrive(c, "head", "gotHead") \/ HeadRead(c) \/ HeadRejected(c)
  \/ Arrive(c, "body", "gotBody") \/ BodyRead(c)
  \/ ReadThrows(c)

Writing(c) == Transmit(c) \/ WriteCallbackOk(c) \/ WriteCallbackError(c)

Next ==
  \/ \E c \in Client : Clients(c) \/ Coroutine(c) \/ Writing(c)
  \/ MainThread \/ Signal \/ IOExit \/ LogicHandle

\* The three threads run, and the io_context neglects none of its handlers.
\* Nothing is assumed of the clients, except that they read what is sent.
Fairness ==
  /\ WF_vars(MainThread) /\ WF_vars(IOExit) /\ WF_vars(LogicHandle)
  /\ \A c \in Client : WF_vars(Coroutine(c)) /\ WF_vars(Writing(c))

Spec == Init /\ [][Next]_vars

FairSpec == Spec /\ Fairness
-----------------------------------------------------------------------------
CoroutinePC == {"none", "head", "gotHead", "gotNothing", "body", "gotBody",
                "done"}

TypeOK ==
  /\ mpc \in {"accept", "insert", "join", "exited", "terminated"}
  /\ accepting \in Client \cup {NoClient}
  /\ sessions \subseteq Client
  /\ spc \in [Client -> CoroutinePC]
  /\ reading \in [Client -> Request \cup {NoRequest}]
  /\ open \subseteq Client
  /\ bClose \subseteq Client
  /\ out \in [Client -> Seq(1 .. MaxRequests)]
  /\ \A c \in Client : Len(out[c]) <= MaxSendQue + 1
  /\ writing \subseteq Client
  /\ written \subseteq writing
  /\ iopc \in {"running", "exited"}
  /\ msgQue \in Seq(Client \X Request)
  /\ peer \in [Client -> {"new", "connected", "gone"}]
  /\ inbound \in [Client -> Seq(Request)]
  /\ begun \in [Client -> 0 .. MaxRequests]
  /\ half \in [Client -> Request \cup {NoRequest}]
  /\ got \in [Client -> Seq(1 .. MaxRequests)]
  /\ handled \in [Client -> Seq(Request)]
  /\ dropped \subseteq Client \X (1 .. MaxRequests)
  /\ raced \subseteq Client

\* The places in msgQue of the requests of c.
Queued(c) == {i \in 1 .. Len(msgQue) : msgQue[i][1] = c}

\* The replies c is owed, by the numbers of the requests: those handled that
\* have a callback, except those send() refused and the one that ended the
\* process.
Owed(c) ==
  {n \in 1 .. Len(handled[c]) :
     handled[c][n][2] = "known" /\ <<c, n>> \notin dropped}

\* The replies of c that are not out yet.
Unsent(c) == IF c \in written THEN Tail(out[c]) ELSE out[c]

\* Requests are handled in the order their client wrote them, although all
\* clients share the queue; and a client that has not left gets the replies to
\* its own requests, in the order of the requests, each once: the rest of them
\* is still queued in its session, across three threads and two queues.
AnsweredInOrder ==
  \A c \in Client :
    LET replies == got[c] \o Unsent(c)
    IN /\ \A n \in 1 .. Len(handled[c]) : handled[c][n][1] = n
       /\ \A i, j \in Queued(c) : i < j => msgQue[i][2][1] < msgQue[j][2][1]
       /\ \E n \in Len(handled[c]) .. MaxRequests :
            {msgQue[i][2][1] : i \in Queued(c)} = Len(handled[c]) + 1 .. n
       /\ peer[c] = "connected" =>
            /\ \A i, j \in 1 .. Len(replies) : i < j => replies[i] < replies[j]
            /\ {replies[i] : i \in 1 .. Len(replies)} = Owed(c)

\* Once accept_callback_ is through with it, a session that serves its client
\* is in sessions_, and one that has ended is not -- unless it ended between
\* its start() and its insertion: then it stays there, if no failing write of
\* a late reply removes it after all.
SessionsAreServed ==
  \A c \in Client : spc[c] # "none" /\ accepting # c =>
    /\ c \notin bClose => c \in sessions
    /\ c \in bClose /\ c \in sessions => c \in raced

\* Every request whose handling is due gets its reply, unless the session
\* closes, its send queue is full, or the process ends.
KnownAnswered ==
  \A c \in Client, n \in 1 .. MaxRequests :
    spc[c] = "gotBody" /\ reading[c] = <<n, "known">> ~>
      \/ n \in {got[c][i] : i \in 1 .. Len(got[c])}
      \/ <<c, n>> \in dropped
      \/ c \in bClose
      \/ mpc = "terminated"

\* After the signal the main thread returns from join() as soon as all
\* clients have left (and waits for them until then).
StopReturns ==
  mpc = "join" /\ (\A c \in Client : peer[c] # "connected") ~>
    \/ mpc \in {"exited", "terminated"}
    \/ \E c \in Client : peer[c] = "connected"
=============================================================================
