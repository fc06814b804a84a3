---------------------------- MODULE StrandServer ----------------------------
(***************************************************************************)
(* The server with a pool of threads (S10): several threads run ONE        *)
(* io_context, every handler of a session goes through the strand of that  *)
(* session, the accept callback through none.                              *)
(*                                                                         *)
(* A strand orders the handlers of one session.  Two sessions, or a        *)
(* session and the accept callback, run at the same time on two threads,   *)
(* and sessions_ has no lock: an insertion or an erasure is therefore not  *)
(* atomic here, `handler' tells which threads are inside one.  Two that    *)
(* overlap are undefined: from then on an operation on the map may take    *)
(* effect, be lost, or end the process.  Handlers that do not touch        *)
(* sessions_ are atomic: their session is theirs, and send() locks its     *)
(* queue (it holds send_lock_ until after async_write).                    *)
(*                                                                         *)
(* A request is its number among those of its client, with its kind:       *)
(*   "known"     its id has a callback, which replies by send()            *)
(*   "oversize"  the same, with a length above MAX_LENGTH                  *)
(*   "negative"  its length is below -1: no array can be made for it, the  *)
(*               exception leaves run() and ends the process               *)
(*   "unknown"   its id has none                                           *)
(*   "throws"    its callback throws, which ends the process               *)
(***************************************************************************)
EXTENDS Integers, Sequences, FiniteSets

CONSTANTS
  Client,       \* clients; each connects once, to a session of its name
  Thread,       \* threads of the pool
  MaxSendQue,   \* MAX_SENDQUE
  MaxRequests,  \* bound: requests a client sends
  Kind,         \* bound: the kinds of requests that are sent ...
  Sends(_, _)   \* bound: ... and those of them client c may send as its n-th

ASSUME StrandAssumption ==
  /\ MaxSendQue \in Nat
  /\ MaxRequests \in Nat
  /\ Kind \subseteq {"known", "oversize", "negative", "unknown", "throws"}

Request == (1 .. MaxRequests) \X Kind
NoClient == "no client"
Idle == <<"idle", NoClient>>
NoRequest == <<0, "none">>

VARIABLES
  mpc,        \* the main thread: "run", "join", "exited" or "terminated"
  stopped,    \* io_context_.stop() has been called
  handler,    \* per thread: what it is inside of, and for which session
  sessions,   \* sessions_
  rpc,        \* per session: its outstanding or completed read, or "inHead"
  reading,    \* per session: the request whose header has been read
  open,       \* sessions whose socket_ has not been closed
  out,        \* per session: send_que_
  writing,    \* sessions with an outstanding async_write
  written,    \* those of them whose frame is out, write_callback_ queued
  msgQue,     \* LogicSystem::msg_que_: pairs <<client, request>>
  peer,       \* per client: "new", "connected" or "gone"
  inbound,    \* per client: requests it wrote and the session did not read
  begun,      \* per client: requests it wrote
  got,        \* per client: numbers of the requests whose reply it received
  handled,    \* history, per session: requests the logic thread handled
  dropped,    \* history: <<client, number>> whose reply send() refused
  raced,      \* history: sessions erased before they were inserted
  overlapped, \* history: two threads have been in sessions_ at a time
  oversized   \* history: sessions that read a length above MAX_LENGTH

mainVars == <<mpc, stopped>>
readVars == <<rpc, reading, inbound>>
mapVars == <<sessions, raced, overlapped>>
sendVars == <<out, writing, written>>
logicVars == <<msgQue, handled, dropped>>
peerVars == <<peer, begun>>
vars == <<mainVars, handler, mapVars, readVars, open, sendVars, logicVars,
          peerVars, got, oversized>>

Init ==
  /\ mpc = "run"
  /\ stopped = FALSE
  /\ handler = [t \in Thread |-> Idle]
  /\ sessions = {}
  /\ rpc = [c \in Client |-> "none"]
  /\ reading = [c \in Client |-> NoRequest]
  /\ open = Client
  /\ out = [c \in Client |-> <<>>]
  /\ writing = {}
  /\ written = {}
  /\ msgQue = <<>>
  /\ peer = [c \in Client |-> "new"]
  /\ inbound = [c \in Client |-> <<>>]
  /\ begun = [c \in Client |-> 0]
  /\ got = [c \in Client |-> <<>>]
  /\ handled = [c \in Client |-> <<>>]
  /\ dropped = {}
  /\ raced = {}
  /\ overlapped = FALSE
  /\ oversized = {}

Alive == mpc # "terminated"

-----------------------------------------------------------------------------
\* External: the clients.
Connect(c) ==
  /\ Alive
  /\ peer[c] = "new"
  /\ peer' = [peer EXCEPT ![c] = "connected"]
  /\ UNCHANGED <<mainVars, handler, mapVars, readVars, open, sendVars,
                 logicVars, begun, got, oversized>>

WriteRequest(c, k) ==
  /\ Alive
  /\ peer[c] = "connected"
  /\ begun[c] < MaxRequests
  /\ k \in Sends(c, begun[c] + 1)
  /\ begun' = [begun EXCEPT ![c] = @ + 1]
  /\ inbound' = [inbound EXCEPT ![c] = Append(@, <<begun[c] + 1, k>>)]
  /\ UNCHANGED <<mainVars, handler, mapVars, rpc, reading, open, sendVars,
                 logicVars, peer, got, oversized>>

Leave(c) ==
  /\ Alive
  /\ peer[c] = "connected"
  /\ peer' = [peer EXCEPT ![c] = "gone"]
  /\ UNCHANGED <<mainVars, handler, mapVars, readVars, open, sendVars,
                 logicVars, begun, got, oversized>>

-----------------------------------------------------------------------------
(***************************************************************************)
(* The threads of the pool.                                                *)
(***************************************************************************)
\* io_context::run() gives thread t a handler that is not on a strand ...
MayRun(t) == Alive /\ ~stopped /\ handler[t] = Idle

\* Accept callbacks: one async_accept is outstanding at a time.
Accepting == {t \in Thread : handler[t][1] \in {"started", "insert"}}

\* ... or one that is on the strand of session c.
OnStrand(t, c) ==
  /\ MayRun(t)
  /\ \A u \in Thread : handler[u] \notin {<<"erase", c>>, <<"eraseGoOn", c>>}

\* Threads inside an operation on sessions_.
InMap == {t \in Thread : handler[t][1] \in {"insert", "erase", "eraseGoOn"}}

\* Thread t enters an operation on sessions_ for session c ...
Enter(t, what, c) ==
  /\ handler' = [handler EXCEPT ![t] = <<what, c>>]
  /\ overlapped' = (overlapped \/ InMap # {})

\* ... and leaves it; S is the map it should leave behind.
Exit(t, S) ==
  /\ handler' = [handler EXCEPT ![t] = Idle]
  /\ \/ sessions' = S /\ UNCHANGED mpc
     \/ overlapped /\ UNCHANGED <<sessions, mpc>>
     \/ overlapped /\ mpc' = "terminated" /\ UNCHANGED sessions
  /\ UNCHANGED <<overlapped, stopped>>

\* accept_callback_ up to start().  After an error it only starts the next
\* accept: nothing changes here, and the connection waits for that one.
AcceptStart(t, c) ==
  /\ MayRun(t)
  /\ Accepting = {}
  /\ peer[c] # "new"
  /\ rpc[c] = "none"
  /\ rpc' = [rpc EXCEPT ![c] = "head"]
  /\ handler' = [handler EXCEPT ![t] = <<"started", c>>]
  /\ UNCHANGED <<mainVars, mapVars, reading, inbound, open, sendVars,
                 logicVars, peerVars, got, oversized>>

AcceptInsert(t) ==
  /\ Alive
  /\ handler[t][1] = "started"
  /\ Enter(t, "insert", handler[t][2])
  /\ UNCHANGED <<mainVars, sessions, raced, readVars, open, sendVars,
                 logicVars, peerVars, got, oversized>>

\* The insertion is complete; start_accept_.
AcceptInserted(t) ==
  /\ Alive
  /\ handler[t][1] = "insert"
  /\ Exit(t, sessions \cup {handler[t][2]})
  /\ UNCHANGED <<raced, readVars, open, sendVars, logicVars, peerVars,
                 got, oversized>>

\* External: the async_read of a header, or of a body, has all its bytes.
HeadArrives(c) ==
  /\ Alive /\ ~stopped
  /\ c \in open
  /\ rpc[c] = "head"
  /\ inbound[c] # <<>>
  /\ inbound' = [inbound EXCEPT ![c] = Tail(@)]
  /\ reading' = [reading EXCEPT ![c] = Head(inbound[c])]
  /\ rpc' = [rpc EXCEPT ![c] = "gotHead"]
  /\ UNCHANGED <<mainVars, handler, mapVars, open, sendVars, logicVars,
                 peerVars, got, oversized>>

BodyArrives(c) ==
  /\ Alive /\ ~stopped
  /\ c \in open
  /\ rpc[c] = "body"
  /\ rpc' = [rpc EXCEPT ![c] = "gotBody"]
  /\ UNCHANGED <<mainVars, handler, mapVars, reading, inbound, open,
                 sendVars, logicVars, peerVars, got, oversized>>

\* read_head_callback_ with a good header: go on to the body.
ReadHead(t, c) ==
  /\ OnStrand(t, c)
  /\ rpc[c] = "gotHead"
  /\ reading[c][2] \notin {"oversize", "negative"}
  /\ rpc' = [rpc EXCEPT ![c] = "body"]
  /\ UNCHANGED <<mainVars, handler, mapVars, reading, inbound, open,
                 sendVars, logicVars, peerVars, got, oversized>>

\* read_head_callback_ with a length for which RecvNode throws.
ReadHeadThrows(t, c) ==
  /\ OnStrand(t, c)
  /\ rpc[c] = "gotHead"
  /\ reading[c][2] = "negative"
  /\ mpc' = "terminated"
  /\ UNCHANGED <<stopped, handler, mapVars, readVars, open, sendVars,
                 logicVars, peerVars, got, oversized>>

\* read_head_callback_ with a length above the limit: remove_session(), and
\* the callback goes on, since it does not return there.
ReadHeadOversize(t, c) ==
  /\ OnStrand(t, c)
  /\ rpc[c] = "gotHead"
  /\ reading[c][2] = "oversize"
  /\ rpc' = [rpc EXCEPT ![c] = "inHead"]
  /\ Enter(t, "eraseGoOn", c)
  /\ oversized' = oversized \cup {c}
  /\ UNCHANGED <<mainVars, sessions, raced, reading, inbound, open, sendVars,
                 logicVars, peerVars, got>>

\* read_msg_callback_: post the request, start the next read.
ReadMsg(t, c) ==
  /\ OnStrand(t, c)
  /\ rpc[c] = "gotBody"
  /\ msgQue' = Append(msgQue, <<c, reading[c]>>)
  /\ rpc' = [rpc EXCEPT ![c] = "head"]
  /\ UNCHANGED <<mainVars, handler, mapVars, reading, inbound, open,
                 sendVars, handled, dropped, peerVars, got, oversized>>

\* Mutated: close() and no remove_session().
ReadErrorKept(t, c) ==
  /\ OnStrand(t, c)
  /\ rpc[c] \in {"head", "body"}
  /\ peer[c] = "gone" \/ c \notin open
  /\ rpc' = [rpc EXCEPT ![c] = "done"]
  /\ open' = open \ {c}
  /\ UNCHANGED <<mainVars, handler, mapVars, reading, inbound, sendVars,
                 logicVars, peerVars, got, oversized>>

\* Either read callback with an error: close(), then remove_session().
ReadError(t, c) ==
  /\ OnStrand(t, c)
  /\ rpc[c] \in {"head", "body"}
  /\ peer[c] = "gone" \/ c \notin open
  /\ rpc' = [rpc EXCEPT ![c] = "done"]
  /\ open' = open \ {c}
  /\ Enter(t, "erase", c)
  /\ UNCHANGED <<mainVars, sessions, raced, reading, inbound, sendVars, logicVars,
                 peerVars, got, oversized>>

\* The erasure is complete, and with it the callback ...
Erased(t, what) ==
  LET c == handler[t][2]
  IN /\ Alive
     /\ handler[t][1] = what
     /\ Exit(t, sessions \ {c})
     /\ raced' = IF \E u \in Accepting : handler[u][2] = c
                 THEN raced \cup {c} ELSE raced

SessionErased(t) ==
  /\ Erased(t, "erase")
  /\ UNCHANGED <<readVars, open, sendVars, logicVars, peerVars,
                 got, oversized>>

\* ... or it goes on to read the body of the oversized request.
OversizeGoesOn(t) ==
  /\ Erased(t, "eraseGoOn")
  /\ rpc' = [rpc EXCEPT ![handler[t][2]] = "body"]
  /\ UNCHANGED <<reading, inbound, open, sendVars, logicVars, peerVars,
                 got, oversized>>

\* External: the async_write has sent the whole front frame.
Transmit(c) ==
  /\ Alive /\ ~stopped
  /\ c \in writing \ written
  /\ c \in open
  /\ written' = written \cup {c}
  /\ got' = IF peer[c] = "connected"
            THEN [got EXCEPT ![c] = Append(@, Head(out[c]))]
            ELSE got
  /\ UNCHANGED <<mainVars, handler, mapVars, readVars, open, out, writing,
                 logicVars, peerVars, oversized>>

\* Mutated: the frame that is out is not popped.
WriteWithoutPop(t, c) ==
  /\ OnStrand(t, c)
  /\ c \in written
  /\ written' = written \ {c}
  /\ UNCHANGED <<mainVars, handler, mapVars, readVars, open, out, writing,
                 logicVars, peerVars, got, oversized>>

\* write_callback_ without error, all of it under send_lock_.
WriteCallbackOk(t, c) ==
  /\ OnStrand(t, c)
  /\ c \in written
  /\ written' = written \ {c}
  /\ out' = [out EXCEPT ![c] = Tail(@)]
  /\ writing' = IF Len(out[c]) > 1 THEN writing ELSE writing \ {c}
  /\ UNCHANGED <<mainVars, handler, mapVars, readVars, open, logicVars,
                 peerVars, got, oversized>>

\* write_callback_ with an error: close(), then remove_session().
WriteCallbackError(t, c) ==
  /\ OnStrand(t, c)
  /\ c \in writing \ written
  /\ peer[c] = "gone" \/ c \notin open
  /\ writing' = writing \ {c}
  /\ open' = open \ {c}
  /\ Enter(t, "erase", c)
  /\ UNCHANGED <<mainVars, sessions, raced, readVars, out, written, logicVars,
                 peerVars, got, oversized>>

-----------------------------------------------------------------------------
(***************************************************************************)
(* The logic thread, which is never stopped, and the main thread.          *)
(***************************************************************************)
\* Mutated: no limit.
ReplyUnlimited(c, n) ==
  /\ out' = [out EXCEPT ![c] = Append(@, n)]
  /\ writing' = IF out[c] = <<>> THEN writing \cup {c} ELSE writing
  /\ UNCHANGED <<written, dropped>>

\* The callback's send(), under send_lock_.
Reply(c, n) ==
  IF Len(out[c]) > MaxSendQue
  THEN /\ dropped' = dropped \cup {<<c, n>>}
       /\ UNCHANGED sendVars
  ELSE /\ out' = [out EXCEPT ![c] = Append(@, n)]
       /\ writing' = IF out[c] = <<>> THEN writing \cup {c} ELSE writing
       /\ UNCHANGED <<written, dropped>>

\* deal_msg_() for the front request.
LogicHandle ==
  /\ Alive
  /\ msgQue # <<>>
  /\ msgQue' = Tail(msgQue)
  /\ LET c == Head(msgQue)[1]
         n == Head(msgQue)[2][1]
         k == Head(msgQue)[2][2]
     IN /\ handled' = [handled EXCEPT ![c] = Append(@, <<n, k>>)]
        /\ \/ k \in {"known", "oversize"} /\ Reply(c, n) /\ UNCHANGED mpc
           \/ k = "unknown" /\ UNCHANGED <<sendVars, dropped, mpc>>
           \/ k = "throws" /\ mpc' = "terminated"
                           /\ UNCHANGED <<sendVars, dropped>>
  /\ UNCHANGED <<stopped, handler, mapVars, readVars, open, peerVars, got,
                 oversized>>

\* Mutated: stop() gives up the work guard and does not stop the io_context.
StopGuardOnly ==
  /\ mpc = "run"
  /\ mpc' = "join"
  /\ UNCHANGED <<stopped, handler, mapVars, readVars, open, sendVars,
                 logicVars, peerVars, got, oversized>>

\* The signal: AsioThreadPool::stop() as far as its join().
Stop ==
  /\ mpc = "run"
  /\ mpc' = "join"
  /\ stopped' = TRUE
  /\ UNCHANGED <<handler, mapVars, readVars, open, sendVars, logicVars,
                 peerVars, got, oversized>>

\* Each thread has finished its handler and left run(); join() returns and
\* asio_quit_server destroys the CServer.
Join ==
  /\ mpc = "join"
  /\ stopped
  /\ \A t \in Thread : handler[t] = Idle
  /\ mpc' = "exited"
  /\ UNCHANGED <<stopped, handler, mapVars, readVars, open, sendVars,
                 logicVars, peerVars, got, oversized>>

Clients(c) ==
  \/ Connect(c) \/ Leave(c)
  \/ \E k \in Kind : WriteRequest(c, k)

Accept == \E t \in Thread : \E c \in Client : AcceptStart(t, c)

\* A handler that a thread has begun and not ended.
EndOfHandler(t) ==
  AcceptInsert(t) \/ AcceptInserted(t) \/ SessionErased(t) \/ OversizeGoesOn(t)

Reading(c) ==
  \/ HeadArrives(c) \/ BodyArrives(c)
  \/ \E t \in Thread : \/ ReadHead(t, c) \/ ReadHeadOversize(t, c)
                       \/ ReadHeadThrows(t, c)
                       \/ ReadMsg(t, c) \/ ReadError(t, c)

Writing(c) ==
  \/ Transmit(c)
  \/ \E t \in Thread : WriteCallbackOk(t, c) \/ WriteCallbackError(t, c)

Next ==
  \/ \E c \in Client : Clients(c) \/ Reading(c) \/ Writing(c)
  \/ Accept
  \/ \E t \in Thread : EndOfHandler(t)
  \/ LogicHandle \/ Stop \/ Join

\* A thread that has begun a handler ends it; the logic and the main thread run.
Fairness ==
  /\ \A t \in Thread : WF_vars(EndOfHandler(t))
  /\ WF_vars(LogicHandle) /\ WF_vars(Join)

Spec == Init /\ [][Next]_vars

FairSpec == Spec /\ Fairness
-----------------------------------------------------------------------------
TypeOK ==
  /\ mpc \in {"run", "join", "exited", "terminated"}
  /\ stopped \in BOOLEAN
  /\ handler \in [Thread -> {Idle}
                    \cup ({"started", "insert", "erase", "eraseGoOn"} \X Client)]
  /\ sessions \subseteq Client
  /\ rpc \in [Client -> {"none", "head", "gotHead", "inHead", "body",
                         "gotBody", "done"}]
  /\ reading \in [Client -> Request \cup {NoRequest}]
  /\ open \subseteq Client
  /\ out \in [Client -> Seq(1 .. MaxRequests)]
  /\ \A c \in Client : Len(out[c]) <= MaxSendQue + 1
  /\ writing \subseteq Client
  /\ written \subseteq writing
  /\ msgQue \in Seq(Client \X Request)
  /\ peer \in [Client -> {"new", "connected", "gone"}]
  /\ inbound \in [Client -> Seq(Request)]
  /\ begun \in [Client -> 0 .. MaxRequests]
  /\ got \in [Client -> Seq(1 .. MaxRequests)]
  /\ handled \in [Client -> Seq(Request)]
  /\ dropped \subseteq Client \X (1 .. MaxRequests)
  /\ raced \subseteq Client
  /\ overlapped \in BOOLEAN
  /\ oversized \subseteq Client

\* The places in msgQue of the requests of c.
Queued(c) == {i \in 1 .. Len(msgQue) : msgQue[i][1] = c}

\* The replies c is owed, by the numbers of the requests: those handled that
\* have a callback, except those send() refused.
Owed(c) ==
  {n \in 1 .. Len(handled[c]) :
     handled[c][n][2] \in {"known", "oversize"} /\ <<c, n>> \notin dropped}

\* The replies of c that are not out yet.
Unsent(c) == IF c \in written THEN Tail(out[c]) ELSE out[c]

\* The requests of a client are handled in the order it wrote them, although
\* callbacks on several threads post them; and while it has not left it gets
\* the replies to them, in their order and once.
AnsweredInOrder ==
  \A c \in Client :
    LET replies == got[c] \o Unsent(c)
    IN /\ \A n \in 1 .. Len(handled[c]) : handled[c][n][1] = n
       /\ \A i, j \in Queued(c) : i < j => msgQue[i][2][1] < msgQue[j][2][1]
       /\ \E n \in Len(handled[c]) .. MaxRequests :
            {msgQue[i][2][1] : i \in Queued(c)} = Len(handled[c]) + 1 .. n
       /\ peer[c] = "connected" =>
            /\ \A i, j \in 1 .. Len(replies) : i < j => replies[i] < replies[j]
            /\ {replies[i] : i \in 1 .. Len(replies)} = Owed(c)

\* When no thread is working on it, sessions_ holds the sessions that serve a
\* client, but none that has ended, nor one that has read a length above
\* MAX_LENGTH, though it is served all the same -- unless it was removed before
\* its insertion.  Two overlapping operations on the map end the promise.
SessionsAreServed ==
  ~overlapped /\ (\A t \in Thread : handler[t] = Idle) =>
    \A c \in Client : rpc[c] # "none" =>
      /\ c \in open /\ rpc[c] # "done" => c \in sessions \/ c \in oversized
      /\ (rpc[c] = "done" \/ c \in oversized) /\ c \in sessions => c \in raced

\* What session.cc says of its strands: they "share one queue", so that the
\* callbacks are serialised -- one callback of any session at a time.
CallbacksSerialised ==
  \A t, u \in Thread :
    {handler[t][1], handler[u][1]} \subseteq {"erase", "eraseGoOn"} => t = u

\* stop() returns whatever the clients do: it waits for the handlers that
\* have begun and for no outstanding operation.
StopReturns == mpc = "join" ~> mpc \in {"exited", "terminated"}
=============================================================================
