--------------------------- MODULE IOServicePool ----------------------------
(***************************************************************************)
(* The server with a pool of io_contexts (S09): every io_context has one   *)
(* thread, a session is bound to one of them, chosen in turn when its      *)
(* accept is started; the main thread accepts.  With one io_context the    *)
(* sessions are those of S08, whose session.cc is the same.                *)
(*                                                                         *)
(* The handlers of one session never overlap, since one thread runs them;  *)
(* those of two io_contexts and the accept callback do, and sessions_ has  *)
(* no lock.  `handler' tells which threads are inside an operation on it.  *)
(* Once two have been at a time such an operation is undefined: it may     *)
(* take effect, be lost, or end the process.                               *)
(*                                                                         *)
(* stop() gives up the work guards and joins: run() returns when its       *)
(* io_context has no operation outstanding.                                *)
(*                                                                         *)
(* The subject is where the handlers run and what they do to the map; what *)
(* requests and replies hold is that of StrandServer.  A request is its    *)
(* kind here: "known", which is replied to, or "oversize", the same with a *)
(* length above MAX_LENGTH.  A queue of replies is its length.             *)
(***************************************************************************)
EXTENDS Integers, Sequences, FiniteSets

CONSTANTS
  Client,       \* clients; each connects once, to a session of its name
  Contexts,     \* size of the pool: std::thread::hardware_concurrency()
  MaxSendQue,   \* MAX_SENDQUE
  MaxRequests,  \* bound: requests the clients send in all
  Kind          \* bound: the kinds of requests that are sent

ASSUME PoolAssumption ==
  /\ Contexts \in Nat \ {0}
  /\ MaxSendQue \in Nat
  /\ MaxRequests \in Nat
  /\ Kind \subseteq {"known", "oversize"}

Context == 0 .. Contexts - 1
NoClient == "no client"
NoRequest == "none"
Idle == <<"idle", NoClient>>
Exited == <<"exited", NoClient>>

VARIABLES
  mpc,        \* the main thread: "accept", "started", "insert", "join", "exited"
  accepting,  \* the session whose accept callback it runs
  waiting,    \* the io_context of the session that waits for a connection
  next,       \* next_io_context_index_
  home,       \* per session: its io_context
  handler,    \* per io_context: what its thread is inside of
  sessions,   \* CServer::sessions_
  rpc,        \* per session: its outstanding or completed read
  reading,    \* per session: the kind of request whose header has been read
  open,       \* sessions whose socket_ has not been closed
  out,        \* per session: the size of send_que_
  writing,    \* sessions with an outstanding async_write
  written,    \* those of them whose frame is out, write_callback_ queued
  msgQue,     \* LogicSystem::msg_que_: the sessions the requests came by
  peer,       \* per client: "new", "connected" or "gone"
  begun,      \* requests that were sent
  raced,      \* history: sessions erased before they were inserted
  overlapped, \* history: two threads have been in sessions_ at a time
  oversized,  \* history: sessions that read a length above MAX_LENGTH
  failed      \* history: an accept has failed

mainVars == <<mpc, accepting, waiting, next, home, failed>>
readVars == <<rpc, reading, oversized>>
mapVars == <<sessions, raced, overlapped>>
sendVars == <<out, writing, written>>
peerVars == <<peer, begun>>
vars == <<mainVars, handler, mapVars, readVars, open, sendVars, msgQue,
          peerVars>>

\* The modulus is the wrap-around of get_io_context().
Init ==
  /\ mpc = "accept"
  /\ accepting = NoClient
  /\ waiting = 0
  /\ next = 1 % Contexts
  /\ home = [c \in Client |-> 0]
  /\ handler = [i \in Context |-> Idle]
  /\ sessions = {}
  /\ rpc = [c \in Client |-> "none"]
  /\ reading = [c \in Client |-> NoRequest]
  /\ open = Client
  /\ out = [c \in Client |-> 0]
  /\ writing = {}
  /\ written = {}
  /\ msgQue = <<>>
  /\ peer = [c \in Client |-> "new"]
  /\ begun = 0
  /\ raced = {}
  /\ overlapped = FALSE
  /\ oversized = {}
  /\ failed = FALSE

Alive == mpc # "terminated"

-----------------------------------------------------------------------------
\* External: the clients.
Connect(c) ==
  /\ peer[c] = "new"
  /\ peer' = [peer EXCEPT ![c] = "connected"]
  /\ UNCHANGED <<mainVars, handler, mapVars, readVars, open, sendVars, msgQue,
                 begun>>

Leave(c) ==
  /\ peer[c] = "connected"
  /\ peer' = [peer EXCEPT ![c] = "gone"]
  /\ UNCHANGED <<mainVars, handler, mapVars, readVars, open, sendVars, msgQue,
                 begun>>

-----------------------------------------------------------------------------
(***************************************************************************)
(* sessions_, used by the main thread and by those of the io_contexts.     *)
(***************************************************************************)
InMap ==
  {i \in Context : handler[i][1] \in {"erase", "eraseGoOn"}}
    \cup (IF mpc = "insert" THEN {"main"} ELSE {})

EnterMap == overlapped' = (overlapped \/ InMap # {})

\* S is the map an operation should leave behind, `where' the place at which
\* the main thread is then.
LeaveMap(S, where) ==
  \/ sessions' = S /\ mpc' = where
  \/ overlapped /\ mpc' = where /\ UNCHANGED sessions
  \/ overlapped /\ mpc' = "terminated" /\ UNCHANGED sessions

-----------------------------------------------------------------------------
(***************************************************************************)
(* The main thread.                                                        *)
(***************************************************************************)
\* Mutated: the index does not advance.
SameContext == UNCHANGED <<waiting, next>>

\* Mutated: the index is compared one step late.
WrapLate ==
  /\ waiting' = next
  /\ next' = IF next = Contexts THEN 0 ELSE next + 1

\* start_accept_: the next session is bound to the next io_context.
GetContext ==
  /\ waiting' = next
  /\ next' = IF next + 1 = Contexts THEN 0 ELSE next + 1

\* accept_callback_ up to start().
AcceptStart(c) ==
  /\ mpc = "accept"
  /\ peer[c] # "new"
  /\ rpc[c] = "none"
  /\ rpc' = [rpc EXCEPT ![c] = "head"]
  /\ home' = [home EXCEPT ![c] = waiting]
  /\ accepting' = c
  /\ mpc' = "started"
  /\ UNCHANGED <<waiting, next, failed, handler, mapVars, reading,
                 oversized, open, sendVars, msgQue, peerVars>>

AcceptInsert ==
  /\ mpc = "started"
  /\ mpc' = "insert"
  /\ EnterMap
  /\ UNCHANGED <<accepting, waiting, next, home, failed, handler, sessions,
                 raced, readVars, open, sendVars, msgQue, peerVars>>

AcceptInserted ==
  /\ mpc = "insert"
  /\ LeaveMap(sessions \cup {accepting}, "accept")
  /\ accepting' = NoClient
  /\ GetContext
  /\ UNCHANGED <<home, failed, handler, raced, overlapped, readVars, open,
                 sendVars, msgQue, peerVars>>

\* The session that waited is dropped, and with it its turn.
AcceptFails ==
  /\ mpc = "accept"
  /\ GetContext
  /\ failed' = TRUE
  /\ UNCHANGED <<mpc, accepting, home, handler, mapVars, readVars, open,
                 sendVars, msgQue, peerVars>>

\* The signal: ioc.stop(), and pool.stop() as far as its join().
Signal ==
  /\ mpc = "accept"
  /\ mpc' = "join"
  /\ UNCHANGED <<accepting, waiting, next, home, failed, handler, mapVars,
                 readVars, open, sendVars, msgQue, peerVars>>

\* Every thread is joined; the CServer is destroyed.
Join ==
  /\ mpc = "join"
  /\ \A i \in Context : handler[i] = Exited
  /\ mpc' = "exited"
  /\ UNCHANGED <<accepting, waiting, next, home, failed, handler, mapVars,
                 readVars, open, sendVars, msgQue, peerVars>>

-----------------------------------------------------------------------------
(***************************************************************************)
(* The threads of the pool.                                                *)
(***************************************************************************)
\* The thread of the io_context of c may run a handler of it.
MayRun(c) == Alive /\ handler[home[c]] = Idle

\* run() returns: no work guard, and nothing outstanding in the io_context.
RunReturns(i) ==
  /\ mpc = "join"
  /\ handler[i] = Idle
  /\ \A c \in Client : home[c] = i => rpc[c] \in {"none", "done"}
                                      /\ c \notin writing
  /\ handler' = [handler EXCEPT ![i] = Exited]
  /\ UNCHANGED <<mainVars, mapVars, readVars, open, sendVars, msgQue,
                 peerVars>>

\* The thread enters remove_session(c).
Erase(what, c) ==
  /\ handler' = [handler EXCEPT ![home[c]] = <<what, c>>]
  /\ EnterMap

\* External: the async_read of a header has all its bytes, as the client sent
\* its next request ...
HeadArrives(c, k) ==
  /\ Alive
  /\ c \in open
  /\ peer[c] = "connected"
  /\ rpc[c] = "head"
  /\ begun < MaxRequests
  /\ begun' = begun + 1
  /\ reading' = [reading EXCEPT ![c] = k]
  /\ rpc' = [rpc EXCEPT ![c] = "gotHead"]
  /\ UNCHANGED <<mainVars, handler, mapVars, oversized, open, sendVars,
                 msgQue, peer>>

\* ... or that of a body.
BodyArrives(c) ==
  /\ Alive
  /\ c \in open
  /\ rpc[c] = "body"
  /\ rpc' = [rpc EXCEPT ![c] = "gotBody"]
  /\ UNCHANGED <<mainVars, handler, mapVars, reading, oversized, open,
                 sendVars, msgQue, peerVars>>

\* read_head_callback_ with a good header.
ReadHead(c) ==
  /\ MayRun(c)
  /\ rpc[c] = "gotHead"
  /\ reading[c] # "oversize"
  /\ rpc' = [rpc EXCEPT ![c] = "body"]
  /\ UNCHANGED <<mainVars, handler, mapVars, reading, oversized, open,
                 sendVars, msgQue, peerVars>>

\* A length above the limit: remove_session(), without a return.
ReadHeadOversize(c) ==
  /\ MayRun(c)
  /\ rpc[c] = "gotHead"
  /\ reading[c] = "oversize"
  /\ Erase("eraseGoOn", c)
  /\ oversized' = oversized \cup {c}
  /\ UNCHANGED <<mainVars, sessions, raced, rpc, reading, open,
                 sendVars, msgQue, peerVars>>

\* read_msg_callback_: post the request, start the next read.
ReadMsg(c) ==
  /\ MayRun(c)
  /\ rpc[c] = "gotBody"
  /\ msgQue' = Append(msgQue, c)
  /\ rpc' = [rpc EXCEPT ![c] = "head"]
  /\ UNCHANGED <<mainVars, handler, mapVars, reading, oversized, open,
                 sendVars, peerVars>>

\* Mutated: close() and no remove_session().
ReadErrorKept(c) ==
  /\ MayRun(c)
  /\ rpc[c] \in {"head", "body"}
  /\ peer[c] = "gone" \/ c \notin open
  /\ rpc' = [rpc EXCEPT ![c] = "done"]
  /\ open' = open \ {c}
  /\ UNCHANGED <<mainVars, handler, mapVars, reading, oversized, sendVars,
                 msgQue, peerVars>>

\* Either read callback with an error: close(), then remove_session().
ReadError(c) ==
  /\ MayRun(c)
  /\ rpc[c] \in {"head", "body"}
  /\ peer[c] = "gone" \/ c \notin open
  /\ rpc' = [rpc EXCEPT ![c] = "done"]
  /\ open' = open \ {c}
  /\ Erase("erase", c)
  /\ UNCHANGED <<mainVars, sessions, raced, reading, oversized,
                 sendVars, msgQue, peerVars>>

\* remove_session() returns; after an oversized header the body is read.
Erased(i) ==
  LET c == handler[i][2]
  IN /\ Alive
     /\ handler[i][1] \in {"erase", "eraseGoOn"}
     /\ LeaveMap(sessions \ {c}, mpc)
     /\ raced' = IF accepting = c THEN raced \cup {c} ELSE raced
     /\ rpc' = IF handler[i][1] = "eraseGoOn"
               THEN [rpc EXCEPT ![c] = "body"] ELSE rpc
     /\ handler' = [handler EXCEPT ![i] = Idle]
     /\ UNCHANGED <<accepting, waiting, next, home, failed, overlapped,
                    reading, oversized, open, sendVars, msgQue,
                    peerVars>>

\* External: the async_write has sent the whole front frame.
Transmit(c) ==
  /\ Alive
  /\ handler[home[c]] # Exited
  /\ c \in (writing \ written) \cap open
  /\ written' = written \cup {c}
  /\ UNCHANGED <<mainVars, handler, mapVars, readVars, open, out, writing,
                 msgQue, peerVars>>

\* write_callback_ without error, all of it under send_lock_.
WriteCallbackOk(c) ==
  /\ MayRun(c)
  /\ c \in written
  /\ written' = written \ {c}
  /\ out' = [out EXCEPT ![c] = @ - 1]
  /\ writing' = IF out[c] > 1 THEN writing ELSE writing \ {c}
  /\ UNCHANGED <<mainVars, handler, mapVars, readVars, open, msgQue,
                 peerVars>>

\* write_callback_ with an error: close(), then remove_session().
WriteCallbackError(c) ==
  /\ MayRun(c)
  /\ c \in writing \ written
  /\ peer[c] = "gone" \/ c \notin open
  /\ writing' = writing \ {c}
  /\ open' = open \ {c}
  /\ Erase("erase", c)
  /\ UNCHANGED <<mainVars, sessions, raced, readVars, out, written, msgQue,
                 peerVars>>

-----------------------------------------------------------------------------
\* The logic thread: the callback of the front request, which is send().
Reply ==
  /\ Alive
  /\ msgQue # <<>>
  /\ msgQue' = Tail(msgQue)
  /\ LET c == Head(msgQue)
     IN IF out[c] > MaxSendQue
        THEN UNCHANGED <<out, writing>>
        ELSE /\ out' = [out EXCEPT ![c] = @ + 1]
             /\ writing' = IF out[c] = 0 THEN writing \cup {c} ELSE writing
  /\ UNCHANGED <<mainVars, handler, mapVars, readVars, open, written, peerVars>>

Clients(c) ==
  /\ Alive
  /\ Connect(c) \/ Leave(c) \/ \E k \in Kind : HeadArrives(c, k)

Accept == (\E c \in Client : AcceptStart(c)) \/ AcceptInsert \/ AcceptInserted

Reading(c) ==
  \/ BodyArrives(c)
  \/ ReadHead(c) \/ ReadHeadOversize(c) \/ ReadMsg(c) \/ ReadError(c)

Writing(c) == Transmit(c) \/ WriteCallbackOk(c) \/ WriteCallbackError(c)

Next ==
  \/ \E c \in Client : Clients(c) \/ Reading(c) \/ Writing(c)
  \/ Accept \/ AcceptFails \/ Signal \/ Join
  \/ \E i \in Context : Erased(i) \/ RunReturns(i)
  \/ Reply

\* Every thread runs, and an io_context neglects none of its sessions (SF: a
\* completed operation waits for the one thread, which is often elsewhere).
Fairness ==
  /\ \A c \in Client : SF_vars(Reading(c)) /\ SF_vars(Writing(c))
  /\ \A i \in Context : WF_vars(Erased(i)) /\ WF_vars(RunReturns(i))
  /\ WF_vars(Accept) /\ WF_vars(Join) /\ WF_vars(Reply)

Spec == Init /\ [][Next]_vars

FairSpec == Spec /\ Fairness
-----------------------------------------------------------------------------
TypeOK ==
  /\ mpc \in {"accept", "started", "insert", "join", "exited", "terminated"}
  /\ accepting \in Client \cup {NoClient}
  /\ waiting \in Context
  /\ next \in Context
  /\ home \in [Client -> Context]
  /\ handler \in [Context -> {Idle, Exited}
                               \cup ({"erase", "eraseGoOn"} \X Client)]
  /\ sessions \subseteq Client
  /\ rpc \in [Client -> {"none", "head", "gotHead", "body", "gotBody",
                         "done"}]
  /\ reading \in [Client -> Kind \cup {NoRequest}]
  /\ open \subseteq Client
  /\ out \in [Client -> 0 .. MaxSendQue + 1]
  /\ writing \subseteq Client
  /\ written \subseteq writing
  /\ msgQue \in Seq(Client)
  /\ peer \in [Client -> {"new", "connected", "gone"}]
  /\ begun \in 0 .. MaxRequests
  /\ raced \subseteq Client
  /\ overlapped \in BOOLEAN
  /\ oversized \subseteq Client
  /\ failed \in BOOLEAN

\* The sessions that were bound to io_context i when they were accepted.
Load(i) == Cardinality({c \in Client : rpc[c] # "none" /\ home[c] = i})

\* The sessions accepted so far are spread evenly over the io_contexts, as
\* long as no accept has failed, which wastes a turn.
SpreadEvenly == ~failed => \A i, j \in Context : Load(i) <= Load(j) + 1

\* While no thread is inside it, and none has met another there, sessions_
\* holds the sessions that are served, but for those that read a length above
\* the limit, and none that has ended, but for those erased too early.
SessionsAreServed ==
  ~overlapped /\ InMap = {} /\ mpc # "started" =>
    \A c \in Client : rpc[c] # "none" =>
      /\ c \in open /\ rpc[c] # "done" => c \in sessions \/ c \in oversized
      /\ rpc[c] = "done" /\ c \in sessions => c \in raced

\* What io_service_pool.cc says of stop(): the destruction of the work object
\* releases the events bound to the io_context, so that run() can return --
\* whatever the clients do.
GuardsReleaseRun == mpc = "join" ~> mpc \in {"exited", "terminated"}
=============================================================================
