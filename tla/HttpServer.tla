----------------------------- MODULE HttpServer -----------------------------
(***************************************************************************)
(* The HTTP server on Beast (S14): one thread, one request per connection, *)
(* a deadline timer next to the chain async_read, process_request,         *)
(* async_write.  The read, the write and the timer are independent         *)
(* operations of the io_context: each ends first, and runs its callback    *)
(* later, so the timer may expire with any of the others already done.     *)
(*                                                                         *)
(* A connection is named by its client and lives as long as a callback     *)
(* that captures `self' is outstanding.  A request is what becomes of it:  *)
(*   "count"      GET /count: the response holds the next request_count()  *)
(*   "other"      any other request that is answered                       *)
(*   "throws"     POST /email whose `email' is no string: asString()       *)
(*                throws through ioc.run()                                 *)
(*   "malformed"  the parser of async_read refuses it                      *)
(***************************************************************************)
EXTENDS Integers, FiniteSets

CONSTANTS
  Client,  \* clients; each connects once
  Kind     \* bound: the kinds of requests that are sent

ASSUME HttpAssumption ==
  /\ IsFiniteSet(Client)
  /\ Kind \subseteq {"count", "other", "throws", "malformed"}

NoRequest == "none"

VARIABLES
  process,   \* "running", "failed" (exception) or "returned" (from run())
  accepting, \* an async_accept is outstanding
  op,        \* per connection: the operation of its chain, and its callback
  timer,     \* per connection: deadline_
  closed,    \* connections whose socket_ was closed by the deadline
  shut,      \* connections whose sending side was shut down
  count,     \* MyState::request_count()
  number,    \* per connection: the count in its response, 0 if none
  peer,      \* per client: "new", "connected" or "gone"
  request,   \* per client: what it sent
  got,       \* clients that received a complete response
  floor      \* history, per client: the highest count anyone had received
             \* when it sent its request

connVars == <<op, timer, closed, shut>>
countVars == <<count, number>>
peerVars == <<peer, request, floor>>
vars == <<process, accepting, connVars, countVars, peerVars, got>>

Init ==
  /\ process = "running"
  /\ accepting = TRUE
  /\ op = [c \in Client |-> "none"]
  /\ timer = [c \in Client |-> "none"]
  /\ closed = {}
  /\ shut = {}
  /\ count = 0
  /\ number = [c \in Client |-> 0]
  /\ peer = [c \in Client |-> "new"]
  /\ request = [c \in Client |-> NoRequest]
  /\ got = {}
  /\ floor = [c \in Client |-> 0]

Running == process = "running"

-----------------------------------------------------------------------------
\* External: the clients.
Connect(c) ==
  /\ peer[c] = "new"
  /\ peer' = [peer EXCEPT ![c] = "connected"]
  /\ UNCHANGED <<process, accepting, connVars, countVars, request, floor, got>>

HighestReceived ==
  CHOOSE n \in {0} \cup {number[c] : c \in got} :
    \A c \in got : number[c] <= n

SendRequest(c, k) ==
  /\ peer[c] = "connected"
  /\ request[c] = NoRequest
  /\ request' = [request EXCEPT ![c] = k]
  /\ floor' = [floor EXCEPT ![c] = HighestReceived]
  /\ UNCHANGED <<process, accepting, connVars, countVars, peer, got>>

Leave(c) ==
  /\ peer[c] = "connected"
  /\ peer' = [peer EXCEPT ![c] = "gone"]
  /\ UNCHANGED <<process, accepting, connVars, countVars, request, floor, got>>

-----------------------------------------------------------------------------
(***************************************************************************)
(* Accepting.                                                              *)
(***************************************************************************)
\* start(): read_requset() and check_deadline(); the next accept follows.
Accept(c) ==
  /\ Running
  /\ accepting
  /\ peer[c] # "new"
  /\ op[c] = "none"
  /\ op' = [op EXCEPT ![c] = "reading"]
  /\ timer' = [timer EXCEPT ![c] = "pending"]
  /\ UNCHANGED <<process, accepting, closed, shut, countVars, peerVars, got>>

\* An accept that fails is the last one.
AcceptFails ==
  /\ Running
  /\ accepting
  /\ accepting' = FALSE
  /\ UNCHANGED <<process, connVars, countVars, peerVars, got>>

-----------------------------------------------------------------------------
(***************************************************************************)
(* The request.                                                            *)
(***************************************************************************)
\* The operation of c comes to an end (external) or its callback runs.
Becomes(c, from, to) ==
  /\ Running
  /\ op[c] = from
  /\ op' = [op EXCEPT ![c] = to]

\* External: the request is complete, or is none.
ReadCompletes(c) ==
  /\ c \notin closed
  /\ \/ request[c] \notin {NoRequest, "malformed"} /\ Becomes(c, "reading", "read")
     \/ request[c] = "malformed" /\ Becomes(c, "reading", "readFailed")
  /\ UNCHANGED <<process, accepting, timer, closed, shut, countVars, peerVars,
                 got>>

\* External: the connection is closed, by either side.
ReadFails(c) ==
  /\ c \in closed \/ peer[c] = "gone"
  /\ Becomes(c, "reading", "readFailed")
  /\ UNCHANGED <<process, accepting, timer, closed, shut, countVars, peerVars,
                 got>>

\* The read callback with an error: nothing, the timer goes on.
ReadCallbackError(c) ==
  /\ Becomes(c, "readFailed", "done")
  /\ UNCHANGED <<process, accepting, timer, closed, shut, countVars, peerVars,
                 got>>

\* Mutated: the counter is not kept from one call to the next.
CountAgain(c) ==
  /\ number' = [number EXCEPT ![c] = 1]
  /\ UNCHANGED count

\* Mutated: request_count() is called twice.
CountTwice(c) ==
  /\ count' = count + 2
  /\ number' = [number EXCEPT ![c] = count + 2]

\* request_count(), by create_response().
RequestCount(c) ==
  /\ count' = count + 1
  /\ number' = [number EXCEPT ![c] = count + 1]

\* Mutated: process_request() returns without a response to what is not a
\* GET /count.
ProcessCountOnly(c) ==
  /\ Becomes(c, "read", IF request[c] = "count" THEN "writing" ELSE "done")
  /\ IF request[c] = "count" THEN RequestCount(c) ELSE UNCHANGED countVars
  /\ UNCHANGED <<process, accepting, timer, closed, shut, peerVars, got>>

\* The read callback: process_request() as far as write_response(), which
\* starts the write whether or not the deadline has closed the socket.
ProcessRequest(c) ==
  /\ request[c] # "throws"
  /\ Becomes(c, "read", "writing")
  /\ IF request[c] = "count" THEN RequestCount(c) ELSE UNCHANGED countVars
  /\ UNCHANGED <<process, accepting, timer, closed, shut, peerVars, got>>

\* create_post_response() throws, main returns.
ProcessThrows(c) ==
  /\ request[c] = "throws"
  /\ Becomes(c, "read", "done")
  /\ process' = "failed"
  /\ UNCHANGED <<accepting, timer, closed, shut, countVars, peerVars, got>>

-----------------------------------------------------------------------------
(***************************************************************************)
(* The response and the deadline.                                          *)
(***************************************************************************)
\* External: the response is out.
WriteCompletes(c) ==
  /\ c \notin closed
  /\ peer[c] = "connected"
  /\ Becomes(c, "writing", "written")
  /\ got' = got \cup {c}
  /\ UNCHANGED <<process, accepting, timer, closed, shut, countVars, peerVars>>

\* External: the connection is closed, by either side.
WriteFails(c) ==
  /\ c \in closed \/ peer[c] = "gone"
  /\ Becomes(c, "writing", "written")
  /\ UNCHANGED <<process, accepting, timer, closed, shut, countVars, peerVars,
                 got>>

\* The callback of the write: shutdown(), and cancel() of the timer, which is
\* too late for one whose callback is queued.
WriteCallback(c) ==
  /\ Becomes(c, "written", "done")
  /\ shut' = IF c \in closed THEN shut ELSE shut \cup {c}
  /\ timer' = IF timer[c] = "pending"
              THEN [timer EXCEPT ![c] = "cancelled"] ELSE timer
  /\ UNCHANGED <<process, accepting, closed, countVars, peerVars, got>>

\* External: 60 seconds have passed.
Expire(c) ==
  /\ Running
  /\ timer[c] = "pending"
  /\ timer' = [timer EXCEPT ![c] = "expired"]
  /\ UNCHANGED <<process, accepting, op, closed, shut, countVars, peerVars,
                 got>>

\* Mutated: the deadline closes nothing.
DeadlineIgnored(c) ==
  /\ Running
  /\ timer[c] \in {"expired", "cancelled"}
  /\ timer' = [timer EXCEPT ![c] = "done"]
  /\ UNCHANGED <<process, accepting, op, closed, shut, countVars, peerVars,
                 got>>

\* The callback of the timer: close(), unless it was cancelled.
Deadline(c) ==
  /\ Running
  /\ timer[c] \in {"expired", "cancelled"}
  /\ closed' = IF timer[c] = "expired" THEN closed \cup {c} ELSE closed
  /\ timer' = [timer EXCEPT ![c] = "done"]
  /\ UNCHANGED <<process, accepting, op, shut, countVars, peerVars, got>>

\* No callback holds `self' any more: the HttpConnection is destroyed.
Destroyed(c) == op[c] = "done" /\ timer[c] = "done"

\* ioc.run() returns once nothing is outstanding.
RunReturns ==
  /\ Running
  /\ ~accepting
  /\ \A c \in Client : op[c] = "none" \/ Destroyed(c)
  /\ process' = "returned"
  /\ UNCHANGED <<accepting, connVars, countVars, peerVars, got>>

Clients(c) == Connect(c) \/ Leave(c) \/ \E k \in Kind : SendRequest(c, k)

Transfer(c) == ReadCompletes(c) \/ WriteCompletes(c)

Chain(c) ==
  \/ ReadFails(c) \/ ReadCallbackError(c) \/ ProcessRequest(c)
  \/ ProcessThrows(c) \/ WriteFails(c) \/ WriteCallback(c)

Server ==
  \/ \E c \in Client :
       Accept(c) \/ Transfer(c) \/ Chain(c) \/ Expire(c) \/ Deadline(c)
  \/ AcceptFails \/ RunReturns

\* The io_context runs each callback, operations on a closed connection fail,
\* and time passes.  Nobody is obliged to connect, to send or to read.
Fairness ==
  /\ \A c \in Client : WF_vars(Accept(c)) /\ WF_vars(Chain(c))
                       /\ WF_vars(Expire(c)) /\ WF_vars(Deadline(c))
  /\ WF_vars(RunReturns)
-----------------------------------------------------------------------------
TypeOK ==
  /\ process \in {"running", "failed", "returned"}
  /\ accepting \in BOOLEAN
  /\ op \in [Client -> {"none", "reading", "read", "readFailed", "writing",
                        "written", "done"}]
  /\ timer \in [Client -> {"none", "pending", "expired", "cancelled", "done"}]
  /\ closed \subseteq Client
  /\ shut \subseteq Client
  /\ count \in 0 .. Cardinality(Client)
  /\ number \in [Client -> 0 .. count]
  /\ peer \in [Client -> {"new", "connected", "gone"}]
  /\ request \in [Client -> Kind \cup {NoRequest}]
  /\ got \subseteq Client
  /\ floor \in [Client -> 0 .. count]

\* The counts in the responses are distinct, and a client that asks after
\* another one has its answer gets a higher one.
CountsGrow ==
  \A c \in Client : number[c] # 0 =>
    /\ number[c] > floor[c]
    /\ \A d \in Client \ {c} : number[d] # number[c]

\* For a client that stays and has sent a good request, nothing more is going to
\* happen only after the response and an orderly shutdown, or after the deadline
\* has closed the connection.
AnsweredUnlessLate ==
  Running =>
    \A c \in Client :
      op[c] = "done" /\ peer[c] = "connected"
                    /\ request[c] \in {"count", "other"} =>
        c \in got \cap shut \/ c \in closed

\* The deadline ends every connection, whether its client is silent, reads no
\* response or sends what cannot be parsed; only a failed process leaves one behind.
EveryConnectionEnds ==
  \A c \in Client : op[c] = "reading" ~> Destroyed(c) \/ process = "failed"
=============================================================================
