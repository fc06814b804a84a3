# Specifications of studyasio

The repository is a course on asynchronous network programming with asio in
C++, one program per step (`src/S01` … `src/S15`).  The programs grow out of one
another: an echo server, a server that cuts frames out of a byte stream, a
server with a logic thread, a pool of io_contexts or of threads, and finally a
server whose sessions are coroutines (`S12`, whose server sources `S13`
repeats).  `S12` is the most complete program and the core of these
specifications; the earlier ones are modelled where they do something else.

Modules, configurations and proofs are in this directory.  `tlc -config X.cfg M`
checks module `M`, `tlapm M.tla` its proofs.

## 1. Inventory

### The coroutine server (S12; S13 has the same server sources)

| part | state | operations | interacts with |
|---|---|---|---|
| `Session`, sending (`session.cc:40-62, 133-165`) | `send_que_`, `mutex_`, `socket_`, `b_close_` | `send()`, `write_callback_()`, `close()` | logic thread calls `send()`; `asio::async_write` on the socket; `Server::remove_session` |
| `Session`, reading (`session.cc:64-131`) | position in the coroutine, `recv_head_node_`, `recv_msg_node_` | `start()` | `asio::async_read`; posts to `LogicSystem` |
| `LogicSystem` (`logic_system.cc`) | `msg_que_`, `mutex_`, `cond_`, `b_stop_`, the worker | `post_msg_to_que()`, `deal_msg_()`, the callback of id 1001, the destructor | I/O thread posts; worker calls `Session::send()` |
| `Server` (`server.cc`) | `sessions_`, `mutex_`, the acceptor | `accept_callback_()`, `start_accept_()`, `remove_session()` | main thread accepts, I/O thread removes |
| `IOContextPool` (`io_context_pool.cc`) | the io_contexts (one), work guards, threads | `get_io_context()`, `stop()` | runs the sessions' handlers |
| `main` (`main.cc`) | its own io_context | the signal handler | stops its io_context, then the pool |

Three threads meet in it: *main* (accepts, and handles the signal), *I/O* (the
one thread of the pool: read coroutines and write callbacks) and *logic* (the
worker).  What is hard there, and what must be true of it:

* `send()` and `write_callback_` unlock `mutex_` *before* they call
  `async_write`.  Correct: one write at a time, frames whole and in order, no
  message forgotten when the queue runs empty just as another is pushed, the
  written buffer still owned by the queue.
* The condition variable of the logic system, and a destructor that notifies
  without the mutex.  Correct: no message waits while the worker sleeps; each is
  handled once, in order; a stop loses nothing; `join()` returns (it does, unless
  the notification falls between the worker's test and its blocking).
* A session is started *before* it is inserted in the map, on another thread
  than the one that removes it.  Correct: a served session is in the map; an
  ended one is not (unless it ended in that gap).
* Requests of all sessions go through one queue, replies through another one per
  session, on different threads.  Correct: each client gets the replies to its
  own requests, in order and once.
* The shutdown: `stop()` gives up the work guards and joins, so it waits for
  every client.  Correct: it returns when they have left, and nothing uses the
  `Server` after it was destroyed.

### The frame parser by hand (S04, S05, S06)

`CSession` of these steps uses `async_read_some` and cuts headers and bodies out
of whatever each read returned: `recv_head_node_`, `recv_msg_node_`, each with a
`cur_len`, and `b_head_parse_`, across callbacks.  Correct: whatever the division
of the stream into reads, the bodies handled are those that were sent, none held
back once its last byte is there, and a session that is still registered is
still served.  S05 and S06 differ in what is done with a body (protobuf, JSON);
S06 also catches exceptions around the whole callback.

### The rest

| part | what it is | hard behaviour | correct if |
|---|---|---|---|
| S01 `AsyncApi` `Session` | the asio calls one by one: `async_write_some` continued by hand, a queue, `async_read_some` | partial writes and reads; a pending flag | messages are written one after another, completely (they are not, see the runs) |
| S01 `BaseApi` | single library calls | – | – |
| S02 | blocking echo, one thread per connection | an exception in `main()` ends all threads | echo |
| S03 `SessionErr`, `CSession`, `CSession2` | callback echo: manual `delete`, then `shared_ptr`, then a send queue | lifetime with two operations outstanding; one buffer for reading and writing; first write from the caller's buffer; `remote_endpoint()` that throws out of `run()` | echo; no session freed too early or kept too long |
| S04 – S08 | framed messages on one thread: header and body in one encoding at both ends, a send queue | byte order, lengths at and over the limit, a reply of another length than the request, clients that run ahead | every message is answered once and in order |
| S08 – S10 `LogicSystem` | as S12 with other waiting, notification and drain code | notify only when the queue was empty; no test of `b_stop_` in the wait | no message waits while the worker sleeps |
| S08 – S10 `main` | two ways of ending on a signal: a flag and a condition variable, or a `signal_set` | the signal between the test of the flag and the wait, or while the main thread holds the mutex; threads that never return | a signal ends the process |
| S08 – S10 `CServer` | `sessions_` without a lock | S09, S10: used by several threads | map operations never overlap |
| S09 `IOServicePool` | one io_context per thread, round robin | shutdown waits for all sessions | as S12, with several I/O threads |
| S10 `AsioThreadPool` | several threads on one io_context, a strand per session | strands order one session only; `stop()` cuts operations off; missing return after an invalid length | handlers of a session never overlap |
| S11 | coroutine echo | an exception ends `listen()`, not the sessions | echo |
| S13 client | HTTP request by a chain of callbacks | response read into the request buffer | every way through the chain ends |
| S14 | HTTP server, one request per connection | deadline against response | exactly one response, then closed; never hangs beyond the deadline |
| S15 | unary gRPC hello | – | a call is answered |
| clients of S02 – S12 | write a line or a frame, read the reply | decode what the server encoded | each reply is read whole |

## 2. Modules

| module | models | checked by | proved in |
|---|---|---|---|
| `FrameChannel` | what a session promises to the callers of `send()`: a bounded FIFO of whole frames | as a property of `SessionSend` | |
| `SessionSend` | S12 `Session`, sending | `MCSessionSend` | `SessionSendProofs` |
| `LogicSystem` | S12 `LogicSystem` | itself | `LogicSystemProofs` |
| `CoroutineServer` | S12 as a whole: `main`, `Server`, pool, read coroutines, sessions, logic thread, clients | `MCCoroutineServer` | `CoroutineServerProofs` |
| `StrandServer` | S10 as a whole: thread pool, strands, `CServer`, `CSession`, logic thread, clients | `MCStrandServer` | `StrandServerProofs` |
| `IOServicePool` | S09 as a whole: pool of io_contexts, `CServer`, `CSession` (also that of S08), clients | `MCIOServicePool` | `IOServicePoolProofs` |
| `HttpServer` | S14: accepting, `HttpConnection`, the deadline | `HttpClient` | `HttpClientProofs` |
| `HttpClient` | S13's client, connected to `HttpServer` or to any other | itself | `HttpClientProofs` |
| `LogicQueue` | S08/S09/S10 `LogicSystem` | `QuitServer` | `LogicQueueProofs` |
| `QuitServer` | the ends of S08/S09/S10, around `LogicQueue` | itself | `LogicQueueProofs` |
| `StickyPacket` | S04/S05/S06 read callback | `MCEchoServers` | `EchoServersProofs` |
| `Echo` | what every server of S02 – S12 and S15 promises its clients | as a property of `EchoServers` | `EchoServersProofs` |
| `EchoNetwork` | clients, connections and the process, common to the next two | `MCEchoServers` | `EchoServersProofs` |
| `RawEcho` | S02, S03 (three generations), S11, and their clients | `MCEchoServers` | `EchoServersProofs` |
| `FramedEcho` | S04 – S10, S12, S15 from client to client | `MCEchoServers` | `EchoServersProofs` |
| `EchoServers` | those programs and the parser side by side | `MCEchoServers` | `EchoServersProofs` |
| `AsyncApi` | S01 `AsyncApi` `Session` | itself | |

### `SessionSend` (implements `FrameChannel`)

A message is the number of its acceptance; its frame is `FrameLen` parts, since
`async_write` sends a buffer by several `async_write_some`.  The critical section
of `send()` is one action (`SendAccepted`, `SendRefused`); the call of
`async_write` after the unlock is another (`AsyncWrite`), and `about[t]` is the
local `msg_node` that a thread carries from one to the other.  `write_callback_`
is `WriteCallbackOk` (pop, next) or `WriteCallbackError` (close, remove).
Handlers of one io_context do not overlap: `HandlerMayRun`.  The peer's side,
`Transmit`, is external: each part is appended to `stream`.

`ImplementsChannel` is the refinement: `FrameChannel` accepts while fewer than
`MaxSendQue + 1` messages are unsent (the code tests `>` before the push), emits
the parts of the accepted messages one after the other, and shuts.

### `LogicSystem`

`wpc` is the place of the worker in `deal_msg_()`, at the granularity at which
`mutex_` and the atomic unlock-and-block of `wait()` allow other threads in;
`dpc` the place of the main thread in the destructor.  `post_msg_to_que()` is one
critical section.  A message is its number and what its handling does: call the
callback, skip (no callback), or throw, which ends the process.  `notify_one()`
reaches a *blocked* worker only; spurious wakeups happen; the destructor acts
without the mutex, so its store and notify may fall between `Test` and `Block`:
the history variable `missed` records that.

### `CoroutineServer`

One session per client.  `spc[c]` is the place of its read coroutine.  The bytes
of a read arrive (`Arrive`, external) and the coroutine resumes later on the I/O
thread (`HeadRead`, `HeadRejected`, `BodyRead`), so a write error may close the
session in between; that is when `while (!b_close_)` matters.  The header's
content is a kind of request: *known* (id 1001), *unknown*, *throws*, *empty* and
*invalid* (above the limit).  The accept callback is two actions, `AcceptStart`
and `AcceptInsert`, because the I/O thread runs between them; `raced` records the
sessions that were removed in that gap.  The critical sections of `send()` and of
`deal_msg_()` are one action each here: what happens inside them is the subject
of the two detailed modules.  `CloseAndRemove` is one action: both calls are made
by the I/O thread, no other thread relates the closed socket to the map.

The end of the process is `Signal` (`ioc.stop()`, guards reset), `IOExit`
(`run()` returns when no operation is outstanding), `Join` (the `Server` is
destroyed).  The logic thread goes on after that, as in the program, where its
destructor runs last.

### `StrandServer`

The same clients and logic thread as in `CoroutineServer`, but the handlers are
run by any thread of the pool: `handler[t]` is what thread `t` is inside of.  A
handler that leaves `sessions_` alone is one action; the others are two, with
the operation on the map in between (`Enter`, `Exit`).  `OnStrand(t, c)` lets a
thread start a handler of session `c` when no other is inside one of `c`; the
accept callback (`AcceptStart`, `AcceptInsert`, `AcceptInserted`) is on no
strand.  When two threads are inside the map at a time (`overlapped`) C++
defines nothing any more; the model lets each operation from then on take effect,
be lost or end the process, and `SessionsAreServed` is stated up to that point.
`ReadHeadOversize` and `OversizeGoesOn` are the branch without a return: the
session leaves the map, its body is read and it is served on (`oversized`);
between the two the completed read is used up (`rpc` is "inHead").
`ReadHeadThrows` is a length below -1, for which no array can be made: the
exception leaves `run()` and the process ends.  A failed accept only starts the
next one, which changes nothing here.
`Stop` cuts off what is outstanding, so that `Join` waits for no client, unlike
the pools of S09 and S12.

### `IOServicePool`

The same callbacks without a strand: all handlers of a session run on the one
thread of its io_context (`home`), which `start_accept_` chose in turn
(`GetContext`) before the client connected; a failed accept uses up a turn.  The
map without a lock is used by these threads (`handler`, inside an erasure) and by
the main thread (`mpc = "insert"`); what follows an overlap is as in
`StrandServer`.  `RunReturns` is the end of `run()`: `stop()` has given up the
guard and nothing is outstanding in the io_context.  Requests and replies are
counted only, since their order is the subject of the other modules.

### `HttpServer`

`op[c]` is the chain of a connection (reading, the queued read callback, writing,
the queued write callback), `timer[c]` its deadline; each has its operation end
first and its callback run later, so the timer may be expired, with its callback
queued, when `WriteCallback` cancels it.  `Destroyed` is the moment at which no
callback holds `self` any more.  The routes are reduced to what a client or the
process can tell apart: a count, another answer, an exception, a request that
cannot be parsed.

### `LogicQueue`

`Push` and `NotifyAndUnlock` are the critical section of a poster, `Test`,
`Take`, `Skip` and `CallBack` the worker.  A post notifies only if it found the
queue empty; `NoSleepOnWork` says why that is enough.  The destructor belongs to
a singleton that nobody deletes, so `b_stop_` is never set: the lines that test
it, whose loop condition is inverted (`logic_sys.cc:60`), are unreachable.

### `StickyPacket`

The peer writes frames (header, then body, of chosen lengths, one of them above
the limit); a byte is a pair of frame and position, so what a memcpy took from
the wrong place is told apart.  `ReadSome` (external) delivers any non-empty
division of the stream; the parser's branches are actions of their own
(`HeadPartial`, `HeadComplete`, `HeadInvalid`, `HeadThenPart`, `HeadThenBody`,
`BodyPartial`, `BodyRest`), in the order in which the callback takes them.  A
body handled may throw (`MayThrow`), as the JSON handling of S06 can; its
catch-all leaves the session registered without a read, recorded by `threw`.

`FramedEcho` leaves this parsing out: its frames are found in the stream.

### `Echo`, `EchoNetwork`, `RawEcho`, `FramedEcho`, `EchoServers`

`Echo` is what all the servers have in common: what a client asked for comes back
to it, each item once, in order, and in the end, unless the client is `over`.
`EchoServers` chooses one `program` initially and lets its actions run;
`ImplementsEcho` says that each of them implements `Echo`, under a refinement
that keeps `asked` and `back` and computes `over`: the client left, the
connection or the server ended, a reply was refused by a full queue, a length of
-1 was read, or (S03 `CSession2`) the buffer was cleared under a write that was
not complete.

In `RawEcho` the items are bytes.  A session has a read and a write (not
started, outstanding, ended, failed); `Arrive` ends a read with any number of the
bytes that wait, `Write` starts a write of which the socket takes any part at
once and the rest later (`Transmit`).  What is left of a write is read from where
it was started, `data_` or the node in the queue, at that later moment: so a
buffer reused too early shows in what the client gets.  The five programs differ
in the actions that follow: reading and writing in turn, or (`QueuedSend`) at
once; ending the object, the thread or the coroutine, or removing the session
from the map, after which the callbacks still outstanding keep it alive
(`LetGo`); and what an exception ends: the session (S02), the coroutine that
listens (S11) or, through `run()`, the process (S03).

In `FramedEcho` the items are messages.  A frame carries the two bytes of its
header as a number; each step encodes them in its own node constructor
(`S04Node` … `SendNode12`) and decodes them by `DataLen` with the
width and sign of a `short`.  Both ends can go on only if they decode the length
that was encoded.  The clients send what their programs send: typed lines of the
shortest and longest length, or a constant message; in S04 and S12 a foreign
client also sends lengths that are over the limit or negative, in S12 among
them -1, which is taken for valid.  The server's
session holds the queue with its limit, `held` is the entry in the map, `inbox`
the queue of the logic thread.  An invalid length takes three courses: the
session ends (S12, but for -1), leaves the map and reads no more (S04 – S06), or
leaves the map and goes on (S07 – S10).

### `QuitServer`

`LogicQueue` with the I/O threads that post (`running`), the main thread
(`main`), and signals.  In "cstyle" a signal handler runs on the main thread or on
another; it needs `g_quit_mutex`.  `late` records that the flag was set between
the unlocked test and the wait.  In S09 `pool.stop()` does not stop the
io_contexts: a thread returns only without connections (`connected`).

### `HttpClient`

The chain of the S13 client as a position, `chain[c]`; its connection is one of
`HttpServer`'s, or one to some other server that answers or not.  The status
line is read into `request_` and searched in `response_`, so the client reports
an invalid response whatever it got: the two callbacks behind that are
unreachable and left out.

### `AsyncApi`

`way` is which of the three ways of writing is used; `ops` and `ended` are the
writes outstanding and the callbacks due; a null `send_node_` is 0.  From some
point on the writes may fail (`SocketFails`): the queueing callbacks then return
with the queue and `send_pending_` as they are, that of `write_to_socket_err()`
does not look at its error.

## 3. Runs

| run | instance | shows |
|---|---|---|
| `session_send` | 2 callers, limit 2 (3 queued), frames of 2 parts, 6 calls, fair | `BufferStaysQueued`, `OneWriteAtATime`, `QueueHasWriter`, the refinement `ImplementsChannel`, `AcceptedIsSent` |
| `logic_system` | 3 posts of any kind, stop at any time, fair | `FifoOnce`, `CalledOnce`, `NoSleepOnWork`, `EveryPostHandled`, `JoinReturns` |
| `logic_queue` | 2 posters, 3 posts, one signal, 5 programs, fair | `FifoOnce`, `NoSleepOnWork`, `EveryPostHandledOrQuit`; `QuitReturns`: a signal ends the process unless it came between test and wait, waits for the mutex it interrupted, or (S09) a client stays |
| `echo_servers` | 13 programs and the parser; one client with 3 requests, 2 of them unanswered at a time, one with 1; lines of 1 or 2 bytes and buffers of 2, or messages of the shortest and longest length; a reply queue of 2; parser: 3 frames, header 2, limit 5, lengths 0, 1, 5 and 6 (invalid), any division; fair | the refinement `ImplementsEcho`; `HeldWhileServed`: no session is forgotten or used after its end; `ParsedExactly`, `ServedWhileRegistered`, `EveryFrameHandled` of the parser |
| `coroutine_server` | 2 clients, one with 2 pipelined requests (known, then known or empty), one with a request of any kind, one reply queued at most, fair | `AnsweredInOrder`, `SessionsAreServed`, `KnownAnswered`, `StopReturns` |
| `strand_server` | 2 threads, 2 clients, one with 3 pipelined requests, one with an oversized one, two replies queued at most | `AnsweredInOrder`, `SessionsAreServed` |
| `strand_stop` | 2 threads, 1 client, 2 requests of all kinds, one reply queued at most, fair | `StopReturns` |
| `strand_not_serial` | 2 threads, 2 clients | *violates* `CallbacksSerialised`: a comment says the strands share one queue, which would serialise all callbacks |
| `service_pool` | 2 io_contexts, 2 interchangeable clients, 2 requests in all (known, oversize), one reply queued at most, failing accepts | `SpreadEvenly`, `SessionsAreServed` |
| `pool_stop` | 2 io_contexts, 1 client, fair | *violates* `GuardsReleaseRun`: a comment says that the destruction of the work guard unblocks `run()`; it does not while a client stays |
| `http_server` | 2 clients with requests of all kinds, one of them possibly that of S13, fair | `CountsGrow`, `AnsweredUnlessLate`, `EveryConnectionEnds`, `ClientEnds` |
| `async_api` | 2 messages of 2 bytes | *violates* `QueuedInOrder`: the header calls the queueing way correct and ordered; its second message is written from a node that was never set |

Each passing run but `strand_stop` also checks the type invariant of its module.
The violating runs show where the code does something else than its comments
say; nothing else in the models depends on them.

*Bounds.*  `MaxCalls`, `MaxPosts`, `MaxRequests`, `MaxAsked` and `Frames` end the histories.
The queues are bounded so that they overflow within these histories (six calls
against three places, two pipelined requests against one), which is what the
limit is there for; the sizes themselves (1000 replies, 2048 bytes) do not matter
to any branch but the comparison with them.  `Contexts` = 2 lets two erasures, or
an erasure and the insertion, meet on the map; `MaxRequests` counts the requests
of both clients there, so that one of them can fill its queue.  Two callers are the logic thread and
any other one; the program has one, so the model allows more than happens.  Two
clients suffice for the hazards between clients: each of them relates one session
to the shared queue, the map or the main thread.  In
`coroutine_server` one reply at most is queued, so that two requests overflow
the queue; that a second reply waits and is written by `write_callback_` happens
in `session_send`, `strand_server` and `echo_servers`.  `strand_server` has
`MaxSendQue` = 1, that is, a reply being written, one that waits for it and a
third that is refused; its second client shares the queue of the logic thread
and the map, and is the one that goes on after its session was erased.  One
client suffices for `strand_stop`, where the stop falls between the steps of its
accept, read and write callbacks on the two threads.  Three frames cover every pair of neighbours followed by a
third; the lengths are zero, one, the limit and one above it; a header of two
bytes can be split.  In `echo_servers` one client has three requests of which
two are unanswered, so that a queue fills and a reply waits behind a write, and
the other one stands for everybody else.  One signal is enough for `QuitServer`:
another one finds the flag set.  Deadlock is not checked where the system comes to rest:
everything sent, or the process ended.

*Fairness.*  `WF` of what the threads do when they can: the worker and the main
thread run, a handler that was begun ends, an io_context dispatches each
completed operation.  The peer is assumed to *read* (a write in progress goes on);
it is never assumed to send or to leave: `StopReturns` of `CoroutineServer` says
what follows if all leave, that of `StrandServer` needs no such premise, and in
`HttpServer` the peer need not even read, since the deadline ends the connection.  No
fairness for the spurious wakeup, the signal or the failure of an operation on a
good connection.  In `EchoServers` the work for each client is fair on its own,
the client that waits for a reply reads, and no client has to ask or leave; the
peer of the parser, which goes on writing, is asked for only where `program` is
the parser.  In
`QuitServer` the signal handler gets its mutex in the end although the main thread
takes it again and again (`SF`).  Liveness is conditional on the events that legitimately end a
session or the process (closing, a full queue, a callback that throws, a missed
notification), each named in the property.

## 4. Proofs

Every type invariant and every safety invariant that a passing run checks is proved
for all values of the constants, and so are the refinement of `FrameChannel` and
the safety part of that of `Echo`.  Each proof module has one inductive invariant,
`IInv`; that of the larger modules was checked by TLC, on the bounds of the
runs, before it was proved.  The proofs assume the `ASSUME` of each module and nothing
else.

| module | theorems, and the property each states |
|---|---|
| `SessionSendProofs` | `TypeCorrect` (`TypeOK`), `AlwaysOneWrite` (`OneWriteAtATime`), `BufferAlwaysQueued` (`BufferStaysQueued`), `QueueAlwaysHasWriter` (`QueueHasWriter`), `StreamAlwaysInOrder`, `Refinement` (`ImplementsChannel`) |
| `LogicSystemProofs` | `TypeCorrect`, `FifoAlways` (`FifoOnce`), `CalledOnceAlways` (`CalledOnce`), `FrontAlwaysExists`, `NeverSleepsOnWork` (`NoSleepOnWork`), `AlwaysDrained`, `JoinHangsOnlyIfMissed` |
| `LogicQueueProofs` | `TypeCorrect`, `FrontAlwaysExists`, `NeverSleepsOnWork`, `EachMessageOnce` (`FifoOnce`), `QueueInServer`, `ServerQueueSafe` |
| `CoroutineServerProofs` | `CoroutineTypeCorrect`, `CoroutineAnsweredInOrder` (`AnsweredInOrder`), `CoroutineSessionsServed` (`SessionsAreServed`) |
| `StrandServerProofs` | `StrandTypeCorrect`, `AlwaysAnsweredInOrder` (`AnsweredInOrder`), `StrandSessionsServed` (`SessionsAreServed`) |
| `IOServicePoolProofs` | `PoolTypeCorrect`, `AlwaysSpreadEvenly` (`SpreadEvenly`), `AlwaysSessionsServed` (`SessionsAreServed`) |
| `HttpClientProofs` | `HttpTypeCorrect`, `CountsAlwaysGrow` (`CountsGrow`), `AlwaysAnsweredUnlessLate` (`AnsweredUnlessLate`) |
| `EchoServersProofs` | `AlwaysServersTypeOK` (`ServersTypeOK`), `AlwaysHeldWhileServed` (`HeldWhileServed`), `AlwaysParsedExactly` (`ParsedExactly`), `AlwaysServedWhileRegistered` (`ServedWhileRegistered`), `ServersRefineEcho` (the safety part of `ImplementsEcho`) |

### The detailed modules of S12 and S08 – S10

`SessionSendProofs`: for every set of callers, limit, frame length and number of
calls.  `IInv` adds `QueueNumbered` (the queue holds consecutive numbers that end
with the last accepted) and `PeerExpects` (the part the peer expects next is the
next unsent part of the front message, from which `StreamInOrder`, that whole
frames arrive in the order of acceptance, follows step by step).  The central
argument: a thread that may start a write either pushed onto an *empty* queue or
popped in `write_callback_`; the first excludes an outstanding write by
`BufferStaysQueued`, the second ends the only one; the single I/O thread does the
rest.

`LogicSystemProofs`: for any number of posts.  Three facts stand behind the
checked properties and have no run of their own: `FrontExists` (no `front()` of an
empty queue), `ExitDrained` (the worker leaves an empty queue behind) and
`SleepsInJoinOnlyIfMissed` (the safety part of `JoinReturns`).  The strengthening
`Seen` says what the worker knows at each place while it holds `mutex_`: at
*block* the queue is empty, at *go* it is not or `b_stop_` is set, from *handle* to
*pop* the front is there.  `BegunSeen` ties the message whose callback has begun
to the front of the queue.

`LogicQueueProofs`: for any number of posters and posts.  A push finds `mutex_`
free, hence nobody about to announce, hence an empty queue if the worker sleeps;
that, `FrontExists` and `TakenIsMessage` are inductive together.  For `FifoOnce`
the messages are numbered: the queue holds the last ones posted, the one in hand
comes before them (`Numbering`), and those done with are all the others, called in
order or skipped (`DoneOnce`).  `QueueInServer` shows that every step of
main, signals and clients in `QuitServer` is a stutter of the queue, so that all
of it holds in the servers (`ServerQueueSafe`).

### The servers as a whole

`CoroutineServerProofs` and `StrandServerProofs`: for any clients (and threads), limit,
kinds and number of requests.  `AnsweredInOrder` compares what a client has with
what it asked for; between the two the requests and replies are in half a dozen
places, on three threads, and the invariant has to name the numbers in each.
Requests: those the client has begun, those in the stream, the one being read,
those in the queue shared by all clients, those handled, are the numbers from 1 on
without gap (`InboundNumbered`, `QueueNumbered`); the messages of other
clients lie between them in the queue, so this is said of the set of the places
that hold a message of the client.  Replies: those received and those not out yet
are in order and are just those owed (`RepliesNumbered`): the requests that were
handled, have a callback and whose reply was not refused by a full queue.  For
`CoroutineServer` the stream has an item for every header and body, and
`Alternating` says which is where, up to the first request without a body: that
one ends the session, and what follows it is never read.  `SessionsAreServed`
speaks of moments at which nobody is inside the map, so `MapAhead` says
where every session is at the others: the map as it will be when all threads are
through, with the one insertion and the erasures that are under way.  In
`StrandServer` a session that read a length above the limit is erased although
it goes on: `OversizedStarted` says it was started before, so that the only way
back into the map is the insertion its erasure overtook.

`IOServicePoolProofs`: for any pool, clients and number of requests.  The same
`MapAhead`; and for `SpreadEvenly`, which counts the sessions of each io_context,
`TurnsTaken`: the first `t` have had one more than the others, where `t` is whose
turn it is.

`HttpClientProofs`: for any finite set of clients, those of S13 among them.  A
count is the number of the responses that hold one (`Counting`), therefore a new
one is above all the others.  `Chained` says what is known of a client that stays
at each point of its connection's chain of operations; `AnsweredUnlessLate` is
that at its end.

### `EchoServersProofs`

For any clients, any number of requests and of unanswered ones, any buffer size,
limit and lengths, and all programs.  `IInv` has a part for each kind:

* *The parser.*  `StreamOfFrames` describes the stream itself, `Buffered` says that
  `data_` holds its last bytes read, and `Nodes` is the heart: as long as the
  parser goes on, the next byte to parse is byte `Len(headNode) + 1` of the frame
  after the last one delivered, or byte `HeadLength + Len(msgNode) + 1` once its
  head is parsed, and the two nodes hold what precedes it.  Each branch of the
  callback takes a piece of `data_` and moves along the stream by its length.
* *Without a protocol* (`RawOrdered`).  Of `x` bytes read `b` have come back; the
  others are in `data_` from the place that the outstanding write has come to
  (`InTurns`) or, in S03 `CSession2`, in the nodes of the queue, each of which goes
  on where the one before it ends, and in `data_` (`InQueue`).  A buffer cleared
  under a write that is not complete breaks this, and the client is `over`.
* *With frames* (`FramedOrdered`).  The messages of a client are one behind the
  other in what it sent, in the queue of `LogicSystem`, in the queue of replies and
  on the way back (`InStep`); only the front of the queue of replies may be in two
  places, between the write and its callback.  In the queue shared by all
  clients a client's line is the set of its places (`InLine`).
* *Sessions* (`RawHeld`, `FramedHeld`).  What keeps a connection served: the read
  or write outstanding; in the framed servers the queue of replies is empty exactly
  when none is written.  `Spent` are the sessions of which nothing more is
  promised: a reply was refused, or the length -1 was read.

A step concerns one client (`RawLocal`, `FramedLocal`), but for the queue of
`LogicSystem`, which it may extend or shorten by a message of that client, and the
closing of the acceptor.  There is one lemma for each action; it shows that the invariant
holds after it and that the step is one of `Echo` (`Shown`): an `Ask`, an
`Answer` with the very items that follow, or nothing.  `ServersRefineEcho` is their
conclusion.  What it adds to the runs is every mixture of lengths, partial
reads and writes, and clients of which some run ahead, some leave and some are
refused.

### What is only model-checked

* Liveness: `AcceptedIsSent`, `EveryPostHandled`, `JoinReturns`,
  `EveryPostHandledOrQuit`, `QuitReturns`, `KnownAnswered`, `StopReturns`,
  `EveryFrameHandled`, `EveryRequestAnswered` in `ImplementsEcho`, `EveryConnectionEnds` and
  `ClientEnds`.  The prover has no rule for fairness or `ENABLED`.  Of
  `ImplementsEcho` the initial states and the steps are proved; as it
  includes the liveness of `Echo`, no theorem states it as a whole.
* What a recursive definition computes for every input: that would need an
  induction over data, which the installed provers cannot do.  The modules
  have no `RECURSIVE` operator, so nothing rests on one.  The one induction needed, on
  natural numbers, is made by way of the least one (`LeastNatural` in
  `HttpClientProofs`).
* The ends of `QuitServer`, and `AsyncApi`, whose one property is violated.

## 5. Not modelled

* S01 `BaseApi`, `proto_test` and `json_test`: single calls of a library, no state
  between them.  Generated protobuf code, JSON and gRPC are libraries.
* S13's `main()`: it starts a server class that the repository does not contain.
  The session, server, logic system and pool beside it are those of S12, to whose
  modules some of their lines are mapped.
* `cstyle_quit_server()` of S10: its server is destroyed while the pool still
  accepts for it, which is undefined.
* What a client prints, and that those of S03 and S11 read a reply as long as their
  request; the array of the S04 and S07 clients that is one byte short for the
  longest line: a client may leave at any time, whatever the reason.
* The parsers of S04 – S06 on a negative length: the exception or the array that
  follows depends on the number (S12's, which catches the exception, is modelled).
* What follows a length of -1 in S12: its array is empty, written before its
  first place, and read into without bound.  C++ defines nothing; in `FramedEcho`
  the session waits for ever or the process ends.  S10's, likewise undefined, is
  left out of `StrandServer`, whose "negative" lengths are those below -1.
* Calls on one asio socket from two threads (`close()` against `async_write`)
  are each atomic here; in C++ they are a data race inside the library.
* Ids: one without a callback is a kind of request, in a header they are no
  different from lengths.
* `IOContextPool` with more than one io_context: the singleton has one.  A pool of
  S09 with none (`hardware_concurrency()` may return 0).
* A process that fails to start (the port in use).

## 6. Plan

1. The safety halves of the liveness properties, as invariants of states in which
   nothing can go on: in `QuitServer` the main thread is stuck only if the
   signal came too late or finds its mutex held; in `StickyPacket` a frame whose
   last byte was read is handled (`EveryFrameHandled` without fairness).
2. `CoroutineServer` and `StrandServer` as implementations of `Echo`.
3. Who is in the map after the end: the counterpart of `SessionsAreServed` when
   the pool is joined.
