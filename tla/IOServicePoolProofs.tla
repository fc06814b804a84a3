------------------------ MODULE IOServicePoolProofs -------------------------
(***************************************************************************)
(* What holds of the server with a pool of io_contexts (IOServicePool) for *)
(* any clients, any size of the pool and any number of requests.  The      *)
(* inductive invariant adds to the types                                   *)
(*   - that a session with an outstanding write has something to send,     *)
(*   - for whom a thread may be inside remove_session(),                   *)
(*   - where every session is, also while the main thread is about to      *)
(*     insert one: the map as it will be when all are out of it,           *)
(*   - how many sessions each io_context has, by whose turn it is.         *)
(***************************************************************************)
EXTENDS IOServicePool, FiniteSetTheorems, SequenceTheorems, TLAPS

\* The main thread is in accept_callback_, its session not yet inserted.
InsertPending == mpc \in {"started", "insert"}

Pending(c) == InsertPending /\ accepting = c

WritersHaveReplies ==
  /\ \A c \in writing : out[c] > 0
  /\ InsertPending => accepting \in Client

\* A thread is inside remove_session(c) because of an error.
Erasing(c) == \E i \in Context : handler[i] = <<"erase", c>>

\* Only a session that was closed, or whose header was oversized, is erased.
ErasersKnown ==
  \A i \in Context, c \in Client :
    /\ handler[i] = <<"eraseGoOn", c>> =>
         rpc[c] = "gotHead" /\ home[c] = i /\ c \in oversized
    /\ handler[i] = <<"erase", c>> => c \notin open

MapAhead ==
  ~overlapped =>
    \A c \in Client : rpc[c] # "none" =>
      /\ c \in open => c \in sessions \/ c \in oversized \/ Pending(c)
      /\ rpc[c] = "done" /\ (c \in sessions \/ Pending(c)) =>
           c \in raced \/ Erasing(c)

\* The sessions bound to io_context i; Load(i) is their number.
Bound(i) == {c \in Client : rpc[c] # "none" /\ home[c] = i}

\* Every io_context has had q sessions, those before t one more.
Dealt(q, t) ==
  \A i \in Context : Load(i) = q + (IF i < t THEN 1 ELSE 0)

TurnsTaken ==
  /\ next = IF waiting + 1 = Contexts THEN 0 ELSE waiting + 1
  /\ \A i \in Context : IsFiniteSet(Bound(i))
  /\ ~failed =>
       \E q \in Nat, t \in {waiting, waiting + 1} :
         /\ mpc = "accept" => t = waiting
         /\ InsertPending => t = waiting + 1
         /\ Dealt(q, t)

IInv ==
  TypeOK /\ WritersHaveReplies /\ ErasersKnown /\ MapAhead /\ TurnsTaken
-----------------------------------------------------------------------------
LEMMA ContextFacts ==
  /\ Contexts \in Nat \ {0}
  /\ MaxSendQue \in Nat
  /\ Context \subseteq Nat
  /\ 0 \in Context
  /\ \A n \in Context : n + 1 = Contexts \/ n + 1 \in Context
  /\ 1 % Contexts = IF 1 = Contexts THEN 0 ELSE 1
<1>1. Contexts \in Nat \ {0} /\ MaxSendQue \in Nat
  BY PoolAssumption
<1>2. 1 % Contexts = IF 1 = Contexts THEN 0 ELSE 1
  BY <1>1
<1> QED
  BY <1>1, <1>2 DEF Context

-----------------------------------------------------------------------------
(***************************************************************************)
(* The types.                                                              *)
(***************************************************************************)
LEMMA TypesInitially == Init => TypeOK /\ WritersHaveReplies
<1> SUFFICES ASSUME Init PROVE TypeOK /\ WritersHaveReplies
  OBVIOUS
<1>1. next \in Context /\ waiting \in Context
  BY ContextFacts DEF Init, Context
<1>2. /\ home \in [Client -> Context]
      /\ out \in [Client -> 0 .. MaxSendQue + 1]
      /\ begun \in 0 .. MaxRequests
  BY PoolAssumption, ContextFacts DEF Init
<1>3. msgQue \in Seq(Client)
  BY DEF Init
<1>4. /\ handler \in [Context -> {Idle, Exited}
                                   \cup ({"erase", "eraseGoOn"} \X Client)]
      /\ reading \in [Client -> Kind \cup {NoRequest}]
      /\ accepting \in Client \cup {NoClient}
  BY DEF Init
<1> QED
  BY <1>1, <1>2, <1>3, <1>4
  DEF Init, TypeOK, WritersHaveReplies, InsertPending

\* A thread inside remove_session() is there for a client.
LEMMA EraserTyped ==
  ASSUME TypeOK, NEW i \in Context,
         handler[i][1] \in {"erase", "eraseGoOn"}
  PROVE  /\ handler[i][2] \in Client
         /\ handler[i] = <<handler[i][1], handler[i][2]>>
<1>1. handler[i] \in {Idle, Exited} \cup ({"erase", "eraseGoOn"} \X Client)
  BY DEF TypeOK
<1>2. handler[i] # Idle /\ handler[i] # Exited
  BY DEF Idle, Exited
<1>3. handler[i] \in {"erase", "eraseGoOn"} \X Client
  BY <1>1, <1>2
<1> QED
  BY <1>3

LEMMA EntersTyped ==
  ASSUME TypeOK, NEW c \in Client, NEW what \in {"erase", "eraseGoOn"},
         Erase(what, c)
  PROVE  /\ handler' \in [Context -> {Idle, Exited}
                                   \cup ({"erase", "eraseGoOn"} \X Client)]
         /\ overlapped' \in BOOLEAN
<1>1. home[c] \in Context
  BY DEF TypeOK
<1>2. <<what, c>> \in {"erase", "eraseGoOn"} \X Client
  OBVIOUS
<1>3. handler' = [handler EXCEPT ![home[c]] = <<what, c>>]
  BY DEF Erase
<1>4. overlapped' \in BOOLEAN
  BY DEF Erase, EnterMap, TypeOK
<1> QED
  BY <1>1, <1>2, <1>3, <1>4 DEF TypeOK

LEMMA TypeStep ==
  ASSUME TypeOK, WritersHaveReplies, [Next]_vars
  PROVE  TypeOK' /\ WritersHaveReplies'
<1> USE DEF TypeOK, WritersHaveReplies, InsertPending
<1> DEFINE Keeps == TypeOK' /\ WritersHaveReplies'
<1>1. ASSUME NEW c \in Client, Clients(c) PROVE Keeps
  <2>1. ASSUME Connect(c) \/ Leave(c) PROVE Keeps
    BY <2>1 DEF Connect, Leave, mainVars, mapVars, readVars, sendVars
  <2>2. ASSUME NEW k \in Kind, HeadArrives(c, k) PROVE Keeps
    <3>1. begun' \in 0 .. MaxRequests
      BY <2>2, PoolAssumption DEF HeadArrives
    <3> QED
      BY <2>2, <3>1 DEF HeadArrives, mainVars, mapVars, sendVars
  <2> QED
    BY <1>1, <2>1, <2>2 DEF Clients
<1>2. ASSUME NEW c \in Client, Reading(c) PROVE Keeps
  <2>1. ASSUME BodyArrives(c) \/ ReadHead(c) PROVE Keeps
    BY <2>1 DEF BodyArrives, ReadHead, mainVars, mapVars, sendVars, peerVars
  <2>2. ASSUME ReadMsg(c) PROVE Keeps
    <3>1. msgQue' \in Seq(Client)
      BY <2>2, AppendProperties DEF ReadMsg
    <3> QED
      BY <2>2, <3>1 DEF ReadMsg, mainVars, mapVars, sendVars, peerVars
  <2>3. ASSUME ReadHeadOversize(c) \/ ReadError(c) PROVE Keeps
    BY <2>3, EntersTyped DEF ReadHeadOversize, ReadError, mainVars, sendVars,
                             peerVars
  <2> QED
    BY <1>2, <2>1, <2>2, <2>3 DEF Reading
<1>3. ASSUME NEW c \in Client, Writing(c) PROVE Keeps
  <2>1. ASSUME Transmit(c) PROVE Keeps
    BY <2>1 DEF Transmit, mainVars, mapVars, readVars, peerVars
  <2>2. ASSUME WriteCallbackOk(c) PROVE Keeps
    BY <2>2, ContextFacts
    DEF WriteCallbackOk, mainVars, mapVars, readVars, peerVars
  <2>3. ASSUME WriteCallbackError(c) PROVE Keeps
    BY <2>3, EntersTyped DEF WriteCallbackError, mainVars, readVars, peerVars
  <2> QED
    BY <1>3, <2>1, <2>2, <2>3 DEF Writing
<1>4. ASSUME NEW c \in Client, AcceptStart(c) PROVE Keeps
  BY <1>4 DEF AcceptStart, mapVars, sendVars, peerVars
<1>5. CASE AcceptInsert
  BY <1>5 DEF AcceptInsert, EnterMap, readVars, sendVars, peerVars
<1>6. ASSUME GetContext PROVE waiting' \in Context /\ next' \in Context
  BY <1>6, ContextFacts DEF GetContext
<1>7. CASE AcceptInserted
  BY <1>6, <1>7 DEF AcceptInserted, LeaveMap, readVars, sendVars, peerVars
<1>8. CASE AcceptFails
  BY <1>6, <1>8 DEF AcceptFails, mapVars, readVars, sendVars, peerVars
<1>9. CASE Signal \/ Join
  BY <1>9 DEF Signal, Join, mapVars, readVars, sendVars, peerVars
<1>10. ASSUME NEW i \in Context, Erased(i) PROVE Keeps
  <2>1. handler[i][2] \in Client
    BY <1>10, EraserTyped DEF Erased
  <2> QED
    <3>1. /\ mpc' \in {mpc, "terminated"}
          /\ sessions' \subseteq Client
      BY <1>10 DEF Erased, LeaveMap
    <3>2. /\ raced' \subseteq Client
          /\ rpc' \in [Client -> {"none", "head", "gotHead", "body",
                                 "gotBody", "done"}]
          /\ handler' \in [Context -> {Idle, Exited}
                                   \cup ({"erase", "eraseGoOn"} \X Client)]
      BY <1>10, <2>1 DEF Erased
    <3>3. UNCHANGED <<accepting, waiting, next, home, failed, overlapped,
                      reading, oversized, open, out, writing, written, msgQue,
                      peer, begun>>
      BY <1>10 DEF Erased, sendVars, peerVars
    <3> QED
      BY <3>1, <3>2, <3>3
<1>11. ASSUME NEW i \in Context, RunReturns(i) PROVE Keeps
  BY <1>11 DEF RunReturns, mainVars, mapVars, readVars, sendVars, peerVars
<1>12. CASE Reply
  <2>1. Head(msgQue) \in Client /\ msgQue' \in Seq(Client)
    BY <1>12, HeadTailProperties DEF Reply
  <2> QED
    <3>1. CASE out[Head(msgQue)] > MaxSendQue
      BY <1>12, <2>1, <3>1 DEF Reply, mainVars, mapVars, readVars, peerVars
    <3>2. CASE ~(out[Head(msgQue)] > MaxSendQue)
      <4>1. out[Head(msgQue)] + 1 \in 0 .. MaxSendQue + 1
            /\ out[Head(msgQue)] + 1 > 0
        BY <2>1, <3>2, ContextFacts
      <4>2. /\ out' = [out EXCEPT ![Head(msgQue)] = @ + 1]
            /\ writing' = IF out[Head(msgQue)] = 0
                          THEN writing \cup {Head(msgQue)} ELSE writing
        BY <1>12, <3>2 DEF Reply
      <4>3. /\ out' \in [Client -> 0 .. MaxSendQue + 1]
            /\ \A c \in writing' : out'[c] > 0
        BY <2>1, <4>1, <4>2
      <4>4. writing' \subseteq Client /\ written \subseteq writing'
        BY <2>1, <4>2
      <4> QED
        BY <1>12, <2>1, <4>3, <4>4
        DEF Reply, mainVars, mapVars, readVars, peerVars
    <3> QED
      BY <3>1, <3>2
<1>13. CASE UNCHANGED vars
  BY <1>13 DEF vars, mainVars, mapVars, readVars, sendVars, peerVars
<1> QED
  BY <1>1, <1>2, <1>3, <1>4, <1>5, <1>7, <1>8, <1>9, <1>10, <1>11, <1>12,
     <1>13 DEF Next, Accept
-----------------------------------------------------------------------------
(***************************************************************************)
(* Who is inside remove_session(), and what the map will be.               *)
(***************************************************************************)
\* No thread is inside it for a session whose io_context is free to run.
LEMMA RunsAlone ==
  ASSUME TypeOK, ErasersKnown, NEW c \in Client, MayRun(c)
  PROVE  \A i \in Context : handler[i] # <<"eraseGoOn", c>>
<1> SUFFICES ASSUME NEW i \in Context, handler[i] = <<"eraseGoOn", c>>
             PROVE  FALSE
  OBVIOUS
<1>1. home[c] = i
  BY DEF ErasersKnown
<1> QED
  BY <1>1 DEF MayRun, Idle

\* What enters or leaves no handler keeps them, unless it takes the header
\* away from under one.
LEMMA ErasersAside ==
  ASSUME ErasersKnown, UNCHANGED <<handler, home>>,
         \A c \in Client :
           rpc[c] = "gotHead" /\ (\E i \in Context :
                                    handler[i] = <<"eraseGoOn", c>>)
             => rpc'[c] = "gotHead",
         oversized \subseteq oversized',
         open' \subseteq open
  PROVE  ErasersKnown'
  BY DEF ErasersKnown

LEMMA ErasersEnter ==
  ASSUME TypeOK, ErasersKnown, NEW c \in Client, MayRun(c), home' = home,
         \/ Erase("erase", c) /\ c \notin open' /\ oversized' = oversized
         \/ /\ Erase("eraseGoOn", c) /\ rpc[c] = "gotHead" /\ rpc' = rpc
            /\ oversized' = oversized \cup {c},
         open' \subseteq open,
         \A d \in Client \ {c} : rpc'[d] = rpc[d]
  PROVE  ErasersKnown'
<1> SUFFICES ASSUME NEW i \in Context, NEW d \in Client
             PROVE  /\ handler'[i] = <<"eraseGoOn", d>> =>
                         rpc'[d] = "gotHead" /\ home'[d] = i /\ d \in oversized'
                    /\ handler'[i] = <<"erase", d>> => d \notin open'
  BY DEF ErasersKnown
<1>1. CASE i # home[c]
  <2>1. handler'[i] = handler[i]
    BY <1>1 DEF Erase, TypeOK
  <2>2. handler[i] # <<"eraseGoOn", c>>
    BY RunsAlone
  <2> QED
    BY <2>1, <2>2 DEF ErasersKnown
<1>2. CASE i = home[c] /\ Erase("erase", c)
  <2>1. handler'[i] = <<"erase", c>>
    BY <1>2 DEF Erase, TypeOK
  <2>2. ~Erase("eraseGoOn", c)
    BY <1>2, <2>1 DEF Erase, TypeOK
  <2> QED
    BY <1>2, <2>1, <2>2
<1>3. CASE i = home[c] /\ Erase("eraseGoOn", c)
  <2>1. handler'[i] = <<"eraseGoOn", c>>
    BY <1>3 DEF Erase, TypeOK
  <2>2. ~Erase("erase", c)
    BY <1>3, <2>1 DEF Erase, TypeOK
  <2> QED
    BY <1>3, <2>1, <2>2
<1> QED
  BY <1>1, <1>2, <1>3

LEMMA EraserStep ==
  ASSUME TypeOK, ErasersKnown, [Next]_vars
  PROVE  ErasersKnown'
<1> USE DEF TypeOK
<1>1. ASSUME NEW c \in Client, Clients(c) PROVE ErasersKnown'
  <2>1. ASSUME Connect(c) \/ Leave(c) PROVE ErasersKnown'
    BY <2>1, ErasersAside DEF Connect, Leave, mainVars, readVars
  <2>2. ASSUME NEW k \in Kind, HeadArrives(c, k) PROVE ErasersKnown'
    BY <2>2, ErasersAside DEF HeadArrives, mainVars
  <2> QED
    BY <1>1, <2>1, <2>2 DEF Clients
<1>2. ASSUME NEW c \in Client, Reading(c) PROVE ErasersKnown'
  <2>1. ASSUME BodyArrives(c) PROVE ErasersKnown'
    BY <2>1, ErasersAside DEF BodyArrives, mainVars
  <2>2. ASSUME ReadHead(c) \/ ReadMsg(c) PROVE ErasersKnown'
    <3>1. MayRun(c)
      BY <2>2 DEF ReadHead, ReadMsg
    <3>2. \A d \in Client \ {c} : rpc'[d] = rpc[d]
      BY <2>2 DEF ReadHead, ReadMsg
    <3>3. UNCHANGED <<handler, home, oversized, open>>
      BY <2>2 DEF ReadHead, ReadMsg, mainVars
    <3> QED
      BY <3>1, <3>2, <3>3, RunsAlone, ErasersAside
  <2>3. ASSUME ReadHeadOversize(c) PROVE ErasersKnown'
    BY <2>3, ErasersEnter DEF ReadHeadOversize, mainVars
  <2>4. ASSUME ReadError(c) PROVE ErasersKnown'
    BY <2>4, ErasersEnter DEF ReadError, mainVars
  <2> QED
    BY <1>2, <2>1, <2>2, <2>3, <2>4 DEF Reading
<1>3. ASSUME NEW c \in Client, Writing(c) PROVE ErasersKnown'
  <2>1. ASSUME Transmit(c) \/ WriteCallbackOk(c) PROVE ErasersKnown'
    BY <2>1, ErasersAside
    DEF Transmit, WriteCallbackOk, mainVars, readVars
  <2>2. ASSUME WriteCallbackError(c) PROVE ErasersKnown'
    BY <2>2, ErasersEnter DEF WriteCallbackError, mainVars, readVars
  <2> QED
    BY <1>3, <2>1, <2>2 DEF Writing
<1>4. ASSUME NEW c \in Client, AcceptStart(c) PROVE ErasersKnown'
  BY <1>4 DEF AcceptStart, ErasersKnown
<1>5. CASE AcceptInsert \/ AcceptInserted \/ AcceptFails \/ Signal \/ Join
  BY <1>5 DEF AcceptInsert, AcceptInserted, AcceptFails, Signal, Join,
              readVars, ErasersKnown
<1>6. ASSUME NEW i \in Context, Erased(i) PROVE ErasersKnown'
  <2> DEFINE e == handler[i][2]
  <2>1. /\ e \in Client
        /\ handler[i] = <<"erase", e>> \/ handler[i] = <<"eraseGoOn", e>>
    BY <1>6, EraserTyped DEF Erased
  <2>2. /\ handler' = [handler EXCEPT ![i] = Idle]
        /\ home' = home /\ open' = open /\ oversized' = oversized
        /\ rpc' = IF handler[i][1] = "eraseGoOn"
                  THEN [rpc EXCEPT ![e] = "body"] ELSE rpc
    BY <1>6 DEF Erased
  <2>3. ASSUME NEW j \in Context, NEW d \in Client,
               handler'[j] = <<"eraseGoOn", d>>
        PROVE  rpc'[d] = "gotHead" /\ home'[d] = j /\ d \in oversized'
    <3>1. j # i /\ handler[j] = <<"eraseGoOn", d>>
      BY <2>2, <2>3 DEF Idle
    <3>2. rpc[d] = "gotHead" /\ home[d] = j /\ d \in oversized
      BY <3>1 DEF ErasersKnown
    <3>3. ASSUME handler[i][1] = "eraseGoOn" PROVE e # d
      BY <2>1, <3>1, <3>2, <3>3 DEF ErasersKnown
    <3> QED
      BY <2>2, <3>2, <3>3
  <2>4. ASSUME NEW j \in Context, NEW d \in Client,
               handler'[j] = <<"erase", d>>
        PROVE  d \notin open'
    BY <2>2, <2>4 DEF ErasersKnown, Idle
  <2> QED
    BY <2>3, <2>4 DEF ErasersKnown
<1>7. ASSUME NEW i \in Context, RunReturns(i) PROVE ErasersKnown'
  <2>1. \A j \in Context, d \in Client :
          /\ handler'[j] = <<"eraseGoOn", d>> => handler[j] = handler'[j]
          /\ handler'[j] = <<"erase", d>> => handler[j] = handler'[j]
    BY <1>7 DEF RunReturns, Exited
  <2>2. home' = home /\ rpc' = rpc /\ oversized' = oversized /\ open' = open
    BY <1>7 DEF RunReturns, mainVars, readVars
  <2>3. ASSUME NEW j \in Context, NEW d \in Client
        PROVE  /\ handler'[j] = <<"eraseGoOn", d>> =>
                    rpc'[d] = "gotHead" /\ home'[d] = j /\ d \in oversized'
               /\ handler'[j] = <<"erase", d>> => d \notin open'
    <3>1. ASSUME handler'[j] = <<"eraseGoOn", d>>
          PROVE  rpc[d] = "gotHead" /\ home[d] = j /\ d \in oversized
      <4>1. handler[j] = <<"eraseGoOn", d>>
        BY <2>1, <3>1
      <4> QED
        BY <4>1 DEF ErasersKnown
    <3>2. ASSUME handler'[j] = <<"erase", d>>
          PROVE  d \notin open
      <4>1. handler[j] = <<"erase", d>>
        BY <2>1, <3>2
      <4> QED
        BY <4>1 DEF ErasersKnown
    <3> QED
      BY <2>2, <3>1, <3>2
  <2> QED
    BY <2>3 DEF ErasersKnown
<1>8. CASE Reply
  BY <1>8 DEF Reply, mainVars, readVars, ErasersKnown
<1>9. CASE UNCHANGED vars
  BY <1>9 DEF vars, mainVars, readVars, ErasersKnown
<1> QED
  BY <1>1, <1>2, <1>3, <1>4, <1>5, <1>6, <1>7, <1>8, <1>9 DEF Next, Accept

\* What leaves the map, the handlers inside it and the session to be inserted
\* alone keeps the map, unless it ends the reading of a session.
LEMMA MapAside ==
  ASSUME MapAhead,
         UNCHANGED <<mpc, accepting, handler, sessions, raced, overlapped>>,
         \A c \in Client : rpc'[c] # rpc[c] =>
                             rpc[c] # "none" /\ rpc'[c] # "done",
         open' \subseteq open,
         oversized \subseteq oversized'
  PROVE  MapAhead'
  BY DEF MapAhead, Pending, InsertPending, Erasing

\* A session is closed and its erasing begins; or it is erased because of its
\* oversized header.
LEMMA EnterAside ==
  ASSUME TypeOK, MapAhead, NEW c \in Client, MayRun(c),
         \/ Erase("erase", c) /\ open' = open \ {c} /\ oversized' = oversized
         \/ /\ Erase("eraseGoOn", c) /\ open' = open /\ rpc' = rpc
            /\ oversized' = oversized \cup {c},
         \/ rpc' = rpc
         \/ rpc[c] # "none" /\ rpc' = [rpc EXCEPT ![c] = "done"],
         UNCHANGED <<mpc, accepting, sessions, raced>>
  PROVE  MapAhead'
<1> SUFFICES ASSUME ~overlapped', NEW d \in Client, rpc'[d] # "none"
             PROVE  /\ d \in open' => \/ d \in sessions'
                                      \/ d \in oversized' \/ Pending(d)'
                    /\ rpc'[d] = "done" /\ (d \in sessions' \/ Pending(d)') =>
                         d \in raced' \/ Erasing(d)'
  BY DEF MapAhead
<1>1. ~overlapped
  BY DEF Erase, EnterMap
<1>2. rpc[d] # "none"
  BY DEF TypeOK
<1>3. Pending(d)' = Pending(d)
  BY DEF Pending, InsertPending
<1>4. Erasing(d) => Erasing(d)'
  <2> SUFFICES ASSUME NEW i \in Context, handler[i] = <<"erase", d>>
               PROVE  handler'[i] = <<"erase", d>>
    BY DEF Erasing
  <2>1. i # home[c]
    BY DEF MayRun, Idle
  <2> QED
    BY <2>1 DEF Erase, TypeOK
<1>5. Erase("erase", c) => Erasing(c)'
  BY DEF Erase, Erasing, TypeOK
<1>6. CASE d # c
  BY <1>1, <1>2, <1>3, <1>4, <1>6 DEF MapAhead, TypeOK
<1>7. CASE d = c
  BY <1>1, <1>2, <1>3, <1>4, <1>5, <1>7 DEF MapAhead, TypeOK
<1> QED
  BY <1>6, <1>7

LEMMA MapStep ==
  ASSUME TypeOK, ErasersKnown, MapAhead, [Next]_vars
  PROVE  MapAhead'
<1> USE DEF TypeOK
<1>1. ASSUME NEW c \in Client, Clients(c) PROVE MapAhead'
  <2>1. ASSUME Connect(c) \/ Leave(c) PROVE MapAhead'
    BY <2>1, MapAside DEF Connect, Leave, mainVars, mapVars, readVars
  <2>2. ASSUME NEW k \in Kind, HeadArrives(c, k) PROVE MapAhead'
    BY <2>2, MapAside DEF HeadArrives, mainVars, mapVars
  <2> QED
    BY <1>1, <2>1, <2>2 DEF Clients
<1>2. ASSUME NEW c \in Client, Reading(c) PROVE MapAhead'
  <2>1. ASSUME BodyArrives(c) \/ ReadHead(c) \/ ReadMsg(c) PROVE MapAhead'
    <3>1. UNCHANGED <<mpc, accepting, handler, sessions, raced, overlapped,
                      open, oversized>>
      BY <2>1 DEF BodyArrives, ReadHead, ReadMsg, mainVars, mapVars
    <3>2. \A d \in Client : rpc'[d] # rpc[d] =>
                              rpc[d] # "none" /\ rpc'[d] # "done"
      BY <2>1 DEF BodyArrives, ReadHead, ReadMsg
    <3> QED
      BY <3>1, <3>2, MapAside
  <2>2. ASSUME ReadHeadOversize(c) PROVE MapAhead'
    BY <2>2, EnterAside DEF ReadHeadOversize, mainVars
  <2>3. ASSUME ReadError(c) PROVE MapAhead'
    BY <2>3, EnterAside DEF ReadError, mainVars
  <2> QED
    BY <1>2, <2>1, <2>2, <2>3 DEF Reading
<1>3. ASSUME NEW c \in Client, Writing(c) PROVE MapAhead'
  <2>1. ASSUME Transmit(c) \/ WriteCallbackOk(c) PROVE MapAhead'
    BY <2>1, MapAside DEF Transmit, WriteCallbackOk, mainVars, mapVars, readVars
  <2>2. ASSUME WriteCallbackError(c) PROVE MapAhead'
    BY <2>2, EnterAside DEF WriteCallbackError, mainVars, readVars
  <2> QED
    BY <1>3, <2>1, <2>2 DEF Writing
<1>4. ASSUME NEW c \in Client, AcceptStart(c) PROVE MapAhead'
  BY <1>4 DEF AcceptStart, mapVars, MapAhead, Pending, InsertPending, Erasing
<1>5. CASE AcceptInsert
  BY <1>5 DEF AcceptInsert, EnterMap, readVars, MapAhead, Pending,
              InsertPending, Erasing
<1>6. CASE AcceptInserted
  <2>1. ~overlapped => sessions' = sessions \cup {accepting} /\ mpc' = "accept"
    BY <1>6 DEF AcceptInserted, LeaveMap
  <2>2. UNCHANGED <<handler, raced, overlapped, rpc, open, oversized>>
    BY <1>6 DEF AcceptInserted, readVars
  <2>3. \A c \in Client : Erasing(c)' = Erasing(c)
    BY <2>2 DEF Erasing
  <2> QED
    BY <1>6, <2>1, <2>2, <2>3
    DEF AcceptInserted, MapAhead, Pending, InsertPending
<1>7. CASE AcceptFails \/ Signal \/ Join
  BY <1>7 DEF AcceptFails, Signal, Join, mapVars, readVars, MapAhead, Pending,
              InsertPending, Erasing
<1>8. ASSUME NEW i \in Context, Erased(i) PROVE MapAhead'
  <2> DEFINE e == handler[i][2]
  <2>1. /\ e \in Client
        /\ handler[i] = <<"erase", e>> \/ handler[i] = <<"eraseGoOn", e>>
    BY <1>8, EraserTyped DEF Erased
  <2>2. e \in open => e \in oversized
    BY <2>1 DEF ErasersKnown
  <2>3. /\ handler' = [handler EXCEPT ![i] = Idle]
        /\ UNCHANGED <<accepting, overlapped, open, oversized>>
        /\ raced' = IF accepting = e THEN raced \cup {e} ELSE raced
        /\ ~overlapped => sessions' = sessions \ {e} /\ mpc' = mpc
    BY <1>8 DEF Erased, LeaveMap
  <2>4. \A d \in Client : d # e => rpc'[d] = rpc[d]
    BY <1>8, <2>1 DEF Erased
  <2>5. \A d \in Client : d # e /\ Erasing(d) => Erasing(d)'
    <3> SUFFICES ASSUME NEW d \in Client, d # e, NEW j \in Context,
                        handler[j] = <<"erase", d>>
                 PROVE  handler'[j] = <<"erase", d>>
      BY DEF Erasing
    <3>1. j # i
      BY <2>1
    <3> QED
      BY <2>3, <3>1
  <2> SUFFICES ASSUME ~overlapped', NEW d \in Client, rpc'[d] # "none"
               PROVE  /\ d \in open' => \/ d \in sessions'
                                        \/ d \in oversized' \/ Pending(d)'
                      /\ rpc'[d] = "done" /\ (d \in sessions' \/ Pending(d)') =>
                           d \in raced' \/ Erasing(d)'
    BY DEF MapAhead
  <2>6. CASE d = e
    BY <2>2, <2>3, <2>6 DEF Pending
  <2>7. CASE d # e
    BY <2>3, <2>4, <2>5, <2>7 DEF MapAhead, Pending, InsertPending
  <2> QED
    BY <2>6, <2>7
<1>9. ASSUME NEW i \in Context, RunReturns(i) PROVE MapAhead'
  <2>1. \A d \in Client : Erasing(d) => Erasing(d)'
    <3> SUFFICES ASSUME NEW d \in Client, NEW j \in Context,
                        handler[j] = <<"erase", d>>
                 PROVE  handler'[j] = <<"erase", d>>
      BY DEF Erasing
    <3> QED
      BY <1>9 DEF RunReturns, Idle
  <2>2. UNCHANGED <<mpc, accepting, sessions, raced, overlapped, rpc, open,
                    oversized>>
    BY <1>9 DEF RunReturns, mainVars, mapVars, readVars
  <2> QED
    BY <2>1, <2>2 DEF MapAhead, Pending, InsertPending
<1>10. CASE Reply
  BY <1>10, MapAside DEF Reply, mainVars, mapVars, readVars
<1>11. CASE UNCHANGED vars
  BY <1>11, MapAside DEF vars, mainVars, mapVars, readVars
<1> QED
  BY <1>1, <1>2, <1>3, <1>4, <1>5, <1>6, <1>7, <1>8, <1>9, <1>10, <1>11
  DEF Next, Accept
-----------------------------------------------------------------------------
(***************************************************************************)
(* Whose turn it is.                                                       *)
(***************************************************************************)
\* What binds no session and takes no turn.
LEMMA TurnsAside ==
  ASSUME TurnsTaken, UNCHANGED <<waiting, next, home, failed>>,
         \A c \in Client : rpc[c] = "none" <=> rpc'[c] = "none",
         \/ mpc' = mpc
         \/ mpc = "started" /\ mpc' = "insert"
         \/ mpc' \notin {"accept", "started", "insert"}
  PROVE  TurnsTaken'
<1>1. \A i \in Context : Bound(i)' = Bound(i)
  BY DEF Bound
<1>2. \A i \in Context : Load(i)' = Load(i)
  BY <1>1 DEF Bound, Load
<1>3. \A q, t : Dealt(q, t) => Dealt(q, t)'
  BY <1>2 DEF Dealt
<1>4. ASSUME ~failed'
      PROVE  \E q \in Nat, t \in {waiting', waiting' + 1} :
               /\ mpc' = "accept" => t = waiting'
               /\ InsertPending' => t = waiting' + 1
               /\ Dealt(q, t)'
  <2>1. PICK q \in Nat, t \in {waiting, waiting + 1} :
          /\ mpc = "accept" => t = waiting
          /\ InsertPending => t = waiting + 1
          /\ Dealt(q, t)
    BY <1>4 DEF TurnsTaken
  <2> QED
    BY <1>3, <2>1 DEF InsertPending
<1> QED
  BY <1>1, <1>4 DEF TurnsTaken

\* After a turn the sessions are dealt to the io_contexts before the one that
\* waits: none of them when the last one has had its session.
LEMMA TurnTaken ==
  ASSUME TypeOK, TurnsTaken, GetContext, NEW q \in Nat,
         Dealt(q, waiting + 1)
  PROVE  \E r \in Nat : Dealt(r, waiting')
<1>1. CASE waiting + 1 = Contexts
  <2>1. waiting' = 0
    BY <1>1 DEF GetContext, TurnsTaken
  <2>2. \A i \in Context : Load(i) = q + 1
    BY <1>1, ContextFacts DEF Dealt, Context
  <2>3. \A i \in Context : Load(i) = q + 1 + (IF i < 0 THEN 1 ELSE 0)
    BY <2>2, ContextFacts
  <2> QED
    BY <2>1, <2>3 DEF Dealt
<1>2. CASE waiting + 1 # Contexts
  BY <1>2 DEF GetContext, TurnsTaken
<1> QED
  BY <1>1, <1>2

LEMMA AcceptStartTurn ==
  ASSUME TypeOK, TurnsTaken, NEW c \in Client, AcceptStart(c)
  PROVE  TurnsTaken'
<1>1. /\ waiting \in Context /\ home' = [home EXCEPT ![c] = waiting]
      /\ rpc' = [rpc EXCEPT ![c] = "head"] /\ rpc[c] = "none"
      /\ UNCHANGED <<waiting, next, failed>>
      /\ mpc = "accept" /\ mpc' = "started"
  BY DEF AcceptStart, TypeOK
<1>2. \A i \in Context : i # waiting => Bound(i)' = Bound(i)
  BY <1>1 DEF Bound, TypeOK
<1>3. Bound(waiting)' = Bound(waiting) \cup {c} /\ c \notin Bound(waiting)
  BY <1>1 DEF Bound, TypeOK
<1>4. \A i \in Context : Load(i) = Cardinality(Bound(i))
                         /\ Load(i)' = Cardinality(Bound(i)')
  BY DEF Load, Bound
<1>5. /\ \A i \in Context : IsFiniteSet(Bound(i)')
      /\ Load(waiting)' = Load(waiting) + 1
  BY <1>1, <1>2, <1>3, <1>4, FS_AddElement DEF TurnsTaken
<1>6. \A i \in Context : i # waiting => Load(i)' = Load(i)
  BY <1>2, <1>4
<1>7. ASSUME ~failed'
      PROVE  \E q \in Nat : Dealt(q, waiting + 1)'
  <2>1. PICK q \in Nat : Dealt(q, waiting)
    BY <1>1, <1>7 DEF TurnsTaken
  <2>2. ASSUME NEW i \in Context
        PROVE  Load(i)' = q + (IF i < waiting + 1 THEN 1 ELSE 0)
    <3>1. i \in Nat /\ waiting \in Nat
      BY <1>1, ContextFacts
    <3>2. Load(i) = q + (IF i < waiting THEN 1 ELSE 0)
      BY <2>1 DEF Dealt
    <3>3. CASE i = waiting
      BY <1>1, <1>5, <3>1, <3>2, <3>3
    <3>4. CASE i # waiting
      BY <1>6, <3>1, <3>2, <3>4
    <3> QED
      BY <3>3, <3>4
  <2> QED
    BY <1>1, <2>2 DEF Dealt
<1> QED
  BY <1>1, <1>5, <1>7 DEF TurnsTaken, InsertPending

LEMMA GetContextTurn ==
  ASSUME TypeOK, TurnsTaken, GetContext, UNCHANGED <<home, rpc>>,
         \/ failed' = TRUE
         \/ /\ mpc = "insert" /\ mpc' \in {"accept", "terminated"}
            /\ failed' = failed
  PROVE  TurnsTaken'
<1>1. next' = IF waiting' + 1 = Contexts THEN 0 ELSE waiting' + 1
  BY DEF GetContext
<1>2. \A i \in Context : Bound(i)' = Bound(i)
  BY DEF Bound
<1>3. \A i \in Context : Load(i)' = Load(i)
  BY <1>2 DEF Bound, Load
<1>4. ASSUME ~failed'
      PROVE  \E q \in Nat, t \in {waiting', waiting' + 1} :
               /\ mpc' = "accept" => t = waiting'
               /\ InsertPending' => t = waiting' + 1
               /\ Dealt(q, t)'
  <2>1. mpc = "insert" /\ ~failed /\ mpc' \notin {"started", "insert"}
    BY <1>4
  <2>2. PICK q \in Nat : Dealt(q, waiting + 1)
    BY <2>1 DEF TurnsTaken, InsertPending
  <2>3. PICK r \in Nat : Dealt(r, waiting')
    BY <2>2, TurnTaken
  <2>4. Dealt(r, waiting)'
    BY <1>3, <2>3 DEF Dealt
  <2> QED
    BY <2>1, <2>4 DEF InsertPending
<1> QED
  BY <1>1, <1>2, <1>4 DEF TurnsTaken

LEMMA TurnsStep ==
  ASSUME TypeOK, ErasersKnown, TurnsTaken, [Next]_vars
  PROVE  TurnsTaken'
<1> USE DEF TypeOK
<1>1. ASSUME NEW c \in Client, Clients(c) PROVE TurnsTaken'
  <2>1. ASSUME Connect(c) \/ Leave(c) PROVE TurnsTaken'
    BY <2>1, TurnsAside DEF Connect, Leave, mainVars, readVars
  <2>2. ASSUME NEW k \in Kind, HeadArrives(c, k) PROVE TurnsTaken'
    BY <2>2, TurnsAside DEF HeadArrives, mainVars
  <2> QED
    BY <1>1, <2>1, <2>2 DEF Clients
<1>2. ASSUME NEW c \in Client, Reading(c) PROVE TurnsTaken'
  <2>1. /\ UNCHANGED mainVars
        /\ \A d \in Client : rpc[d] = "none" <=> rpc'[d] = "none"
    BY <1>2 DEF Reading, BodyArrives, ReadHead, ReadHeadOversize, ReadMsg,
                ReadError
  <2> QED
    BY <2>1, TurnsAside DEF mainVars
<1>3. ASSUME NEW c \in Client, Writing(c) PROVE TurnsTaken'
  <2>1. UNCHANGED <<mainVars, rpc>>
    BY <1>3 DEF Writing, Transmit, WriteCallbackOk, WriteCallbackError,
                readVars
  <2> QED
    BY <2>1, TurnsAside DEF mainVars
<1>4. CASE AcceptInsert
  BY <1>4, TurnsAside DEF AcceptInsert, readVars
<1>5. CASE AcceptInserted
  BY <1>5, GetContextTurn DEF AcceptInserted, LeaveMap, readVars
<1>6. CASE AcceptFails
  BY <1>6, GetContextTurn DEF AcceptFails, readVars
<1>7. CASE Signal \/ Join
  BY <1>7, TurnsAside DEF Signal, Join, readVars
<1>8. ASSUME NEW i \in Context, Erased(i) PROVE TurnsTaken'
  <2> DEFINE e == handler[i][2]
  <2>1. /\ e \in Client
        /\ handler[i][1] = "eraseGoOn" => rpc[e] = "gotHead"
    BY <1>8, EraserTyped DEF Erased, ErasersKnown
  <2>2. \A d \in Client : rpc[d] = "none" <=> rpc'[d] = "none"
    BY <1>8, <2>1 DEF Erased
  <2> QED
    BY <1>8, <2>2, TurnsAside DEF Erased, LeaveMap
<1>9. CASE Reply \/ (\E i \in Context : RunReturns(i)) \/ UNCHANGED vars
  BY <1>9, TurnsAside DEF Reply, RunReturns, vars, mainVars, readVars
<1> QED
  BY <1>1, <1>2, <1>3, <1>4, <1>5, <1>6, <1>7, <1>8, <1>9, AcceptStartTurn
  DEF Next, Accept

-----------------------------------------------------------------------------
LEMMA Initially == Init => IInv
<1> SUFFICES ASSUME Init PROVE IInv
  OBVIOUS
<1>1. ErasersKnown /\ MapAhead
  BY DEF Init, ErasersKnown, MapAhead, Idle
<1>2. \A i \in Context : Bound(i) = {}
  BY DEF Init, Bound
<1>3. \A i \in Context : IsFiniteSet(Bound(i)) /\ Load(i) = 0
  BY <1>2, FS_EmptySet DEF Bound, Load
<1>4. Dealt(0, waiting) /\ waiting = 0
  BY <1>3, ContextFacts DEF Init, Dealt
<1>5. TurnsTaken
  BY <1>3, <1>4, ContextFacts DEF Init, TurnsTaken, InsertPending
<1> QED
  BY <1>1, <1>5, TypesInitially DEF IInv

LEMMA Inductive == IInv /\ [Next]_vars => IInv'
  BY TypeStep, EraserStep, MapStep, TurnsStep DEF IInv

LEMMA Always == Spec => []IInv
  BY Initially, Inductive, PTL DEF Spec

\* The types of the server's state, for any pool, clients and requests.
THEOREM PoolTypeCorrect == Spec => []TypeOK
<1>1. IInv => TypeOK
  BY DEF IInv
<1> QED
  BY <1>1, Always, PTL

\* The sessions are spread evenly over a pool of any size, whatever the
\* sessions do, as long as no accept fails.
THEOREM AlwaysSpreadEvenly == Spec => []SpreadEvenly
<1>1. ASSUME TurnsTaken PROVE SpreadEvenly
  <2> SUFFICES ASSUME ~failed, NEW i \in Context, NEW j \in Context
               PROVE  Load(i) <= Load(j) + 1
    BY DEF SpreadEvenly
  <2>1. PICK q \in Nat, t \in {waiting, waiting + 1} : Dealt(q, t)
    BY <1>1 DEF TurnsTaken
  <2>2. /\ Load(i) = q \/ Load(i) = q + 1
        /\ Load(j) = q \/ Load(j) = q + 1
    BY <2>1 DEF Dealt
  <2> QED
    BY <2>2
<1>2. IInv => SpreadEvenly
  BY <1>1 DEF IInv
<1> QED
  BY <1>2, Always, PTL

\* sessions_ holds the sessions that are served, whoever uses it, as long as
\* no two threads have been in it at a time.
THEOREM AlwaysSessionsServed == Spec => []SessionsAreServed
<1>1. ASSUME MapAhead PROVE SessionsAreServed
  <2> SUFFICES ASSUME ~overlapped, InMap = {}, mpc # "started",
                      NEW c \in Client, rpc[c] # "none"
               PROVE  /\ c \in open /\ rpc[c] # "done" =>
                           c \in sessions \/ c \in oversized
                      /\ rpc[c] = "done" /\ c \in sessions => c \in raced
    BY DEF SessionsAreServed
  <2>1. ~InsertPending
    BY DEF InMap, InsertPending
  <2>2. ~Erasing(c)
    <3> SUFFICES ASSUME NEW i \in Context, handler[i] = <<"erase", c>>
                 PROVE  FALSE
      BY DEF Erasing
    <3> QED
      BY DEF InMap
  <2> QED
    BY <1>1, <2>1, <2>2 DEF MapAhead, Pending
<1>2. IInv => SessionsAreServed
  BY <1>1 DEF IInv
<1> QED
  BY <1>2, Always, PTL
=============================================================================
