-------------------------- MODULE HttpClientProofs ---------------------------
(***************************************************************************)
(* The safety properties of the HTTP server (HttpServer), with the clients *)
(* of HttpClient, for any number of clients and any kinds of requests.     *)
(*                                                                         *)
(* What the counter promises rests on how many responses hold a count: as  *)
(* many as it has counted.  What a connection promises rests on what is    *)
(* known of it at each point of its chain of operations.                   *)
(***************************************************************************)
EXTENDS HttpClient, FiniteSetTheorems, TLAPS

\* The clients whose response holds a count.
Numbered == {c \in Client : number[c] # 0}

TypeShape ==
  /\ process \in {"running", "failed", "returned"}
  /\ accepting \in BOOLEAN
  /\ op \in [Client -> {"none", "reading", "read", "readFailed", "writing",
                        "written", "done"}]
  /\ timer \in [Client -> {"none", "pending", "expired", "cancelled", "done"}]
  /\ closed \subseteq Client
  /\ shut \subseteq Client
  /\ count \in Nat
  /\ number \in [Client -> Nat]
  /\ peer \in [Client -> {"new", "connected", "gone"}]
  /\ request \in [Client -> Kind \cup {NoRequest}]
  /\ got \subseteq Client
  /\ floor \in [Client -> Nat]

\* The chain of c has not come to process_request() yet.
Unprocessed(c) == op[c] \in {"none", "reading", "read", "readFailed"}

\* A count is given once, to a client that has sent its request.
Counting ==
  /\ count = Cardinality(Numbered)
  /\ \A c \in Client :
       /\ number[c] <= count /\ floor[c] <= count
       /\ Unprocessed(c) \/ request[c] = NoRequest => number[c] = 0
  /\ CountsGrow

\* What is known of a client that stays, at each point of its chain.
Chained ==
  \A c \in Client :
    /\ op[c] # "none" => peer[c] # "new"
    /\ op[c] \in {"read", "writing", "written"} => request[c] # NoRequest
    /\ peer[c] = "connected" /\ request[c] \notin {"malformed", "throws"} =>
         /\ op[c] = "readFailed" => c \in closed
         /\ op[c] = "written" => c \in got \cup closed
         /\ op[c] = "done" => c \in got \cap shut \/ c \in closed

\* The clients of S13 are among those that may be.
Simply == simple \subseteq Simple

IInv == TypeShape /\ Counting /\ Chained /\ Simply

-----------------------------------------------------------------------------
(***************************************************************************)
(* Steps.                                                                  *)
(***************************************************************************)
\* A step of the server or of any client, those of S13 included.
HttpStep ==
  \/ \E c \in Client : Clients(c)
  \/ Server

LEMMA StepOfServer ==
  ASSUME Simply, [SimpleNext]_allVars
  PROVE  [HttpStep]_vars /\ Simply'
<1>1. ASSUME NEW c \in simple, Callbacks(c) \/ KeyPressed(c)
      PROVE  [HttpStep]_vars /\ Simply'
  <2>1. c \in Client /\ "malformed" \in Kind
    BY ClientAssumption DEF Simply
  <2>2. CASE ResolveCallback(c)
    BY <2>2 DEF ResolveCallback, Ends, Goes, Simply
  <2>3. CASE ConnectCallback(c)
    BY <2>1, <2>3 DEF ConnectCallback, Ends, Goes, Simply, HttpStep, Clients
  <2>4. CASE WriteCallbackOfClient(c)
    BY <2>1, <2>4
    DEF WriteCallbackOfClient, Ends, Goes, Simply, HttpStep, Clients
  <2>5. CASE StatusArrives(c) \/ ReadStatusLineCallback(c)
    BY <2>5 DEF StatusArrives, ReadStatusLineCallback, Ends, Goes, Simply
  <2>6. CASE KeyPressed(c)
    BY <2>1, <2>6 DEF KeyPressed, HttpStep, Clients, clientVars, Simply
  <2> QED
    BY <1>1, <2>2, <2>3, <2>4, <2>5, <2>6 DEF Callbacks
<1>2. CASE \E c \in Client \ simple : Clients(c) /\ UNCHANGED clientVars
  BY <1>2 DEF HttpStep, clientVars, Simply
<1>3. CASE Server /\ UNCHANGED clientVars
  BY <1>3 DEF HttpStep, clientVars, Simply
<1>4. CASE UNCHANGED allVars
  BY <1>4 DEF allVars, clientVars, Simply
<1> QED
  BY <1>1, <1>2, <1>3, <1>4 DEF SimpleNext

\* The parts of a step, for the proofs by cases.
LEMMA StepCases ==
  ASSUME HttpStep
  PROVE  \/ \E c \in Client : Connect(c) \/ Leave(c)
         \/ \E c \in Client, k \in Kind : SendRequest(c, k)
         \/ \E c \in Client : Accept(c) \/ Expire(c) \/ Deadline(c)
         \/ \E c \in Client : ReadCompletes(c) \/ ReadFails(c)
                              \/ ReadCallbackError(c)
         \/ \E c \in Client : ProcessRequest(c)
         \/ \E c \in Client : ProcessThrows(c)
         \/ \E c \in Client : WriteCompletes(c) \/ WriteFails(c)
                              \/ WriteCallback(c)
         \/ AcceptFails \/ RunReturns
BY DEF HttpStep, Clients, Server, Transfer, Chain

-----------------------------------------------------------------------------
(***************************************************************************)
(* The highest count anyone has received.  It is chosen, so that something *)
(* has to be said for its existence: a set of natural numbers has a least  *)
(* element, here the set of those that no received count exceeds.          *)
(***************************************************************************)
LEMMA LeastNatural ==
  ASSUME NEW S \in SUBSET Nat, S # {}
  PROVE  \E n \in S : \A m \in S : n <= m
<1> DEFINE Below(n) == 0 .. n - 1
           T == {Below(n) : n \in S}
<1>1. T \subseteq FiniteSubsetsOf(Nat)
  <2>1. ASSUME NEW n \in S
        PROVE  Below(n) \in SUBSET Nat /\ IsFiniteSet(Below(n))
    <3>1. n - 1 \in Int
      OBVIOUS
    <3> QED
      BY <3>1, FS_Interval
  <2> QED
    BY <2>1 DEF FiniteSubsetsOf
<1>2. PICK X \in T : \A Y \in T : <<Y, X>> \notin StrictSubsetOrdering(Nat)
  <2> HIDE DEF T
  <2>1. T # {}
    BY DEF T
  <2> QED
    BY <1>1, <2>1, FS_StrictSubsetOrderingWellFounded, WFMin
<1>3. PICK n \in S : X = Below(n)
  OBVIOUS
<1>4. ASSUME NEW m \in S, m < n PROVE FALSE
  <2>1. Below(m) \subseteq Below(n) /\ Below(m) # Below(n)
    BY <1>4
  <2>2. <<Below(m), X>> \notin StrictSubsetOrdering(Nat)
    BY <1>2
  <2> QED
    BY <2>1, <2>2, <1>3 DEF StrictSubsetOrdering
<1> QED
  BY <1>4

LEMMA HighestReceivedBounded ==
  ASSUME TypeShape, Counting
  PROVE  HighestReceived \in 0 .. count
<1> DEFINE received == {0} \cup {number[c] : c \in got}
           bound == {n \in Nat : \A c \in got : number[c] <= n}
<1>1. PICK n \in bound : \A m \in bound : n <= m
  <2>1. count \in bound
    BY DEF TypeShape, Counting
  <2> HIDE DEF bound
  <2> QED
    BY <2>1, LeastNatural DEF bound
<1>2. n \in received
  <2> SUFFICES ASSUME n # 0, \A c \in got : number[c] # n
               PROVE  FALSE
    OBVIOUS
  <2>1. n - 1 \in bound
    BY DEF TypeShape
  <2> QED
    BY <1>1, <2>1
<1>3. \E m \in received : \A c \in got : number[c] <= m
  BY <1>1, <1>2
<1>4. HighestReceived \in received
  BY <1>3 DEF HighestReceived
<1> QED
  BY <1>4 DEF TypeShape, Counting

-----------------------------------------------------------------------------
(***************************************************************************)
(* Types.                                                                  *)
(***************************************************************************)
LEMMA TypeShapeStep ==
  ASSUME TypeShape, Counting, [HttpStep]_vars
  PROVE  TypeShape'
<1>1. ASSUME NEW c \in Client, Connect(c) \/ Leave(c) PROVE TypeShape'
  BY <1>1 DEF TypeShape, Connect, Leave, connVars, countVars
<1>2. ASSUME NEW c \in Client, NEW k \in Kind, SendRequest(c, k)
      PROVE  TypeShape'
  <2>1. HighestReceived \in Nat
    BY HighestReceivedBounded DEF TypeShape
  <2> QED
    BY <1>2, <2>1 DEF TypeShape, SendRequest, connVars, countVars
<1>3. ASSUME NEW c \in Client, Accept(c) \/ Expire(c) \/ Deadline(c)
      PROVE  TypeShape'
  BY <1>3 DEF TypeShape, Accept, Expire, Deadline, countVars, peerVars
<1>4. ASSUME NEW c \in Client,
             ReadCompletes(c) \/ ReadFails(c) \/ ReadCallbackError(c)
      PROVE  TypeShape'
  BY <1>4 DEF TypeShape, ReadCompletes, ReadFails, ReadCallbackError, Becomes,
              countVars, peerVars
<1>5. ASSUME NEW c \in Client, ProcessRequest(c) PROVE TypeShape'
  BY <1>5 DEF TypeShape, ProcessRequest, RequestCount, Becomes, countVars,
              peerVars
<1>6. ASSUME NEW c \in Client, ProcessThrows(c) PROVE TypeShape'
  BY <1>6 DEF TypeShape, ProcessThrows, Becomes, countVars, peerVars
<1>7. ASSUME NEW c \in Client,
             WriteCompletes(c) \/ WriteFails(c) \/ WriteCallback(c)
      PROVE  TypeShape'
  BY <1>7 DEF TypeShape, WriteCompletes, WriteFails, WriteCallback, Becomes,
              countVars, peerVars
<1>8. CASE AcceptFails \/ RunReturns
  BY <1>8 DEF TypeShape, AcceptFails, RunReturns, connVars, countVars, peerVars
<1>9. CASE UNCHANGED vars
  BY <1>9 DEF TypeShape, vars, connVars, countVars, peerVars
<1> QED
  BY <1>1, <1>2, <1>3, <1>4, <1>5, <1>6, <1>7, <1>8, <1>9, StepCases

-----------------------------------------------------------------------------
(***************************************************************************)
(* The counter.                                                            *)
(***************************************************************************)
\* Outside of process_request() the counter and the counts stay; a request
\* is sent before its count is given.
LEMMA CountingKept ==
  ASSUME TypeShape, Counting, UNCHANGED countVars,
         \A c \in Client : Unprocessed(c)' => Unprocessed(c),
         \A c \in Client : request'[c] = NoRequest => request[c] = NoRequest,
         \A c \in Client : floor'[c] = floor[c]
  PROVE  Counting'
BY DEF Counting, CountsGrow, countVars, Numbered

LEMMA CountingSend ==
  ASSUME TypeShape, Counting, NEW c \in Client, NEW k \in Kind,
         SendRequest(c, k)
  PROVE  Counting'
<1>1. HighestReceived <= count
  BY HighestReceivedBounded DEF TypeShape
<1>2. number' = number /\ count' = count /\ op' = op
  BY DEF SendRequest, countVars, connVars
<1>3. \A d \in Client : floor'[d] <= count
  BY <1>1 DEF SendRequest, TypeShape, Counting
<1>4. number[c] = 0
  BY DEF SendRequest, Counting
<1>5. \A d \in Client \ {c} : floor'[d] = floor[d] /\ request'[d] = request[d]
  BY DEF SendRequest, TypeShape
<1> QED
  BY <1>2, <1>3, <1>4, <1>5
  DEF Counting, CountsGrow, Numbered, Unprocessed, TypeShape

LEMMA CountingProcess ==
  ASSUME TypeShape, Counting, Chained, NEW c \in Client, ProcessRequest(c)
  PROVE  Counting'
<1>1. op[c] = "read" /\ op' = [op EXCEPT ![c] = "writing"]
      /\ UNCHANGED <<request, floor>>
  BY DEF ProcessRequest, Becomes, peerVars
<1>2. number[c] = 0 /\ request[c] # NoRequest
  BY <1>1 DEF Counting, Chained, Unprocessed
<1>3. \A d \in Client : Unprocessed(d)' => Unprocessed(d)
  BY <1>1 DEF Unprocessed, TypeShape
<1>4. CASE request[c] # "count"
  BY <1>1, <1>3, <1>4 DEF ProcessRequest, Counting, CountsGrow, Numbered, countVars
<1>5. CASE request[c] = "count"
  <2>1. count' = count + 1 /\ number' = [number EXCEPT ![c] = count + 1]
    BY <1>5 DEF ProcessRequest, RequestCount
  <2>2. Numbered' = Numbered \cup {c} /\ c \notin Numbered
    BY <2>1, <1>2 DEF Numbered, TypeShape
  <2>3. IsFiniteSet(Numbered)
    BY HttpAssumption, FS_Subset DEF Numbered
  <2>4. count' = Cardinality(Numbered')
    BY <2>1, <2>2, <2>3, FS_AddElement DEF Counting
  <2>5. \A d \in Client : number'[d] = IF d = c THEN count + 1 ELSE number[d]
    BY <2>1 DEF TypeShape
  <2>6. \A d \in Client : number'[d] <= count' /\ floor'[d] <= count'
    BY <1>1, <2>1, <2>5 DEF Counting, TypeShape
  <2>7. \A d \in Client : Unprocessed(d)' \/ request'[d] = NoRequest
                            => number'[d] = 0
    BY <1>1, <1>2, <1>3, <2>5 DEF Counting, Unprocessed, TypeShape
  <2>8. CountsGrow'
    BY <1>1, <2>5 DEF Counting, CountsGrow, TypeShape
  <2> QED
    BY <2>4, <2>6, <2>7, <2>8 DEF Counting
<1> QED
  BY <1>4, <1>5

LEMMA CountingStep ==
  ASSUME TypeShape, Counting, Chained, [HttpStep]_vars
  PROVE  Counting'
<1>1. ASSUME NEW c \in Client, Connect(c) \/ Leave(c) PROVE Counting'
  BY <1>1, CountingKept DEF Connect, Leave, connVars, Unprocessed
<1>2. ASSUME NEW c \in Client, Accept(c) \/ Expire(c) \/ Deadline(c)
      PROVE  Counting'
  BY <1>2, CountingKept
  DEF Accept, Expire, Deadline, peerVars, Unprocessed, TypeShape
<1>3. ASSUME NEW c \in Client,
             ReadCompletes(c) \/ ReadFails(c) \/ ReadCallbackError(c)
      PROVE  Counting'
  BY <1>3, CountingKept
  DEF ReadCompletes, ReadFails, ReadCallbackError, Becomes, peerVars,
      Unprocessed, TypeShape
<1>4. ASSUME NEW c \in Client, ProcessThrows(c) PROVE Counting'
  BY <1>4, CountingKept
  DEF ProcessThrows, Becomes, peerVars, Unprocessed, TypeShape
<1>5. ASSUME NEW c \in Client,
             WriteCompletes(c) \/ WriteFails(c) \/ WriteCallback(c)
      PROVE  Counting'
  BY <1>5, CountingKept
  DEF WriteCompletes, WriteFails, WriteCallback, Becomes, peerVars,
      Unprocessed, TypeShape
<1>6. CASE AcceptFails \/ RunReturns
  BY <1>6, CountingKept
  DEF AcceptFails, RunReturns, connVars, peerVars, Unprocessed
<1>7. CASE UNCHANGED vars
  BY <1>7, CountingKept DEF vars, connVars, peerVars, Unprocessed
<1> QED
  BY <1>1, <1>2, <1>3, <1>4, <1>5, <1>6, <1>7, CountingSend, CountingProcess,
     StepCases

-----------------------------------------------------------------------------
(***************************************************************************)
(* The chains.                                                             *)
(***************************************************************************)
LEMMA ChainedStep ==
  ASSUME TypeShape, Chained, [HttpStep]_vars
  PROVE  Chained'
<1>1. ASSUME NEW c \in Client, Connect(c) \/ Leave(c) PROVE Chained'
  BY <1>1 DEF TypeShape, Chained, Connect, Leave, connVars
<1>2. ASSUME NEW c \in Client, NEW k \in Kind, SendRequest(c, k)
      PROVE  Chained'
  BY <1>2, HttpAssumption DEF TypeShape, Chained, SendRequest, connVars, NoRequest
<1>3. ASSUME NEW c \in Client, Accept(c) \/ Expire(c) \/ Deadline(c)
      PROVE  Chained'
  BY <1>3 DEF TypeShape, Chained, Accept, Expire, Deadline, peerVars
<1>4. ASSUME NEW c \in Client,
             ReadCompletes(c) \/ ReadFails(c) \/ ReadCallbackError(c)
      PROVE  Chained'
  BY <1>4 DEF TypeShape, Chained, ReadCompletes, ReadFails, ReadCallbackError,
              Becomes, peerVars
<1>5. ASSUME NEW c \in Client, ProcessRequest(c) \/ ProcessThrows(c)
      PROVE  Chained'
  BY <1>5 DEF TypeShape, Chained, ProcessRequest, ProcessThrows, Becomes,
              peerVars
<1>6. ASSUME NEW c \in Client,
             WriteCompletes(c) \/ WriteFails(c) \/ WriteCallback(c)
      PROVE  Chained'
  BY <1>6 DEF TypeShape, Chained, WriteCompletes, WriteFails, WriteCallback,
              Becomes, peerVars
<1>7. CASE AcceptFails \/ RunReturns
  BY <1>7 DEF Chained, AcceptFails, RunReturns, connVars, peerVars
<1>8. CASE UNCHANGED vars
  BY <1>8 DEF Chained, vars, connVars, peerVars
<1> QED
  BY <1>1, <1>2, <1>3, <1>4, <1>5, <1>6, <1>7, <1>8, StepCases

-----------------------------------------------------------------------------
(***************************************************************************)
(* The theorems.                                                           *)
(***************************************************************************)
LEMMA Initially == SimpleInit => IInv
<1> SUFFICES ASSUME SimpleInit PROVE IInv
  OBVIOUS
<1>1. TypeShape /\ Chained /\ Simply
  BY DEF SimpleInit, Init, TypeShape, Chained, Simply
<1>2. Numbered = {}
  BY DEF SimpleInit, Init, Numbered
<1>3. Counting
  BY <1>2, FS_EmptySet DEF SimpleInit, Init, Counting, CountsGrow
<1> QED
  BY <1>1, <1>3 DEF IInv

LEMMA Inductive == IInv /\ [SimpleNext]_allVars => IInv'
BY StepOfServer, TypeShapeStep, CountingStep, ChainedStep DEF IInv

LEMMA Always == SimpleSpec => []IInv
BY Initially, Inductive, PTL DEF SimpleSpec

\* The types of the server and its connections; the counter never exceeds the
\* number of clients, nor does any count given or remembered.
THEOREM HttpTypeCorrect == SimpleSpec => []TypeOK
<1>1. IInv => TypeOK
  <2> SUFFICES ASSUME IInv PROVE TypeOK
    OBVIOUS
  <2>1. count \in 0 .. Cardinality(Client)
    BY HttpAssumption, FS_Subset, FS_CardinalityType
    DEF IInv, TypeShape, Counting, Numbered
  <2>2. number \in [Client -> 0 .. count] /\ floor \in [Client -> 0 .. count]
    BY DEF IInv, TypeShape, Counting
  <2> QED
    BY <2>1, <2>2 DEF IInv, TypeShape, TypeOK
<1> QED
  BY <1>1, Always, PTL

\* The counts in the responses are distinct and grow, for any number of
\* connections that are served in turns by the one thread.
THEOREM CountsAlwaysGrow == SimpleSpec => []CountsGrow
<1>1. IInv => CountsGrow
  BY DEF IInv, Counting
<1> QED
  BY <1>1, Always, PTL

\* Whatever the order in which the read, the write and the deadline of each
\* connection end, a client that stays and has sent a good request has been
\* answered when its chain of operations is at its end, unless the deadline
\* has closed the connection.
THEOREM AlwaysAnsweredUnlessLate == SimpleSpec => []AnsweredUnlessLate
<1>1. IInv => AnsweredUnlessLate
  BY DEF IInv, Chained, AnsweredUnlessLate
<1> QED
  BY <1>1, Always, PTL
=============================================================================
