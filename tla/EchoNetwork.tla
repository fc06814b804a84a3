----------------------------- MODULE EchoNetwork -----------------------------
(***************************************************************************)
(* The clients of a server and their TCP connections to it, as far as the  *)
(* servers that answer what they are sent (S02 to S11) see them.  Requests *)
(* and answers are numbered, as in Echo.                                   *)
(***************************************************************************)
EXTENDS Integers, Sequences

CONSTANTS
  Client,
  MaxAsked,  \* bound: requests of each client
  Ahead      \* how many answers a client may be owed when it asks for more:
             \* 0 for the clients of the repository, which wait for each

ASSUME NetworkAssumption == MaxAsked \in [Client -> Nat] /\ Ahead \in Nat

VARIABLES
  program,    \* the server that runs, and its client
  up,         \* the process of the server is running
  listening,  \* its acceptor is open
  peer,       \* state of the process of each client
  conn,       \* state of the server's end of its connection
  asked,      \* requests each client has written
  back        \* what each client has received

network == <<program, up, listening, peer, conn, asked, back>>

NetworkInit ==
  /\ up = TRUE
  /\ listening = TRUE
  /\ peer = [c \in Client |-> "new"]
  /\ conn = [c \in Client |-> "none"]
  /\ asked = [c \in Client |-> 0]
  /\ back = [c \in Client |-> <<>>]

\* connect(): the connection waits for the server to accept it, or, when
\* nothing listens, the client reports the error and returns.
Connect(c) ==
  /\ peer[c] = "new"
  /\ IF up /\ listening
     THEN /\ peer' = [peer EXCEPT ![c] = "open"]
          /\ conn' = [conn EXCEPT ![c] = "backlog"]
     ELSE /\ peer' = [peer EXCEPT ![c] = "left"]
          /\ UNCHANGED conn
  /\ UNCHANGED <<program, up, listening, asked, back>>

\* The client writes n requests.
Ask(c, n) ==
  /\ peer[c] = "open"
  /\ asked[c] - Len(back[c]) <= Ahead
  /\ asked[c] + n <= MaxAsked[c]
  /\ asked' = [asked EXCEPT ![c] = @ + n]
  /\ UNCHANGED <<program, up, listening, peer, conn, back>>

\* The client ends: it is killed, or its read or write throws because the
\* connection has ended.
Leave(c) ==
  /\ peer[c] = "open"
  /\ peer' = [peer EXCEPT ![c] = "left"]
  /\ UNCHANGED <<program, up, listening, conn, asked, back>>

\* What is sent to a client that has left is lost.
Receive(c, bytes) ==
  back' = IF peer[c] = "open" THEN [back EXCEPT ![c] = @ \o bytes] ELSE back

\* The acceptor is closed, and with it the connections nobody accepted.
StopListening ==
  /\ listening' = FALSE
  /\ conn' = [c \in Client |->
                IF conn[c] = "backlog" THEN "closed" ELSE conn[c]]

\* The process ends: the system closes its sockets.
ServerEnds ==
  /\ up' = FALSE
  /\ StopListening
  /\ UNCHANGED <<program, peer, asked, back>>

\* The clients the server owes nothing any more.
Gone == IF up THEN {c \in Client : peer[c] = "left" \/ conn[c] = "closed"}
              ELSE Client
=============================================================================
