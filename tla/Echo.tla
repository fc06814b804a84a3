-------------------------------- MODULE Echo --------------------------------
(***************************************************************************)
(* What every server of the repository promises its clients, whatever it   *)
(* is built from: each request of a client is answered once, the answers   *)
(* come back in the order of the requests, and every request is answered   *)
(* in the end, as long as the exchange with that client is not over.       *)
(*                                                                         *)
(* A request is its number; so is the answer to it.  What a request is     *)
(* depends on the server: a byte for the servers that echo the stream, a   *)
(* message for those that frame it.                                        *)
(***************************************************************************)
EXTENDS Integers, Sequences

CONSTANTS
  Client,
  MaxAsked   \* bound: requests of each client

VARIABLES
  asked,  \* how many requests each client has made
  back,   \* the answers each client has received, in order
  over    \* the clients whose exchange has ended, on either side

evars == <<asked, back, over>>

EchoInit ==
  /\ asked = [c \in Client |-> 0]
  /\ back = [c \in Client |-> <<>>]
  /\ over = {}

\* Client c makes some requests.
Ask(c) ==
  /\ asked'[c] \in asked[c] + 1 .. MaxAsked[c]
  /\ back'[c] = back[c]

\* Some of what c asked comes back: what follows the last answer it has.
Answer(c) ==
  /\ asked'[c] = asked[c]
  /\ Len(back'[c]) \in Len(back[c]) + 1 .. asked[c]
  /\ back'[c] = back[c] \o [i \in 1 .. Len(back'[c]) - Len(back[c]) |->
                              Len(back[c]) + i]

Nothing(c) == asked'[c] = asked[c] /\ back'[c] = back[c]

\* Nothing is promised to a client once its exchange is over.
EchoNext ==
  /\ over \subseteq over'
  /\ \A c \in Client : c \in over' \/ Ask(c) \/ Answer(c) \/ Nothing(c)

\* Again and again nothing is owed to any client.  A client makes finitely
\* many requests, so each of them is answered in the end.
EveryRequestAnswered ==
  []<>(\A c \in Client : Len(back[c]) = asked[c] \/ c \in over)

EchoSpec == EchoInit /\ [][EchoNext]_evars /\ EveryRequestAnswered
=============================================================================
