----------------------------- MODULE HttpClient -----------------------------
(***************************************************************************)
(* The HTTP client of S13, alone and as a client of HttpServer: one chain  *)
(* of operations of an io_context, each started by the callback of the one *)
(* before it, until a callback starts none and run() returns.              *)
(*                                                                         *)
(* Its request has a header line without a colon after the name            *)
(* ("Host 127.0.0.1:8080"): up to the colon of the port that is a name     *)
(* with a space in it, which the parser of S14 refuses; another server may *)
(* not mind.  And it reads the status line into request_ and looks for it  *)
(* in response_, which is empty: the callbacks after that one are never    *)
(* reached.                                                                *)
(***************************************************************************)
EXTENDS HttpServer

CONSTANT Simple  \* bound: which clients may be the one of S13

ASSUME ClientAssumption ==
  Simple \subseteq Client /\ (Simple # {} => "malformed" \in Kind)

VARIABLES
  simple,    \* those that are
  site,      \* the server of each: "S14" or "other"
  chain      \* the operation each has outstanding

clientVars == <<simple, site, chain>>
allVars == <<vars, clientVars>>

\* The constructor: the address is being resolved.
SimpleInit ==
  /\ Init
  /\ simple \in SUBSET Simple
  /\ site \in [simple -> {"S14", "other"}]
  /\ chain = [c \in simple |-> "resolve"]

\* A callback that ends the chain, and one that goes on with it.
Goes(c, from, to) ==
  /\ chain[c] = from
  /\ chain' = [chain EXCEPT ![c] = to]
  /\ UNCHANGED <<simple, site>>

Ends(c, from) == Goes(c, from, "ended") /\ UNCHANGED vars

ResolveCallback(c) ==
  \/ Goes(c, "resolve", "connect") /\ UNCHANGED vars
  \/ Ends(c, "resolve")

ConnectCallback(c) ==
  \/ /\ Goes(c, "connect", "write")
     /\ IF site[c] = "S14" THEN Running /\ Connect(c) ELSE UNCHANGED vars
  \/ Ends(c, "connect")

\* The connection of c has been closed by its server, or by the system when
\* the server has ended.
Disconnected(c) == site[c] = "S14" => c \in closed \/ ~Running \/ Destroyed(c)

WriteCallbackOfClient(c) ==
  \/ /\ Goes(c, "write", "status")
     /\ IF site[c] = "S14" THEN SendRequest(c, "malformed") ELSE UNCHANGED vars
  \/ Disconnected(c) /\ Ends(c, "write")

\* External: a status line arrives.
Answered(c) == site[c] = "S14" => c \in got

StatusArrives(c) ==
  /\ Goes(c, "status", "gotStatus")
  /\ Answered(c)
  /\ UNCHANGED vars

\* read_status_line_callback_(): the line is in request_, it finds nothing in
\* response_, and returns.  Or the read has failed.
ReadStatusLineCallback(c) ==
  \/ Ends(c, "gotStatus")
  \/ Disconnected(c) /\ Ends(c, "status")

\* main() waits for a key, the connection stays open until there is one.
KeyPressed(c) ==
  /\ chain[c] = "ended"
  /\ Leave(c)
  /\ UNCHANGED clientVars

Callbacks(c) ==
  ResolveCallback(c) \/ ConnectCallback(c) \/ WriteCallbackOfClient(c)
  \/ StatusArrives(c) \/ ReadStatusLineCallback(c)

SimpleNext ==
  \/ \E c \in simple : Callbacks(c) \/ KeyPressed(c)
  \/ \E c \in Client \ simple : Clients(c) /\ UNCHANGED clientVars
  \/ Server /\ UNCHANGED clientVars

\* As in HttpServer; a server that is not S14 answers, or closes.
SimpleFairness ==
  Fairness /\ \A c \in Simple : WF_allVars(c \in simple /\ Callbacks(c))

SimpleSpec == SimpleInit /\ [][SimpleNext]_allVars /\ SimpleFairness
-----------------------------------------------------------------------------
\* The client never waits for ever: the server that cannot read its request
\* says nothing, but closes the connection when the deadline comes; and a
\* client whose connection is not accepted any more ends with the server.
ClientEnds == \A c \in Simple : <>(c \in simple => chain[c] = "ended")
=============================================================================
