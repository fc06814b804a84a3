----------------------------- MODULE EchoServers -----------------------------
(***************************************************************************)
(* The servers of S02 to S12 and S15, side by side: one of them runs, and  *)
(* each is shown to be an implementation of Echo.  With them, as program   *)
(* "parser", the parser of S04 to S06 on a stream of bytes, on its own:    *)
(* FramedEcho takes from it that the frames are found in the stream.       *)
(***************************************************************************)
EXTENDS RawEcho, FramedEcho, StickyPacket

raw == <<consumed, ses>>
framed == <<sent, down, fses, inbox>>
allVars == <<network, raw, framed, vars>>

\* The variables of the programs that do not run.
RawOff ==
  /\ consumed = [c \in Client |-> 0]
  /\ ses = [c \in Client |-> NoSession]

FramedOff ==
  /\ sent = [c \in Client |-> <<>>]
  /\ down = [c \in Client |-> <<>>]
  /\ fses = [c \in Client |-> NoFrameSession]
  /\ inbox = <<>>

ParserOff ==
  /\ lens = [f \in 1 .. Frames |-> CHOOSE n \in Lengths : TRUE]
  /\ pos = <<1, 1>>
  /\ stream = <<>>
  /\ data = <<>>
  /\ headNode = <<>>
  /\ msgNode = <<>>
  /\ delivered = <<>>
  /\ taken = 0
  /\ copyLen = 0
  /\ left = 0
  /\ totalLen = 0
  /\ reading = FALSE
  /\ headParse = FALSE
  /\ registered = FALSE
  /\ threw = FALSE

ServersInit ==
  \/ RawInit /\ FramedOff /\ ParserOff
  \/ FramedInit /\ RawOff /\ ParserOff
  \/ program = "parser" /\ NetworkInit /\ RawOff /\ FramedOff /\ Init

\* A step of the parser, which none of the servers waits for.
Parsing(step) == program = "parser" /\ step /\ UNCHANGED <<network, raw, framed>>

ServersNext ==
  \/ RawNext /\ UNCHANGED <<framed, vars>>
  \/ FramedNext /\ UNCHANGED <<raw, vars>>
  \/ Parsing(Next)

\* The work for client c: of the sockets, threads, coroutines and callbacks of
\* the server, and of the client when it waits for a reply.
Serve(c) ==
  \/ RawServer(c) /\ UNCHANGED <<framed, vars>>
  \/ FramedServer(c) /\ UNCHANGED <<raw, vars>>
  \/ ReadReply(c) /\ UNCHANGED <<raw, vars>>

\* Of each client the work goes on, and so does the worker of LogicSystem;
\* where the parser is the program, its peer goes on writing and the I/O thread
\* runs its handlers.
ServersFairness ==
  /\ \A c \in Client : WF_allVars(Serve(c))
  /\ WF_allVars(up /\ HelloWorldCallback /\ UNCHANGED <<raw, vars>>)
  /\ WF_allVars(Parsing(PeerWrites))
  /\ WF_allVars(Parsing(\E n \in 1 .. MaxLength : ReadSome(n)))
  /\ WF_allVars(Parsing(Parse))

ServersSpec == ServersInit /\ [][ServersNext]_allVars /\ ServersFairness
-----------------------------------------------------------------------------
\* The types of the sessions, of the frames in flight and of the parser.
ServersTypeOK ==
  /\ TypeOK
  /\ consumed \in [Client -> Nat] /\ ses \in [Client -> Session]
  /\ {sent[c] : c \in Client} \cup {down[c] : c \in Client}
       \subseteq Seq(Frame)
  /\ fses \in [Client -> FrameSession]

\* The clients to whom nothing more is promised: the connection or one of its
\* ends is gone, send() has refused a reply because the queue was full, (S03
\* CSession2) the buffer of the caller was cleared under a write that had not
\* taken all of it, or (S12) the server waits for a body of -1 bytes.
over ==
  Gone \cup {c \in Client :
              ses[c].spoilt \/ fses[c].refused \/ fses[c].want < 0}

E == INSTANCE Echo

\* Every server sends each client the bytes or messages it asked for, each
\* once, in order, and all of them in the end, whatever the threads, the
\* callbacks, the division into reads and writes and the other clients do.
ImplementsEcho == E!EchoSpec

\* No session is forgotten and none is used after its end: one that the map
\* (or its thread or coroutine) holds has a read or a write outstanding, which
\* will notice the end of the connection; and one that nothing holds has none,
\* unless its callbacks keep it alive, and then its socket stays open.
HeldWhileServed ==
  \A c \in Client : up =>
    LET raws == program \in RawPrograms
        idle == IF raws THEN ses[c].rd = "no" /\ ses[c].wr = "no"
                        ELSE fses[c].rd = "no" /\ fses[c].wr = "no"
        holds == IF raws THEN ses[c].held ELSE fses[c].held
    IN /\ holds => ~idle
       /\ program # "S15" => (conn[c] = "served") = ~idle
       /\ program \in {"blocking", "coroutine", "manual", "shared"} =>
            holds = ~idle
=============================================================================
