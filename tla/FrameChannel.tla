---------------------------- MODULE FrameChannel ----------------------------
(***************************************************************************)
(* What a session promises to whoever calls send(): the messages it        *)
(* accepted leave the socket one after the other, in the order in which    *)
(* they were accepted, each as one unbroken frame, until the connection    *)
(* closes; and no more than Capacity of them are unsent at any time.       *)
(*                                                                         *)
(* A message is the number of its acceptance: 1 is the first message the   *)
(* session took, 2 the second, and so on.  A frame is FrameLen parts.      *)
(***************************************************************************)
EXTENDS Integers, Sequences

CONSTANTS
  Capacity,  \* how many accepted messages may be waiting or half sent
  FrameLen   \* parts a frame is transmitted in

VARIABLES
  accepted,  \* how many messages the session has accepted
  stream,    \* the parts the peer has received: pairs <<message, part>>
  closed     \* the connection is closed

cvars == <<accepted, stream, closed>>

\* The part that follows p in an unbroken succession of frames.
After(p) == IF p[2] < FrameLen THEN <<p[1], p[2] + 1>> ELSE <<p[1] + 1, 1>>

\* The part the peer expects next.
Expected(s) == IF s = <<>> THEN <<1, 1>> ELSE After(s[Len(s)])

\* Messages of which the peer has the last part.
Finished(s) == Expected(s)[1] - 1

ChannelInit ==
  /\ accepted = 0
  /\ stream = <<>>
  /\ closed = FALSE

Accept ==
  /\ accepted - Finished(stream) < Capacity
  /\ accepted' = accepted + 1
  /\ UNCHANGED <<stream, closed>>

Emit ==
  /\ ~closed
  /\ Expected(stream)[1] <= accepted
  /\ stream' = Append(stream, Expected(stream))
  /\ UNCHANGED <<accepted, closed>>

Shut ==
  /\ closed' = TRUE
  /\ UNCHANGED <<accepted, stream>>

ChannelNext == Accept \/ Emit \/ Shut

ChannelSpec == ChannelInit /\ [][ChannelNext]_cvars
=============================================================================
