---------------------------- MODULE ChunkStream -----------------------------
(***************************************************************************)
(* A /chunks/stream upload session (file/chunks_stream.rs): the owner      *)
(* sends one chunk per call over a websocket and waits for the node's      *)
(* acknowledgement.  Nothing in the protocol says which chunk a reply is   *)
(* for; a call takes the next one.  A call may be abandoned at its awaits, *)
(* the node refuses chunks, closes or disappears.                          *)
(*                                                                         *)
(* Chunk n is that of the owner's n-th call.  The session exists once      *)
(* the websocket is connected.                                             *)
(***************************************************************************)
EXTENDS Naturals, Sequences, FiniteSets, SequencesExt

CONSTANTS
  MaxChunks,  \* bound: calls of send_chunk
  NET         \* bound: replies on the way before the node sends a ping

ASSUME ChunkStreamAssumption == MaxChunks \in Nat /\ NET \in Nat \ {0}

VARIABLES
  handle,     \* the owner's: "open", "closing" (in close) or "gone"
  closed,     \* the session's own flag
  call,       \* "idle", "sending" or "waiting"
  chunk,      \* the latest call
  out,        \* frames on the way to the node: chunks, and 0 for a close frame
  replies,    \* frames on the way to the client
  peer,       \* the node's end: "up", "closed" or "lost"
  accepted,   \* chunks the node has taken and acknowledged
  oks,        \* chunks whose call returned Ok
  abandoned   \* some call was dropped at an await

net  == <<out, replies, peer, accepted>>
user == <<handle, closed, call, chunk, oks, abandoned>>
vars == <<user, net>>

Ack   == "ack"   \* one zero byte, or an empty frame
Reply == {Ack, "other bytes", "text", "close", "ping", "error"}

Init ==
  /\ handle = "open" /\ closed = FALSE /\ call = "idle" /\ chunk = 0
  /\ out = <<>> /\ replies = <<>> /\ peer = "up"
  /\ accepted = {} /\ oks = {} /\ abandoned = FALSE

-----------------------------------------------------------------------------
(* The node and the network.                                               *)

NodeTakes ==
  /\ peer = "up" /\ out # <<>>
  /\ out' = Tail(out)
  /\ \/ /\ Head(out) > 0
        /\ accepted' = accepted \cup {Head(out)}
        /\ replies' = Append(replies, Ack)
        /\ UNCHANGED peer
     \/ /\ Head(out) > 0
        /\ \E frame \in {"other bytes", "text"} : replies' = Append(replies, frame)
        /\ UNCHANGED <<accepted, peer>>
     \/ /\ Head(out) = 0
        /\ replies' = Append(replies, "close") /\ peer' = "closed"
        /\ UNCHANGED accepted
  /\ UNCHANGED user

NodePings ==
  /\ peer = "up" /\ Len(replies) < NET
  /\ replies' = Append(replies, "ping")
  /\ UNCHANGED <<user, out, peer, accepted>>

NodeCloses ==
  /\ peer = "up"
  /\ replies' = Append(replies, "close") /\ peer' = "closed" /\ out' = <<>>
  /\ UNCHANGED <<user, accepted>>

\* The connection goes, with what is on its way; the stream then yields an error
\* or just ends.
ConnectionLost ==
  /\ peer = "up"
  /\ peer' = "lost" /\ out' = <<>>
  /\ \E n \in 0..Len(replies), last \in {<<>>, <<"error">>} :
       replies' = SubSeq(replies, 1, n) \o last
  /\ UNCHANGED <<user, accepted>>

-----------------------------------------------------------------------------
(* send_chunk.                                                             *)

Returns(result) ==
  /\ call' = "idle"
  /\ oks' = oks \cup (IF result = "Ok" THEN {chunk} ELSE {})

SendChunk ==
  /\ handle = "open" /\ call = "idle" /\ chunk < MaxChunks
  /\ chunk' = chunk + 1
  /\ call' = IF closed THEN "idle" ELSE "sending"
  /\ UNCHANGED <<handle, closed, oks, abandoned, net>>

\* A frame for a node that has gone is lost.
Emit(frame) == out' = IF peer = "up" THEN Append(out, frame) ELSE out

FrameSent ==
  /\ call = "sending"
  /\ Emit(chunk)
  /\ call' = "waiting"
  /\ UNCHANGED <<handle, closed, chunk, oks, abandoned, replies, peer, accepted>>

SendFails ==
  /\ call = "sending" /\ peer # "up"
  /\ Returns("Err")
  /\ UNCHANGED <<handle, closed, chunk, abandoned, net>>

Read(frames) ==
  /\ call = "waiting" /\ replies # <<>> /\ Head(replies) \in frames
  /\ replies' = Tail(replies)
  /\ UNCHANGED <<handle, chunk, abandoned, out, peer, accepted>>

ReadPingAsAck == Read({Ack, "ping"}) /\ Returns("Ok") /\ UNCHANGED closed

ReadAck   == Read({Ack}) /\ Returns("Ok") /\ UNCHANGED closed

\* Mutant: the loop passes over a text frame as over a ping.
ReadErrorSkipped == Read({"text"}) /\ UNCHANGED <<call, oks, closed>>

ReadError == Read({"other bytes", "text", "error"}) /\ Returns("Err") /\ UNCHANGED closed
ReadPing  == Read({"ping"}) /\ UNCHANGED <<call, oks, closed>>
ReadClose == Read({"close"}) /\ Returns("Err") /\ closed' = TRUE

StreamEnds ==
  /\ call = "waiting" /\ replies = <<>> /\ peer # "up"
  /\ Returns("Err")
  /\ UNCHANGED <<handle, closed, chunk, abandoned, net>>

\* The call is dropped; while sending, its frame may have gone into the sink.
Abandon ==
  /\ call # "idle"
  /\ \/ call = "sending" /\ Emit(chunk)
     \/ UNCHANGED out
  /\ call' = "idle" /\ abandoned' = TRUE
  /\ UNCHANGED <<handle, closed, chunk, oks, replies, peer, accepted>>

-----------------------------------------------------------------------------
(* The end of the session.                                                 *)

\* close: without an effect if the session is closed; its errors are swallowed.
CloseSession ==
  /\ handle = "open" /\ call = "idle"
  /\ IF closed THEN handle' = "gone" /\ UNCHANGED <<out, closed>>
     ELSE handle' = "closing" /\ Emit(0) /\ closed' = TRUE
  /\ UNCHANGED <<call, chunk, oks, abandoned, replies, peer, accepted>>

CloseReturns ==
  /\ handle = "closing"
  /\ handle' = "gone"
  /\ UNCHANGED <<closed, call, chunk, oks, abandoned, net>>

\* The session is dropped: the connection closes without a close frame.
DropSession ==
  /\ handle = "open" /\ call = "idle"
  /\ handle' = "gone"
  /\ UNCHANGED <<closed, call, chunk, oks, abandoned, net>>

-----------------------------------------------------------------------------

NodeStep == NodeTakes \/ NodePings \/ NodeCloses \/ ConnectionLost

CallStep == \/ FrameSent \/ SendFails
            \/ ReadAck \/ ReadError \/ ReadPing \/ ReadClose \/ StreamEnds

Next == \/ NodeStep \/ SendChunk \/ CallStep \/ Abandon
        \/ CloseSession \/ CloseReturns \/ DropSession

\* A call that can go on is polled, and a node that is up gets to every frame.
Spec == Init /\ [][Next]_vars /\ WF_vars(CallStep) /\ WF_vars(NodeTakes)

-----------------------------------------------------------------------------
(* Correctness.                                                            *)

Count(frame) == Cardinality({k \in DOMAIN replies : replies[k] = frame})

\* Between the calls nothing of an earlier call is on its way, in either
\* direction: the next reply is that of the next chunk.
InStep ==
  ~abandoned /\ call = "idle" /\ peer = "up" =>
    Range(out) \subseteq {0} /\ Range(replies) \subseteq {"ping"}

\* Nothing but this ties a reply to its chunk, and an abandoned call is what breaks
\* it.  Unless there was one, Ok for a chunk means that the node has taken that very
\* chunk, whatever was refused before and however the session goes on.  Also when
\* calls are abandoned, and their acknowledgements taken by later calls, no
\* acknowledgement serves two calls: there are never more Oks than chunks taken,
\* less those whose acknowledgement is still to be read.
OksCovered ==
  /\ InStep
  /\ ~abandoned => oks \subseteq accepted
  /\ Cardinality(oks) + Count(Ack) <= Cardinality(accepted)

\* A call returns: with the reply to its chunk or to an earlier one, or with an
\* error when the session has ended, however often the node pings.
SendReturns == call # "idle" ~> call = "idle"
=============================================================================
