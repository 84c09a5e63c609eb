---------------------------- MODULE Subscription ----------------------------
(***************************************************************************)
(* A PSS or GSOC websocket subscription (pss/mod.rs): a spawned task moves *)
(* what the socket yields into a bounded channel, from which the owner of  *)
(* the handle receives; a second channel tells the task to stop.  The      *)
(* owner runs a program of its own, or is the one-shot receive(topic,      *)
(* timeout).  The node, the network, the task and the owner interleave.    *)
(*                                                                         *)
(* Message n is the n-th one the node publishes.  Text and binary frames   *)
(* are data alike.  The handle exists once the connection is up.           *)
(***************************************************************************)
EXTENDS Naturals, Sequences

CONSTANTS
  CAP,      \* capacity of the message channel (64)
  MaxMsgs,  \* bound: messages the node publishes
  NET       \* bound: frames on the way from the node

ASSUME SubscriptionAssumption ==
  CAP \in Nat \ {0} /\ MaxMsgs \in Nat /\ NET \in Nat \ {0}

VARIABLES
  published,  \* messages the node has published
  peer,       \* the node's end: "up", "closed" (a clean close) or "lost"
  wire,       \* the frames the socket has yet to yield
  task,       \* "select", "sending", "closing" or "ended"
  held,       \* the message the task is sending to the channel
  channel,    \* messages in the channel
  cancelled,  \* the cancel sender is used up
  owner,      \* "idle", "waiting" (in recv) or "dropped"
  oneshot,    \* the owner is receive()
  delivered,  \* messages recv has returned
  over        \* recv has returned None

node == <<published, peer>>
vars == <<published, peer, wire, task, held, channel, cancelled, owner,
          oneshot, delivered, over>>

Data(n) == [kind |-> "data", msg |-> n]
Ping    == [kind |-> "ping"]
Close   == [kind |-> "close"]
Broken  == [kind |-> "error"]

Frame == {Data(n) : n \in 1..MaxMsgs} \cup {Ping, Close, Broken}

Init ==
  /\ published = 0 /\ peer = "up" /\ wire = <<>>
  /\ task = "select" /\ held = <<>> /\ channel = <<>>
  /\ cancelled = FALSE
  /\ oneshot \in BOOLEAN
  /\ owner = IF oneshot THEN "waiting" ELSE "idle"
  /\ delivered = <<>> /\ over = FALSE

-----------------------------------------------------------------------------
(* The node and the network.                                               *)

Connected == peer = "up" /\ task # "ended" /\ Len(wire) < NET

Publish ==
  /\ Connected /\ published < MaxMsgs
  /\ published' = published + 1
  /\ wire' = Append(wire, Data(published + 1))
  /\ UNCHANGED <<peer, task, held, channel, cancelled, owner, oneshot, delivered, over>>

PeerPings ==
  /\ Connected
  /\ wire' = Append(wire, Ping)
  /\ UNCHANGED <<node, task, held, channel, cancelled, owner, oneshot, delivered, over>>

PeerCloses ==
  /\ Connected
  /\ peer' = "closed"
  /\ wire' = Append(wire, Close)
  /\ UNCHANGED <<published, task, held, channel, cancelled, owner, oneshot, delivered, over>>

\* The connection goes, with frames still on their way; the stream then yields
\* an error or just ends.
ConnectionLost ==
  /\ peer = "up" /\ task # "ended"
  /\ peer' = "lost"
  /\ \E n \in 0..Len(wire), last \in {<<>>, <<Broken>>} :
       wire' = SubSeq(wire, 1, n) \o last
  /\ UNCHANGED <<published, task, held, channel, cancelled, owner, oneshot, delivered, over>>

-----------------------------------------------------------------------------
(* The task.                                                               *)

\* The task ends: both halves of the socket and the message sender are dropped.
TaskEnds == task' = "ended" /\ wire' = <<>> /\ held' = <<>>

\* The select's first arm; which ready arm is taken is random.
TakeCancel ==
  /\ task = "select" /\ cancelled
  /\ task' = "closing"
  /\ UNCHANGED <<node, wire, held, channel, cancelled, owner, oneshot, delivered, over>>

\* The close frame is written, or fails to be; both results are ignored.
CloseDone ==
  /\ task = "closing"
  /\ TaskEnds
  /\ UNCHANGED <<node, channel, cancelled, owner, oneshot, delivered, over>>

\* The select's second arm.
Yield ==
  /\ task = "select" /\ wire # <<>>
  /\ \/ /\ Head(wire).kind = "data"
        /\ task' = "sending" /\ held' = <<Head(wire).msg>>
        /\ wire' = Tail(wire)
     \/ /\ Head(wire).kind = "ping"
        /\ wire' = Tail(wire)
        /\ UNCHANGED <<task, held>>
     \/ /\ Head(wire).kind \in {"close", "error"}
        /\ TaskEnds
  /\ UNCHANGED <<node, channel, cancelled, owner, oneshot, delivered, over>>

\* Mutant: the end of the stream is taken for an ignored frame.
EndOfStreamIgnored == FALSE /\ UNCHANGED vars

EndOfStream ==
  /\ task = "select" /\ wire = <<>> /\ peer # "up"
  /\ TaskEnds
  /\ UNCHANGED <<node, channel, cancelled, owner, oneshot, delivered, over>>

\* msg_tx.send: waits for room, and for nothing else.
Send ==
  /\ task = "sending" /\ owner # "dropped"
  /\ Len(channel) < CAP
  /\ task' = "select" /\ held' = <<>>
  /\ channel' = channel \o held
  /\ UNCHANGED <<node, wire, cancelled, owner, oneshot, delivered, over>>

SendFails ==
  /\ task = "sending" /\ owner = "dropped"
  /\ TaskEnds
  /\ UNCHANGED <<node, channel, cancelled, owner, oneshot, delivered, over>>

-----------------------------------------------------------------------------
(* The owner.                                                              *)

StartRecv ==
  /\ owner = "idle"
  /\ owner' = "waiting"
  /\ UNCHANGED <<node, wire, task, held, channel, cancelled, oneshot, delivered, over>>

\* cancel(), then the receiver is dropped with what the channel holds.
Retire == owner' = "dropped" /\ channel' = <<>> /\ cancelled' = TRUE

\* receive() cancels and drops its subscription as it returns.
Return(rest) ==
  \/ /\ oneshot /\ Retire
  \/ /\ ~oneshot
     /\ owner' = "idle" /\ channel' = rest
     /\ UNCHANGED cancelled

RecvMsg ==
  /\ owner = "waiting" /\ channel # <<>>
  /\ delivered' = Append(delivered, Head(channel))
  /\ Return(Tail(channel))
  /\ UNCHANGED <<node, wire, task, held, oneshot, over>>

\* Mutant: a closed channel is reported before it is drained.
RecvNoneUndrained ==
  /\ owner = "waiting" /\ task = "ended"
  /\ over' = TRUE
  /\ Return(channel)
  /\ UNCHANGED <<node, wire, task, held, oneshot, delivered>>

RecvNone ==
  /\ owner = "waiting" /\ channel = <<>> /\ task = "ended"
  /\ over' = TRUE
  /\ Return(channel)
  /\ UNCHANGED <<node, wire, task, held, oneshot, delivered>>

\* Mutant: what recv was about to return goes with its future.
AbandonLosing ==
  /\ owner = "waiting" /\ (oneshot => channel = <<>> /\ task # "ended")
  /\ Return(IF channel = <<>> THEN <<>> ELSE Tail(channel))
  /\ UNCHANGED <<node, wire, task, held, oneshot, delivered, over>>

\* The owner gives up waiting: it drops the future of recv.  The timeout of
\* receive() does so only when recv has nothing to return.
Abandon ==
  /\ owner = "waiting" /\ (oneshot => channel = <<>> /\ task # "ended")
  /\ Return(channel)
  /\ UNCHANGED <<node, wire, task, held, oneshot, delivered, over>>

Cancel ==
  /\ owner = "idle" /\ ~cancelled
  /\ cancelled' = TRUE
  /\ UNCHANGED <<node, wire, task, held, channel, owner, oneshot, delivered, over>>

\* The handle, or the future of receive(), is dropped.
DropHandle ==
  /\ owner # "dropped"
  /\ Retire
  /\ UNCHANGED <<node, wire, task, held, oneshot, delivered, over>>

-----------------------------------------------------------------------------
Network == Publish \/ PeerPings \/ PeerCloses \/ ConnectionLost
Task    == TakeCancel \/ CloseDone \/ Yield \/ EndOfStream \/ Send \/ SendFails
Owner   == StartRecv \/ RecvMsg \/ RecvNone \/ Abandon \/ Cancel \/ DropHandle

Next == Network \/ Task \/ Owner

\* The executor runs a task that can go on, and a recv that has something to
\* return; a ready cancel is not passed over for ever, since select! picks among
\* the ready arms at random.  Nothing makes the node publish or the owner receive.
Fairness ==
  /\ WF_vars(Task)
  /\ SF_vars(TakeCancel)
  /\ WF_vars(RecvMsg \/ RecvNone)

Spec == Init /\ [][Next]_vars /\ Fairness

-----------------------------------------------------------------------------
(* Correctness.                                                            *)

OnWire == \E i \in DOMAIN wire : wire[i].kind = "data"

\* None is the whole truth: told so after a clean close that it did not ask for
\* itself, the owner has every message the node published; receive() never
\* reports "closed before message" when there was one.
EndMeansAll == over /\ peer = "closed" /\ (oneshot \/ ~cancelled) =>
                 Len(delivered) = published

\* The subscription implements the promise.
Promise  == INSTANCE Mailbox
Promised == Promise!Spec

\* Dropping the handle closes the socket, also while the task waits for room in
\* the channel or for a silent node, and however busy the node is.  And a recv that
\* could have something to return does return: a message on its way, the end of the
\* connection and a cancel all reach it.
DropCloses == owner = "dropped" ~> task = "ended"

RecvReturns ==
  (owner = "waiting" /\ (OnWire \/ peer # "up" \/ cancelled)) ~> owner # "waiting"

HandlesAreServed == DropCloses /\ RecvReturns

\* Violated by the code.  "Drop it (or call Subscription::cancel) to close the
\* underlying socket."
CancelCloses == cancelled ~> task = "ended"
=============================================================================
