------------------------- MODULE SubscriptionProofs -------------------------
(***************************************************************************)
(* Proofs that a subscription keeps its promise, for a channel of any      *)
(* capacity, any number of messages and of frames on their way; that the   *)
(* GSOC example hears what it should, and that the key it mines is the     *)
(* first that is near.                                                     *)
(***************************************************************************)
EXTENDS Subscription, Gsoc, SequenceTheorems, WellFoundedInduction, TLAPS

\* What is wrapped around the messages in `w`: the count of messages published up to
\* each frame, beginning after the first `from`; none is counted beyond `top`.
Follows(w, upto, from, top) ==
  /\ upto \in [0..Len(w) -> 0..top]
  /\ upto[0] = from
  /\ \A i \in 1..Len(w) :
       IF w[i].kind = "data" THEN w[i].msg = upto[i - 1] + 1 /\ upto[i] = upto[i - 1] + 1
       ELSE upto[i] = upto[i - 1]

\* What the owner has, the channel holds and the task is sending.
Received == Len(delivered) + Len(channel) + Len(held)

ShapeOK ==
  /\ published \in Nat /\ peer \in {"up", "closed", "lost"} /\ wire \in Seq(Frame)
  /\ task \in {"select", "sending", "closing", "ended"}
  /\ held \in Seq(Nat) /\ channel \in Seq(Nat) /\ delivered \in Seq(Nat)
  /\ owner \in {"idle", "waiting", "dropped"}
  /\ cancelled \in BOOLEAN /\ oneshot \in BOOLEAN /\ over \in BOOLEAN

\* The task sends one message at a time; it closes when it was told to, which
\* receive() does only as it returns.
ControlOK ==
  /\ Len(held) = IF task = "sending" THEN 1 ELSE 0
  /\ task = "closing" => cancelled
  /\ task = "ended" => wire = <<>>
  /\ over => task = "ended"
  /\ owner = "dropped" => cancelled
  /\ oneshot => owner # "idle" /\ (cancelled => owner = "dropped")

\* A close frame is the last; an error comes of a lost connection only.
EndOK ==
  \A i \in 1..Len(wire) :
    /\ wire[i].kind = "close" => i = Len(wire) /\ peer = "closed"
    /\ wire[i].kind = "error" => peer = "lost"

\* The messages on their way continue those in hand; and to the last one published,
\* unless the connection was lost or the task was told to end.
WireOK ==
  \E upto :
    /\ Follows(wire, upto, Received, published)
    /\ peer # "lost" /\ (task = "ended" => ~cancelled) => upto[Len(wire)] = published

\* Those in hand continue what the owner was given.
HandOK ==
  /\ \A i \in 1..Len(channel) : channel[i] = Len(delivered) + i
  /\ task = "sending" => held[1] = Len(delivered) + Len(channel) + 1

FlowOK == EndOK /\ WireOK /\ HandOK /\ (over => channel = <<>>)

IInv ==
  /\ ShapeOK /\ ControlOK
  /\ owner # "dropped" => FlowOK
  /\ EndMeansAll

-----------------------------------------------------------------------------
(* What happens to a wire.                                                 *)

\* The frames are of four kinds.
LEMMA Frames ==
  /\ \A n \in 1..MaxMsgs : Data(n) \in Frame /\ Data(n).kind = "data" /\ Data(n).msg = n
  /\ Ping \in Frame /\ Ping.kind = "ping"
  /\ Close \in Frame /\ Close.kind = "close"
  /\ Broken \in Frame /\ Broken.kind = "error"
  /\ \A f \in Frame : /\ f.kind \in {"data", "ping", "close", "error"}
                      /\ f.kind = "data" => f.msg \in Nat
  BY SubscriptionAssumption DEF SubscriptionAssumption, Frame, Data, Ping, Close, Broken

\* A frame added at the end that is no message, or the next one, is counted after
\* the others.
LEMMA AppendFollows ==
  ASSUME NEW w \in Seq(Frame), NEW f \in Frame, NEW from \in Nat, NEW top \in Nat,
         NEW now \in Nat, now >= top, NEW upto, Follows(w, upto, from, top),
         f.kind = "data" => f.msg = upto[Len(w)] + 1 /\ upto[Len(w)] < now
  PROVE  \E v : /\ Follows(Append(w, f), v, from, now)
                /\ v[Len(w) + 1] = IF f.kind = "data" THEN upto[Len(w)] + 1 ELSE upto[Len(w)]
<1> DEFINE last == IF f.kind = "data" THEN upto[Len(w)] + 1 ELSE upto[Len(w)]
           v == [i \in 0..Len(w) + 1 |-> IF i <= Len(w) THEN upto[i] ELSE last]
           x == Append(w, f)
<1>1. /\ Len(w) \in Nat /\ Len(x) = Len(w) + 1 /\ x[Len(w) + 1] = f
      /\ \A i \in 1..Len(w) : x[i] = w[i]
  OBVIOUS
<1>2. /\ \A i \in 0..Len(w) : upto[i] \in 0..top
      /\ upto[0] = from
      /\ \A i \in 1..Len(w) :
           IF w[i].kind = "data" THEN w[i].msg = upto[i - 1] + 1 /\ upto[i] = upto[i - 1] + 1
           ELSE upto[i] = upto[i - 1]
  BY DEF Follows
<1>3. last \in 0..now
  BY <1>1, <1>2
<1>4. /\ \A i \in 0..Len(w) : v[i] = upto[i]
      /\ v[Len(w) + 1] = last
  BY <1>1
<1> HIDE DEF last
<1>5. v \in [0..Len(x) -> 0..now]
  BY <1>1, <1>2, <1>3
<1> HIDE DEF v, x
<1>6. ASSUME NEW i \in 1..Len(x)
      PROVE  IF x[i].kind = "data" THEN x[i].msg = v[i - 1] + 1 /\ v[i] = v[i - 1] + 1
             ELSE v[i] = v[i - 1]
  <2>1. CASE i \in 1..Len(w)
    <3>1. i \in 0..Len(w) /\ i - 1 \in 0..Len(w)
      BY <1>1, <2>1
    <3>2. v[i] = upto[i] /\ v[i - 1] = upto[i - 1] /\ x[i] = w[i]
      BY <1>1, <1>4, <2>1, <3>1
    <3> QED
      BY <1>2, <2>1, <3>2
  <2>2. CASE i = Len(w) + 1
    BY <1>1, <1>4, <2>2 DEF last
  <2> QED
    BY <1>1, <2>1, <2>2
<1>7. v[0] = from
  BY <1>1, <1>2, <1>4
<1>8. Follows(x, v, from, now)
  BY <1>5, <1>6, <1>7 DEF Follows
<1> QED
  BY <1>4, <1>8 DEF last, x

\* Without its first frame it follows what it followed, and that frame.
LEMMA TailFollows ==
  ASSUME NEW w \in Seq(Frame), w # <<>>, NEW from \in Nat, NEW top \in Nat,
         NEW upto, Follows(w, upto, from, top)
  PROVE  \E v : Follows(Tail(w), v, upto[1], top) /\ v[Len(Tail(w))] = upto[Len(w)]
<1> DEFINE x == Tail(w)
           v == [i \in 0..Len(x) |-> upto[i + 1]]
<1>1. /\ Len(w) \in Nat \ {0} /\ Len(x) = Len(w) - 1
      /\ \A i \in 1..Len(x) : x[i] = w[i + 1]
  OBVIOUS
<1>2. /\ \A i \in 0..Len(w) : upto[i] \in 0..top
      /\ \A i \in 1..Len(w) :
           IF w[i].kind = "data" THEN w[i].msg = upto[i - 1] + 1 /\ upto[i] = upto[i - 1] + 1
           ELSE upto[i] = upto[i - 1]
  BY DEF Follows
<1>3. /\ \A i \in 0..Len(x) : v[i] = upto[i + 1]
      /\ v \in [0..Len(x) -> 0..top]
  BY <1>1, <1>2
<1> HIDE DEF v, x
<1>4. ASSUME NEW i \in 1..Len(x)
      PROVE  IF x[i].kind = "data" THEN x[i].msg = v[i - 1] + 1 /\ v[i] = v[i - 1] + 1
             ELSE v[i] = v[i - 1]
  <2>1. i + 1 \in 1..Len(w) /\ (i + 1) - 1 = i /\ i \in 0..Len(x) /\ i - 1 \in 0..Len(x)
    BY <1>1
  <2>2. v[i] = upto[i + 1] /\ v[i - 1] = upto[i] /\ x[i] = w[i + 1]
    BY <1>1, <1>3, <2>1
  <2> QED
    BY <1>2, <2>1, <2>2
<1>5. v[0] = upto[1] /\ v[Len(x)] = upto[Len(w)]
  BY <1>1, <1>3
<1> QED
  BY <1>3, <1>4, <1>5 DEF Follows, x

\* What is left of it at its beginning follows as before, whatever is lost.
LEMMA PrefixFollows ==
  ASSUME NEW w \in Seq(Frame), NEW n \in 0..Len(w), NEW from \in Nat, NEW top \in Nat,
         NEW upto, Follows(w, upto, from, top)
  PROVE  \E v : Follows(SubSeq(w, 1, n), v, from, top)
<1> DEFINE x == SubSeq(w, 1, n)
           v == [i \in 0..n |-> upto[i]]
<1>1. Len(w) \in Nat /\ Len(x) = n /\ \A i \in 1..n : x[i] = w[i]
  OBVIOUS
<1>2. v \in [0..Len(x) -> 0..top] /\ v[0] = from
  BY <1>1 DEF Follows
<1>3. \A i \in 1..Len(x) :
        IF x[i].kind = "data" THEN x[i].msg = v[i - 1] + 1 /\ v[i] = v[i - 1] + 1
        ELSE v[i] = v[i - 1]
  BY <1>1 DEF Follows
<1> QED
  BY <1>2, <1>3 DEF Follows

\* Nothing follows anything.
LEMMA EmptyFollows ==
  ASSUME NEW from \in Nat, NEW top \in Nat, from <= top
  PROVE  \E v : Follows(<<>>, v, from, top) /\ v[0] = from
<1>1. Follows(<<>>, [i \in 0..0 |-> from], from, top)
  BY DEF Follows
<1> QED
  BY <1>1 DEF Follows

-----------------------------------------------------------------------------
(* The shape of the state, and who may be where.                           *)

\* No step puts anything but frames on the wire, or anything but messages in a hand.
LEMMA ShapeStep ==
  ASSUME ShapeOK, ControlOK, Next
  PROVE  ShapeOK'
<1> USE SubscriptionAssumption
<1>1. CASE Publish
  <2>1. Data(published + 1) \in Frame
    BY <1>1, Frames DEF Publish, ShapeOK, SubscriptionAssumption
  <2> QED
    BY <1>1, <2>1 DEF Publish, ShapeOK
<1>2. CASE PeerPings
  BY <1>2, Frames DEF PeerPings, node, ShapeOK
<1>3. CASE PeerCloses
  BY <1>3, Frames DEF PeerCloses, ShapeOK
<1>4. CASE ConnectionLost
  <2>1. PICK n \in 0..Len(wire), last \in {<<>>, <<Broken>>} : wire' = SubSeq(wire, 1, n) \o last
    BY <1>4 DEF ConnectionLost
  <2>2. SubSeq(wire, 1, n) \in Seq(Frame)
    <3>1. wire \in Seq(Frame) /\ 1 \in 1..Len(wire) + 1 /\ n <= Len(wire) /\ n \in Nat
      BY DEF ShapeOK
    <3>2. \A i \in 1..n : wire[i] \in Frame
      BY <3>1
    <3> QED
      BY <3>1, <3>2
  <2>3. last \in Seq(Frame)
    BY Frames, <<Broken>> \in Seq(Frame), <<>> \in Seq(Frame)
  <2>4. wire' \in Seq(Frame)
    BY <2>1, <2>2, <2>3
  <2> QED
    BY <1>4, <2>4 DEF ConnectionLost, ShapeOK
<1>5. CASE Task
  <2>1. CASE TakeCancel
    BY <2>1 DEF TakeCancel, node, ShapeOK
  <2>2. CASE CloseDone
    BY <2>2 DEF CloseDone, TaskEnds, node, ShapeOK
  <2>3. CASE Yield
    <3>1. Head(wire) \in Frame /\ Tail(wire) \in Seq(Frame)
      BY <2>3 DEF Yield, ShapeOK
    <3>2. Head(wire).kind = "data" => <<Head(wire).msg>> \in Seq(Nat)
      BY <3>1, Frames
    <3>3. held' \in Seq(Nat)
      <4>1. held \in Seq(Nat) /\ <<>> \in Seq(Nat)
        BY DEF ShapeOK
      <4> QED
        BY <2>3, <3>2, <4>1 DEF Yield, TaskEnds
    <3>4. wire' \in Seq(Frame)
      BY <2>3, <3>1, <<>> \in Seq(Frame) DEF Yield, TaskEnds
    <3>5. task' \in {task, "sending", "ended"}
      BY <2>3 DEF Yield, TaskEnds
    <3> QED
      BY <2>3, <3>3, <3>4, <3>5 DEF Yield, node, ShapeOK
  <2>4. CASE EndOfStream
    BY <2>4 DEF EndOfStream, TaskEnds, node, ShapeOK
  <2>5. CASE Send
    BY <2>5 DEF Send, node, ShapeOK
  <2>6. CASE SendFails
    BY <2>6 DEF SendFails, TaskEnds, node, ShapeOK
  <2> QED
    BY <1>5, <2>1, <2>2, <2>3, <2>4, <2>5, <2>6 DEF Task
<1>6. CASE Owner
  <2>1. CASE StartRecv
    BY <2>1 DEF StartRecv, node, ShapeOK
  <2>2. CASE RecvMsg
    <3>1. Head(channel) \in Nat /\ Tail(channel) \in Seq(Nat)
      BY <2>2 DEF RecvMsg, ShapeOK
    <3>2. delivered' \in Seq(Nat)
      BY <2>2, <3>1 DEF RecvMsg, ShapeOK
    <3>3. /\ channel' \in {<<>>, Tail(channel)}
          /\ owner' \in {"idle", "dropped"} /\ cancelled' \in {TRUE, cancelled}
      BY <2>2 DEF RecvMsg, Return, Retire
    <3>4. channel' \in Seq(Nat)
      BY <3>1, <3>3, <<>> \in Seq(Nat)
    <3> QED
      BY <2>2, <3>2, <3>3, <3>4 DEF RecvMsg, node, ShapeOK
  <2>3. CASE RecvNone
    BY <2>3 DEF RecvNone, Return, Retire, node, ShapeOK
  <2>4. CASE Abandon
    BY <2>4 DEF Abandon, Return, Retire, node, ShapeOK
  <2>5. CASE Cancel
    BY <2>5 DEF Cancel, node, ShapeOK
  <2>6. CASE DropHandle
    BY <2>6 DEF DropHandle, Retire, node, ShapeOK
  <2> QED
    BY <1>6, <2>1, <2>2, <2>3, <2>4, <2>5, <2>6 DEF Owner
<1> QED
  BY <1>1, <1>2, <1>3, <1>4, <1>5, <1>6 DEF Next, Network

\* No step leaves the task with a second message, or ends it with frames to read.
LEMMA ControlStep ==
  ASSUME ShapeOK, ControlOK, Next
  PROVE  ControlOK'
<1>1. CASE Publish
  BY <1>1 DEF Publish, Connected, ControlOK
<1>2. CASE PeerPings
  BY <1>2 DEF PeerPings, Connected, ControlOK
<1>3. CASE PeerCloses
  BY <1>3 DEF PeerCloses, Connected, ControlOK
<1>4. CASE ConnectionLost
  BY <1>4 DEF ConnectionLost, ControlOK
<1>5. CASE Task
  <2>1. CASE TakeCancel
    BY <2>1 DEF TakeCancel, ControlOK
  <2>2. CASE CloseDone
    BY <2>2 DEF CloseDone, TaskEnds, ControlOK
  <2>3. CASE Yield
    BY <2>3 DEF Yield, TaskEnds, ControlOK
  <2>4. CASE EndOfStream
    BY <2>4 DEF EndOfStream, TaskEnds, ControlOK
  <2>5. CASE Send
    BY <2>5 DEF Send, ControlOK
  <2>6. CASE SendFails
    BY <2>6 DEF SendFails, TaskEnds, ControlOK
  <2> QED
    BY <1>5, <2>1, <2>2, <2>3, <2>4, <2>5, <2>6 DEF Task
<1>6. CASE Owner
  <2>1. CASE StartRecv
    BY <2>1 DEF StartRecv, ControlOK
  <2>2. CASE RecvMsg
    BY <2>2 DEF RecvMsg, Return, Retire, ControlOK
  <2>3. CASE RecvNone
    BY <2>3 DEF RecvNone, Return, Retire, ControlOK
  <2>4. CASE Abandon
    BY <2>4 DEF Abandon, Return, Retire, ControlOK
  <2>5. CASE Cancel
    BY <2>5 DEF Cancel, ControlOK, ShapeOK
  <2>6. CASE DropHandle
    BY <2>6 DEF DropHandle, Retire, ControlOK
  <2> QED
    BY <1>6, <2>1, <2>2, <2>3, <2>4, <2>5, <2>6 DEF Owner
<1> QED
  BY <1>1, <1>2, <1>3, <1>4, <1>5, <1>6 DEF Next, Network

-----------------------------------------------------------------------------
(* The messages on their way.                                              *)

\* What is in hand was published.
LEMMA Counts ==
  ASSUME ShapeOK
  PROVE  /\ Len(wire) \in Nat /\ Received \in Nat
         /\ \A upto : Follows(wire, upto, Received, published) =>
              /\ \A i \in 0..Len(wire) : upto[i] \in 0..published
              /\ upto[0] = Received /\ Received <= published
<1>1. /\ Len(wire) \in Nat /\ published \in Nat
      /\ Len(held) \in Nat /\ Len(channel) \in Nat /\ Len(delivered) \in Nat
  BY DEF ShapeOK
<1>2. Received \in Nat
  BY <1>1 DEF Received
<1>3. ASSUME NEW upto, Follows(wire, upto, Received, published)
      PROVE  /\ \A i \in 0..Len(wire) : upto[i] \in 0..published
             /\ upto[0] = Received /\ Received <= published
  <2>1. /\ \A i \in 0..Len(wire) : upto[i] \in 0..published
        /\ upto[0] = Received
    BY <1>3 DEF Follows
  <2>2. upto[0] \in 0..published
    BY <1>1, <2>1
  <2> QED
    BY <1>1, <1>2, <2>1, <2>2
<1> QED
  BY <1>1, <1>2, <1>3

\* A step that leaves the wire and the hands alone leaves the count alone.
LEMMA WireKept ==
  ASSUME WireOK, wire' = wire, Received' = Received, published' = published, peer' = peer,
         (task' = "ended" => ~cancelled') => (task = "ended" => ~cancelled)
  PROVE  WireOK'
<1>1. PICK upto :
        /\ Follows(wire, upto, Received, published)
        /\ peer # "lost" /\ (task = "ended" => ~cancelled) => upto[Len(wire)] = published
  BY DEF WireOK
<1>2. Follows(wire', upto, Received', published')
  BY <1>1
<1>3. peer' # "lost" /\ (task' = "ended" => ~cancelled') => upto[Len(wire')] = published'
  BY <1>1
<1> QED
  BY <1>2, <1>3 DEF WireOK

\* When the task ends all the messages were in hand, or it need not have had them.
LEMMA WireEnds ==
  ASSUME published' \in Nat, Received' \in Nat, Received' <= published', wire' = <<>>,
         peer' # "lost" /\ (task' = "ended" => ~cancelled') => Received' = published'
  PROVE  WireOK'
<1>1. PICK v : Follows(<<>>, v, Received', published') /\ v[0] = Received'
  BY EmptyFollows
<1>2. Len(wire') = 0
  OBVIOUS
<1>3. Follows(wire', v, Received', published')
  BY <1>1
<1>4. peer' # "lost" /\ (task' = "ended" => ~cancelled') => v[Len(wire')] = published'
  BY <1>1, <1>2
<1> QED
  BY <1>3, <1>4 DEF WireOK

\* The node adds a frame at the end of a connection that is up.
LEMMA WireGrows ==
  ASSUME ShapeOK, WireOK, EndOK, peer = "up", task # "ended", NEW f \in Frame,
         wire' = Append(wire, f), Received' = Received,
         \/ f.kind = "data" /\ f.msg = published + 1 /\ published' = published + 1 /\ peer' = peer
         \/ f.kind = "ping" /\ published' = published /\ peer' = peer
         \/ f.kind = "close" /\ published' = published /\ peer' = "closed"
  PROVE  WireOK' /\ EndOK'
<1>1. PICK upto : /\ Follows(wire, upto, Received, published)
                  /\ upto[Len(wire)] = published
  BY DEF WireOK
<1>2. /\ wire \in Seq(Frame) /\ published \in Nat /\ Received \in Nat
      /\ published' \in Nat /\ published' >= published
  BY Counts DEF ShapeOK
<1>3. f.kind = "data" => f.msg = upto[Len(wire)] + 1 /\ upto[Len(wire)] < published'
  BY <1>1, <1>2
<1>4. PICK v : /\ Follows(Append(wire, f), v, Received, published')
               /\ v[Len(wire) + 1] = IF f.kind = "data" THEN upto[Len(wire)] + 1 ELSE upto[Len(wire)]
  BY <1>1, <1>2, <1>3, AppendFollows
<1>5. Len(wire') = Len(wire) + 1 /\ v[Len(wire')] = published'
  BY <1>1, <1>2, <1>4
<1>6. Follows(wire', v, Received', published')
  BY <1>4
<1>7. WireOK'
  BY <1>5, <1>6 DEF WireOK
<1>8. ASSUME NEW i \in 1..Len(wire')
      PROVE  /\ wire'[i].kind = "close" => i = Len(wire') /\ peer' = "closed"
             /\ wire'[i].kind = "error" => peer' = "lost"
  <2>1. CASE i \in 1..Len(wire)
    <3>1. wire'[i] = wire[i]
      BY <1>2, <2>1
    <3> QED
      BY <2>1, <3>1 DEF EndOK
  <2>2. CASE i = Len(wire) + 1
    <3>1. wire'[i] = f
      BY <1>2, <2>2
    <3> QED
      BY <1>5, <2>2, <3>1
  <2> QED
    BY <1>2, <1>5, <2>1, <2>2
<1> QED
  BY <1>7, <1>8 DEF EndOK

\* What a lost connection still yields is the beginning of what it would have yielded.
LEMMA WireBreaks ==
  ASSUME ShapeOK, WireOK, EndOK, ConnectionLost
  PROVE  WireOK' /\ EndOK'
<1>1. PICK n \in 0..Len(wire), last \in {<<>>, <<Broken>>} : wire' = SubSeq(wire, 1, n) \o last
  BY DEF ConnectionLost
<1>2. /\ peer = "up" /\ peer' = "lost" /\ published' = published /\ Received' = Received
  BY DEF ConnectionLost, Received
<1>3. /\ wire \in Seq(Frame) /\ Len(wire) \in Nat /\ published \in Nat /\ Received \in Nat
  BY Counts DEF ShapeOK
<1>4. PICK upto : Follows(wire, upto, Received, published)
  BY DEF WireOK
<1> DEFINE x == SubSeq(wire, 1, n)
<1>5. /\ x \in Seq(Frame) /\ Len(x) = n /\ n \in Nat
      /\ \A i \in 1..n : x[i] = wire[i] /\ i \in 1..Len(wire)
  BY <1>3
<1>6. PICK v : Follows(x, v, Received, published)
  BY <1>3, <1>4, PrefixFollows
<1> HIDE DEF x
<1>7. CASE last = <<>>
  <2>1. wire' = x
    BY <1>1, <1>5, <1>7 DEF x
  <2>2. Follows(wire', v, Received', published')
    BY <1>2, <1>6, <2>1
  <2>3. WireOK'
    BY <1>2, <2>2 DEF WireOK
  <2> QED
    BY <1>2, <1>5, <2>1, <2>3 DEF EndOK
<1>8. CASE last = <<Broken>>
  <2>1. wire' = Append(x, Broken)
    BY <1>1, <1>5, <1>8 DEF x
  <2>2. PICK y : Follows(Append(x, Broken), y, Received, published)
    <3>1. Broken \in Frame /\ Broken.kind # "data" /\ published >= published
      BY <1>3, Frames
    <3> QED
      BY <1>3, <1>5, <1>6, <3>1, AppendFollows
  <2>3. Follows(wire', y, Received', published')
    BY <1>2, <2>1, <2>2
  <2>4. WireOK'
    BY <1>2, <2>3 DEF WireOK
  <2>5. /\ Len(wire') = n + 1 /\ wire'[n + 1] = Broken
        /\ \A i \in 1..n : wire'[i] = wire[i] /\ i \in 1..Len(wire)
    BY <1>5, <2>1, Frames
  <2>6. ASSUME NEW i \in 1..Len(wire')
        PROVE  /\ wire'[i].kind = "close" => i = Len(wire') /\ peer' = "closed"
               /\ wire'[i].kind = "error" => peer' = "lost"
    <3>1. CASE i \in 1..n
      BY <1>2, <2>5, <3>1 DEF EndOK
    <3>2. CASE i = n + 1
      BY <1>2, <2>5, <3>2, Frames
    <3> QED
      BY <1>5, <2>5, <3>1, <3>2
  <2> QED
    BY <2>4, <2>6 DEF EndOK
<1> QED
  BY <1>7, <1>8

-----------------------------------------------------------------------------
(* What the task and the owner do with them.                               *)

\* The task takes the next message in hand, passes over a ping, or ends with nothing
\* left behind unless the connection was lost.
LEMMA YieldFlow ==
  ASSUME ShapeOK, ControlOK, FlowOK, Yield
  PROVE  FlowOK'
<1>1. PICK upto :
        /\ Follows(wire, upto, Received, published)
        /\ peer # "lost" => upto[Len(wire)] = published
  BY DEF FlowOK, WireOK, Yield
<1>2. /\ wire \in Seq(Frame) /\ wire # <<>> /\ published \in Nat /\ Received \in Nat
      /\ Head(wire) = wire[1] /\ Head(wire) \in Frame
      /\ Len(wire) \in Nat \ {0} /\ Len(Tail(wire)) = Len(wire) - 1
      /\ \A i \in 1..Len(Tail(wire)) : Tail(wire)[i] = wire[i + 1]
  BY Counts DEF ShapeOK, Yield
<1>3. /\ upto[0] = Received /\ upto[1] \in 0..published
      /\ IF wire[1].kind = "data" THEN wire[1].msg = upto[0] + 1 /\ upto[1] = upto[0] + 1
         ELSE upto[1] = upto[0]
  <2>1. 1 \in 1..Len(wire) /\ 1 \in 0..Len(wire) /\ 1 - 1 = 0
    BY <1>2
  <2> QED
    BY <1>1, <2>1, Counts DEF Follows
<1>4. /\ published' = published /\ peer' = peer /\ channel' = channel
      /\ delivered' = delivered /\ cancelled' = cancelled /\ over' = over /\ ~over
      /\ task = "select" /\ Len(held) = 0
      /\ Len(channel) \in Nat /\ Len(delivered) \in Nat
  BY DEF Yield, node, ControlOK, ShapeOK
<1>5. CASE wire' = Tail(wire) /\ Received' = upto[1] /\ task' # "ended"
  <2>1. PICK v : Follows(Tail(wire), v, upto[1], published) /\ v[Len(Tail(wire))] = upto[Len(wire)]
    BY <1>1, <1>2, TailFollows
  <2>2. Follows(wire', v, Received', published')
    BY <1>4, <1>5, <2>1
  <2>3. peer' # "lost" => v[Len(wire')] = published'
    BY <1>1, <1>4, <1>5, <2>1
  <2>4. WireOK'
    BY <2>2, <2>3 DEF WireOK
  <2>5. EndOK'
    <3> SUFFICES ASSUME NEW i \in 1..Len(wire')
                 PROVE  /\ wire'[i].kind = "close" => i = Len(wire') /\ peer' = "closed"
                        /\ wire'[i].kind = "error" => peer' = "lost"
      BY DEF EndOK
    <3>1. i + 1 \in 1..Len(wire) /\ wire'[i] = wire[i + 1] /\ Len(wire') = Len(wire) - 1
      BY <1>2, <1>5
    <3>2. /\ wire[i + 1].kind = "close" => i + 1 = Len(wire) /\ peer = "closed"
          /\ wire[i + 1].kind = "error" => peer = "lost"
      BY <3>1 DEF FlowOK, EndOK
    <3>3. i + 1 = Len(wire) => i = Len(wire')
      <4>1. Len(wire) \in Nat /\ Len(wire') = Len(wire) - 1 /\ i \in Int
        BY <1>2, <3>1
      <4> QED
        BY <4>1
    <3> QED
      BY <1>4, <3>1, <3>2, <3>3
  <2>6. HandOK'
    <3>1. task' = "sending" => held'[1] = Len(delivered) + Len(channel) + 1
      <4>1. Received = Len(delivered) + Len(channel)
        BY <1>4 DEF Received
      <4>2. task' = "sending" => Head(wire).kind = "data" /\ held' = <<Head(wire).msg>>
        BY <1>4 DEF Yield, TaskEnds
      <4>3. task' = "sending" => wire[1].kind = "data" /\ held' = <<wire[1].msg>>
        BY <1>2, <4>2
      <4> QED
        BY <1>3, <4>1, <4>3
    <3> QED
      BY <1>4, <3>1 DEF FlowOK, HandOK
  <2> QED
    BY <1>4, <2>4, <2>5, <2>6 DEF FlowOK
<1>6. CASE Head(wire).kind \in {"close", "error"}
  <2>1. task' = "ended" /\ wire' = <<>> /\ Len(held') = 0
    BY <1>6 DEF Yield, TaskEnds
  <2>2. Received' = Received
    BY <1>4, <2>1 DEF Received
  <2>3. peer' # "lost" => Received' = published'
    <3>1. 1 \in 1..Len(wire)
      BY <1>2
    <3>2. peer # "lost" => Len(wire) = 1
      BY <1>2, <1>6, <3>1 DEF FlowOK, EndOK
    <3> QED
      BY <1>1, <1>2, <1>3, <1>4, <1>6, <2>2, <3>2
  <2>4. WireOK'
    BY <1>1, <1>2, <1>4, <2>1, <2>2, <2>3, Counts, WireEnds
  <2>5. EndOK' /\ HandOK'
    BY <1>4, <2>1 DEF EndOK, HandOK, FlowOK
  <2> QED
    BY <1>4, <2>4, <2>5 DEF FlowOK
<1>7. CASE Head(wire).kind = "data"
  <2>1. task' = "sending" /\ held' = <<wire[1].msg>> /\ wire' = Tail(wire)
    BY <1>2, <1>7 DEF Yield
  <2>2. Received' = upto[1]
    BY <1>2, <1>3, <1>4, <1>7, <2>1 DEF Received
  <2> QED
    BY <1>5, <2>1, <2>2
<1>8. CASE Head(wire).kind = "ping"
  <2>1. task' = task /\ held' = held /\ wire' = Tail(wire)
    BY <1>8 DEF Yield
  <2>2. Received' = upto[1]
    BY <1>2, <1>3, <1>4, <1>8, <2>1 DEF Received
  <2> QED
    BY <1>4, <1>5, <2>1, <2>2
<1> QED
  BY <1>6, <1>7, <1>8 DEF Yield

\* The task sends what it holds, which comes after what the channel has.
LEMMA SendFlow ==
  ASSUME ShapeOK, ControlOK, FlowOK, Send
  PROVE  FlowOK'
<1>1. /\ task = "sending" /\ task' = "select" /\ held' = <<>> /\ channel' = channel \o held
      /\ wire' = wire /\ published' = published /\ peer' = peer
      /\ cancelled' = cancelled /\ delivered' = delivered /\ over' = over /\ ~over
      /\ Len(held) = 1 /\ held \in Seq(Nat) /\ channel \in Seq(Nat) /\ delivered \in Seq(Nat)
  BY DEF Send, node, ControlOK, ShapeOK
<1>2. /\ Len(channel) \in Nat /\ Len(delivered) \in Nat
      /\ Len(channel') = Len(channel) + 1 /\ channel'[Len(channel) + 1] = held[1]
      /\ \A i \in 1..Len(channel) : channel'[i] = channel[i]
  <2>1. Len(channel) \in Nat /\ Len(delivered) \in Nat
    BY <1>1
  <2>2. /\ Len(channel') = Len(channel) + 1
        /\ \A i \in 1..Len(channel) + 1 :
             channel'[i] = IF i <= Len(channel) THEN channel[i] ELSE held[i - Len(channel)]
    <3>1. channel \in Seq(Nat) /\ held \in Seq(Nat)
      BY <1>1
    <3>2. /\ Len(channel \o held) = Len(channel) + Len(held)
          /\ \A i \in 1..Len(channel) + Len(held) :
               (channel \o held)[i] =
                 IF i <= Len(channel) THEN channel[i] ELSE held[i - Len(channel)]
      BY <3>1, ConcatProperties
    <3> QED
      BY <1>1, <3>2
  <2>3. \A i \in 1..Len(channel) : channel'[i] = channel[i]
    BY <2>1, <2>2
  <2>4. channel'[Len(channel) + 1] = held[1]
    BY <2>1, <2>2
  <2> QED
    BY <2>1, <2>2, <2>3, <2>4
<1>3. Received' = Received
  BY <1>1, <1>2 DEF Received
<1>4. WireOK'
  BY <1>1, <1>3, WireKept DEF FlowOK
<1>5. HandOK'
  <2>1. /\ held[1] = Len(delivered) + Len(channel) + 1
        /\ \A i \in 1..Len(channel) : channel[i] = Len(delivered) + i
    BY <1>1 DEF FlowOK, HandOK
  <2>2. ASSUME NEW i \in 1..Len(channel') PROVE channel'[i] = Len(delivered) + i
    <3>1. CASE i \in 1..Len(channel)
      BY <1>2, <2>1, <3>1
    <3>2. CASE i = Len(channel) + 1
      BY <1>2, <2>1, <3>2
    <3> QED
      BY <1>2, <3>1, <3>2
  <2> QED
    BY <1>1, <2>2 DEF HandOK
<1> QED
  BY <1>1, <1>4, <1>5 DEF FlowOK, EndOK

\* The owner is given the first message of the channel, which is the next in order.
LEMMA RecvFlow ==
  ASSUME ShapeOK, ControlOK, FlowOK, RecvMsg, owner' # "dropped"
  PROVE  FlowOK'
<1>1. /\ channel # <<>> /\ channel' = Tail(channel) /\ cancelled' = cancelled
      /\ delivered' = Append(delivered, Head(channel))
      /\ wire' = wire /\ published' = published /\ peer' = peer
      /\ task' = task /\ held' = held /\ over' = over /\ ~over
  BY DEF RecvMsg, Return, Retire, node, FlowOK
<1>2. /\ Len(channel) \in Nat \ {0} /\ Len(delivered) \in Nat /\ Len(held) \in Nat
      /\ Len(channel') = Len(channel) - 1 /\ Len(delivered') = Len(delivered) + 1
      /\ \A i \in 1..Len(channel') : channel'[i] = channel[i + 1] /\ i + 1 \in 1..Len(channel)
  BY <1>1 DEF ShapeOK
<1>3. Received' = Received
  BY <1>1, <1>2 DEF Received
<1>4. WireOK'
  BY <1>1, <1>3, WireKept DEF FlowOK
<1>5. HandOK'
  BY <1>1, <1>2 DEF FlowOK, HandOK
<1> QED
  BY <1>1, <1>4, <1>5 DEF FlowOK, EndOK

\* Until the handle is dropped the messages stay in order.
LEMMA FlowStep ==
  ASSUME ShapeOK, ControlOK, FlowOK, Next, owner' # "dropped"
  PROVE  FlowOK'
<1>1. CASE Publish
  <2>1. /\ peer = "up" /\ task # "ended" /\ peer' = peer /\ published' = published + 1
        /\ wire' = Append(wire, Data(published + 1)) /\ Received' = Received
    BY <1>1 DEF Publish, Connected, Received
  <2>2. published + 1 \in 1..MaxMsgs
    BY <1>1, SubscriptionAssumption DEF Publish, ShapeOK, SubscriptionAssumption
  <2>3. /\ Data(published + 1) \in Frame /\ Data(published + 1).kind = "data"
        /\ Data(published + 1).msg = published + 1
    BY <2>2, Frames
  <2>4. WireOK' /\ EndOK'
    BY <2>1, <2>3, WireGrows DEF FlowOK
  <2> QED
    BY <1>1, <2>4 DEF Publish, FlowOK, HandOK
<1>2. CASE PeerPings
  <2>1. /\ peer = "up" /\ task # "ended" /\ peer' = peer /\ published' = published
        /\ wire' = Append(wire, Ping) /\ Received' = Received
    BY <1>2 DEF PeerPings, Connected, node, Received
  <2>2. WireOK' /\ EndOK'
    BY <2>1, Frames, WireGrows DEF FlowOK
  <2> QED
    BY <1>2, <2>2 DEF PeerPings, FlowOK, HandOK
<1>3. CASE PeerCloses
  <2>1. /\ peer = "up" /\ task # "ended" /\ peer' = "closed" /\ published' = published
        /\ wire' = Append(wire, Close) /\ Received' = Received
    BY <1>3 DEF PeerCloses, Connected, Received
  <2>2. WireOK' /\ EndOK'
    BY <2>1, Frames, WireGrows DEF FlowOK
  <2> QED
    BY <1>3, <2>2 DEF PeerCloses, FlowOK, HandOK
<1>4. CASE ConnectionLost
  <2>1. WireOK' /\ EndOK'
    BY <1>4, WireBreaks DEF FlowOK
  <2> QED
    BY <1>4, <2>1 DEF ConnectionLost, FlowOK, HandOK
<1>5. CASE TakeCancel \/ StartRecv \/ Abandon \/ Cancel \/ RecvNone
  <2>1. /\ wire' = wire /\ published' = published /\ peer' = peer
        /\ held' = held /\ channel' = channel /\ delivered' = delivered
        /\ task' = "sending" => task = "sending"
        /\ (task' = "ended" => ~cancelled') => (task = "ended" => ~cancelled)
        /\ over' => over \/ channel = <<>>
    BY <1>5 DEF TakeCancel, StartRecv, Abandon, Cancel, RecvNone, Return, Retire, node
  <2>2. Received' = Received
    BY <2>1 DEF Received
  <2>3. WireOK'
    BY <2>1, <2>2, WireKept DEF FlowOK
  <2> QED
    BY <2>1, <2>3 DEF FlowOK, EndOK, HandOK
<1>6. CASE CloseDone \/ EndOfStream
  <2>1. PICK upto :
          /\ Follows(wire, upto, Received, published)
          /\ peer # "lost" /\ (task = "ended" => ~cancelled) => upto[Len(wire)] = published
    BY DEF FlowOK, WireOK
  <2>2. /\ task # "ended" /\ task' = "ended" /\ wire' = <<>> /\ Len(held') = 0 /\ Len(held) = 0
        /\ published' = published /\ peer' = peer /\ channel' = channel
        /\ delivered' = delivered /\ cancelled' = cancelled /\ over' = over
        /\ cancelled \/ wire = <<>>
    BY <1>6 DEF CloseDone, EndOfStream, TaskEnds, node, ControlOK
  <2>3. Received' = Received
    BY <2>2 DEF Received
  <2>4. published' \in Nat /\ Received' \in Nat /\ Received' <= published'
    BY <2>1, <2>2, <2>3, Counts DEF ShapeOK
  <2>5. wire = <<>> => Len(wire) = 0 /\ upto[0] = Received
    BY <2>1, Counts
  <2>6. WireOK'
    BY <2>1, <2>2, <2>3, <2>4, <2>5, WireEnds
  <2> QED
    BY <2>2, <2>6 DEF FlowOK, EndOK, HandOK
<1>7. CASE Yield
  BY <1>7, YieldFlow
<1>8. CASE Send
  BY <1>8, SendFlow
<1>9. CASE RecvMsg
  BY <1>9, RecvFlow
<1>10. CASE SendFails \/ DropHandle
  BY <1>10 DEF SendFails, DropHandle, Retire
<1> QED
  BY <1>1, <1>2, <1>3, <1>4, <1>5, <1>6, <1>7, <1>8, <1>9, <1>10
  DEF Next, Network, Task, Owner

-----------------------------------------------------------------------------
(* The theorems.                                                           *)

\* A subscription begins with nothing published.
LEMMA InitOK == Init => IInv
<1> SUFFICES ASSUME Init PROVE IInv
  OBVIOUS
<1>1. ShapeOK /\ ControlOK
  BY <<>> \in Seq(Frame), <<>> \in Seq(Nat) DEF Init, ShapeOK, ControlOK
<1>2. PICK v : Follows(<<>>, v, 0, 0) /\ v[0] = 0
  BY EmptyFollows
<1>3. wire = <<>> /\ Received = 0 /\ published = 0 /\ Len(wire) = 0
  BY DEF Init, Received
<1>4. WireOK
  BY <1>2, <1>3 DEF WireOK
<1>5. EndOK /\ HandOK /\ ~over
  BY DEF Init, EndOK, HandOK
<1> QED
  BY <1>1, <1>4, <1>5 DEF IInv, FlowOK, EndMeansAll

\* An end that is told for the first time is told when nothing is under way; after it
\* nothing is published to this subscription.
LEMMA EndStep == IInv /\ Next => EndMeansAll'
<1> SUFFICES ASSUME IInv, Next, over', peer' = "closed", oneshot' \/ ~cancelled'
             PROVE  Len(delivered') = published'
  BY DEF EndMeansAll
<1>1. /\ ShapeOK /\ ControlOK /\ EndMeansAll /\ (owner # "dropped" => FlowOK)
  BY DEF IInv
<1>2. CASE ~over
  <2>1. RecvNone
    BY <1>2 DEF Next, Network, Task, Owner, Publish, PeerPings, PeerCloses, ConnectionLost,
                TakeCancel, CloseDone, Yield, EndOfStream, Send, SendFails, StartRecv,
                RecvMsg, Abandon, Cancel, DropHandle
  <2>2. /\ owner = "waiting" /\ channel = <<>> /\ task = "ended" /\ peer = "closed"
        /\ published' = published /\ delivered' = delivered
        /\ oneshot' = oneshot /\ (oneshot \/ ~cancelled)
    BY <2>1 DEF RecvNone, Return, Retire, node
  <2>3. ~cancelled
    BY <1>1, <2>2 DEF ControlOK
  <2>4. PICK upto : Follows(wire, upto, Received, published) /\ upto[Len(wire)] = published
    BY <1>1, <2>2, <2>3 DEF FlowOK, WireOK
  <2>5. Len(wire) = 0 /\ upto[0] = Received
    BY <1>1, <2>2, <2>4, Counts DEF ControlOK
  <2>6. Received = Len(delivered)
    BY <1>1, <2>2 DEF Received, ControlOK, ShapeOK
  <2> QED
    BY <2>2, <2>4, <2>5, <2>6
<1>3. CASE over
  <2>1. task = "ended" /\ ~RecvMsg
    BY <1>1, <1>3 DEF ControlOK, RecvMsg, FlowOK
  <2>2. /\ peer = "closed" /\ published' = published /\ delivered' = delivered
        /\ oneshot' = oneshot /\ (~cancelled' => ~cancelled)
    <3>1. ~Network
      BY <2>1 DEF Network, Publish, PeerPings, PeerCloses, ConnectionLost, Connected
    <3>2. ~Task
      BY <2>1 DEF Task, TakeCancel, CloseDone, Yield, EndOfStream, Send, SendFails
    <3>3. StartRecv \/ RecvNone \/ Abandon \/ Cancel \/ DropHandle
      BY <2>1, <3>1, <3>2 DEF Next, Owner
    <3>4. published' = published /\ peer' = peer /\ delivered' = delivered /\ oneshot' = oneshot
      BY <3>3 DEF StartRecv, RecvNone, Abandon, Cancel, DropHandle, node
    <3>5. cancelled' = TRUE \/ cancelled' = cancelled
      BY <3>3 DEF StartRecv, RecvNone, Abandon, Cancel, DropHandle, Return, Retire
    <3> QED
      BY <3>4, <3>5
  <2> QED
    BY <1>1, <1>3, <2>2 DEF EndMeansAll
<1> QED
  BY <1>2, <1>3

\* The invariant is kept by every step of the node, the network, the task and the owner.
LEMMA StepOK == IInv /\ [Next]_vars => IInv'
<1>1. CASE Next
  <2> SUFFICES ASSUME IInv, Next PROVE IInv'
    BY <1>1
  <2>1. ShapeOK' /\ ControlOK'
    BY ShapeStep, ControlStep DEF IInv
  <2>2. owner' # "dropped" => FlowOK'
    <3>1. owner' # "dropped" => owner # "dropped"
      BY DEF Next, Network, Task, Owner, Publish, PeerPings, PeerCloses, ConnectionLost,
             TakeCancel, CloseDone, Yield, EndOfStream, Send, SendFails, StartRecv, RecvMsg,
             RecvNone, Abandon, Cancel, DropHandle
    <3> QED
      BY <3>1, FlowStep DEF IInv
  <2> QED
    BY <2>1, <2>2, EndStep DEF IInv
<1>2. CASE UNCHANGED vars
  BY <1>2 DEF vars, IInv, ShapeOK, ControlOK, FlowOK, EndOK, WireOK, HandOK, Follows,
              Received, EndMeansAll
<1> QED
  BY <1>1, <1>2

\* For any capacity of the channel and any number of messages: an end after a clean
\* close the owner did not ask for means that it has every message.
THEOREM EndIsTheEnd == Spec => []EndMeansAll
<1>1. IInv => EndMeansAll
  BY DEF IInv
<1> QED
  BY InitOK, StepOK, <1>1, PTL DEF Spec

\* What recv returns is the promise's next message, or its end; nothing else that
\* happens can be told from outside, but that the node publishes.
LEMMA StepPromised == IInv /\ [Next]_vars =>
  [Promise!Next]_<<published, delivered, over>>
<1> SUFFICES ASSUME IInv, [Next]_vars
             PROVE  Promise!Next \/ UNCHANGED <<published, delivered, over>>
  OBVIOUS
<1>1. CASE Publish
  BY <1>1 DEF Publish, Promise!Next, Promise!Publish
<1>2. CASE RecvMsg
  <2>1. ShapeOK /\ ControlOK /\ FlowOK /\ channel # <<>>
    BY <1>2 DEF RecvMsg, IInv
  <2>2. ~over
    BY <2>1 DEF FlowOK
  <2>3. PICK upto : Follows(wire, upto, Received, published)
    BY <2>1 DEF FlowOK, WireOK
  <2>4. /\ Len(channel) \in Nat \ {0} /\ Len(delivered) \in Nat /\ Len(held) \in Nat
        /\ published \in Nat /\ Head(channel) = channel[1]
    BY <2>1 DEF ShapeOK
  <2>5. Head(channel) = Len(delivered) + 1
    BY <2>1, <2>4 DEF FlowOK, HandOK
  <2>6. Len(delivered) < published
    <3>1. Received <= published
      BY <2>1, <2>3, Counts
    <3> QED
      BY <2>4, <3>1 DEF Received
  <2> QED
    BY <1>2, <2>2, <2>5, <2>6 DEF RecvMsg, node, Promise!Next, Promise!Deliver
<1>3. CASE RecvNone
  <2>1. over' = TRUE /\ published' = published /\ delivered' = delivered
    BY <1>3 DEF RecvNone, node
  <2>2. over = TRUE \/ ~over
    BY DEF IInv, ShapeOK
  <2>3. CASE over = TRUE
    BY <2>1, <2>3
  <2>4. CASE ~over
    <3>1. Promise!End
      BY <2>1, <2>4 DEF Promise!End
    <3> QED
      BY <3>1 DEF Promise!Next
  <2> QED
    BY <2>2, <2>3, <2>4
<1>4. CASE PeerPings \/ PeerCloses \/ ConnectionLost \/ Task
  BY <1>4 DEF PeerPings, PeerCloses, ConnectionLost, Task, TakeCancel, CloseDone, Yield,
              EndOfStream, Send, SendFails, node
<1>5. CASE StartRecv \/ Abandon \/ Cancel \/ DropHandle
  BY <1>5 DEF StartRecv, Abandon, Cancel, DropHandle, node
<1>6. CASE UNCHANGED vars
  BY <1>6 DEF vars
<1> QED
  BY <1>1, <1>2, <1>3, <1>4, <1>5, <1>6 DEF Next, Network, Owner

\* For any capacity of the channel and any number of messages: the subscription
\* implements the mailbox.  Messages arrive in order, none twice and none left out, up
\* to an end that is final.
THEOREM PromiseIsKept == Spec => Promised
<1>1. Init => Promise!Init
  BY DEF Init, Promise!Init
<1> QED
  BY InitOK, StepOK, StepPromised, <1>1, PTL DEF Spec, Promised, Promise!Spec

-----------------------------------------------------------------------------
(* The GSOC example, for any number of messages.                           *)

MessagesOK ==
  /\ stored \in 0..MESSAGES /\ sender \in 0..MESSAGES /\ taken \in Nat
  /\ told \in Seq(Nat) /\ queue \in Seq(Nat)

\* While both tasks run: what the receiver has taken are the first notifications, each
\* the one it expected, and the others are in its queue.
OpenOK ==
  /\ taken < MESSAGES
  /\ Len(told) = taken + Len(queue)
  /\ \A i \in 1..taken : told[i] = i
  /\ \A i \in 1..Len(queue) : queue[i] = told[taken + i]

GsocInv ==
  /\ MessagesOK
  /\ phase = "mining" => told = <<>> /\ queue = <<>> /\ taken = 0
  /\ phase = "open" => OpenOK
  /\ AllWereHeard

\* The example begins with nothing sent and nothing told.
LEMMA GsocInitOK == GsocInit => GsocInv
  BY GsocAssumption DEF GsocInit, GsocInv, MessagesOK, AllWereHeard

\* A notification goes to the end of the queue as to the end of what was told.
LEMMA NotifyOK == GsocInv /\ GsocNotify => GsocInv'
<1> SUFFICES ASSUME GsocInv, GsocNotify PROVE GsocInv'
  OBVIOUS
<1> USE GsocAssumption
<1>1. /\ MessagesOK /\ OpenOK /\ phase = "open" /\ phase' = "open"
      /\ told' = Append(told, stored) /\ queue' = Append(queue, stored)
      /\ stored' = stored /\ sender' = sender /\ taken' = taken
  BY DEF GsocInv, GsocNotify
<1>2. /\ told \in Seq(Nat) /\ queue \in Seq(Nat) /\ stored \in Nat /\ taken \in Nat
  BY <1>1 DEF MessagesOK
<1>3. /\ told' \in Seq(Nat) /\ queue' \in Seq(Nat)
      /\ Len(told') = Len(told) + 1 /\ Len(queue') = Len(queue) + 1
      /\ \A i \in 1..Len(told) : told'[i] = told[i]
      /\ \A i \in 1..Len(queue) : queue'[i] = queue[i]
      /\ told'[Len(told) + 1] = stored /\ queue'[Len(queue) + 1] = stored
  BY <1>1, <1>2
<1>4. MessagesOK'
  BY <1>1, <1>2, <1>3 DEF MessagesOK
<1>5. OpenOK'
  <2>1. /\ taken < MESSAGES /\ Len(told) = taken + Len(queue)
        /\ Len(told) \in Nat /\ Len(queue) \in Nat
        /\ \A i \in 1..taken : told[i] = i
        /\ \A i \in 1..Len(queue) : queue[i] = told[taken + i]
    BY <1>1, <1>2 DEF OpenOK
  <2>2. \A i \in 1..taken : told'[i] = i
    BY <1>2, <1>3, <2>1
  <2>3. ASSUME NEW i \in 1..Len(queue') PROVE queue'[i] = told'[taken + i]
    <3>1. CASE i \in 1..Len(queue)
      <4>1. taken + i \in 1..Len(told)
        BY <1>2, <2>1, <3>1
      <4> QED
        BY <1>3, <2>1, <3>1, <4>1
    <3>2. CASE i = Len(queue) + 1
      BY <1>2, <1>3, <2>1, <3>2
    <3> QED
      BY <1>3, <2>1, <3>1, <3>2
  <2>4. Len(told') = taken + Len(queue')
    BY <1>2, <1>3, <2>1
  <2> QED
    BY <1>1, <2>1, <2>2, <2>3, <2>4 DEF OpenOK
<1> QED
  BY <1>1, <1>4, <1>5 DEF GsocInv, AllWereHeard

\* The head of the queue is the first notification that was not taken: if it is not
\* the message expected, one was left out or repeated; if it is the last one, all the
\* notifications up to it were the right ones.
LEMMA TakeOK == GsocInv /\ GsocTake => GsocInv'
<1> SUFFICES ASSUME GsocInv, GsocTake PROVE GsocInv'
  OBVIOUS
<1> USE GsocAssumption
<1>1. /\ MessagesOK /\ OpenOK /\ queue # <<>> /\ phase = "open"
      /\ told' = told /\ stored' = stored /\ sender' = sender /\ queue' = Tail(queue)
  BY DEF GsocInv, GsocTake, Quiet
<1>2. /\ Len(queue) >= 1 /\ Head(queue) = told[taken + 1] /\ taken + 1 <= Len(told)
      /\ Len(queue') = Len(queue) - 1 /\ queue' \in Seq(Nat)
      /\ \A i \in 1..Len(queue') : queue'[i] = queue[i + 1]
  BY <1>1 DEF MessagesOK, OpenOK
<1>3. taken' \in Nat /\ MessagesOK'
  BY <1>1, <1>2 DEF GsocTake, MessagesOK
<1>4. CASE Head(queue) = taken + 1
  <2>1. taken' = taken + 1
    BY <1>4 DEF GsocTake
  <2>2. \A i \in 1..taken' : told'[i] = i
    BY <1>1, <1>2, <1>4, <2>1 DEF OpenOK, MessagesOK
  <2>3. CASE taken + 1 = MESSAGES
    <3>1. phase' = "all"
      BY <1>4, <2>3 DEF GsocTake
    <3> QED
      BY <1>1, <1>2, <1>3, <2>1, <2>2, <2>3, <3>1 DEF GsocInv, AllWereHeard, MessagesOK
  <2>4. CASE taken + 1 # MESSAGES
    <3>1. phase' = "open"
      BY <1>4, <2>4 DEF GsocTake
    <3>2. OpenOK'
      BY <1>1, <1>2, <2>1, <2>2, <2>4 DEF OpenOK, MessagesOK
    <3> QED
      BY <1>3, <3>1, <3>2 DEF GsocInv, AllWereHeard
  <2> QED
    BY <2>3, <2>4
<1>5. CASE Head(queue) # taken + 1
  <2>1. phase' = "mismatch"
    BY <1>5 DEF GsocTake
  <2>2. taken + 1 \in DOMAIN told /\ taken + 1 <= MESSAGES /\ told[taken + 1] # taken + 1
    BY <1>1, <1>2, <1>5 DEF OpenOK, MessagesOK
  <2> QED
    BY <1>1, <1>3, <2>1, <2>2 DEF GsocInv, AllWereHeard
<1> QED
  BY <1>4, <1>5

\* The invariant is kept by every step of the example.
LEMMA GsocStepOK == GsocInv /\ [GsocNext]_gsocVars => GsocInv'
<1> SUFFICES ASSUME GsocInv, [GsocNext]_gsocVars PROVE GsocInv'
  OBVIOUS
<1> USE GsocAssumption
<1>1. CASE GsocMine
  <2>1. /\ phase = "mining" /\ phase' \in {"no key", "open"}
        /\ stored' = stored /\ told' = told /\ queue' = queue
        /\ sender' = sender /\ taken' = taken
    BY <1>1 DEF GsocMine, pubsub
  <2>2. MessagesOK /\ told = <<>> /\ queue = <<>> /\ taken = 0
    BY <2>1 DEF GsocInv
  <2>3. MessagesOK'
    BY <2>1, <2>2 DEF MessagesOK
  <2>4. OpenOK'
    <3>1. /\ taken' = 0 /\ told' = <<>> /\ queue' = <<>>
          /\ Len(told') = 0 /\ Len(queue') = 0
      BY <2>1, <2>2
    <3>2. 0 < MESSAGES
      BY GsocAssumption DEF GsocAssumption
    <3> QED
      BY <3>1, <3>2 DEF OpenOK
  <2>5. AllWereHeard'
    BY <2>1 DEF AllWereHeard
  <2> QED
    BY <2>1, <2>3, <2>4, <2>5 DEF GsocInv
<1>2. CASE GsocSend
  BY <1>2 DEF GsocSend, GsocInv, MessagesOK, OpenOK, AllWereHeard, Quiet
<1>3. CASE GsocNotify
  BY <1>3, NotifyOK
<1>4. CASE GsocTake
  BY <1>4, TakeOK
<1>5. CASE GsocGivesUp
  BY <1>5 DEF GsocGivesUp, GsocInv, MessagesOK, OpenOK, AllWereHeard, pubsub, Quiet
<1>6. CASE UNCHANGED gsocVars
  BY <1>6 DEF gsocVars, pubsub, GsocInv, MessagesOK, OpenOK, AllWereHeard
<1> QED
  BY <1>1, <1>2, <1>3, <1>4, <1>5, <1>6 DEF GsocNext

\* For any number of messages: the example ends well only if each was told before the
\* next replaced it, and finds a mismatch only if a notification was left out or
\* repeated.
THEOREM AllAreHeard == GsocSpec => []AllWereHeard
<1>1. GsocInv => AllWereHeard
  BY DEF GsocInv
<1> QED
  BY GsocInitOK, GsocStepOK, <1>1, PTL DEF GsocSpec

-----------------------------------------------------------------------------
(* The search for a key.                                                   *)

\* A set of numbers that is not empty has a least one.
LEMMA LeastExists ==
  ASSUME NEW S \in SUBSET Nat, S # {}
  PROVE  \E n \in S : \A m \in S : n <= m
<1> DEFINE Less == OpToRel(<, Nat)
<1>1. IsWellFoundedOn(Less, Nat)
  BY NatLessThanWellFounded
<1>2. \A x, y \in Nat : <<x, y>> \in Less <=> x < y
  BY DEF OpToRel
<1> HIDE DEF Less
<1>3. PICK n \in S : \A m \in S : ~ (<<m, n>> \in Less)
  BY <1>1, WFMin
<1>4. \A m \in S : m \in Nat /\ n \in Nat /\ ~ (m < n)
  BY <1>2, <1>3
<1> QED
  BY <1>4

\* A set of numbers that is not empty has the one that Least names.
LEMMA LeastOf ==
  ASSUME NEW S \in SUBSET Nat, S # {}
  PROVE  Least(S) \in S /\ \A m \in S : Least(S) <= m
BY LeastExists DEF Least

\* The byte and the bit in it that the n-th bit of an address is; and back.
LEMMA BytesOfBits ==
  ASSUME NEW B \in Nat \ {0}, NEW n \in Nat \ {0}
  PROVE  /\ (n - 1) \div B \in Nat /\ ((n - 1) % B) + 1 \in 1 .. B
         /\ n = B * ((n - 1) \div B) + ((n - 1) % B) + 1
OBVIOUS

\* Of two bits the earlier is in an earlier byte, or earlier in the same.
LEMMA OneSplit ==
  ASSUME NEW B \in Nat \ {0}, NEW i \in Nat, NEW k \in Nat, NEW j \in 1 .. B, NEW l \in 1 .. B,
         B * i + j <= B * k + l
  PROVE  i < k \/ (i = k /\ j <= l)
<1>1. CASE i > k
  <2>1. PICK d \in Nat : i = k + 1 + d
    <3>1. i - k - 1 \in Nat /\ i = k + 1 + (i - k - 1)
      BY <1>1
    <3> QED
      BY <3>1
  <2>2. B * i = B * k + B + B * d /\ B * d \in Nat
    BY <2>1
  <2> QED
    BY <2>2
<1>2. CASE i = k
  BY <1>2
<1> QED
  BY <1>1, <1>2

\* An address has its bits at the places where Bit looks for them.
LEMMA BitPlace ==
  ASSUME NEW n \in Nat \ {0}, n <= ADDRESS_BYTES * BYTE_BITS
  PROVE  /\ ((n - 1) \div BYTE_BITS) + 1 \in 1 .. ADDRESS_BYTES
         /\ ((n - 1) % BYTE_BITS) + 1 \in 1 .. BYTE_BITS
         /\ n = BYTE_BITS * ((n - 1) \div BYTE_BITS) + ((n - 1) % BYTE_BITS) + 1
<1> DEFINE i == (n - 1) \div BYTE_BITS
           j == ((n - 1) % BYTE_BITS) + 1
<1>1. BYTE_BITS \in Nat \ {0} /\ ADDRESS_BYTES \in Nat \ {0}
  BY GsocAssumption DEF GsocAssumption
<1>2. /\ i \in Nat /\ j \in 1 .. BYTE_BITS /\ n = BYTE_BITS * i + ((n - 1) % BYTE_BITS) + 1
      /\ n = BYTE_BITS * i + j
  BY <1>1, BytesOfBits
<1>3. /\ ADDRESS_BYTES - 1 \in Nat /\ BYTE_BITS \in 1 .. BYTE_BITS
      /\ ADDRESS_BYTES * BYTE_BITS = BYTE_BITS * (ADDRESS_BYTES - 1) + BYTE_BITS
  BY <1>1
<1> HIDE DEF i, j
<1>4. i < ADDRESS_BYTES - 1 \/ i = ADDRESS_BYTES - 1
  BY <1>1, <1>2, <1>3, OneSplit
<1>5. i + 1 \in 1 .. ADDRESS_BYTES
  BY <1>1, <1>2, <1>4
<1> QED
  BY <1>2, <1>5 DEF i, j

\* Where the j-th bit of the i-th byte is.
LEMMA PlaceOfBit ==
  ASSUME NEW i \in 1 .. ADDRESS_BYTES, NEW j \in 1 .. BYTE_BITS, NEW q, q = BYTE_BITS * (i - 1) + j
  PROVE  /\ q \in Nat \ {0} /\ q <= ADDRESS_BYTES * BYTE_BITS
         /\ ((q - 1) \div BYTE_BITS) + 1 = i /\ ((q - 1) % BYTE_BITS) + 1 = j
<1>1. BYTE_BITS \in Nat \ {0} /\ ADDRESS_BYTES \in Nat \ {0}
  BY GsocAssumption DEF GsocAssumption
<1>2. i - 1 \in Nat /\ ADDRESS_BYTES - i \in Nat /\ BYTE_BITS * (i - 1) \in Nat
  BY <1>1
<1>3. q \in Nat \ {0}
  BY <1>1, <1>2
<1>4. q <= ADDRESS_BYTES * BYTE_BITS
  <2>1. ADDRESS_BYTES * BYTE_BITS = BYTE_BITS * (i - 1) + BYTE_BITS + BYTE_BITS * (ADDRESS_BYTES - i)
    BY <1>1
  <2>2. BYTE_BITS * (ADDRESS_BYTES - i) \in Nat
    BY <1>1, <1>2
  <2> QED
    BY <1>1, <1>2, <2>1, <2>2
<1> DEFINE k == (q - 1) \div BYTE_BITS
           l == ((q - 1) % BYTE_BITS) + 1
<1>5. k \in Nat /\ l \in 1 .. BYTE_BITS /\ q = BYTE_BITS * k + l
  <2>1. k \in Nat /\ l \in 1 .. BYTE_BITS /\ q = BYTE_BITS * k + ((q - 1) % BYTE_BITS) + 1
    BY <1>1, <1>3, BytesOfBits
  <2> QED
    BY <1>1, <2>1
<1> HIDE DEF k, l
<1>6. BYTE_BITS * (i - 1) + j <= BYTE_BITS * k + l /\ BYTE_BITS * k + l <= BYTE_BITS * (i - 1) + j
  BY <1>1, <1>2, <1>5
<1>7. i - 1 < k \/ (i - 1 = k /\ j <= l)
  BY <1>1, <1>2, <1>5, <1>6, OneSplit
<1>8. k < i - 1 \/ (k = i - 1 /\ l <= j)
  BY <1>1, <1>2, <1>5, <1>6, OneSplit
<1>9. k = i - 1 /\ l = j
  BY <1>2, <1>5, <1>7, <1>8
<1> QED
  BY <1>2, <1>3, <1>4, <1>9 DEF k, l

\* Proximity counts the bits before the first that differs.
LEMMA ProximityIsAgreement ==
  ASSUME NEW a \in Overlay, NEW b \in Overlay, NEW p \in Nat
  PROVE  Proximity(a, b) >= p <=>
           /\ p <= ADDRESS_BYTES * BYTE_BITS
           /\ \A n \in 1 .. p : Bit(a, n) = Bit(b, n)
<1> DEFINE differ == {i \in DOMAIN a : a[i] # b[i]}
<1>1. BYTE_BITS \in Nat \ {0} /\ ADDRESS_BYTES \in Nat \ {0}
  BY GsocAssumption DEF GsocAssumption
<1>2. /\ DOMAIN a = 1 .. ADDRESS_BYTES /\ Len(a) = ADDRESS_BYTES /\ Len(b) = ADDRESS_BYTES
      /\ \A i \in 1 .. ADDRESS_BYTES : a[i] \in [1 .. BYTE_BITS -> {0, 1}]
                                       /\ b[i] \in [1 .. BYTE_BITS -> {0, 1}]
  BY <1>1 DEF Overlay
<1>3. CASE differ = {}
  <2>1. \A i \in 1 .. ADDRESS_BYTES : a[i] = b[i]
    BY <1>2, <1>3
  <2>2. Proximity(a, b) = BYTE_BITS * ADDRESS_BYTES
    BY <1>2, <1>3 DEF Proximity
  <2>3. ASSUME p <= ADDRESS_BYTES * BYTE_BITS, NEW n \in 1 .. p PROVE Bit(a, n) = Bit(b, n)
    <3>1. n \in Nat \ {0} /\ n <= ADDRESS_BYTES * BYTE_BITS
      BY <1>1, <2>3
    <3> QED
      BY <2>1, <3>1, BitPlace DEF Bit
  <2>4. BYTE_BITS * ADDRESS_BYTES = ADDRESS_BYTES * BYTE_BITS /\ ADDRESS_BYTES * BYTE_BITS \in Nat
    BY <1>1
  <2> QED
    BY <2>2, <2>3, <2>4
<1>4. CASE differ # {}
  <2> DEFINE i == Least(differ)
             bits == {k \in DOMAIN a[i] : a[i][k] # b[i][k]}
             j == Least(bits)
             q == BYTE_BITS * (i - 1) + j
  <2>1. /\ i \in 1 .. ADDRESS_BYTES /\ a[i] # b[i]
        /\ \A k \in 1 .. ADDRESS_BYTES : k < i => a[k] = b[k]
    <3>1. differ \in SUBSET Nat
      BY <1>1, <1>2
    <3>2. i \in differ /\ \A m \in differ : i <= m
      BY <1>4, <3>1, LeastOf
    <3>3. i \in 1 .. ADDRESS_BYTES /\ a[i] # b[i]
      BY <1>2, <3>2
    <3>4. ASSUME NEW k \in 1 .. ADDRESS_BYTES, k < i, a[k] # b[k] PROVE FALSE
      <4>1. k \in differ
        BY <1>2, <3>4
      <4>2. i <= k /\ i \in Nat /\ k \in Nat
        BY <3>2, <3>3, <4>1
      <4> QED
        BY <3>4, <4>2
    <3> QED
      BY <3>3, <3>4
  <2> HIDE DEF differ
  <2>2. Proximity(a, b) = BYTE_BITS * (i - 1) + LeadingBits(a[i], b[i])
    BY <1>2, <1>4 DEF Proximity, differ
  <2> HIDE DEF i
  <2>3. /\ DOMAIN a[i] = 1 .. BYTE_BITS /\ a[i] \in [1 .. BYTE_BITS -> {0, 1}]
        /\ b[i] \in [1 .. BYTE_BITS -> {0, 1}]
    BY <1>2, <2>1
  <2>4. bits # {} /\ bits \in SUBSET Nat
    <3>1. \E k \in 1 .. BYTE_BITS : a[i][k] # b[i][k]
      <4> DEFINE c == a[i]
                 d == b[i]
      <4>1. c = [k \in 1 .. BYTE_BITS |-> c[k]] /\ d = [k \in 1 .. BYTE_BITS |-> d[k]] /\ c # d
        BY <2>1, <2>3
      <4> HIDE DEF c, d
      <4>2. \E k \in 1 .. BYTE_BITS : c[k] # d[k]
        BY <4>1
      <4> QED
        BY <4>2 DEF c, d
    <3> QED
      BY <2>3, <3>1
  <2>5. /\ j \in 1 .. BYTE_BITS /\ a[i][j] # b[i][j]
        /\ \A k \in 1 .. BYTE_BITS : k < j => a[i][k] = b[i][k]
    <3>1. j \in bits /\ \A m \in bits : j <= m
      BY <2>4, LeastOf
    <3>2. j \in 1 .. BYTE_BITS /\ a[i][j] # b[i][j]
      BY <2>3, <3>1
    <3>3. ASSUME NEW k \in 1 .. BYTE_BITS, k < j, a[i][k] # b[i][k] PROVE FALSE
      <4>1. k \in bits
        BY <2>3, <3>3
      <4>2. j <= k /\ j \in Nat /\ k \in Nat
        BY <3>1, <3>2, <4>1
      <4> QED
        BY <3>3, <4>2
    <3> QED
      BY <3>2, <3>3
  <2> HIDE DEF bits
  <2>6. LeadingBits(a[i], b[i]) = j - 1
    BY <2>4 DEF LeadingBits, bits, j
  <2> HIDE DEF j
  <2>7. /\ q \in Nat \ {0} /\ q <= ADDRESS_BYTES * BYTE_BITS
        /\ ((q - 1) \div BYTE_BITS) + 1 = i /\ ((q - 1) % BYTE_BITS) + 1 = j
    BY <2>1, <2>5, PlaceOfBit
  <2>8. Bit(a, q) # Bit(b, q)
    BY <2>5, <2>7 DEF Bit
  <2>9. Proximity(a, b) = q - 1
    <3>1. BYTE_BITS * (i - 1) \in Nat
      BY <1>1, <2>1
    <3> QED
      BY <2>2, <2>5, <2>6, <3>1
  <2>10. ASSUME NEW n \in Nat \ {0}, n < q PROVE Bit(a, n) = Bit(b, n)
    <3> DEFINE k == (n - 1) \div BYTE_BITS
               l == ((n - 1) % BYTE_BITS) + 1
    <3>1. n <= ADDRESS_BYTES * BYTE_BITS
      <4>1. ADDRESS_BYTES * BYTE_BITS \in Nat
        BY <1>1
      <4> QED
        BY <2>7, <2>10, <4>1
    <3>2. /\ k + 1 \in 1 .. ADDRESS_BYTES /\ l \in 1 .. BYTE_BITS
          /\ n = BYTE_BITS * k + ((n - 1) % BYTE_BITS) + 1 /\ k \in Nat
      BY <1>1, <3>1, BitPlace, BytesOfBits
    <3>3. n = BYTE_BITS * k + l
      BY <1>1, <3>2
    <3> HIDE DEF k, l
    <3>4. i - 1 \in Nat /\ j \in Nat /\ l \in Nat /\ BYTE_BITS * k + l <= BYTE_BITS * (i - 1) + j
      <4>1. q = BYTE_BITS * (i - 1) + j
        OBVIOUS
      <4> HIDE DEF q
      <4> QED
        BY <2>1, <2>5, <2>7, <2>10, <3>2, <3>3, <4>1
    <3>5. k < i - 1 \/ (k = i - 1 /\ l <= j)
      BY <1>1, <2>5, <3>2, <3>4, OneSplit
    <3>6. CASE k < i - 1
      <4>1. a[k + 1] = b[k + 1]
        BY <2>1, <3>2, <3>6
      <4> QED
        BY <4>1 DEF Bit, k
    <3>7. CASE k = i - 1 /\ l <= j
      <4>1. k + 1 = i
        BY <2>1, <3>7
      <4>2. l # j
        BY <2>10, <3>3, <3>7
      <4>3. a[i][l] = b[i][l]
        BY <2>5, <3>2, <3>4, <3>7, <4>2
      <4> QED
        BY <4>1, <4>3 DEF Bit, k, l
    <3> QED
      BY <3>5, <3>6, <3>7
  <2> HIDE DEF q
  <2>11. CASE p < q
    <3>1. ADDRESS_BYTES * BYTE_BITS \in Nat
      BY <1>1
    <3>2. p <= ADDRESS_BYTES * BYTE_BITS /\ q - 1 >= p
      BY <2>7, <2>11, <3>1
    <3>3. \A n \in 1 .. p : n \in Nat \ {0} /\ n < q
      BY <2>7, <2>11
    <3> QED
      BY <2>9, <2>10, <3>2, <3>3
  <2>12. CASE ~(p < q)
    <3>1. q \in 1 .. p /\ ~(q - 1 >= p)
      BY <2>7, <2>12
    <3> QED
      BY <2>8, <2>9, <3>1
  <2> QED
    BY <2>11, <2>12
<1> QED
  BY <1>3, <1>4

\* What is searched for, and where the chunks lie, does not change; the key that is
\* mined is the first of the window that is near.
SearchInv ==
  /\ search \in [overlay : Overlay, proximity : Nat]
  /\ lies \in [Window -> Overlay]
  /\ CASE phase = "mining" -> TRUE
       [] phase = "no key" -> \A key \in Window : ~Near(key)
       [] OTHER -> /\ mined \in Window /\ Near(mined)
                   /\ \A key \in Window : key < mined => ~Near(key)

\* A key is near when its chunks agree with the overlay as far as was asked for.
LEMMA NearAgrees ==
  ASSUME search \in [overlay : Overlay, proximity : Nat], lies \in [Window -> Overlay],
         NEW key \in Window
  PROVE  Near(key) <=> Agree(key)
<1>1. lies[key] \in Overlay /\ search.overlay \in Overlay /\ search.proximity \in Nat
  OBVIOUS
<1> QED
  BY <1>1, ProximityIsAgreement DEF Near, Agree

\* The keys tried are numbers, one after the other.
LEMMA WindowOfKeys ==
  /\ Window \in SUBSET Nat
  /\ \A key \in Window : \A k \in GSOC_MINE_START .. key - 1 : k \in Window /\ k < key
<1>1. GSOC_MINE_START \in Nat /\ TRIES \in Nat
  BY GsocAssumption DEF GsocAssumption
<1> QED
  BY <1>1 DEF Window

\* Only gsoc_mine has a say in which key it is.
LEMMA SearchStep == SearchInv /\ [GsocNext]_gsocVars => SearchInv'
<1> SUFFICES ASSUME SearchInv, [GsocNext]_gsocVars PROVE SearchInv'
  OBVIOUS
<1>1. CASE GsocMine
  <2> DEFINE near == {key \in Window : Near(key)}
  <2>1. phase = "mining" /\ lies' = lies /\ search' = search
    BY <1>1 DEF GsocMine
  <2>2. \A key : Near(key)' <=> Near(key)
    BY <2>1 DEF Near
  <2>3. CASE near = {}
    <3>1. phase' = "no key"
      BY <1>1, <2>3 DEF GsocMine
    <3>2. \A key \in Window : ~Near(key)'
      BY <2>2, <2>3
    <3> QED
      BY <2>1, <3>1, <3>2 DEF SearchInv
  <2>4. CASE near # {}
    <3>1. phase' = "open" /\ mined' = Least(near)
      BY <1>1, <2>4 DEF GsocMine
    <3>2. near \in SUBSET Nat
      BY WindowOfKeys
    <3>3. Least(near) \in near /\ \A m \in near : Least(near) <= m
      BY <2>4, <3>2, LeastOf
    <3>4. mined' \in Window /\ Near(mined')
      BY <3>1, <3>3
    <3>5. ASSUME NEW key \in Window, key < mined', Near(key) PROVE FALSE
      <4>1. key \in near /\ key \in Nat /\ mined' \in Nat
        BY <3>2, <3>4, <3>5
      <4>2. mined' <= key
        BY <3>1, <3>3, <4>1
      <4> QED
        BY <3>5, <4>1, <4>2
    <3>6. Near(mined)' /\ \A key \in Window : key < mined' => ~Near(key)'
      BY <2>1, <2>2, <3>4, <3>5 DEF Near
    <3> QED
      BY <2>1, <3>1, <3>4, <3>6 DEF SearchInv
  <2> QED
    BY <2>3, <2>4
<1>2. CASE GsocSend \/ GsocNotify \/ GsocTake \/ GsocGivesUp \/ UNCHANGED gsocVars
  <2>1. lies' = lies /\ search' = search /\ mined' = mined
    BY <1>2 DEF GsocSend, GsocNotify, GsocTake, GsocGivesUp, Quiet, gsocVars
  <2>2. phase' = phase \/ (phase = "open" /\ phase' \notin {"mining", "no key"})
    BY <1>2 DEF GsocSend, GsocNotify, GsocTake, GsocGivesUp, gsocVars
  <2>3. Near(mined)' <=> Near(mined)
    BY <2>1 DEF Near
  <2>4. \A key : Near(key)' <=> Near(key)
    BY <2>1 DEF Near
  <2> QED
    BY <2>1, <2>2, <2>3, <2>4 DEF SearchInv
<1> QED
  BY <1>1, <1>2 DEF GsocNext

\* The key that is mined is the first that is near, for addresses of any length, any
\* window, and wherever the chunks of its keys lie.
THEOREM MinedIsTheFirstNear ==
  /\ GsocInit /\ search \in [overlay : Overlay, proximity : Nat] /\ lies \in [Window -> Overlay]
  /\ [][GsocNext]_gsocVars
  => []MinedIsNear
<1>1. GsocInit /\ search \in [overlay : Overlay, proximity : Nat] /\ lies \in [Window -> Overlay]
        => SearchInv
  BY DEF GsocInit, SearchInv
<1>2. SearchInv => MinedIsNear
  <2> SUFFICES ASSUME SearchInv PROVE MinedIsNear
    OBVIOUS
  <2>1. \A key \in Window : Near(key) <=> Agree(key)
    BY NearAgrees DEF SearchInv
  <2> QED
    BY <2>1, WindowOfKeys DEF SearchInv, MinedIsNear
<1> QED
  BY <1>1, <1>2, SearchStep, PTL
=============================================================================
