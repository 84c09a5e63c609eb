------------------------------ MODULE WireProofs ------------------------------
(***************************************************************************)
(* Proofs about the wire between client and node: a chunk stream, for any  *)
(* number of chunks; an HTTP call, for any state of the node and any       *)
(* frames; and the request of an upload or a download, for any options and *)
(* any directory.                                                          *)
(***************************************************************************)
EXTENDS ChunkStream, Http, Transfers, FiniteSetTheorems, SequenceTheorems, WellFoundedInduction,
        NaturalsInduction, TLAPS

\* What the node answers to a chunk.
NodeAnswers == {Ack, "other bytes", "text"}

ShapeOK ==
  /\ out \in Seq(Nat) /\ replies \in Seq(Reply) /\ chunk \in Nat
  /\ call \in {"idle", "sending", "waiting"} /\ peer \in {"up", "closed", "lost"}
  /\ IsFiniteSet(oks) /\ IsFiniteSet(accepted)

\* Chunks are sent, and taken, in the order of their calls, each once; an end is the last
\* thing the node has to say.
OrderOK ==
  /\ accepted \subseteq 0..chunk
  /\ \A i \in 1..Len(out) : out[i] <= chunk /\ (out[i] > 0 => \A a \in accepted : a < out[i])
  /\ \A i, j \in 1..Len(out) : i < j /\ out[j] > 0 => out[i] < out[j]
  /\ call = "sending" => /\ chunk \notin accepted /\ chunk > 0
                         /\ \A i \in 1..Len(out) : out[i] < chunk
  /\ \A k \in 1..Len(replies) : replies[k] \in {"close", "error"} => k = Len(replies) /\ peer # "up"

\* As long as no call was abandoned only the chunk of the call that waits is under way, to
\* the node or back as the only answer.
OwnOK ==
  /\ oks \subseteq accepted
  /\ \A k \in 1..Len(replies) :
       replies[k] \in NodeAnswers => call = "waiting" /\ (replies[k] = Ack => chunk \in accepted)
  /\ \A k, m \in 1..Len(replies) : replies[k] \in NodeAnswers /\ replies[m] \in NodeAnswers => k = m
  /\ peer = "up" =>
       \A i \in 1..Len(out) :
         out[i] > 0 => /\ call = "waiting" /\ out[i] = chunk
                       /\ \A k \in 1..Len(replies) : replies[k] \notin NodeAnswers

CountOK == Cardinality(oks) + Count(Ack) <= Cardinality(accepted)

IInv == ShapeOK /\ OrderOK /\ (~abandoned => OwnOK) /\ CountOK

-----------------------------------------------------------------------------
(* Acknowledgements on their way.                                          *)

Acks(s) == {k \in 1..Len(s) : s[k] = Ack}

\* They are finitely many.
LEMMA AcksFinite ==
  ASSUME NEW s \in Seq(Reply)
  PROVE  IsFiniteSet(Acks(s)) /\ Cardinality(Acks(s)) \in Nat
<1>1. IsFiniteSet(1..Len(s))
  BY FS_Interval
<1>2. IsFiniteSet(Acks(s))
  BY <1>1, FS_Subset DEF Acks
<1> QED
  BY <1>2, FS_CardinalityType

\* The acknowledgements are those the property counts.
LEMMA CountIsAcks == ShapeOK => Count(Ack) = Cardinality(Acks(replies))
<1> SUFFICES ASSUME ShapeOK PROVE Count(Ack) = Cardinality(Acks(replies))
  OBVIOUS
<1>1. DOMAIN replies = 1..Len(replies)
  BY DEF ShapeOK
<1> QED
  BY <1>1 DEF Count, Acks

\* And so they are after a step.
LEMMA CountAfter == ShapeOK' => Count(Ack)' = Cardinality(Acks(replies'))
<1> SUFFICES ASSUME ShapeOK' PROVE Count(Ack)' = Cardinality(Acks(replies'))
  OBVIOUS
<1>1. DOMAIN replies' = 1..Len(replies')
  BY DEF ShapeOK
<1> QED
  BY <1>1 DEF Count, Acks

\* A frame at the end adds one if it is an acknowledgement.
LEMMA AcksAppend ==
  ASSUME NEW s \in Seq(Reply), NEW f \in Reply
  PROVE  Cardinality(Acks(Append(s, f))) = Cardinality(Acks(s)) + (IF f = Ack THEN 1 ELSE 0)
<1>1. /\ Len(Append(s, f)) = Len(s) + 1 /\ Len(s) \in Nat /\ Append(s, f)[Len(s) + 1] = f
      /\ \A k \in 1..Len(s) : Append(s, f)[k] = s[k]
  OBVIOUS
<1>2. Len(s) + 1 \notin Acks(s)
  BY <1>1 DEF Acks
<1>3. CASE f = Ack
  <2>1. Acks(Append(s, f)) = Acks(s) \cup {Len(s) + 1}
    BY <1>1, <1>3 DEF Acks
  <2> QED
    BY <1>2, <1>3, <2>1, AcksFinite, FS_AddElement
<1>4. CASE f # Ack
  <2>1. Acks(Append(s, f)) = Acks(s)
    BY <1>1, <1>4 DEF Acks
  <2> QED
    BY <1>4, <2>1, AcksFinite
<1> QED
  BY <1>3, <1>4

\* The first frame takes one with it if it is an acknowledgement.
LEMMA AcksTail ==
  ASSUME NEW s \in Seq(Reply), s # <<>>
  PROVE  Cardinality(Acks(Tail(s))) = Cardinality(Acks(s)) - (IF Head(s) = Ack THEN 1 ELSE 0)
<1> DEFINE S == Acks(s) \ {1}
           T == Acks(Tail(s))
           f == [k \in S |-> k - 1]
<1>1. /\ Len(s) \in Nat \ {0} /\ Len(Tail(s)) = Len(s) - 1 /\ Head(s) = s[1]
      /\ Tail(s) \in Seq(Reply)
      /\ \A k \in 1..Len(Tail(s)) : Tail(s)[k] = s[k + 1]
  OBVIOUS
<1>2. \A k \in S : k \in 2..Len(s) /\ s[k] = Ack
  BY <1>1 DEF Acks
<1>3. \A k \in T : k + 1 \in S /\ (k + 1) - 1 = k
  BY <1>1 DEF Acks
<1>4. \A k \in S : k - 1 \in T
  <2> SUFFICES ASSUME NEW k \in S PROVE k - 1 \in T
    OBVIOUS
  <2>1. k - 1 \in 1..Len(Tail(s)) /\ (k - 1) + 1 = k
    BY <1>1, <1>2
  <2> QED
    BY <1>1, <1>2, <2>1 DEF Acks
<1>5. IsFiniteSet(S) /\ IsFiniteSet(T) /\ Cardinality(S) \in Nat /\ Cardinality(T) \in Nat
  BY <1>1, AcksFinite, FS_RemoveElement, FS_CardinalityType
<1> HIDE DEF S, T
<1>6. f \in Bijection(S, T)
  <2>1. f \in [S -> T]
    BY <1>4
  <2>2. \A a, b \in S : f[a] = f[b] => a = b
    BY <1>2
  <2>3. \A t \in T : \E a \in S : f[a] = t
    BY <1>3
  <2> QED
    BY <2>1, <2>2, <2>3 DEF Bijection, Injection, Surjection, IsInjective
<1>7. Cardinality(S) = Cardinality(T)
  <2>1. f \in Surjection(S, T) /\ f \in Injection(S, T)
    BY <1>6 DEF Bijection
  <2> HIDE DEF f
  <2> QED
    BY <1>5, <2>1, FS_Surjection
<1>8. Cardinality(S) = Cardinality(Acks(s)) - (IF Head(s) = Ack THEN 1 ELSE 0)
  <2>1. 1 \in Acks(s) <=> Head(s) = Ack
    BY <1>1 DEF Acks
  <2>2. IsFiniteSet(Acks(s))
    BY AcksFinite
  <2>3. Cardinality(Acks(s) \ {1}) =
          IF 1 \in Acks(s) THEN Cardinality(Acks(s)) - 1 ELSE Cardinality(Acks(s))
    BY <2>2, FS_RemoveElement
  <2>4. Cardinality(Acks(s)) \in Nat
    BY AcksFinite
  <2> QED
    BY <2>1, <2>3, <2>4 DEF S
<1> QED
  BY <1>7, <1>8 DEF T

\* What a lost connection still yields has no more of them.
LEMMA AcksPrefix ==
  ASSUME NEW s \in Seq(Reply), NEW n \in 0..Len(s)
  PROVE  Cardinality(Acks(SubSeq(s, 1, n))) <= Cardinality(Acks(s))
<1>1. Len(SubSeq(s, 1, n)) = n /\ \A k \in 1..n : SubSeq(s, 1, n)[k] = s[k] /\ k \in 1..Len(s)
  OBVIOUS
<1>2. Acks(SubSeq(s, 1, n)) \subseteq Acks(s)
  BY <1>1 DEF Acks
<1> QED
  BY <1>2, AcksFinite, FS_Subset

-----------------------------------------------------------------------------
(* The node and the network.                                               *)

\* What the types of the state come to.
LEMMA Sizes ==
  ASSUME ShapeOK
  PROVE  /\ Len(out) \in Nat /\ Len(replies) \in Nat
         /\ Cardinality(oks) \in Nat /\ Cardinality(accepted) \in Nat
         /\ Count(Ack) = Cardinality(Acks(replies)) /\ Cardinality(Acks(replies)) \in Nat
         /\ \A i \in 1..Len(out) : out[i] \in Nat
  BY CountIsAcks, AcksFinite, FS_CardinalityType DEF ShapeOK

\* The node answers a frame: it takes a chunk it has not taken before, or refuses it.
LEMMA NodeTakesOK == IInv /\ NodeTakes => IInv'
<1> SUFFICES ASSUME IInv, NodeTakes PROVE IInv'
  OBVIOUS
<1>1. /\ ShapeOK /\ OrderOK /\ (~abandoned => OwnOK) /\ CountOK
      /\ peer = "up" /\ out # <<>> /\ out' = Tail(out)
      /\ call' = call /\ chunk' = chunk /\ oks' = oks /\ abandoned' = abandoned
  BY DEF IInv, NodeTakes, user
<1>2. /\ Len(out) \in Nat \ {0} /\ Len(out') = Len(out) - 1 /\ Head(out) = out[1]
      /\ out' \in Seq(Nat) /\ out[1] \in Nat /\ chunk \in Nat
      /\ \A i \in 1..Len(out') : out'[i] = out[i + 1] /\ i + 1 \in 1..Len(out)
  BY <1>1 DEF ShapeOK
<1>3. PICK f \in Reply :
        /\ replies' = Append(replies, f)
        /\ \/ /\ f = Ack /\ out[1] > 0 /\ accepted' = accepted \cup {out[1]} /\ peer' = peer
           \/ /\ f \in {"other bytes", "text"} /\ out[1] > 0
              /\ accepted' = accepted /\ peer' = peer
           \/ /\ f = "close" /\ accepted' = accepted /\ peer' = "closed"
  BY <1>1, <1>2 DEF NodeTakes, Reply, Ack
<1>4. /\ Len(replies) \in Nat /\ Len(replies') = Len(replies) + 1 /\ replies' \in Seq(Reply)
      /\ replies'[Len(replies) + 1] = f
      /\ \A k \in 1..Len(replies) : replies'[k] = replies[k]
  <2>1. replies \in Seq(Reply) /\ replies' = Append(replies, f)
    BY <1>1, <1>3 DEF ShapeOK
  <2> QED
    BY <2>1
<1>5. ShapeOK'
  <2>1. IsFiniteSet(accepted')
    BY <1>1, <1>3, FS_AddElement DEF ShapeOK
  <2>2. peer' \in {"up", "closed", "lost"}
    BY <1>1, <1>3
  <2> QED
    BY <1>1, <1>2, <1>4, <2>1, <2>2 DEF ShapeOK
<1>6. 1 \in 1..Len(out)
  BY <1>2
<1>7. \A i \in 1..Len(out') : out'[i] > 0 => out[1] < out'[i]
  <2> SUFFICES ASSUME NEW i \in 1..Len(out'), out'[i] > 0 PROVE out[1] < out'[i]
    OBVIOUS
  <2>1. i + 1 \in 1..Len(out) /\ 1 < i + 1 /\ out'[i] = out[i + 1]
    BY <1>2
  <2> QED
    BY <1>1, <1>6, <2>1 DEF OrderOK
<1>8. OrderOK'
  <2>1. accepted' \subseteq 0..chunk'
    <3>1. accepted' \subseteq accepted \cup {out[1]}
      BY <1>3
    <3>2. accepted \subseteq 0..chunk /\ out[1] <= chunk
      BY <1>1, <1>6 DEF OrderOK
    <3> QED
      BY <1>1, <1>2, <3>1, <3>2
  <2>2. ASSUME NEW i \in 1..Len(out')
        PROVE  out'[i] <= chunk' /\ (out'[i] > 0 => \A a \in accepted' : a < out'[i])
    <3>1. /\ out[i + 1] <= chunk /\ (out[i + 1] > 0 => \A a \in accepted : a < out[i + 1])
      BY <1>1, <1>2 DEF OrderOK
    <3> QED
      BY <1>1, <1>2, <1>3, <1>7, <3>1
  <2>3. ASSUME NEW i \in 1..Len(out'), NEW j \in 1..Len(out'), i < j, out'[j] > 0
        PROVE  out'[i] < out'[j]
    <3>1. i + 1 < j + 1
      BY <2>3
    <3> QED
      BY <1>1, <1>2, <2>3, <3>1 DEF OrderOK
  <2>4. call' = "sending" => /\ chunk' \notin accepted' /\ chunk' > 0
                             /\ \A i \in 1..Len(out') : out'[i] < chunk'
    <3> SUFFICES ASSUME call = "sending"
                 PROVE  chunk \notin accepted' /\ chunk > 0 /\ \A i \in 1..Len(out') : out'[i] < chunk
      BY <1>1
    <3>1. chunk \notin accepted /\ chunk > 0 /\ \A i \in 1..Len(out) : out[i] < chunk
      BY <1>1 DEF OrderOK
    <3>2. accepted' \subseteq accepted \cup {out[1]} /\ out[1] < chunk
      BY <1>3, <1>6, <3>1
    <3> QED
      BY <1>2, <3>1, <3>2
  <2>5. ASSUME NEW k \in 1..Len(replies'), replies'[k] \in {"close", "error"}
        PROVE  k = Len(replies') /\ peer' # "up"
    <3>1. CASE k \in 1..Len(replies)
      BY <1>1, <1>4, <2>5, <3>1 DEF OrderOK
    <3>2. CASE k = Len(replies) + 1
      BY <1>3, <1>4, <2>5, <3>2 DEF Ack
    <3> QED
      BY <1>4, <3>1, <3>2
  <2> QED
    BY <2>1, <2>2, <2>3, <2>4, <2>5 DEF OrderOK
<1>9. ~abandoned' => OwnOK'
  <2> SUFFICES ASSUME ~abandoned PROVE OwnOK'
    BY <1>1
  <2>1. OwnOK
    BY <1>1
  <2>2. f = "close" \/ (f \in NodeAnswers /\ out[1] > 0)
    BY <1>3 DEF NodeAnswers, Ack
  <2>3. CASE f = "close"
    <3>1. accepted' = accepted /\ peer' # "up" /\ f \notin NodeAnswers
      BY <1>3, <2>3 DEF NodeAnswers, Ack
    <3>2. \A k \in 1..Len(replies') : replies'[k] \in NodeAnswers =>
            k \in 1..Len(replies) /\ replies'[k] = replies[k]
      BY <1>4, <3>1
    <3> QED
      BY <1>1, <2>1, <3>1, <3>2 DEF OwnOK
  <2>4. CASE f \in NodeAnswers /\ out[1] > 0
    <3>1. /\ call = "waiting" /\ out[1] = chunk
          /\ \A k \in 1..Len(replies) : replies[k] \notin NodeAnswers
      BY <1>1, <1>6, <2>1, <2>4 DEF OwnOK
    <3>2. \A i \in 1..Len(out') : ~(out'[i] > 0)
      <4> SUFFICES ASSUME NEW i \in 1..Len(out'), out'[i] > 0 PROVE FALSE
        OBVIOUS
      <4>1. out[1] < out'[i] /\ out'[i] <= chunk /\ out'[i] \in Nat
        BY <1>1, <1>2, <1>7 DEF OrderOK, ShapeOK
      <4> QED
        BY <1>2, <3>1, <4>1
    <3>3. \A k \in 1..Len(replies') : replies'[k] \in NodeAnswers => k = Len(replies) + 1
      BY <1>4, <3>1
    <3>4. oks' \subseteq accepted' /\ (f = Ack => chunk \in accepted')
      BY <1>1, <1>3, <2>1, <2>4, <3>1 DEF OwnOK, Ack
    <3> QED
      BY <1>1, <1>4, <3>1, <3>2, <3>3, <3>4 DEF OwnOK
  <2> QED
    BY <2>2, <2>3, <2>4
<1>10. CountOK'
  <2>1. Cardinality(Acks(replies')) = Cardinality(Acks(replies)) + (IF f = Ack THEN 1 ELSE 0)
    BY <1>1, <1>3, AcksAppend DEF ShapeOK
  <2>2. Cardinality(accepted') = Cardinality(accepted) + (IF f = Ack THEN 1 ELSE 0)
    <3>1. CASE f = Ack
      <4>1. out[1] > 0 /\ accepted' = accepted \cup {out[1]}
        BY <1>3, <3>1 DEF Ack
      <4>2. out[1] \notin accepted
        BY <1>1, <1>2, <1>6, <4>1 DEF OrderOK
      <4> QED
        BY <1>1, <3>1, <4>1, <4>2, FS_AddElement DEF ShapeOK
    <3>2. CASE f # Ack
      <4>1. accepted' = accepted /\ Cardinality(accepted) \in Nat
        BY <1>1, <1>3, <3>2, Sizes
      <4> QED
        BY <3>2, <4>1
    <3> QED
      BY <3>1, <3>2
  <2>3. Count(Ack)' = Cardinality(Acks(replies'))
    BY <1>5, CountAfter
  <2> QED
    BY <1>1, <2>1, <2>2, <2>3, Sizes DEF CountOK
<1> QED
  BY <1>5, <1>8, <1>9, <1>10 DEF IInv

\* A ping, and the end of the session, are no answers.
LEMMA SaysOK ==
  ASSUME IInv, peer = "up", NEW f \in {"ping", "close"}, replies' = Append(replies, f),
         IF f = "close" THEN peer' = "closed" ELSE peer' = peer,
         out' = out \/ out' = <<>>, UNCHANGED user, accepted' = accepted
  PROVE  IInv'
<1>1. /\ ShapeOK /\ OrderOK /\ (~abandoned => OwnOK) /\ CountOK
      /\ call' = call /\ chunk' = chunk /\ oks' = oks /\ abandoned' = abandoned
  BY DEF IInv, user
<1>2. /\ f \in Reply /\ f \notin NodeAnswers /\ f # Ack /\ f # "error"
      /\ replies \in Seq(Reply) /\ out \in Seq(Nat)
  BY <1>1 DEF Reply, NodeAnswers, Ack, ShapeOK
<1>3. /\ Len(replies) \in Nat /\ Len(replies') = Len(replies) + 1 /\ replies' \in Seq(Reply)
      /\ replies'[Len(replies) + 1] = f
      /\ \A k \in 1..Len(replies) : replies'[k] = replies[k]
  BY <1>2
<1>4. /\ out' \in Seq(Nat)
      /\ \A i \in 1..Len(out') : i \in 1..Len(out) /\ out'[i] = out[i]
  <2>1. CASE out' = out
    BY <1>2, <2>1
  <2>2. CASE out' = <<>>
    BY <2>2
  <2> QED
    BY <2>1, <2>2
<1>5. ShapeOK'
  BY <1>1, <1>3, <1>4 DEF ShapeOK
<1>6. ASSUME NEW k \in 1..Len(replies'), replies'[k] \in {"close", "error"}
      PROVE  k = Len(replies') /\ peer' # "up"
  <2>1. CASE k \in 1..Len(replies)
    BY <1>1, <1>3, <1>6, <2>1 DEF OrderOK
  <2>2. CASE k = Len(replies) + 1
    BY <1>2, <1>3, <1>6, <2>2
  <2> QED
    BY <1>3, <2>1, <2>2
<1>7. OrderOK'
  BY <1>1, <1>4, <1>6 DEF OrderOK
<1>8. \A k \in 1..Len(replies') : replies'[k] \in NodeAnswers =>
        k \in 1..Len(replies) /\ replies'[k] = replies[k]
  BY <1>2, <1>3
<1>9. ~abandoned' => OwnOK'
  BY <1>1, <1>4, <1>8 DEF OwnOK
<1>10. CountOK'
  <2>1. Cardinality(Acks(replies')) = Cardinality(Acks(replies))
    BY <1>2, AcksAppend, AcksFinite
  <2> QED
    BY <1>1, <1>5, <2>1, CountAfter, CountIsAcks DEF CountOK
<1> QED
  BY <1>5, <1>7, <1>9, <1>10 DEF IInv

\* A lost connection takes the chunks on their way with it, and perhaps answers.
LEMMA LostOK == IInv /\ ConnectionLost => IInv'
<1> SUFFICES ASSUME IInv, ConnectionLost PROVE IInv'
  OBVIOUS
<1>1. /\ ShapeOK /\ OrderOK /\ (~abandoned => OwnOK) /\ CountOK
      /\ peer = "up" /\ peer' = "lost" /\ out' = <<>> /\ accepted' = accepted
      /\ call' = call /\ chunk' = chunk /\ oks' = oks /\ abandoned' = abandoned
  BY DEF IInv, ConnectionLost, user
<1>2. PICK n \in 0..Len(replies), last \in {<<>>, <<"error">>} :
        replies' = SubSeq(replies, 1, n) \o last
  BY DEF ConnectionLost
<1> DEFINE x == SubSeq(replies, 1, n)
<1>3. /\ x \in Seq(Reply) /\ Len(x) = n /\ n \in Nat
      /\ \A k \in 1..n : x[k] = replies[k] /\ k \in 1..Len(replies)
  <2>1. replies \in Seq(Reply) /\ Len(replies) \in Nat
    BY <1>1 DEF ShapeOK
  <2>2. \A k \in 1..n : replies[k] \in Reply
    BY <2>1
  <2> QED
    BY <2>1, <2>2
<1>4. Cardinality(Acks(x)) <= Cardinality(Acks(replies)) /\ Cardinality(Acks(x)) \in Nat
  BY <1>1, <1>3, AcksPrefix, AcksFinite DEF ShapeOK
<1>5. replies' = x \/ replies' = Append(x, "error")
  <2>1. CASE last = <<>>
    BY <1>2, <1>3, <2>1
  <2>2. CASE last = <<"error">>
    BY <1>2, <1>3, <2>2
  <2> QED
    BY <2>1, <2>2
<1> HIDE DEF x
<1>6. "error" \in Reply /\ "error" # Ack /\ "error" \notin NodeAnswers
  BY DEF Reply, Ack, NodeAnswers
<1>7. /\ replies' \in Seq(Reply)
      /\ \A k \in 1..Len(replies') :
           \/ k \in 1..Len(replies) /\ replies'[k] = replies[k]
           \/ k = Len(replies') /\ replies'[k] = "error"
  BY <1>3, <1>5, <1>6
<1>8. ShapeOK'
  BY <1>1, <1>7 DEF ShapeOK
<1>9. OrderOK'
  <2>1. \A k \in 1..Len(replies') :
          replies'[k] \in {"close", "error"} => k = Len(replies') /\ peer' # "up"
    BY <1>1, <1>7 DEF OrderOK
  <2> QED
    BY <1>1, <2>1 DEF OrderOK
<1>10. ~abandoned' => OwnOK'
  BY <1>1, <1>6, <1>7 DEF OwnOK
<1>11. CountOK'
  <2>1. Cardinality(Acks(replies')) = Cardinality(Acks(x))
    <3>1. Cardinality(Acks(Append(x, "error"))) = Cardinality(Acks(x)) + 0
      BY <1>3, <1>6, AcksAppend
    <3>2. CASE replies' = x
      BY <3>2
    <3>3. CASE replies' = Append(x, "error")
      BY <1>4, <3>1, <3>3
    <3> QED
      BY <1>5, <3>2, <3>3
  <2> QED
    BY <1>1, <1>4, <1>8, <2>1, CountAfter, Sizes DEF CountOK
<1> QED
  BY <1>8, <1>9, <1>10, <1>11 DEF IInv

-----------------------------------------------------------------------------
(* The owner.                                                              *)

\* A frame goes out after those before it; a chunk only from the call that sends it.
LEMMA EmitOK ==
  ASSUME ShapeOK, OrderOK, NEW frame, Emit(frame),
         frame = 0 \/ (frame = chunk /\ call = "sending"),
         chunk' = chunk, accepted' = accepted, replies' = replies, peer' = peer,
         call' # "sending"
  PROVE  /\ out' \in Seq(Nat) /\ OrderOK'
         /\ \A i \in 1..Len(out') :
              \/ i \in 1..Len(out) /\ out'[i] = out[i]
              \/ i = Len(out) + 1 /\ out'[i] = frame
<1>1. out \in Seq(Nat) /\ Len(out) \in Nat /\ frame \in Nat
  BY DEF ShapeOK
<1>2. CASE peer = "up"
  <2>1. /\ out' = Append(out, frame) /\ Len(out') = Len(out) + 1 /\ out' \in Seq(Nat)
        /\ out'[Len(out) + 1] = frame /\ \A i \in 1..Len(out) : out'[i] = out[i]
    BY <1>1, <1>2 DEF Emit
  <2>2. /\ frame <= chunk
        /\ frame > 0 => /\ \A a \in accepted : a < frame
                        /\ \A i \in 1..Len(out) : out[i] < frame
    <3>1. chunk \in Nat /\ \A a \in accepted : a \in Nat /\ a <= chunk
      BY DEF ShapeOK, OrderOK
    <3>2. frame > 0 => frame = chunk /\ chunk \notin accepted /\ \A i \in 1..Len(out) : out[i] < chunk
      BY DEF OrderOK
    <3> QED
      BY <1>1, <3>1, <3>2
  <2>3. ASSUME NEW i \in 1..Len(out')
        PROVE  out'[i] <= chunk' /\ (out'[i] > 0 => \A a \in accepted' : a < out'[i])
    <3>1. CASE i \in 1..Len(out)
      BY <2>1, <3>1 DEF OrderOK
    <3>2. CASE i = Len(out) + 1
      BY <2>1, <2>2, <3>2
    <3> QED
      BY <1>1, <2>1, <3>1, <3>2
  <2>4. ASSUME NEW i \in 1..Len(out'), NEW j \in 1..Len(out'), i < j, out'[j] > 0
        PROVE  out'[i] < out'[j]
    <3>1. i \in 1..Len(out)
      BY <1>1, <2>1, <2>4
    <3>2. CASE j \in 1..Len(out)
      BY <2>1, <2>4, <3>1, <3>2 DEF OrderOK
    <3>3. CASE j = Len(out) + 1
      BY <2>1, <2>2, <2>4, <3>1, <3>3
    <3> QED
      BY <1>1, <2>1, <3>2, <3>3
  <2>5. OrderOK'
    BY <2>3, <2>4 DEF OrderOK
  <2> QED
    BY <1>1, <2>1, <2>5
<1>3. CASE peer # "up"
  <2>1. out' = out
    BY <1>3 DEF Emit
  <2> QED
    BY <1>1, <2>1 DEF OrderOK
<1> QED
  BY <1>2, <1>3

\* A step that leaves the net and the acknowledged calls alone leaves the count alone.
LEMMA CountKept ==
  ASSUME ShapeOK, ShapeOK', CountOK, replies' = replies, oks' = oks, accepted' = accepted
  PROVE  CountOK'
  BY CountAfter, CountIsAcks DEF CountOK

\* The first reply is read: an acknowledgement is that of the call, if none was abandoned.
LEMMA SessionReadOK ==
  ASSUME IInv, ReadAck \/ ReadError \/ ReadPing \/ ReadClose
  PROVE  IInv'
<1>1. /\ ShapeOK /\ OrderOK /\ (~abandoned => OwnOK) /\ CountOK
      /\ call = "waiting" /\ replies # <<>> /\ replies' = Tail(replies)
      /\ chunk' = chunk /\ abandoned' = abandoned /\ out' = out /\ peer' = peer
      /\ accepted' = accepted
  BY DEF IInv, ReadAck, ReadError, ReadPing, ReadClose, Read
<1>2. /\ Len(replies) \in Nat \ {0} /\ Len(replies') = Len(replies) - 1
      /\ Head(replies) = replies[1] /\ replies' \in Seq(Reply) /\ 1 \in 1..Len(replies)
      /\ \A k \in 1..Len(replies') : /\ replies'[k] = replies[k + 1]
                                     /\ k + 1 \in 1..Len(replies) /\ k + 1 # 1
  BY <1>1 DEF ShapeOK
<1>3. \/ replies[1] = Ack /\ call' = "idle" /\ oks' = oks \cup {chunk}
      \/ replies[1] \in {"other bytes", "text", "error", "close"} /\ call' = "idle" /\ oks' = oks
      \/ replies[1] = "ping" /\ call' = call /\ oks' = oks
  BY <1>2 DEF ReadAck, ReadError, ReadPing, ReadClose, Read, Returns
<1>4. ShapeOK'
  <2>1. IsFiniteSet(oks')
    BY <1>1, <1>3, FS_AddElement DEF ShapeOK
  <2>2. call' \in {"idle", "sending", "waiting"}
    BY <1>1, <1>3
  <2> QED
    BY <1>1, <1>2, <2>1, <2>2 DEF ShapeOK
<1>5. OrderOK'
  <2>1. ASSUME NEW k \in 1..Len(replies'), replies'[k] \in {"close", "error"}
        PROVE  k = Len(replies') /\ peer' # "up"
    <3>1. k + 1 = Len(replies) /\ peer # "up"
      BY <1>1, <1>2, <2>1 DEF OrderOK
    <3>2. k \in Int /\ Len(replies) \in Int /\ Len(replies') = Len(replies) - 1
      BY <1>2
    <3>3. k = Len(replies')
      BY <3>1, <3>2
    <3> QED
      BY <1>1, <3>1, <3>3
  <2>2. call' # "sending"
    BY <1>1, <1>3
  <2> QED
    BY <1>1, <2>1, <2>2 DEF OrderOK
<1>6. ~abandoned' => OwnOK'
  <2> SUFFICES ASSUME ~abandoned PROVE OwnOK'
    BY <1>1
  <2>1. OwnOK
    BY <1>1
  <2>2. oks' \subseteq accepted'
    <3>1. replies[1] = Ack => chunk \in accepted
      BY <1>2, <2>1 DEF OwnOK, NodeAnswers, Ack
    <3>2. oks \subseteq accepted
      BY <2>1 DEF OwnOK
    <3> QED
      BY <1>1, <1>3, <3>1, <3>2
  <2>3. ASSUME NEW k \in 1..Len(replies'), replies'[k] \in NodeAnswers
        PROVE  /\ replies[1] = "ping" /\ k + 1 \in 1..Len(replies)
               /\ replies[k + 1] \in NodeAnswers /\ replies'[k] = replies[k + 1]
    <3>1. replies[1] \notin NodeAnswers
      <4> SUFFICES ASSUME replies[1] \in NodeAnswers PROVE FALSE
        OBVIOUS
      <4>1. k + 1 = 1
        BY <1>2, <2>1, <2>3 DEF OwnOK
      <4> QED
        BY <1>2, <4>1
    <3>2. replies[1] \notin {"close", "error"}
      <4> SUFFICES ASSUME replies[1] \in {"close", "error"} PROVE FALSE
        OBVIOUS
      <4>1. Len(replies) = 1
        BY <1>1, <1>2 DEF OrderOK
      <4> QED
        BY <1>2, <4>1
    <3>3. replies[1] = "ping"
      BY <1>3, <3>1, <3>2 DEF NodeAnswers
    <3> QED
      BY <1>2, <2>3, <3>3
  <2>4. replies[1] = "ping" => call' = "waiting"
    BY <1>1, <1>3 DEF Ack
  <2>5. \A k \in 1..Len(replies') : replies'[k] \in NodeAnswers =>
          call' = "waiting" /\ (replies'[k] = Ack => chunk' \in accepted')
    BY <1>1, <2>1, <2>3, <2>4 DEF OwnOK
  <2>6. ASSUME NEW k \in 1..Len(replies'), NEW m \in 1..Len(replies'),
               replies'[k] \in NodeAnswers, replies'[m] \in NodeAnswers
        PROVE  k = m
    <3>1. k + 1 = m + 1
      BY <2>1, <2>3, <2>6 DEF OwnOK
    <3> QED
      BY <3>1
  <2>7. ASSUME peer' = "up", NEW i \in 1..Len(out'), out'[i] > 0
        PROVE  /\ call' = "waiting" /\ out'[i] = chunk'
               /\ \A k \in 1..Len(replies') : replies'[k] \notin NodeAnswers
    <3>1. out[i] = chunk /\ \A k \in 1..Len(replies) : replies[k] \notin NodeAnswers
      BY <1>1, <2>1, <2>7 DEF OwnOK
    <3>2. replies[1] = "ping"
      <4>1. replies[1] \notin NodeAnswers /\ replies[1] \notin {"close", "error"}
        BY <1>1, <1>2, <2>7, <3>1 DEF OrderOK
      <4> QED
        BY <1>3, <4>1 DEF NodeAnswers
    <3> QED
      BY <1>1, <1>2, <2>4, <3>1, <3>2
  <2> QED
    BY <2>2, <2>5, <2>6, <2>7 DEF OwnOK
<1>7. CountOK'
  <2>1. Cardinality(Acks(replies')) =
          Cardinality(Acks(replies)) - (IF replies[1] = Ack THEN 1 ELSE 0)
    BY <1>1, <1>2, AcksTail DEF ShapeOK
  <2>2. Cardinality(oks') <= Cardinality(oks) + (IF replies[1] = Ack THEN 1 ELSE 0)
    <3>2. IsFiniteSet(oks) /\ Cardinality(oks) \in Nat
      BY <1>1, Sizes DEF ShapeOK
    <3>1. Cardinality(oks \cup {chunk}) <= Cardinality(oks) + 1
      <4>1. Cardinality(oks \cup {chunk}) =
              IF chunk \in oks THEN Cardinality(oks) ELSE Cardinality(oks) + 1
        BY <3>2, FS_AddElement
      <4> QED
        BY <3>2, <4>1
    <3>3. CASE replies[1] = Ack
      BY <1>3, <3>1, <3>2, <3>3 DEF Ack
    <3>4. CASE replies[1] # Ack
      <4>1. oks' = oks
        BY <1>3, <3>4
      <4> QED
        BY <3>2, <3>4, <4>1
    <3> QED
      BY <3>3, <3>4
  <2>3. Count(Ack)' = Cardinality(Acks(replies'))
    BY <1>4, CountAfter
  <2>4. Cardinality(oks') \in Nat
    BY <1>4, FS_CardinalityType DEF ShapeOK
  <2> QED
    BY <1>1, <2>1, <2>2, <2>3, <2>4, Sizes DEF CountOK
<1> QED
  BY <1>4, <1>5, <1>6, <1>7 DEF IInv

\* A new call sends a chunk the node has not taken, after all others.
LEMMA SendChunkOK == IInv /\ SendChunk => IInv'
<1> SUFFICES ASSUME IInv, SendChunk PROVE IInv'
  OBVIOUS
<1>1. /\ ShapeOK /\ OrderOK /\ (~abandoned => OwnOK) /\ CountOK
      /\ call = "idle" /\ call' \in {"idle", "sending"} /\ chunk' = chunk + 1 /\ chunk \in Nat
      /\ oks' = oks /\ abandoned' = abandoned
      /\ out' = out /\ replies' = replies /\ peer' = peer /\ accepted' = accepted
  BY DEF IInv, SendChunk, net, ShapeOK
<1>2. ShapeOK'
  BY <1>1 DEF ShapeOK
<1>3. OrderOK'
  <2>1. accepted \subseteq 0..chunk /\ accepted' \subseteq 0..chunk' /\ chunk' \notin accepted
    BY <1>1 DEF OrderOK
  <2>2. \A i \in 1..Len(out) : out[i] <= chunk' /\ out[i] < chunk'
    BY <1>1, Sizes DEF OrderOK
  <2> QED
    BY <1>1, <2>1, <2>2 DEF OrderOK
<1>4. ~abandoned' => OwnOK'
  BY <1>1 DEF OwnOK
<1> QED
  BY <1>1, <1>2, <1>3, <1>4, CountKept DEF IInv

\* The frame of a call goes out while nothing else is under way.
LEMMA FrameSentOK == IInv /\ FrameSent => IInv'
<1> SUFFICES ASSUME IInv, FrameSent PROVE IInv'
  OBVIOUS
<1>1. /\ ShapeOK /\ OrderOK /\ (~abandoned => OwnOK) /\ CountOK
      /\ call = "sending" /\ Emit(chunk) /\ call' = "waiting" /\ chunk' = chunk
      /\ oks' = oks /\ abandoned' = abandoned
      /\ replies' = replies /\ peer' = peer /\ accepted' = accepted
  BY DEF IInv, FrameSent
<1>2. /\ out' \in Seq(Nat) /\ OrderOK'
      /\ \A i \in 1..Len(out') : \/ i \in 1..Len(out) /\ out'[i] = out[i]
                                 \/ i = Len(out) + 1 /\ out'[i] = chunk
  BY <1>1, EmitOK
<1>3. ShapeOK'
  BY <1>1, <1>2 DEF ShapeOK
<1>4. ~abandoned' => OwnOK'
  <2> SUFFICES ASSUME ~abandoned PROVE OwnOK'
    BY <1>1
  <2>1. OwnOK
    BY <1>1
  <2>2. \A k \in 1..Len(replies) : replies[k] \notin NodeAnswers
    BY <1>1, <2>1 DEF OwnOK
  <2>3. peer = "up" => \A i \in 1..Len(out) : ~(out[i] > 0)
    BY <1>1, <2>1 DEF OwnOK
  <2> QED
    BY <1>1, <1>2, <2>1, <2>2, <2>3 DEF OwnOK
<1> QED
  BY <1>1, <1>2, <1>3, <1>4, CountKept DEF IInv

\* A call is dropped: its chunk may be under way without it.
LEMMA AbandonOK == IInv /\ Abandon => IInv'
<1> SUFFICES ASSUME IInv, Abandon PROVE IInv'
  OBVIOUS
<1>1. /\ ShapeOK /\ OrderOK /\ CountOK
      /\ call' = "idle" /\ chunk' = chunk /\ oks' = oks /\ abandoned' = TRUE
      /\ replies' = replies /\ peer' = peer /\ accepted' = accepted
      /\ (call = "sending" /\ Emit(chunk)) \/ out' = out
  BY DEF IInv, Abandon
<1>2. out' \in Seq(Nat) /\ OrderOK'
  <2>1. CASE call = "sending" /\ Emit(chunk)
    BY <1>1, <2>1, EmitOK
  <2>2. CASE out' = out
    BY <1>1, <2>2 DEF OrderOK, ShapeOK
  <2> QED
    BY <1>1, <2>1, <2>2
<1>3. ShapeOK'
  BY <1>1, <1>2 DEF ShapeOK
<1> QED
  BY <1>1, <1>2, <1>3, CountKept DEF IInv

\* A call that fails leaves no answer behind.
LEMMA FailsOK == IInv /\ (SendFails \/ StreamEnds) => IInv'
<1> SUFFICES ASSUME IInv, SendFails \/ StreamEnds PROVE IInv'
  OBVIOUS
<1>1. /\ ShapeOK /\ OrderOK /\ (~abandoned => OwnOK) /\ CountOK
      /\ peer # "up" /\ (call = "sending" \/ replies = <<>>)
      /\ call' = "idle" /\ chunk' = chunk /\ oks' = oks /\ abandoned' = abandoned
      /\ out' = out /\ replies' = replies /\ peer' = peer /\ accepted' = accepted
  BY DEF IInv, SendFails, StreamEnds, Returns, net
<1>2. ShapeOK' /\ OrderOK'
  BY <1>1 DEF ShapeOK, OrderOK
<1>3. ~abandoned' => OwnOK'
  <2> SUFFICES ASSUME ~abandoned PROVE OwnOK'
    BY <1>1
  <2>1. OwnOK
    BY <1>1
  <2>2. \A k \in 1..Len(replies) : replies[k] \notin NodeAnswers
    <3>1. CASE call = "sending"
      BY <2>1, <3>1 DEF OwnOK
    <3>2. CASE replies = <<>>
      BY <3>2
    <3> QED
      BY <1>1, <3>1, <3>2
  <2> QED
    BY <1>1, <2>1, <2>2 DEF OwnOK
<1> QED
  BY <1>1, <1>2, <1>3, CountKept DEF IInv

\* The session ends between two calls; its close frame is no chunk.
LEMMA SessionEndsOK == IInv /\ (CloseSession \/ CloseReturns \/ DropSession) => IInv'
<1> SUFFICES ASSUME IInv, CloseSession \/ CloseReturns \/ DropSession PROVE IInv'
  OBVIOUS
<1>1. /\ ShapeOK /\ OrderOK /\ (~abandoned => OwnOK) /\ CountOK
      /\ call' = call /\ chunk' = chunk /\ oks' = oks /\ abandoned' = abandoned
      /\ replies' = replies /\ peer' = peer /\ accepted' = accepted
      /\ (call = "idle" /\ Emit(0)) \/ out' = out
  BY DEF IInv, CloseSession, CloseReturns, DropSession, net
<1>2. /\ out' \in Seq(Nat) /\ OrderOK'
      /\ \A i \in 1..Len(out') : out'[i] > 0 => i \in 1..Len(out) /\ out'[i] = out[i]
  <2>1. CASE call = "idle" /\ Emit(0)
    <3>1. /\ out' \in Seq(Nat) /\ OrderOK'
          /\ \A i \in 1..Len(out') : \/ i \in 1..Len(out) /\ out'[i] = out[i]
                                     \/ i = Len(out) + 1 /\ out'[i] = 0
      BY <1>1, <2>1, EmitOK
    <3> QED
      BY <3>1
  <2>2. CASE out' = out
    BY <1>1, <2>2 DEF OrderOK, ShapeOK
  <2> QED
    BY <1>1, <2>1, <2>2
<1>3. ShapeOK'
  BY <1>1, <1>2 DEF ShapeOK
<1>4. ~abandoned' => OwnOK'
  BY <1>1, <1>2 DEF OwnOK
<1> QED
  BY <1>1, <1>2, <1>3, <1>4, CountKept DEF IInv

-----------------------------------------------------------------------------
(* The specification.                                                      *)

\* A new session has nothing under way.
LEMMA InitOK == Init => IInv
<1> SUFFICES ASSUME Init PROVE IInv
  OBVIOUS
<1>1. ShapeOK /\ OrderOK /\ OwnOK
  BY FS_EmptySet DEF Init, ShapeOK, OrderOK, OwnOK
<1>2. Acks(replies) = {}
  BY DEF Init, Acks
<1>3. CountOK
  BY <1>1, <1>2, CountIsAcks, FS_EmptySet DEF CountOK, Init
<1> QED
  BY <1>1, <1>3 DEF IInv

\* No step of the node or of the owner breaks it.
LEMMA StepOK == IInv /\ [Next]_vars => IInv'
<1> SUFFICES ASSUME IInv, [Next]_vars PROVE IInv'
  OBVIOUS
<1>1. CASE NodeStep
  <2>1. CASE NodePings
    BY <2>1, SaysOK DEF NodePings
  <2>2. CASE NodeCloses
    BY <2>2, SaysOK DEF NodeCloses
  <2> QED
    BY <1>1, <2>1, <2>2, NodeTakesOK, LostOK DEF NodeStep
<1>2. CASE CallStep
  BY <1>2, FrameSentOK, FailsOK, SessionReadOK DEF CallStep
<1>3. CASE UNCHANGED vars
  <2>1. /\ call' = call /\ chunk' = chunk /\ oks' = oks /\ abandoned' = abandoned
        /\ out' = out /\ replies' = replies /\ peer' = peer /\ accepted' = accepted
    BY <1>3 DEF vars, user, net
  <2>2. ShapeOK' /\ OrderOK' /\ (~abandoned' => OwnOK')
    BY <2>1 DEF IInv, ShapeOK, OrderOK, OwnOK
  <2> QED
    BY <2>1, <2>2, CountKept DEF IInv
<1> QED
  BY <1>1, <1>2, <1>3, SendChunkOK, AbandonOK, SessionEndsOK DEF Next

\* Between two calls that were not abandoned nothing but pings and a close frame is left.
LEMMA PropertyHolds == IInv => OksCovered
<1> SUFFICES ASSUME IInv PROVE OksCovered
  OBVIOUS
<1>1. ShapeOK /\ OrderOK /\ (~abandoned => OwnOK) /\ CountOK
  BY DEF IInv
<1>2. ASSUME ~abandoned, call = "idle", peer = "up"
      PROVE  Range(out) \subseteq {0} /\ Range(replies) \subseteq {"ping"}
  <2>1. OwnOK
    BY <1>1, <1>2
  <2>2. \A i \in 1..Len(out) : out[i] = 0
    BY <1>1, <1>2, <2>1, Sizes DEF OwnOK
  <2>3. \A k \in 1..Len(replies) : replies[k] = "ping"
    <3> SUFFICES ASSUME NEW k \in 1..Len(replies) PROVE replies[k] = "ping"
      OBVIOUS
    <3>1. replies[k] \in Reply
      BY <1>1 DEF ShapeOK
    <3>2. replies[k] \notin NodeAnswers /\ replies[k] \notin {"close", "error"}
      BY <1>1, <1>2, <2>1 DEF OwnOK, OrderOK
    <3> QED
      BY <3>1, <3>2 DEF Reply, NodeAnswers
  <2>4. DOMAIN out = 1..Len(out) /\ DOMAIN replies = 1..Len(replies)
    BY <1>1 DEF ShapeOK
  <2> QED
    BY <2>2, <2>3, <2>4 DEF Range
<1>3. InStep
  BY <1>2 DEF InStep
<1> QED
  BY <1>1, <1>3 DEF OksCovered, OwnOK, CountOK

\* However many chunks a session sends, whatever the node refuses, and however it ends: as
\* long as no call of send_chunk was abandoned a call that returned Ok is one whose very
\* chunk the node has taken, and the next reply is that of the next chunk; with abandoned
\* calls no acknowledgement still serves two.
THEOREM AcknowledgedOnce == Spec => []OksCovered
<1>1. Spec => []IInv
  BY InitOK, StepOK, PTL DEF Spec
<1> QED
  BY <1>1, PropertyHolds, PTL

-----------------------------------------------------------------------------
(* An HTTP call.                                                           *)

Checks == {"check_pins", "check_pin"}

Byte == Root \cup Nat \cup BOOLEAN \cup {CLOSE, NEWLINE}

\* The body, of which the client has read some.
Whole == buffer \o unread

Ended(bytes) == bytes = <<>> \/ bytes[Len(bytes)] = NEWLINE

HttpShape ==
  /\ shelf \in Shelf /\ seen \in SUBSET Shelf /\ walking \in SUBSET Root
  /\ buffer \in Seq(Byte) /\ unread \in Seq(Byte)
  /\ stage \in {"none", "sent", "head", "done"}
  /\ request.call \in OfOneRoot => request.root \in Root
  /\ stage # "none" => request.call \in Call /\ shelf \in seen
  /\ stage # "done" => result.is = "pending"
  /\ stage \in {"none", "sent"} => buffer = <<>> /\ walking = {}

\* A state s that the answer, once it is read, will describe.
Foretold(s) ==
  CASE request.call = "pin"   -> request.root \in s.pins
    [] request.call = "unpin" -> request.root \notin s.pins
    [] request.call = "get_pin"        -> request.root \in s.pins
    [] request.call = "list_pins"      -> Whole = Document(SetToSeq(s.pins))
    [] request.call = "is_retrievable" -> Whole = Document(<<s.retrievable>>)
    [] request.call = "get_tag"        ->
         s.tag # Nothing /\ \E n \in {1, MAX_JSON_RESPONSE_BYTES} : Whole = Document([i \in 1..n |-> s.tag])
    [] request.call = "update_tag"     -> s.tag = 2
    [] request.call = "delete_tag"     -> s.tag = Nothing

\* A report has whole lines, each of a root that was pinned, and all of those
\* pinned throughout that are not yet to be gone through.
ReportOK ==
  /\ walking \subseteq Scope /\ Ended(Whole)
  /\ \A line \in Lines(Whole) : \E r \in AtTimes \cap Scope : line = <<r, CLOSE>>
  /\ \A r \in Throughout \cap Scope : r \in walking \/ <<r, CLOSE>> \in Lines(Whole)

HeadOK ==
  stage = "head" =>
    /\ request.call \notin Checks => walking = {}
    /\ request.call \notin Checks /\ Success => \E s \in seen : Foretold(s)
    /\ request.call \in Checks /\ Success => ReportOK
    /\ request.call = "get_pin" /\ answer.status = 404 =>
         \E s \in seen : request.root \notin s.pins

HttpInv == HttpShape /\ HeadOK /\ AnswersTrue

\* What AnswersTrue says of a result.
TrueOf(r) ==
  /\ r.is = "ok" =>
       IF request.call \in Checks
       THEN Throughout \cap Scope \subseteq r.value /\ r.value \subseteq AtTimes \cap Scope
       ELSE \E s \in seen : Describes(r.value, s)
  /\ r.is = "error" /\ r.why = "response" =>
       Len(r.body) <= RESPONSE_BODY_CAP /\ IsPrefix(r.body, buffer)

-----------------------------------------------------------------------------
(* Bodies.                                                                 *)

\* A finite set laid out as a sequence is that set.
LEMMA LaidOut ==
  ASSUME NEW S, IsFiniteSet(S)
  PROVE  SetToSeq(S) \in Seq(S) /\ Range(SetToSeq(S)) = S
<1> DEFINE n == Cardinality(S)
           f == SetToSeq(S)
<1>1. n \in Nat /\ ExistsBijection(1..n, S) /\ IsFiniteSet(1..n) /\ Cardinality(1..n) = n
  BY FS_CardinalityType, FS_Interval
<1>2. \E g \in [1..n -> S] : IsInjective(g)
  BY <1>1 DEF ExistsBijection, Bijection, Injection
<1>3. f \in [1..n -> S] /\ IsInjective(f)
  BY <1>2 DEF SetToSeq
<1> HIDE DEF f
<1>4. f \in Injection(1..n, S)
  BY <1>3 DEF Injection
<1>5. f \in Surjection(1..n, S)
  BY <1>1, <1>4, FS_Injection
<1>6. \A s \in S : \E k \in 1..n : f[k] = s
  BY <1>5 DEF Surjection
<1>7. DOMAIN f = 1..n /\ f \in Seq(S)
  BY <1>1, <1>3
<1>8. Range(f) = S
  BY <1>3, <1>6, <1>7 DEF Range
<1> QED
  BY <1>7, <1>8 DEF f

\* The values of a document are what is before its end.
LEMMA DocumentIs ==
  ASSUME NEW T, NEW values \in Seq(T)
  PROVE  /\ Front(Document(values)) = values
         /\ Document(values) # <<>>
         /\ Len(Document(values)) = Len(values) + 1
         /\ values # <<>> => Head(Document(values)) = values[1]
<1> DEFINE d == Document(values)
<1>1. /\ values \in Seq(T \cup {CLOSE}) /\ d \in Seq(T \cup {CLOSE}) /\ Len(values) \in Nat
      /\ Len(d) = Len(values) + 1 /\ \A i \in 1..Len(values) : d[i] = values[i]
  BY DEF Document
<1> HIDE DEF d
<1>2. SubSeq(d, 1, Len(values)) = values
  BY <1>1
<1>3. Front(d) = values
  BY <1>1, <1>2 DEF Front
<1> QED
  BY <1>1, <1>3 DEF d

\* What is between two ends of a line is a line.
LEMMA LineIn ==
  ASSUME NEW bytes, NEW i \in 1..Len(bytes), NEW j \in 1..Len(bytes), IsLine(bytes, i, j)
  PROVE  SubSeq(bytes, i, j) \in Lines(bytes)
<1> DEFINE p == <<i, j>>
<1>1. p \in (1..Len(bytes)) \X (1..Len(bytes)) /\ p[1] = i /\ p[2] = j
  OBVIOUS
<1> HIDE DEF p
<1>2. p \in {q \in (1..Len(bytes)) \X (1..Len(bytes)) : IsLine(bytes, q[1], q[2])}
  BY <1>1
<1>3. SubSeq(bytes, p[1], p[2]) \in Lines(bytes)
  BY <1>2 DEF Lines
<1> QED
  BY <1>1, <1>3

\* A line at the end of a body of whole lines is a line more of it.
LEMMA LineMore ==
  ASSUME NEW b \in Seq(Byte), Ended(b), NEW r \in Root, NEW c \in Seq(Byte), NEW n \in Nat,
         n = Len(b) /\ Len(c) \in {n + 3, n + 4},
         \A k \in 1..n : c[k] = b[k],
         c[n + 1] = r /\ c[n + 2] = CLOSE /\ \A k \in n + 3 .. Len(c) : c[k] = NEWLINE
  PROVE  Ended(c) /\ Lines(c) = Lines(b) \cup {<<r, CLOSE>>}
<1>1. r # NEWLINE /\ CLOSE # NEWLINE
  BY HttpAssumption DEF HttpAssumption
<1>2. n \in Nat /\ Len(c) \in Nat
  OBVIOUS
<1>3. Ended(c) /\ (n > 0 => b[n] = NEWLINE)
  BY <1>2 DEF Ended
<1>4. ASSUME NEW i \in 1..Len(c), NEW j \in 1..Len(c)
      PROVE  IsLine(c, i, j) <=> (j <= n /\ IsLine(b, i, j)) \/ (i = n + 1 /\ j = n + 2)
  <2>1. ASSUME IsLine(c, i, j) PROVE (j <= n /\ IsLine(b, i, j)) \/ (i = n + 1 /\ j = n + 2)
    <3>1. i <= j /\ \A k \in i..j : c[k] # NEWLINE
      BY <2>1 DEF IsLine
    <3>2. j <= n + 2
      BY <1>2, <3>1
    <3>3. CASE j <= n
      <4>1. \A k \in i..j : b[k] # NEWLINE
        BY <1>2, <3>1, <3>3
      <4>2. i = 1 \/ b[i - 1] = NEWLINE
        BY <1>2, <2>1, <3>1, <3>3 DEF IsLine
      <4>3. j = n \/ b[j + 1] = NEWLINE
        BY <1>2, <2>1, <3>1, <3>3 DEF IsLine
      <4> QED
        BY <3>1, <3>3, <4>1, <4>2, <4>3 DEF IsLine
    <3>4. j # n + 1
      BY <1>1, <1>2, <2>1 DEF IsLine
    <3>5. CASE j = n + 2
      <4>1. i > n
        BY <1>2, <1>3, <3>1, <3>5
      <4>2. i # n + 2
        BY <1>1, <1>2, <2>1 DEF IsLine
      <4> QED
        BY <1>2, <3>1, <3>5, <4>1, <4>2
    <3> QED
      BY <1>2, <3>2, <3>3, <3>4, <3>5
  <2>2. ASSUME j <= n, IsLine(b, i, j) PROVE IsLine(c, i, j)
    <3>1. i <= j /\ \A k \in i..j : b[k] # NEWLINE
      BY <2>2 DEF IsLine
    <3>2. j # n
      BY <1>2, <1>3, <2>2, <3>1
    <3>3. b[j + 1] = NEWLINE /\ j + 1 \in 1..n
      BY <1>2, <2>2, <3>2 DEF IsLine
    <3>4. i = 1 \/ (b[i - 1] = NEWLINE /\ i - 1 \in 1..n)
      BY <1>2, <2>2, <3>1 DEF IsLine
    <3>5. \A k \in i..j : c[k] = b[k]
      BY <1>2, <2>2, <3>1
    <3> QED
      BY <1>2, <3>1, <3>3, <3>4, <3>5 DEF IsLine
  <2>3. ASSUME i = n + 1, j = n + 2 PROVE IsLine(c, i, j)
    BY <1>1, <1>2, <1>3, <2>3 DEF IsLine
  <2> QED
    BY <2>1, <2>2, <2>3
<1>5. SubSeq(c, n + 1, n + 2) = <<r, CLOSE>>
  <2> DEFINE l == SubSeq(c, n + 1, n + 2)
  <2>1. l \in Seq(Byte) /\ Len(l) = 2
    BY <1>2
  <2>2. l[1] = r /\ l[2] = CLOSE
    BY <1>2
  <2> HIDE DEF l
  <2>3. l = <<l[1], l[2]>>
    BY <2>1
  <2> QED
    BY <2>2, <2>3 DEF l
<1>6. ASSUME NEW i \in 1..n, NEW j \in 1..n PROVE SubSeq(c, i, j) = SubSeq(b, i, j)
  BY <1>2, <1>6
<1>7. ASSUME NEW line \in Lines(c) PROVE line \in Lines(b) \cup {<<r, CLOSE>>}
  <2>1. PICK i \in 1..Len(c), j \in 1..Len(c) : IsLine(c, i, j) /\ line = SubSeq(c, i, j)
    BY <1>7 DEF Lines
  <2>2. CASE j <= n /\ IsLine(b, i, j)
    <3>1. i \in 1..n /\ j \in 1..n
      BY <1>2, <2>2 DEF IsLine
    <3>2. line = SubSeq(b, i, j)
      BY <1>6, <2>1, <3>1
    <3> QED
      BY <2>2, <3>1, <3>2, LineIn
  <2>3. CASE i = n + 1 /\ j = n + 2
    BY <1>5, <2>1, <2>3
  <2> QED
    BY <1>4, <2>1, <2>2, <2>3
<1>8. ASSUME NEW line \in Lines(b) PROVE line \in Lines(c)
  <2>1. PICK i \in 1..n, j \in 1..n : IsLine(b, i, j) /\ line = SubSeq(b, i, j)
    BY <1>8 DEF Lines
  <2>2. i \in 1..Len(c) /\ j \in 1..Len(c) /\ j <= n
    BY <1>2
  <2>3. IsLine(c, i, j) /\ line = SubSeq(c, i, j)
    BY <1>4, <1>6, <2>1, <2>2
  <2> QED
    BY <2>2, <2>3, LineIn
<1>9. <<r, CLOSE>> \in Lines(c)
  <2>1. n + 1 \in 1..Len(c) /\ n + 2 \in 1..Len(c)
    BY <1>2
  <2>2. IsLine(c, n + 1, n + 2)
    BY <1>4, <2>1
  <2> QED
    BY <1>5, <2>1, <2>2, LineIn
<1> QED
  BY <1>3, <1>7, <1>8, <1>9

\* The document of a root is two bytes of a body.
LEMMA RootDocument ==
  ASSUME NEW r \in Root
  PROVE  /\ Document(<<r>>) = <<r, CLOSE>> /\ r \in Byte /\ CLOSE \in Byte /\ NEWLINE \in Byte
         /\ Document(<<r>>) \in Seq(Byte) /\ <<NEWLINE>> \in Seq(Byte)
<1>1. r \in Byte /\ CLOSE \in Byte /\ NEWLINE \in Byte
  BY DEF Byte
<1> DEFINE d == Append(<<r>>, CLOSE)
<1>2. <<r>> \in Seq(Byte) /\ Len(<<r>>) = 1 /\ <<r>>[1] = r
  BY <1>1
<1>3. d \in Seq(Byte) /\ Len(d) = 2 /\ d[1] = r /\ d[2] = CLOSE
  BY <1>1, <1>2, AppendProperties
<1> HIDE DEF d
<1>4. d = <<d[1], d[2]>>
  BY <1>3
<1> QED
  BY <1>1, <1>3, <1>4 DEF Document, d

\* And so it is after the node has written a line, and perhaps a blank one.
LEMMA LineWritten ==
  ASSUME NEW b \in Seq(Byte), Ended(b), NEW r \in Root
  PROVE  LET c == b \o Document(<<r>>) \o <<NEWLINE>>
             e == c \o <<NEWLINE>>
         IN  /\ c \in Seq(Byte) /\ Ended(c) /\ Lines(c) = Lines(b) \cup {<<r, CLOSE>>}
             /\ e \in Seq(Byte) /\ Ended(e) /\ Lines(e) = Lines(b) \cup {<<r, CLOSE>>}
<1> DEFINE n == Len(b)
           d1 == Append(b, r)
           d2 == Append(d1, CLOSE)
           d  == Append(d2, NEWLINE)
           e  == Append(d, NEWLINE)
<1>0. r \in Byte /\ CLOSE \in Byte /\ NEWLINE \in Byte
  BY RootDocument
<1>1. /\ d1 \in Seq(Byte) /\ Len(d1) = n + 1 /\ d1[n + 1] = r /\ n \in Nat
      /\ \A k \in 1..n : d1[k] = b[k]
  BY <1>0, AppendProperties
<1>2. /\ d2 \in Seq(Byte) /\ Len(d2) = n + 2 /\ d2[n + 2] = CLOSE
      /\ \A k \in 1 .. n + 1 : d2[k] = d1[k]
  <2> HIDE DEF d1
  <2>1. /\ d2 \in Seq(Byte) /\ Len(d2) = Len(d1) + 1 /\ d2[Len(d1) + 1] = CLOSE
        /\ \A k \in 1 .. Len(d1) : d2[k] = d1[k]
    BY <1>0, <1>1, AppendProperties
  <2> QED
    BY <1>1, <2>1
<1>3. /\ d \in Seq(Byte) /\ Len(d) = n + 3 /\ d[n + 3] = NEWLINE
      /\ \A k \in 1 .. n + 2 : d[k] = d2[k]
  <2> HIDE DEF d2
  <2>1. /\ d \in Seq(Byte) /\ Len(d) = Len(d2) + 1 /\ d[Len(d2) + 1] = NEWLINE
        /\ \A k \in 1 .. Len(d2) : d[k] = d2[k]
    BY <1>0, <1>2, AppendProperties
  <2> QED
    BY <1>1, <1>2, <2>1
<1>4. /\ e \in Seq(Byte) /\ Len(e) = n + 4 /\ e[n + 4] = NEWLINE
      /\ \A k \in 1 .. n + 3 : e[k] = d[k]
  <2> HIDE DEF d
  <2>1. /\ e \in Seq(Byte) /\ Len(e) = Len(d) + 1 /\ e[Len(d) + 1] = NEWLINE
        /\ \A k \in 1 .. Len(d) : e[k] = d[k]
    BY <1>0, <1>3, AppendProperties
  <2> QED
    BY <1>1, <1>3, <2>1
<1>5. b \o Document(<<r>>) \o <<NEWLINE>> = d
  <2>1. <<r>> \in Seq(Byte) /\ <<r, CLOSE>> = Append(<<r>>, CLOSE)
    BY <1>0
  <2>2. b \o Append(<<r>>, CLOSE) = Append(b \o <<r>>, CLOSE)
    BY <2>1, <1>0
  <2>3. b \o Document(<<r>>) = d2
    BY <2>1, <2>2, <1>0, RootDocument, AppendIsConcat
  <2> QED
    BY <1>2, <2>3, <1>0, AppendIsConcat
<1>6. d \o <<NEWLINE>> = e
  BY <1>0, <1>3, AppendIsConcat
<1> HIDE DEF d, d1, d2, e
<1>7. Ended(d) /\ Lines(d) = Lines(b) \cup {<<r, CLOSE>>}
  <2>1. d[n + 1] = r /\ d[n + 2] = CLOSE /\ \A k \in n + 3 .. Len(d) : d[k] = NEWLINE
    BY <1>1, <1>2, <1>3
  <2>2. \A k \in 1..n : d[k] = b[k]
    BY <1>1, <1>2, <1>3
  <2>3. Len(d) \in {n + 3, n + 4} /\ d \in Seq(Byte) /\ n \in Nat /\ n = Len(b)
    BY <1>1, <1>3
  <2> HIDE DEF n
  <2> QED
    BY <2>1, <2>2, <2>3, LineMore
<1>8. Ended(e) /\ Lines(e) = Lines(b) \cup {<<r, CLOSE>>}
  <2>1. e[n + 1] = r /\ e[n + 2] = CLOSE /\ \A k \in n + 3 .. Len(e) : e[k] = NEWLINE
    <3>1. e[n + 1] = d[n + 1] /\ e[n + 2] = d[n + 2] /\ e[n + 3] = d[n + 3]
      BY <1>1, <1>4
    <3>2. \A k \in n + 3 .. Len(e) : k = n + 3 \/ k = n + 4
      BY <1>1, <1>4
    <3>3. d[n + 1] = d2[n + 1] /\ d[n + 2] = d2[n + 2]
      BY <1>1, <1>3
    <3>4. d2[n + 1] = d1[n + 1]
      BY <1>1, <1>2
    <3>5. e[n + 1] = r /\ e[n + 2] = CLOSE
      BY <1>1, <1>2, <3>1, <3>3, <3>4
    <3>6. e[n + 3] = NEWLINE /\ e[n + 4] = NEWLINE
      BY <1>3, <1>4, <3>1
    <3> QED
      BY <3>2, <3>5, <3>6
  <2>2. \A k \in 1..n : e[k] = b[k]
    BY <1>1, <1>2, <1>3, <1>4
  <2>3. Len(e) \in {n + 3, n + 4} /\ e \in Seq(Byte) /\ n \in Nat /\ n = Len(b)
    BY <1>1, <1>4
  <2> HIDE DEF n
  <2> QED
    BY <2>1, <2>2, <2>3, LineMore
<1> QED
  BY <1>3, <1>4, <1>5, <1>6, <1>7, <1>8

-----------------------------------------------------------------------------
(* The node and its other clients.                                         *)

\* A report is none the worse for more states having been seen.
LEMMA ReportStays ==
  ASSUME HttpShape, ReportOK, seen \subseteq seen', request' = request, walking' = walking,
         Whole' = Whole
  PROVE  ReportOK'
<1>1. Scope' = Scope /\ AtTimes \subseteq AtTimes' /\ Throughout' \subseteq Throughout
  BY DEF Scope, AtTimes, Throughout
<1>2. walking' \subseteq Scope' /\ Ended(Whole')
  BY <1>1 DEF ReportOK
<1>3. \A line \in Lines(Whole') : \E r \in AtTimes' \cap Scope' : line = <<r, CLOSE>>
  BY <1>1 DEF ReportOK
<1>4. \A r \in Throughout' \cap Scope' : r \in walking' \/ <<r, CLOSE>> \in Lines(Whole')
  BY <1>1 DEF ReportOK
<1> QED
  BY <1>2, <1>3, <1>4 DEF ReportOK

\* Others change the pins, the data or the tag.
LEMMA OthersChangeOK == HttpInv /\ OthersChange => HttpInv'
<1> SUFFICES ASSUME HttpInv, OthersChange PROVE HttpInv'
  OBVIOUS
<1>1. HttpShape /\ HeadOK /\ AnswersTrue
  BY DEF HttpInv
<1>2. /\ request' = request /\ stage' = stage /\ answer' = answer /\ walking' = walking
      /\ unread' = unread /\ buffer' = buffer /\ result' = result
      /\ seen' = seen \cup {shelf'} /\ stage \in {"sent", "head"}
  BY DEF OthersChange, asking
<1>3. shelf' \in Shelf
  <2>1. shelf \in Shelf
    BY <1>1 DEF HttpShape
  <2>2. CASE \E r \in Root : \E pins \in {shelf.pins \cup {r}, shelf.pins \ {r}} :
               shelf' = [shelf EXCEPT !.pins = pins]
    BY <2>1, <2>2 DEF Shelf
  <2>3. CASE shelf' = [shelf EXCEPT !.retrievable = ~@]
    BY <2>1, <2>3 DEF Shelf
  <2>4. CASE \E t \in Tag \cup {Nothing} : shelf' = [shelf EXCEPT !.tag = t]
    BY <2>1, <2>4 DEF Shelf
  <2> QED
    BY <2>2, <2>3, <2>4 DEF OthersChange
<1>4. HttpShape'
  BY <1>1, <1>2, <1>3 DEF HttpShape
<1>5. HeadOK'
  <2>1. ASSUME NEW s PROVE Foretold(s)' <=> Foretold(s)
    BY <1>2 DEF Foretold, Whole
  <2>2. request.call \in Checks /\ Success /\ stage = "head" => ReportOK'
    BY <1>1, <1>2, ReportStays DEF HeadOK, Whole
  <2> QED
    BY <1>1, <1>2, <2>1, <2>2 DEF HeadOK, Success
<1>6. AnswersTrue'
  BY <1>1, <1>2 DEF AnswersTrue, HttpShape, Success
<1> QED
  BY <1>4, <1>5, <1>6 DEF HttpInv

\* What a node answers to a call is bytes.
LEMMA BodyTyped ==
  ASSUME HttpShape, NEW n \in {1, MAX_JSON_RESPONSE_BYTES}
  PROVE  Body(n) \in Seq(Byte)
<1>1. shelf.pins \in SUBSET Root /\ shelf.retrievable \in BOOLEAN /\ shelf.tag \in Nat /\ n \in Nat
  BY HttpAssumption DEF HttpShape, Shelf, HttpAssumption, Tag, Nothing
<1>2. CLOSE \in Byte /\ Root \subseteq Byte /\ BOOLEAN \subseteq Byte /\ Nat \subseteq Byte
  BY DEF Byte
<1>3. SetToSeq(shelf.pins) \in Seq(Byte)
  <2>1. IsFiniteSet(shelf.pins)
    BY <1>1, HttpAssumption, FS_Subset DEF HttpAssumption
  <2>2. SetToSeq(shelf.pins) \in Seq(shelf.pins)
    BY <2>1, LaidOut
  <2> QED
    BY <1>1, <1>2, <2>2, SeqMonotonic
<1>4. <<shelf.retrievable>> \in Seq(Byte)
  BY <1>1, <1>2
<1>5. [i \in 1..n |-> shelf.tag] \in Seq(Byte)
  <2>1. [i \in 1..n |-> shelf.tag] \in [1..n -> Byte]
    BY <1>1, <1>2
  <2> QED
    BY <1>1, <2>1
<1>6. \A values \in Seq(Byte) : Document(values) \in Seq(Byte)
  BY <1>2 DEF Document
<1>7. Document(SetToSeq(shelf.pins)) \in Seq(Byte) /\ Document(<<shelf.retrievable>>) \in Seq(Byte)
      /\ Document([i \in 1..n |-> shelf.tag]) \in Seq(Byte) /\ <<>> \in Seq(Byte)
  <2> DEFINE tags == [i \in 1..n |-> shelf.tag]
  <2>1. tags \in Seq(Byte)
    BY <1>5
  <2> HIDE DEF tags
  <2>2. Document(tags) \in Seq(Byte)
    BY <1>6, <2>1
  <2>3. Document(SetToSeq(shelf.pins)) \in Seq(Byte) /\ Document(<<shelf.retrievable>>) \in Seq(Byte)
    BY <1>3, <1>4, <1>6
  <2> QED
    BY <2>2, <2>3 DEF tags
<1>8. Body(n) \in {Document(SetToSeq(shelf.pins)), Document(<<shelf.retrievable>>),
                   Document([i \in 1..n |-> shelf.tag]), <<>>}
  BY DEF Body
<1> QED
  BY <1>7, <1>8

\* There is no line in an empty body.
LEMMA NoLine == Lines(<<>>) = {} /\ Ended(<<>>) /\ <<>> \in Seq(Byte)
<1>1. (1..Len(<<>>)) \X (1..Len(<<>>)) = {}
  OBVIOUS
<1> QED
  BY <1>1 DEF Lines, Ended

\* The node does what it is asked, and answers with what is the case then.
LEMMA NodeServesOK == HttpInv /\ NodeServes => HttpInv'
<1> SUFFICES ASSUME HttpInv, NodeServes PROVE HttpInv'
  OBVIOUS
<1>1. HttpShape /\ HeadOK /\ AnswersTrue
  BY DEF HttpInv
<1>2. PICK n \in {1, MAX_JSON_RESPONSE_BYTES} :
        /\ stage = "sent" /\ stage' = "head" /\ answer'.status = 200 /\ unread' = Body(n)
        /\ ~Missing /\ shelf' = Served /\ seen' = seen \cup {shelf'}
        /\ request' = request /\ buffer' = buffer /\ result' = result
        /\ walking' = CASE request.call = "check_pins" -> shelf.pins
                        [] request.call = "check_pin"  -> shelf.pins \cap {request.root}
                        [] OTHER -> {}
  BY DEF NodeServes, Answers
<1>3. /\ buffer = <<>> /\ request.call \in Call /\ result.is = "pending"
      /\ shelf \in Shelf /\ (request.call \in OfOneRoot => request.root \in Root)
      /\ request.call \in OfTag => shelf.tag \in Tag
  BY <1>1, <1>2 DEF HttpShape, Missing, Shelf
<1>4. shelf' \in Shelf
  <2>1. CASE request.call = "pin"
    BY <1>2, <1>3, <2>1 DEF Served, Shelf, OfOneRoot
  <2>2. CASE request.call = "unpin"
    BY <1>2, <1>3, <2>2 DEF Served, Shelf
  <2>3. CASE request.call = "update_tag"
    BY <1>2, <1>3, <2>3 DEF Served, Shelf, Tag, OfTag
  <2>4. CASE request.call = "delete_tag"
    BY <1>2, <1>3, <2>4 DEF Served, Shelf, Tag
  <2>5. CASE request.call \notin {"pin", "unpin", "update_tag", "delete_tag"}
    BY <1>2, <1>3, <2>5 DEF Served
  <2> QED
    BY <2>1, <2>2, <2>3, <2>4, <2>5
<1>5. unread' \in Seq(Byte) /\ Whole' = Body(n)
  BY <1>1, <1>2, <1>3, BodyTyped, ConcatEmptySeq DEF Whole
<1>6. walking' \in SUBSET Root
  BY <1>2, <1>3 DEF Shelf
<1>7. HttpShape'
  BY <1>1, <1>2, <1>3, <1>4, <1>5, <1>6 DEF HttpShape
<1>8. ASSUME request.call \notin Checks, NEW s, s = shelf' PROVE walking' = {} /\ Foretold(s)'
  <2>1. walking' = {}
    BY <1>2, <1>8 DEF Checks
  <2>2. CASE request.call = "pin"
    BY <1>2, <1>3, <1>8, <2>2 DEF Foretold, Served, Shelf
  <2>3. CASE request.call = "unpin"
    BY <1>2, <1>3, <1>8, <2>3 DEF Foretold, Served, Shelf
  <2>4. CASE request.call = "get_pin"
    BY <1>2, <1>3, <1>8, <2>4 DEF Foretold, Served, Missing
  <2>5. CASE request.call = "list_pins"
    BY <1>2, <1>3, <1>5, <1>8, <2>5 DEF Foretold, Served, Body
  <2>6. CASE request.call = "is_retrievable"
    BY <1>2, <1>3, <1>5, <1>8, <2>6 DEF Foretold, Served, Body
  <2>7. CASE request.call = "get_tag"
    <3>1. shelf' = shelf /\ s.tag # Nothing
      BY <1>2, <1>8, <2>7 DEF Served, Missing, OfTag
    <3>2. Body(n) = Document([i \in 1..n |-> shelf.tag])
      BY <2>7 DEF Body
    <3>3. Whole' = Document([i \in 1..n |-> s.tag])
      BY <1>5, <1>8, <3>1, <3>2
    <3> QED
      BY <1>2, <2>7, <3>1, <3>3 DEF Foretold
  <2>8. CASE request.call = "update_tag"
    BY <1>2, <1>3, <1>8, <2>8 DEF Foretold, Served, Missing, OfTag, Shelf
  <2>9. CASE request.call = "delete_tag"
    BY <1>2, <1>3, <1>8, <2>9 DEF Foretold, Served, Shelf
  <2> QED
    BY <1>3, <1>8, <2>1, <2>2, <2>3, <2>4, <2>5, <2>6, <2>7, <2>8, <2>9
       DEF Call, OfPins, OfData, OfTag, Checks
<1>9. ASSUME request.call \in Checks PROVE ReportOK'
  <2>1. Whole' = <<>> /\ shelf' = shelf
    BY <1>2, <1>5, <1>9 DEF Body, Served, Checks
  <2>2. Lines(Whole') = {} /\ Ended(Whole')
    BY <2>1, NoLine
  <2>3. walking' = shelf.pins \cap Scope'
    BY <1>2, <1>3, <1>9 DEF Scope, Checks, Shelf
  <2>4. Throughout' \subseteq shelf.pins
    BY <1>2, <2>1 DEF Throughout
  <2> QED
    BY <2>2, <2>3, <2>4 DEF ReportOK
<1>10. HeadOK'
  <2>1. shelf' \in seen'
    BY <1>2
  <2>2. request.call \notin Checks => walking' = {} /\ \E s \in seen' : Foretold(s)'
    BY <1>8, <2>1
  <2> QED
    BY <1>2, <1>9, <2>2 DEF HeadOK
<1>11. AnswersTrue'
  BY <1>1, <1>2, <1>3, HttpAssumption DEF AnswersTrue, HttpAssumption
<1> QED
  BY <1>7, <1>10, <1>11 DEF HttpInv

\* Or it refuses: with 404 only what is not there.
LEMMA NodeRefusesOK == HttpInv /\ NodeRefuses => HttpInv'
<1> SUFFICES ASSUME HttpInv, NodeRefuses PROVE HttpInv'
  OBVIOUS
<1>1. HttpShape /\ HeadOK /\ AnswersTrue
  BY DEF HttpInv
<1>2. PICK status \in {500} \cup (IF Missing THEN {404} ELSE {}), n \in 0..PAGE :
        /\ stage = "sent" /\ stage' = "head" /\ answer'.status = status
        /\ unread' = [i \in 1..n |-> i]
        /\ shelf' = shelf /\ seen' = seen /\ request' = request
        /\ walking' = walking /\ buffer' = buffer /\ result' = result
  BY DEF NodeRefuses, Answers
<1>3. answer'.status # 200 /\ (answer'.status = 404 => Missing)
  BY <1>2
<1>4. unread' \in Seq(Byte)
  <2>1. n \in Nat /\ \A i \in 1..n : i \in Byte
    BY <1>2, HttpAssumption DEF HttpAssumption, Byte
  <2> QED
    BY <1>2, <2>1
<1>5. buffer = <<>> /\ walking = {} /\ result.is = "pending" /\ shelf \in seen
  BY <1>1, <1>2 DEF HttpShape
<1>6. HttpShape'
  BY <1>1, <1>2, <1>4 DEF HttpShape
<1>7. HeadOK'
  BY <1>2, <1>3, <1>5 DEF HeadOK, Success, Missing, OfTag
<1>8. AnswersTrue'
  BY <1>2, <1>3, <1>5 DEF AnswersTrue, Success
<1> QED
  BY <1>6, <1>7, <1>8 DEF HttpInv

\* Bodies may be put together in any order.
LEMMA TogetherOfThree ==
  ASSUME NEW a \in Seq(Byte), NEW b \in Seq(Byte), NEW c \in Seq(Byte)
  PROVE  a \o (b \o c) = (a \o b) \o c
  OBVIOUS

\* So a line may be added to a body, or to what is left of it.
LEMMA Joined ==
  ASSUME NEW a \in Seq(Byte), NEW r \in Root, NEW blank \in Seq(Byte)
  PROVE  LET line == Document(<<r>>) \o <<NEWLINE>> \o blank
         IN  line \in Seq(Byte) /\ a \o line = a \o Document(<<r>>) \o <<NEWLINE>> \o blank
<1> DEFINE D == Document(<<r>>)
           N == <<NEWLINE>>
<1>1. D \in Seq(Byte) /\ N \in Seq(Byte)
  BY RootDocument
<1> HIDE DEF D, N
<1> DEFINE X == D \o N
<1>2. X \in Seq(Byte) /\ a \o X = (a \o D) \o N
  BY <1>1, ConcatProperties, TogetherOfThree
<1> HIDE DEF X
<1>3. X \o blank \in Seq(Byte) /\ a \o (X \o blank) = (a \o X) \o blank
  BY <1>2, ConcatProperties, TogetherOfThree
<1> QED
  BY <1>2, <1>3 DEF D, N, X

\* The check of the pins goes on: a root is reported if it is pinned now.
LEMMA NodeChecksOK == HttpInv /\ NodeChecks => HttpInv'
<1> SUFFICES ASSUME HttpInv, NodeChecks PROVE HttpInv'
  OBVIOUS
<1>1. HttpShape /\ HeadOK /\ AnswersTrue
  BY DEF HttpInv
<1>2. PICK r \in walking, blank \in {<<>>, <<NEWLINE>>} :
        /\ walking' = walking \ {r}
        /\ unread' = IF r \in shelf.pins THEN unread \o Document(<<r>>) \o <<NEWLINE>> \o blank
                                         ELSE unread
  BY DEF NodeChecks
<1>3. /\ stage = "head" /\ shelf' = shelf /\ seen' = seen /\ request' = request /\ stage' = stage
      /\ answer' = answer /\ buffer' = buffer /\ result' = result
  BY DEF NodeChecks
<1>4. /\ r \in Root /\ shelf \in seen /\ shelf \in Shelf /\ result.is = "pending"
      /\ buffer \in Seq(Byte) /\ unread \in Seq(Byte) /\ Whole \in Seq(Byte)
  BY <1>1, <1>2, <1>3 DEF HttpShape, Whole
<1>5. request.call \in Checks
  BY <1>1, <1>2, <1>3 DEF HeadOK
<1> DEFINE line == Document(<<r>>) \o <<NEWLINE>> \o blank
<1>6. blank = <<>> \/ blank = <<NEWLINE>>
  OBVIOUS
<1>7. CASE r \in shelf.pins
  <2>1. blank \in Seq(Byte)
    BY <1>4, <1>6, RootDocument, EmptySeq
  <2>2. line \in Seq(Byte) /\ unread' = unread \o line
    BY <1>2, <1>4, <1>7, <2>1, Joined
  <2>3. Whole \o line = Whole \o Document(<<r>>) \o <<NEWLINE>> \o blank
    BY <1>4, <2>1, Joined
  <2>4. unread' \in Seq(Byte) /\ Whole' = Whole \o line
    <3> HIDE DEF line
    <3>1. unread' \in Seq(Byte)
      BY <1>4, <2>2, ConcatProperties
    <3>2. buffer \o (unread \o line) = (buffer \o unread) \o line
      BY <1>4, <2>2, TogetherOfThree
    <3> QED
      BY <1>3, <2>2, <3>1, <3>2 DEF Whole
  <2>8. HttpShape'
    BY <1>1, <1>2, <1>3, <2>4 DEF HttpShape
  <2>5. ASSUME Success PROVE ReportOK'
    <3>1. ReportOK
      BY <1>1, <1>3, <1>5, <2>5 DEF HeadOK
    <3>2. Ended(Whole') /\ Lines(Whole') = Lines(Whole) \cup {<<r, CLOSE>>}
      <4>1. Ended(Whole)
        BY <3>1 DEF ReportOK
      <4>2. CASE blank = <<>>
        <5>1. Whole \o Document(<<r>>) \o <<NEWLINE>> \in Seq(Byte)
          BY <1>4, <4>1, LineWritten
        <5>2. Whole' = Whole \o Document(<<r>>) \o <<NEWLINE>>
          BY <2>3, <2>4, <4>2, <5>1, ConcatEmptySeq
        <5> QED
          BY <1>4, <4>1, <5>2, LineWritten
      <4>3. CASE blank = <<NEWLINE>>
        BY <1>4, <2>3, <2>4, <4>1, <4>3, LineWritten
      <4> QED
        BY <1>6, <4>2, <4>3
    <3>3. Scope' = Scope /\ AtTimes' = AtTimes /\ Throughout' = Throughout
      BY <1>3 DEF Scope, AtTimes, Throughout
    <3>4. r \in AtTimes \cap Scope
      BY <1>2, <1>4, <1>7, <3>1 DEF ReportOK, AtTimes
    <3>5. \A l \in Lines(Whole') : \E q \in AtTimes' \cap Scope' : l = <<q, CLOSE>>
      BY <3>1, <3>2, <3>3, <3>4 DEF ReportOK
    <3>6. \A q \in Throughout' \cap Scope' : q \in walking' \/ <<q, CLOSE>> \in Lines(Whole')
      BY <1>2, <3>1, <3>2, <3>3 DEF ReportOK
    <3>7. walking' \subseteq Scope'
      BY <1>2, <3>1, <3>3 DEF ReportOK
    <3> QED
      BY <3>2, <3>5, <3>6, <3>7 DEF ReportOK
  <2>6. HeadOK'
    BY <1>1, <1>3, <1>5, <2>5 DEF HeadOK, Success, Checks
  <2>7. AnswersTrue'
    BY <1>1, <1>3, <1>4 DEF AnswersTrue, Success
  <2> QED
    BY <2>8, <2>6, <2>7 DEF HttpInv
<1>8. CASE r \notin shelf.pins
  <2>1. unread' = unread /\ Whole' = Whole
    BY <1>2, <1>3, <1>8 DEF Whole
  <2>2. HttpShape'
    BY <1>1, <1>2, <1>3, <2>1 DEF HttpShape
  <2>3. ASSUME Success PROVE ReportOK'
    <3>1. ReportOK
      BY <1>1, <1>3, <1>5, <2>3 DEF HeadOK
    <3>2. Scope' = Scope /\ AtTimes' = AtTimes /\ Throughout' = Throughout
      BY <1>3 DEF Scope, AtTimes, Throughout
    <3>3. r \notin Throughout
      BY <1>4, <1>8 DEF Throughout
    <3> QED
      BY <1>2, <2>1, <3>1, <3>2, <3>3 DEF ReportOK
  <2>4. HeadOK'
    BY <1>1, <1>3, <1>5, <2>3 DEF HeadOK, Success, Checks
  <2>5. AnswersTrue'
    BY <1>1, <1>3, <1>4 DEF AnswersTrue, Success
  <2> QED
    BY <2>2, <2>4, <2>5 DEF HttpInv
<1> QED
  BY <1>7, <1>8

-----------------------------------------------------------------------------
(* The client.                                                             *)

\* A call begins.
LEMMA AskOK ==
  ASSUME NEW c \in Call, NEW root, c \in OfOneRoot => root \in Root
  PROVE  HttpInv /\ Ask(c, root) => HttpInv'
<1> SUFFICES ASSUME HttpInv, Ask(c, root) PROVE HttpInv'
  OBVIOUS
<1>1. HttpShape /\ HeadOK /\ AnswersTrue
  BY DEF HttpInv
<1>2. /\ stage = "none" /\ stage' = "sent" /\ request' = [call |-> c, root |-> root]
      /\ seen' = {shelf} /\ shelf' = shelf /\ answer' = answer /\ walking' = walking
      /\ unread' = unread /\ buffer' = buffer /\ result' = result
  BY DEF Ask
<1>3. HttpShape'
  BY <1>1, <1>2 DEF HttpShape
<1>4. HeadOK' /\ AnswersTrue'
  BY <1>1, <1>2 DEF HttpShape, HeadOK, AnswersTrue, Success
<1> QED
  BY <1>3, <1>4 DEF HttpInv

\* A call ends with a result that is true.
LEMMA EndsOK ==
  ASSUME HttpInv, stage \in {"sent", "head"}, NEW r, Ends(r), buffer' = buffer, TrueOf(r)
  PROVE  HttpInv'
<1>1. HttpShape /\ HeadOK /\ AnswersTrue
  BY DEF HttpInv
<1>2. /\ result' = r /\ stage' = "done" /\ unread' = <<>> /\ walking' = {}
      /\ shelf' = shelf /\ seen' = seen /\ request' = request /\ answer' = answer
  BY DEF Ends
<1>3. HttpShape'
  BY <1>1, <1>2 DEF HttpShape
<1>4. HeadOK'
  BY <1>2 DEF HeadOK
<1>5. AnswersTrue'
  <2>1. Success => Len(buffer) <= MAX_JSON_RESPONSE_BYTES
    BY <1>1 DEF AnswersTrue
  <2>2. /\ Throughout' = Throughout /\ Scope' = Scope /\ AtTimes' = AtTimes
        /\ Success' = Success /\ Checks = {"check_pins", "check_pin"}
        /\ \A v, s : Describes(v, s)' = Describes(v, s)
    BY <1>2 DEF Throughout, Scope, AtTimes, Success, Checks, Describes
  <2>3. TrueOf(r)
    OBVIOUS
  <2> QED
    BY <1>2, <2>1, <2>2, <2>3 DEF AnswersTrue, TrueOf
<1> QED
  BY <1>3, <1>4, <1>5 DEF HttpInv

\* An error that is no response makes no claim.
LEMMA FailsTrue == \A why : why # "response" => TrueOf(Fails(why))
  BY DEF TrueOf, Fails

\* Nothing is the case before anything was asked.
LEMMA HttpInitOK == HttpInit => HttpInv
<1> SUFFICES ASSUME HttpInit PROVE HttpInv
  OBVIOUS
<1>1. HttpShape
  BY EmptySeq DEF HttpInit, HttpShape, OfOneRoot
<1>2. HeadOK
  BY DEF HttpInit, HeadOK
<1>3. AnswersTrue
  BY DEF HttpInit, AnswersTrue, Success
<1> QED
  BY <1>1, <1>2, <1>3 DEF HttpInv

\* The calls that have no use for a body return at once.
LEMMA ReturnsAtHeadOK == HttpInv /\ ReturnsAtHead => HttpInv'
<1> SUFFICES ASSUME HttpInv, ReturnsAtHead PROVE HttpInv'
  OBVIOUS
<1>1. HttpShape /\ HeadOK /\ AnswersTrue
  BY DEF HttpInv
<1> DEFINE r == Value(TRUE)
<1>2. stage = "head" /\ Success /\ ~Reads /\ Ends(r) /\ buffer' = buffer
  BY DEF ReturnsAtHead
<1>3. request.call \in {"pin", "unpin", "get_pin", "update_tag", "delete_tag"}
  BY <1>1, <1>2 DEF HttpShape, Call, OfPins, OfData, OfTag, Reads
<1>4. PICK s \in seen : Foretold(s)
  BY <1>1, <1>2, <1>3 DEF HeadOK, Checks
<1>5. Describes(TRUE, s)
  BY <1>3, <1>4 DEF Foretold, Describes
<1>6. TrueOf(r)
  BY <1>3, <1>5 DEF TrueOf, Value, Checks
<1> HIDE DEF r
<1> QED
  BY <1>2, <1>6, EndsOK

\* A declared length that is too great ends the call.
LEMMA RejectsLengthOK == HttpInv /\ RejectsLength => HttpInv'
<1> SUFFICES ASSUME HttpInv, RejectsLength PROVE HttpInv'
  OBVIOUS
<1> DEFINE r == Fails("too long")
<1>1. stage = "head" /\ Ends(r) /\ buffer' = buffer
  BY DEF RejectsLength, Reads
<1>2. TrueOf(r)
  BY FailsTrue
<1> HIDE DEF r
<1> QED
  BY <1>1, <1>2, EndsOK

\* What is cut off the front of a sequence is what is left of it.
LEMMA CutInTwo ==
  ASSUME NEW u \in Seq(Byte), NEW n \in 1..Len(u)
  PROVE  /\ SubSeq(u, 1, n) \in Seq(Byte) /\ Len(SubSeq(u, 1, n)) = n
         /\ SubSeq(u, n + 1, Len(u)) \in Seq(Byte)
         /\ SubSeq(u, 1, n) \o SubSeq(u, n + 1, Len(u)) = u
<1>1. n \in Nat /\ Len(u) \in Nat /\ n <= Len(u)
  OBVIOUS
<1>2. SubSeq(u, 1, n) \in Seq(Byte) /\ Len(SubSeq(u, 1, n)) = n /\ SubSeq(u, n + 1, Len(u)) \in Seq(Byte)
  BY <1>1
<1>3. SubSeq(u, 1, n) \o SubSeq(u, n + 1, Len(u)) = u
  BY <1>1
<1> QED
  BY <1>2, <1>3

\* A frame is read: the body is the same, more of it is in the buffer.
LEMMA ReadsFrameOK ==
  ASSUME NEW n \in 1..Len(unread)
  PROVE  HttpInv /\ ReadsFrame(n) => HttpInv'
<1> SUFFICES ASSUME HttpInv, ReadsFrame(n) PROVE HttpInv'
  OBVIOUS
<1>1. HttpShape /\ HeadOK /\ AnswersTrue
  BY DEF HttpInv
<1>2. stage = "head"
  BY DEF ReadsFrame, Reads
<1>3. CASE TooLong(Len(buffer) + n)
  <2> DEFINE r == Fails("too long")
  <2>1. Ends(r) /\ buffer' = buffer
    BY <1>3 DEF ReadsFrame
  <2>2. TrueOf(r)
    BY FailsTrue
  <2> HIDE DEF r
  <2> QED
    BY <1>2, <2>1, <2>2, EndsOK
<1>4. CASE ~TooLong(Len(buffer) + n)
  <2> DEFINE f == SubSeq(unread, 1, n)
             g == SubSeq(unread, n + 1, Len(unread))
  <2>1. /\ buffer' = buffer \o f /\ unread' = g /\ shelf' = shelf /\ seen' = seen
        /\ request' = request /\ stage' = stage /\ answer' = answer /\ walking' = walking
        /\ result' = result
    BY <1>4 DEF ReadsFrame
  <2>2. buffer \in Seq(Byte) /\ unread \in Seq(Byte) /\ result.is = "pending"
    BY <1>1, <1>2 DEF HttpShape
  <2>3. f \in Seq(Byte) /\ Len(f) = n /\ g \in Seq(Byte) /\ f \o g = unread
    BY <2>2, CutInTwo
  <2> HIDE DEF f, g
  <2>4. buffer' \in Seq(Byte) /\ Len(buffer') = Len(buffer) + n
    BY <2>1, <2>2, <2>3, ConcatProperties
  <2>5. Whole' = Whole
    BY <2>1, <2>2, <2>3, TogetherOfThree DEF Whole
  <2>6. HttpShape'
    BY <1>1, <1>2, <2>1, <2>3, <2>4 DEF HttpShape
  <2>7. HeadOK'
    <3>1. ASSUME NEW s PROVE Foretold(s)' <=> Foretold(s)
      BY <2>1, <2>5 DEF Foretold
    <3>2. request.call \in Checks /\ Success => ReportOK'
      BY <1>1, <1>2, <2>1, <2>5, ReportStays DEF HeadOK
    <3> QED
      BY <1>1, <1>2, <2>1, <3>1, <3>2 DEF HeadOK, Success
  <2>8. AnswersTrue'
    <3>1. Success => Len(buffer) + n <= MAX_JSON_RESPONSE_BYTES
      <4>1. Len(buffer) \in Nat /\ n \in Nat /\ MAX_JSON_RESPONSE_BYTES \in Nat
        BY <2>2, HttpAssumption DEF HttpAssumption
      <4> QED
        BY <1>4, <4>1 DEF TooLong
    <3> QED
      BY <1>1, <2>1, <2>2, <2>4, <3>1 DEF AnswersTrue, Success
  <2> QED
    BY <2>6, <2>7, <2>8 DEF HttpInv
<1> QED
  BY <1>3, <1>4

\* An error page is kept to the cap, and it is the beginning of what was read.
LEMMA ErrorTrue ==
  ASSUME HttpInv, stage = "head", ~Success, NEW m \in 0..RESPONSE_BODY_CAP, m <= Len(buffer)
  PROVE  TrueOf(Refused(ResponseError(SubSeq(buffer, 1, m))))
<1>1. HttpShape /\ HeadOK
  BY DEF HttpInv
<1>2. CASE request.call = "get_pin" /\ answer.status = 404
  <2>1. PICK s \in seen : request.root \notin s.pins
    BY <1>1, <1>2 DEF HeadOK
  <2>2. Describes(FALSE, s)
    BY <1>2, <2>1 DEF Describes
  <2> QED
    BY <1>2, <2>2 DEF TrueOf, Refused, Value, Checks
<1>3. CASE ~(request.call = "get_pin" /\ answer.status = 404)
  <2> DEFINE b == SubSeq(buffer, 1, m)
  <2>1. buffer \in Seq(Byte) /\ m \in Nat /\ RESPONSE_BODY_CAP \in Nat
    BY <1>1, HttpAssumption DEF HttpShape, HttpAssumption
  <2>2. Len(b) = m /\ Len(b) <= RESPONSE_BODY_CAP /\ b \in Seq(Byte)
    BY <2>1
  <2>3. IsPrefix(b, buffer)
    BY <2>1, <2>2 DEF IsPrefix
  <2> HIDE DEF b
  <2>4. TrueOf(ResponseError(b))
    BY <2>2, <2>3 DEF TrueOf, ResponseError
  <2> QED
    BY <1>3, <2>4 DEF Refused, b
<1> QED
  BY <1>2, <1>3

\* A report that is complete is true of the roots.
LEMMA ReportTrue ==
  ASSUME ReportOK, walking = {}, Whole = buffer
  PROVE  LET v == {Head(line) : line \in Lines(buffer)}
         IN  Throughout \cap Scope \subseteq v /\ v \subseteq AtTimes \cap Scope
<1> DEFINE v == {Head(line) : line \in Lines(buffer)}
<1>1. ASSUME NEW r \in Throughout \cap Scope PROVE r \in v
  <2>1. <<r, CLOSE>> \in Lines(buffer)
    BY DEF ReportOK
  <2>2. Head(<<r, CLOSE>>) = r
    OBVIOUS
  <2> QED
    BY <2>1, <2>2
<1>2. ASSUME NEW line \in Lines(buffer) PROVE Head(line) \in AtTimes \cap Scope
  <2>1. PICK r \in AtTimes \cap Scope : line = <<r, CLOSE>>
    BY DEF ReportOK
  <2> QED
    BY <2>1
<1> QED
  BY <1>1, <1>2

\* What is read out of a document is the state it was written from.
LEMMA DocumentTrue ==
  ASSUME HttpInv, stage = "head", Success, Reads, request.call \notin Checks,
         unread = <<>>, Parses(buffer)
  PROVE  \E s \in seen : Describes(IF request.call = "list_pins" THEN Range(Front(buffer))
                                   ELSE Head(buffer), s)
<1>1. HttpShape /\ HeadOK /\ AnswersTrue
  BY DEF HttpInv
<1>2. PICK s \in seen : Foretold(s)
  BY <1>1 DEF HeadOK
<1>3. Whole = buffer /\ s \in Shelf /\ buffer \in Seq(Byte)
  BY <1>1, ConcatEmptySeq DEF Whole, HttpShape
<1>4. request.call \in {"list_pins", "is_retrievable", "get_tag"}
  BY DEF Reads, Checks
<1>5. CASE request.call = "list_pins"
  <2> DEFINE f == SetToSeq(s.pins)
  <2>1. IsFiniteSet(s.pins)
    BY <1>3, HttpAssumption, FS_Subset DEF HttpAssumption, Shelf
  <2>2. f \in Seq(s.pins) /\ Range(f) = s.pins
    BY <2>1, LaidOut
  <2>3. buffer = Document(f)
    BY <1>2, <1>3, <1>5 DEF Foretold
  <2> HIDE DEF f
  <2>4. Range(Front(buffer)) = s.pins
    BY <2>2, <2>3, DocumentIs
  <2> QED
    BY <1>5, <2>4 DEF Describes
<1>6. CASE request.call = "is_retrievable"
  <2> DEFINE f == <<s.retrievable>>
  <2>1. f \in Seq(BOOLEAN) /\ f # <<>> /\ f[1] = s.retrievable
    BY <1>3 DEF Shelf
  <2>2. buffer = Document(f)
    BY <1>2, <1>3, <1>6 DEF Foretold
  <2> HIDE DEF f
  <2>3. Head(buffer) = s.retrievable
    BY <2>1, <2>2, DocumentIs
  <2> QED
    BY <1>6, <2>3 DEF Describes
<1>7. CASE request.call = "get_tag"
  <2>1. PICK n \in {1, MAX_JSON_RESPONSE_BYTES} :
          s.tag # Nothing /\ buffer = Document([i \in 1..n |-> s.tag])
    BY <1>2, <1>3, <1>7 DEF Foretold
  <2> DEFINE f == [i \in 1..n |-> s.tag]
  <2>2. n \in Nat /\ MAX_JSON_RESPONSE_BYTES \in Nat
    BY HttpAssumption DEF HttpAssumption
  <2>3. s.tag \in Nat
    BY <1>3 DEF Shelf, Tag, Nothing
  <2>4. f \in Seq(Nat) /\ Len(f) = n /\ (n > 0 => f # <<>> /\ f[1] = s.tag)
    <3>1. f \in [1..n -> Nat]
      BY <2>3
    <3>2. f \in Seq(Nat) /\ Len(f) = n
      BY <2>2, <3>1
    <3>3. n > 0 => 1 \in 1..n
      BY <2>2
    <3> QED
      BY <2>2, <3>2, <3>3
  <2>5. buffer = Document(f)
    BY <2>1
  <2> HIDE DEF f
  <2>6. Len(buffer) = n + 1
    BY <2>4, <2>5, DocumentIs
  <2>7. n > 0
    BY <1>1, <2>2, <2>6 DEF AnswersTrue
  <2>8. Head(buffer) = s.tag
    BY <2>4, <2>5, <2>7, DocumentIs
  <2> QED
    BY <1>7, <2>1, <2>8 DEF Describes
<1> QED
  BY <1>4, <1>5, <1>6, <1>7

\* The body has ended: the answer is read out of it.
LEMMA BodyEndsOK == HttpInv /\ BodyEnds => HttpInv'
<1> SUFFICES ASSUME HttpInv, BodyEnds PROVE HttpInv'
  OBVIOUS
<1>1. HttpShape /\ HeadOK /\ AnswersTrue
  BY DEF HttpInv
<1>2. stage = "head" /\ Reads /\ unread = <<>> /\ walking = {} /\ buffer' = buffer
  BY DEF BodyEnds, Reads
<1>3. CASE Success
  <2> DEFINE r == Parsed(buffer)
  <2>1. Ends(r)
    BY <1>3 DEF BodyEnds
  <2>2. TrueOf(r)
    <3>1. CASE request.call \in Checks
      <4> DEFINE v == {Head(line) : line \in Lines(buffer)}
      <4>1. Whole = buffer
        BY <1>1, <1>2, ConcatEmptySeq DEF Whole, HttpShape
      <4>2. ReportOK
        BY <1>1, <1>2, <1>3, <3>1 DEF HeadOK
      <4>3. Throughout \cap Scope \subseteq v /\ v \subseteq AtTimes \cap Scope
        BY <1>2, <4>1, <4>2, ReportTrue
      <4>4. r = Value(v) \/ r = Fails("json")
        BY <3>1 DEF Parsed, Checks
      <4> HIDE DEF v, r
      <4>5. TrueOf(Value(v))
        BY <3>1, <4>3 DEF TrueOf, Value
      <4>6. TrueOf(Fails("json"))
        BY FailsTrue
      <4> QED
        BY <4>4, <4>5, <4>6
    <3>2. CASE request.call \notin Checks
      <4> DEFINE v == IF request.call = "list_pins" THEN Range(Front(buffer)) ELSE Head(buffer)
      <4>1. r = Fails("json") \/ (Parses(buffer) /\ r = Value(v))
        BY <3>2 DEF Parsed, Checks
      <4>2. Parses(buffer) => \E s \in seen : Describes(v, s)
        BY <1>2, <1>3, <3>2, DocumentTrue
      <4> HIDE DEF v, r
      <4>3. Parses(buffer) => TrueOf(Value(v))
        BY <3>2, <4>2 DEF TrueOf, Value
      <4>4. TrueOf(Fails("json"))
        BY FailsTrue
      <4> QED
        BY <4>1, <4>3, <4>4
    <3> QED
      BY <3>1, <3>2
  <2> HIDE DEF r
  <2> QED
    BY <1>2, <2>1, <2>2, EndsOK
<1>4. CASE ~Success
  <2> DEFINE m == IF Len(buffer) < RESPONSE_BODY_CAP THEN Len(buffer) ELSE RESPONSE_BODY_CAP
             r == Refused(ResponseError(SubSeq(buffer, 1, m)))
  <2>1. Ends(r)
    BY <1>4 DEF BodyEnds
  <2>2. m \in 0..RESPONSE_BODY_CAP /\ m <= Len(buffer)
    <3>1. Len(buffer) \in Nat /\ RESPONSE_BODY_CAP \in Nat
      BY <1>1, HttpAssumption DEF HttpShape, HttpAssumption
    <3> QED
      BY <3>1
  <2> HIDE DEF m
  <2>3. TrueOf(r)
    BY <1>2, <1>4, <2>2, ErrorTrue
  <2> HIDE DEF r
  <2> QED
    BY <1>2, <2>1, <2>3, EndsOK
<1> QED
  BY <1>3, <1>4

\* The connection is lost.
LEMMA HttpLostOK == HttpInv /\ HttpLost => HttpInv'
<1> SUFFICES ASSUME HttpInv, HttpLost PROVE HttpInv'
  OBVIOUS
<1>1. HttpShape /\ HeadOK /\ AnswersTrue
  BY DEF HttpInv
<1>2. stage \in {"sent", "head"} /\ buffer' = buffer
  BY DEF HttpLost, Reads
<1>3. CASE stage = "head" /\ ~Success
  <2> DEFINE r == Refused(ResponseError(<<>>))
  <2>1. Ends(r)
    BY <1>3 DEF HttpLost
  <2>2. buffer \in Seq(Byte) /\ 0 \in 0..RESPONSE_BODY_CAP /\ 0 <= Len(buffer)
    BY <1>1, HttpAssumption DEF HttpShape, HttpAssumption
  <2>3. SubSeq(buffer, 1, 0) = <<>>
    BY <2>2
  <2>4. TrueOf(r)
    BY <1>3, <2>2, <2>3, ErrorTrue
  <2> HIDE DEF r
  <2> QED
    BY <1>2, <2>1, <2>4, EndsOK
<1>4. CASE ~(stage = "head" /\ ~Success)
  <2> DEFINE r == Fails("transport")
  <2>1. Ends(r)
    BY <1>4 DEF HttpLost
  <2>2. TrueOf(r)
    BY FailsTrue
  <2> HIDE DEF r
  <2> QED
    BY <1>2, <2>1, <2>2, EndsOK
<1> QED
  BY <1>3, <1>4

\* No step of the client, the node or others makes the invariant false.
LEMMA HttpStepOK == HttpInv /\ [HttpNext]_httpVars => HttpInv'
<1> SUFFICES ASSUME HttpInv, [HttpNext]_httpVars PROVE HttpInv'
  OBVIOUS
<1>1. ASSUME NEW c \in Call, IF c \in OfOneRoot THEN \E r \in Root : Ask(c, r)
                                                   ELSE Ask(c, Nothing)
      PROVE  HttpInv'
  <2>1. CASE c \in OfOneRoot
    <3>1. PICK r \in Root : Ask(c, r)
      BY <1>1, <2>1
    <3> QED
      BY <3>1, AskOK
  <2>2. CASE c \notin OfOneRoot
    BY <1>1, <2>2, AskOK
  <2> QED
    BY <2>1, <2>2
<1>2. CASE OthersChange
  BY <1>2, OthersChangeOK
<1>3. CASE NodeServes
  BY <1>3, NodeServesOK
<1>4. CASE NodeRefuses
  BY <1>4, NodeRefusesOK
<1>5. CASE NodeChecks
  BY <1>5, NodeChecksOK
<1>6. CASE ReturnsAtHead
  BY <1>6, ReturnsAtHeadOK
<1>7. CASE RejectsLength
  BY <1>7, RejectsLengthOK
<1>8. CASE \E n \in 1..Len(unread) : ReadsFrame(n)
  BY <1>8, ReadsFrameOK
<1>9. CASE BodyEnds
  BY <1>9, BodyEndsOK
<1>10. CASE HttpLost
  BY <1>10, HttpLostOK
<1>11. CASE UNCHANGED httpVars
  <2>1. /\ shelf' = shelf /\ seen' = seen /\ request' = request /\ stage' = stage
        /\ answer' = answer /\ walking' = walking /\ unread' = unread /\ buffer' = buffer
        /\ result' = result
    BY <1>11 DEF httpVars, asking
  <2>2. HttpShape'
    BY <2>1 DEF HttpInv, HttpShape
  <2>3. AnswersTrue'
    BY <2>1 DEF HttpInv, AnswersTrue, Success, Throughout, AtTimes, Scope, Describes
  <2>4. HeadOK'
    <3>1. Whole' = Whole /\ Success' = Success /\ \A s : Foretold(s)' = Foretold(s)
      BY <2>1 DEF Whole, Success, Foretold
    <3>2. ReportOK => ReportOK'
      BY <2>1, <3>1, ReportStays DEF HttpInv
    <3> QED
      BY <2>1, <3>1, <3>2 DEF HttpInv, HeadOK
  <2> QED
    BY <2>2, <2>3, <2>4 DEF HttpInv
<1> QED
  BY <1>1, <1>2, <1>3, <1>4, <1>5, <1>6, <1>7, <1>8, <1>9, <1>10, <1>11 DEF HttpNext

\* Whatever the node does and others change, and however the body is cut, a call
\* that returns Ok tells the truth about a moment between its start and its end.
THEOREM HttpAnswersTrue == HttpSpec => []AnswersTrue
<1>1. HttpInit => HttpInv
  BY HttpInitOK
<1>2. HttpInv /\ [HttpNext]_httpVars => HttpInv'
  BY HttpStepOK
<1>3. HttpInv => AnswersTrue
  BY DEF HttpInv
<1> QED
  BY <1>1, <1>2, <1>3, PTL DEF HttpSpec

-----------------------------------------------------------------------------
(* Uploads and downloads.                                                  *)

Entry == [path : FilePath, data : Content]

\* The paths that have been read.
PathsRead == {entries[i].path : i \in DOMAIN entries}

\* What has been at each path, and what was read of it.
ReadOK ==
  /\ entries \in Seq(Entry)
  /\ files \in [FilePath -> Content \cup {None, LINK}]
  /\ was \in [FilePath -> SUBSET (Content \cup {None, LINK})]
  /\ listed \subseteq FilePath /\ PathsRead \subseteq listed
  /\ \A p \in FilePath : files[p] \in was[p]
  /\ \A i \in DOMAIN entries :
       entries[i].data \in was[entries[i].path] \/ LINK \in was[entries[i].path]
  /\ \A i, j \in DOMAIN entries : i # j => entries[i].path # entries[j].path

\* The walk has read every file it came to, but the one that it opens.
WalkOK ==
  /\ told = <<>>
  /\ opening \in IF step = "open" THEN listed \ PathsRead ELSE {None}
  /\ \A p \in listed : was[p] \subseteq Content => p \in PathsRead \cup {opening}

\* After it all are in order, and none is missing.
WalkedOK ==
  /\ \A i, j \in DOMAIN entries : i < j => entries[i].path < entries[j].path
  /\ \A p \in FilePath : was[p] \subseteq Content => p \in PathsRead

ToldOK ==
  /\ step = "tell" => told \in Seq(FilePath) /\ Len(told) <= Len(entries)
                        /\ \A i \in DOMAIN told : told[i] = entries[i].path
  /\ step \in {"pack", "sent"} => told = [i \in DOMAIN entries |-> entries[i].path]

TransferInv ==
  /\ transfer \in Transfer
  /\ step \in {"walk", "open", "tell", "pack", "sent", "refused"}
  /\ Collections =>
       /\ ReadOK
       /\ step \in {"walk", "open"} => WalkOK
       /\ step \in {"tell", "pack", "sent"} => WalkedOK
       /\ ToldOK
  /\ ~Collections => step \in {"pack", "sent", "refused"}
  /\ step = "sent" => sent = Headers /\ (Collections => ValidCollection(transfer.options))

-----------------------------------------------------------------------------
(* Headers.                                                                *)

Name == {"Content-Type", "Swarm-Pin", "Swarm-Encrypt", "Swarm-Tag", "Swarm-Deferred-Upload",
         "Swarm-Act", "Swarm-Act-History-Address", "Swarm-Redundancy-Level", "Swarm-Collection",
         "Swarm-Index-Document", "Swarm-Error-Document", "Swarm-Redundancy-Strategy",
         "Swarm-Redundancy-Fallback-Mode", "Swarm-Chunk-Retrieval-Timeout",
         "Swarm-Act-Publisher", "Swarm-Act-Timestamp"}

Pair(V) == Name \X V

\* The headers that the client writes are names.
LEMMA NamesAre ==
  /\ "Content-Type" \in Name /\ "Swarm-Pin" \in Name /\ "Swarm-Encrypt" \in Name
  /\ "Swarm-Tag" \in Name /\ "Swarm-Deferred-Upload" \in Name /\ "Swarm-Act" \in Name
  /\ "Swarm-Act-History-Address" \in Name /\ "Swarm-Redundancy-Level" \in Name
  /\ "Swarm-Collection" \in Name /\ "Swarm-Index-Document" \in Name
  /\ "Swarm-Error-Document" \in Name /\ "Swarm-Redundancy-Strategy" \in Name
  /\ "Swarm-Redundancy-Fallback-Mode" \in Name /\ "Swarm-Chunk-Retrieval-Timeout" \in Name
  /\ "Swarm-Act-Publisher" \in Name /\ "Swarm-Act-Timestamp" \in Name
  BY DEF Name

\* The values of two lists of headers are those of either.
LEMMA ValuesJoined ==
  ASSUME NEW V, NEW a \in Seq(Pair(V)), NEW b \in Seq(Pair(V))
  PROVE  /\ a \o b \in Seq(Pair(V))
         /\ \A n : Values(a \o b, n) = Values(a, n) \cup Values(b, n)
<1>1. a \o b \in Seq(Pair(V)) /\ Range(a \o b) = Range(a) \cup Range(b)
  <2>1. /\ a \o b \in Seq(Pair(V)) /\ Len(a \o b) = Len(a) + Len(b)
        /\ \A i \in 1..Len(a) : (a \o b)[i] = a[i]
        /\ \A i \in 1..Len(b) : (a \o b)[Len(a) + i] = b[i]
    OBVIOUS
  <2> DEFINE c == a \o b
  <2> HIDE DEF c
  <2>2. DOMAIN a = 1..Len(a) /\ DOMAIN b = 1..Len(b) /\ Len(a) \in Nat /\ Len(b) \in Nat
    OBVIOUS
  <2>3. DOMAIN c = 1..(Len(a) + Len(b))
    BY <2>1 DEF c
  <2>4. /\ \A i \in 1..Len(a) : c[i] = a[i]
        /\ \A i \in 1..Len(b) : c[Len(a) + i] = b[i]
    BY <2>1 DEF c
  <2>5. \A i \in DOMAIN c : i \in 1..Len(a) \/ (i - Len(a) \in 1..Len(b) /\ Len(a) + (i - Len(a)) = i)
    BY <2>2, <2>3
  <2>6. \A i \in DOMAIN c : c[i] \in Range(a) \cup Range(b)
    BY <2>2, <2>4, <2>5 DEF Range
  <2>7. \A i \in DOMAIN a : a[i] \in Range(c)
    BY <2>2, <2>3, <2>4 DEF Range
  <2>8. \A i \in DOMAIN b : b[i] \in Range(c)
    <3> SUFFICES ASSUME NEW i \in DOMAIN b PROVE b[i] \in Range(c)
      OBVIOUS
    <3>1. Len(a) + i \in DOMAIN c /\ c[Len(a) + i] = b[i]
      BY <2>2, <2>3, <2>4
    <3> QED
      BY <3>1 DEF Range
  <2>9. Range(c) = Range(a) \cup Range(b)
    BY <2>6, <2>7, <2>8 DEF Range
  <2> QED
    BY <2>1, <2>9 DEF c
<1> QED
  BY <1>1 DEF Values

\* What a header, an option, a number or a text has for a name.
Fixed(name, v, n)  == IF n = name THEN {v} ELSE {}
Option(name, v, n) == IF n = name /\ v # None THEN {v} ELSE {}
Number(name, v, n) == IF n = name /\ v \notin {None, 0} THEN {v} ELSE {}
Text(name, v, n)   == IF n = name /\ v # None /\ Safe(v) THEN {v} ELSE {}

\* A header has its value for its name, and none for another.
LEMMA ValuesHeader ==
  ASSUME NEW V, NEW name \in Name, NEW v \in V
  PROVE  /\ Header(name, v) \in Seq(Pair(V))
         /\ \A n : Values(Header(name, v), n) = Fixed(name, v, n)
<1> DEFINE h == <<name, v>>
<1>1. h \in Pair(V) /\ h[1] = name /\ h[2] = v
  BY DEF Pair
<1> HIDE DEF h
<1>2. <<h>> \in Seq(Pair(V)) /\ Range(<<h>>) = {h}
  BY <1>1 DEF Range
<1>3. Header(name, v) = <<h>>
  BY DEF Header, h
<1>4. \A n : Values(<<h>>, n) = IF n = name THEN {v} ELSE {}
  BY <1>1, <1>2 DEF Values
<1> QED
  BY <1>2, <1>3, <1>4 DEF Fixed

\* No headers, no values.
LEMMA ValuesEmpty ==
  ASSUME NEW V
  PROVE  <<>> \in Seq(Pair(V)) /\ \A n : Values(<<>>, n) = {}
<1>1. Range(<<>>) = {}
  BY DEF Range
<1> QED
  BY <1>1, EmptySeq DEF Values

\* An option that is not set has no header; ...
LEMMA ValuesGiven ==
  ASSUME NEW V, NEW name \in Name, NEW v \in V
  PROVE  /\ Given(name, v) \in Seq(Pair(V))
         /\ \A n : Values(Given(name, v), n) = Option(name, v, n)
  BY ValuesHeader, ValuesEmpty DEF Given, Option, Fixed

\* ... nor has one that is 0, where that means unset; ...
LEMMA ValuesPositive ==
  ASSUME NEW V, NEW name \in Name, NEW v \in V
  PROVE  /\ Positive(name, v) \in Seq(Pair(V))
         /\ \A n : Values(Positive(name, v), n) = Number(name, v, n)
  BY ValuesHeader, ValuesEmpty DEF Positive, Number, Fixed

\* ... nor a text that is no header value.
LEMMA ValuesSafeText ==
  ASSUME NEW V, NEW name \in Name, NEW v \in V
  PROVE  /\ SafeText(name, v) \in Seq(Pair(V))
         /\ \A n : Values(SafeText(name, v), n) = Text(name, v, n)
  BY ValuesHeader, ValuesEmpty DEF SafeText, Text, Fixed

\* A set of naturals that is not empty has a least element.
LEMMA LeastOf ==
  ASSUME NEW S \in SUBSET Nat, S # {}
  PROVE  \E n \in S : \A m \in S : n <= m
<1> DEFINE Less == OpToRel(<, Nat)
<1>1. IsWellFoundedOn(Less, Nat)
  BY NatLessThanWellFounded
<1>2. \A x, y \in Nat : <<x, y>> \in Less <=> x < y
  BY DEF OpToRel
<1> HIDE DEF Less
<1>3. PICK n \in S : \A m \in S : ~ (<<m, n>> \in Less)
  BY <1>1, WFMin
<1>4. \A m \in S : m \in Nat /\ n \in Nat /\ ~ (m < n)
  BY <1>2, <1>3
<1> QED
  BY <1>4

\* What the node reads of a name is its only value, or the default.
LEMMA ReadsValue ==
  ASSUME NEW V, NEW headers \in Seq(Pair(V)), NEW name, NEW default
  PROVE  /\ Values(headers, name) = {} => ReadAs(headers, name, default) = default
         /\ \A v : Values(headers, name) = {v} => ReadAs(headers, name, default) = v
<1>1. Values(headers, name) = {} => ReadAs(headers, name, default) = default
  BY DEF ReadAs
<1>2. ASSUME NEW v, Values(headers, name) = {v} PROVE ReadAs(headers, name, default) = v
  <2> DEFINE S == {i \in DOMAIN headers : headers[i][1] = name}
             First(i) == headers[i][1] = name /\ \A j \in 1 .. i - 1 : headers[j][1] # name
  <2>1. DOMAIN headers = 1..Len(headers) /\ Len(headers) \in Nat
    OBVIOUS
  <2>2. S # {}
    <3>1. PICK h \in Range(headers) : h[1] = name
      BY <1>2 DEF Values
    <3> QED
      BY <3>1 DEF Range
  <2>3. PICK i \in S : \A j \in S : i <= j
    <3>1. S \in SUBSET Nat
      BY <2>1
    <3> HIDE DEF S
    <3> QED
      BY <2>2, <3>1, LeastOf
  <2>4. i \in DOMAIN headers /\ First(i)
    BY <2>1, <2>3
  <2> DEFINE k == CHOOSE m \in DOMAIN headers : First(m)
  <2>5. k \in DOMAIN headers /\ First(k)
    BY <2>4
  <2>6. ReadAs(headers, name, default) = headers[k][2]
    BY <1>2 DEF ReadAs
  <2> HIDE DEF k
  <2>7. headers[k][2] \in Values(headers, name)
    BY <2>5 DEF Values, Range
  <2> QED
    BY <1>2, <2>6, <2>7
<1> QED
  BY <1>1, <1>2

\* When no name has two values each header is the only one of its name, in effect.
LEMMA OneEach ==
  ASSUME NEW V, NEW headers \in Seq(Pair(V)),
         \A n : \A x, y \in Values(headers, n) : x = y
  PROVE  \A i \in DOMAIN headers : Cardinality(Values(headers, headers[i][1])) = 1
<1> SUFFICES ASSUME NEW i \in DOMAIN headers
             PROVE  Cardinality(Values(headers, headers[i][1])) = 1
  OBVIOUS
<1>1. headers[i][2] \in Values(headers, headers[i][1])
  BY DEF Values, Range
<1>2. Values(headers, headers[i][1]) = {headers[i][2]}
  BY <1>1
<1> QED
  BY <1>2, FS_Singleton

OfUpload(o, n) ==
  Option("Swarm-Pin", o.pin, n) \cup Option("Swarm-Encrypt", o.encrypt, n)
    \cup Number("Swarm-Tag", o.tag, n) \cup Option("Swarm-Deferred-Upload", o.deferred, n)
    \cup Option("Swarm-Act", o.act, n)
    \cup Option("Swarm-Act-History-Address", o.act_history_address, n)

OfRedundancy(o, n) == Number("Swarm-Redundancy-Level", o.redundancy_level, n)

\* The headers that all uploads have in common.
LEMMA UploadHas ==
  ASSUME NEW V, NEW o,
         {o.pin, o.encrypt, o.tag, o.deferred, o.act, o.act_history_address} \subseteq V
  PROVE  /\ PrepareUpload(o) \in Seq(Pair(V))
         /\ \A n : Values(PrepareUpload(o), n) = OfUpload(o, n)
<1> DEFINE a1 == Given("Swarm-Pin", o.pin)
           a2 == Given("Swarm-Encrypt", o.encrypt)
           a3 == Positive("Swarm-Tag", o.tag)
           a4 == Given("Swarm-Deferred-Upload", o.deferred)
           a5 == Given("Swarm-Act", o.act)
           a6 == Given("Swarm-Act-History-Address", o.act_history_address)
<1>0. o.pin \in V /\ o.encrypt \in V /\ o.tag \in V /\ o.deferred \in V /\ o.act \in V /\ o.act_history_address \in V
  OBVIOUS
<1>1. a1 \in Seq(Pair(V)) /\ \A n : Values(a1, n) = Option("Swarm-Pin", o.pin, n)
  BY <1>0, NamesAre, ValuesGiven, Zenon
<1>2. a2 \in Seq(Pair(V)) /\ \A n : Values(a2, n) = Option("Swarm-Encrypt", o.encrypt, n)
  BY <1>0, NamesAre, ValuesGiven, Zenon
<1>3. a3 \in Seq(Pair(V)) /\ \A n : Values(a3, n) = Number("Swarm-Tag", o.tag, n)
  BY <1>0, NamesAre, ValuesPositive, Zenon
<1>4. a4 \in Seq(Pair(V)) /\ \A n : Values(a4, n) = Option("Swarm-Deferred-Upload", o.deferred, n)
  BY <1>0, NamesAre, ValuesGiven, Zenon
<1>5. a5 \in Seq(Pair(V)) /\ \A n : Values(a5, n) = Option("Swarm-Act", o.act, n)
  BY <1>0, NamesAre, ValuesGiven, Zenon
<1>6. a6 \in Seq(Pair(V))
      /\ \A n : Values(a6, n) = Option("Swarm-Act-History-Address", o.act_history_address, n)
  BY <1>0, NamesAre, ValuesGiven, Zenon
<1>7. PrepareUpload(o) = a1 \o a2 \o a3 \o a4 \o a5 \o a6
  BY DEF PrepareUpload, PushUploadOptions
<1> HIDE DEF a1, a2, a3, a4, a5, a6
<1> DEFINE b2 == a1 \o a2
           b3 == b2 \o a3
           b4 == b3 \o a4
           b5 == b4 \o a5
           b6 == b5 \o a6
<1>8. b2 \in Seq(Pair(V)) /\ \A n : Values(b2, n) = Values(a1, n) \cup Values(a2, n)
  BY <1>1, <1>2, ValuesJoined
<1> HIDE DEF b2
<1>9. b3 \in Seq(Pair(V)) /\ \A n : Values(b3, n) = Values(b2, n) \cup Values(a3, n)
  BY <1>8, <1>3, ValuesJoined
<1> HIDE DEF b3
<1>10. b4 \in Seq(Pair(V)) /\ \A n : Values(b4, n) = Values(b3, n) \cup Values(a4, n)
  BY <1>9, <1>4, ValuesJoined
<1> HIDE DEF b4
<1>11. b5 \in Seq(Pair(V)) /\ \A n : Values(b5, n) = Values(b4, n) \cup Values(a5, n)
  BY <1>10, <1>5, ValuesJoined
<1> HIDE DEF b5
<1>12. b6 \in Seq(Pair(V)) /\ \A n : Values(b6, n) = Values(b5, n) \cup Values(a6, n)
  BY <1>11, <1>6, ValuesJoined
<1>13. PrepareUpload(o) = b6
  BY <1>7 DEF b6, b5, b4, b3, b2
<1> HIDE DEF b6
<1>14. \A n : Values(b6, n) = OfUpload(o, n)
  BY <1>1, <1>2, <1>3, <1>4, <1>5, <1>6, <1>8, <1>9, <1>10, <1>11, <1>12 DEF OfUpload
<1> QED
  BY <1>12, <1>13, <1>14

\* A chunk's headers.
LEMMA ChunkHas ==
  ASSUME NEW V, NEW o,
         {o.pin, o.encrypt, o.tag, o.deferred, o.act, o.act_history_address} \subseteq V,
         "application/octet-stream" \in V
  PROVE  /\ UploadChunk(o) \in Seq(Pair(V))
         /\ \A n : Values(UploadChunk(o), n) =
                     Fixed("Content-Type", "application/octet-stream", n) \cup OfUpload(o, n)
<1> DEFINE a == OctetStream
           b == PrepareUpload(o)
<1>0. "application/octet-stream" \in V
  OBVIOUS
<1>1. a \in Seq(Pair(V)) /\ \A n : Values(a, n) = Fixed("Content-Type", "application/octet-stream", n)
  BY <1>0, NamesAre, ValuesHeader, Zenon DEF OctetStream
<1>2. b \in Seq(Pair(V)) /\ \A n : Values(b, n) = OfUpload(o, n)
  BY UploadHas
<1>3. UploadChunk(o) = a \o b
  BY DEF UploadChunk
<1> HIDE DEF a, b
<1> QED
  BY <1>1, <1>2, <1>3, ValuesJoined

\* Those of data have a redundancy level as well.
LEMMA DataHas ==
  ASSUME NEW V, NEW o,
         {o.pin, o.encrypt, o.tag, o.deferred, o.act, o.act_history_address} \subseteq V,
         {"application/octet-stream", o.redundancy_level} \subseteq V
  PROVE  /\ UploadData(o) \in Seq(Pair(V))
         /\ \A n : Values(UploadData(o), n) =
                     Fixed("Content-Type", "application/octet-stream", n)
                       \cup (OfUpload(o, n) \cup OfRedundancy(o, n))
<1> DEFINE a == OctetStream
           b == PrepareUpload(o)
           c == Redundancy(o)
           d == b \o c
<1>0. "application/octet-stream" \in V /\ o.redundancy_level \in V
  OBVIOUS
<1>1. a \in Seq(Pair(V)) /\ \A n : Values(a, n) = Fixed("Content-Type", "application/octet-stream", n)
  BY <1>0, NamesAre, ValuesHeader, Zenon DEF OctetStream
<1>2. b \in Seq(Pair(V)) /\ \A n : Values(b, n) = OfUpload(o, n)
  BY UploadHas
<1>3. c \in Seq(Pair(V)) /\ \A n : Values(c, n) = OfRedundancy(o, n)
  BY <1>0, NamesAre, ValuesPositive, Zenon DEF Redundancy, OfRedundancy
<1>4. UploadData(o) = a \o d
  BY DEF UploadData, PrepareRedundant
<1> HIDE DEF a, b, c
<1>5. d \in Seq(Pair(V)) /\ \A n : Values(d, n) = OfUpload(o, n) \cup OfRedundancy(o, n)
  BY <1>2, <1>3, ValuesJoined
<1> HIDE DEF d
<1> QED
  BY <1>1, <1>4, <1>5, ValuesJoined

\* Those of a file have its type, and the type of the options if there is one.
LEMMA FileHas ==
  ASSUME NEW V, NEW o,
         {o.pin, o.encrypt, o.tag, o.deferred, o.act, o.act_history_address} \subseteq V,
         {FileType(o), o.content_type, o.redundancy_level} \subseteq V
  PROVE  /\ UploadFile(o) \in Seq(Pair(V))
         /\ \A n : Values(UploadFile(o), n) =
                     Fixed("Content-Type", FileType(o), n)
                       \cup (OfUpload(o, n) \cup Option("Content-Type", o.content_type, n)
                               \cup OfRedundancy(o, n))
<1> DEFINE a == Header("Content-Type", FileType(o))
           b == PrepareUpload(o)
           c == Given("Content-Type", o.content_type)
           d == Redundancy(o)
           e == b \o c
           f == e \o d
<1>0. FileType(o) \in V /\ o.content_type \in V /\ o.redundancy_level \in V
  OBVIOUS
<1>1. a \in Seq(Pair(V)) /\ \A n : Values(a, n) = Fixed("Content-Type", FileType(o), n)
  BY <1>0, NamesAre, ValuesHeader, Zenon
<1>2. b \in Seq(Pair(V)) /\ \A n : Values(b, n) = OfUpload(o, n)
  BY UploadHas
<1>3. c \in Seq(Pair(V)) /\ \A n : Values(c, n) = Option("Content-Type", o.content_type, n)
  BY <1>0, NamesAre, ValuesGiven, Zenon
<1>4. d \in Seq(Pair(V)) /\ \A n : Values(d, n) = OfRedundancy(o, n)
  BY <1>0, NamesAre, ValuesPositive, Zenon DEF Redundancy, OfRedundancy
<1>5. UploadFile(o) = a \o f
  BY DEF UploadFile, PrepareFile
<1> HIDE DEF a, b, c, d
<1>6. e \in Seq(Pair(V)) /\ \A n : Values(e, n) = OfUpload(o, n) \cup Option("Content-Type", o.content_type, n)
  BY <1>2, <1>3, ValuesJoined
<1> HIDE DEF e
<1>7. f \in Seq(Pair(V))
      /\ \A n : Values(f, n) = OfUpload(o, n) \cup Option("Content-Type", o.content_type, n)
                                 \cup OfRedundancy(o, n)
  BY <1>4, <1>6, ValuesJoined
<1> HIDE DEF f
<1> QED
  BY <1>1, <1>5, <1>7, ValuesJoined

\* Those of a collection have its documents.
LEMMA CollectionHas ==
  ASSUME NEW V, NEW o,
         {o.pin, o.encrypt, o.tag, o.deferred, o.act, o.act_history_address} \subseteq V,
         {"application/x-tar", o.index_document, o.error_document, o.redundancy_level} \subseteq V,
         TRUE \in V
  PROVE  /\ UploadCollectionEntries(o) \in Seq(Pair(V))
         /\ \A n : Values(UploadCollectionEntries(o), n) =
                     Fixed("Content-Type", "application/x-tar", n)
                       \cup Fixed("Swarm-Collection", TRUE, n)
                       \cup (OfUpload(o, n) \cup Text("Swarm-Index-Document", o.index_document, n)
                               \cup Text("Swarm-Error-Document", o.error_document, n)
                               \cup OfRedundancy(o, n))
<1> DEFINE a1 == Header("Content-Type", "application/x-tar")
           a2 == Header("Swarm-Collection", TRUE)
           b1 == PrepareUpload(o)
           b2 == SafeText("Swarm-Index-Document", o.index_document)
           b3 == SafeText("Swarm-Error-Document", o.error_document)
           b4 == Redundancy(o)
           a  == a1 \o a2
           c2 == b1 \o b2
           c3 == c2 \o b3
           c4 == c3 \o b4
<1>0. "application/x-tar" \in V /\ TRUE \in V /\ o.index_document \in V /\ o.error_document \in V /\ o.redundancy_level \in V
  OBVIOUS
<1>1. a1 \in Seq(Pair(V)) /\ \A n : Values(a1, n) = Fixed("Content-Type", "application/x-tar", n)
  BY <1>0, NamesAre, ValuesHeader, Zenon
<1>2. a2 \in Seq(Pair(V)) /\ \A n : Values(a2, n) = Fixed("Swarm-Collection", TRUE, n)
  BY <1>0, NamesAre, ValuesHeader, Zenon
<1>3. b1 \in Seq(Pair(V)) /\ \A n : Values(b1, n) = OfUpload(o, n)
  BY UploadHas
<1>4. b2 \in Seq(Pair(V)) /\ \A n : Values(b2, n) = Text("Swarm-Index-Document", o.index_document, n)
  BY <1>0, NamesAre, ValuesSafeText, Zenon
<1>5. b3 \in Seq(Pair(V)) /\ \A n : Values(b3, n) = Text("Swarm-Error-Document", o.error_document, n)
  BY <1>0, NamesAre, ValuesSafeText, Zenon
<1>6. b4 \in Seq(Pair(V)) /\ \A n : Values(b4, n) = OfRedundancy(o, n)
  BY <1>0, NamesAre, ValuesPositive, Zenon DEF Redundancy, OfRedundancy
<1>7. UploadCollectionEntries(o) = a \o c4
  BY DEF UploadCollectionEntries, PrepareCollection
<1> HIDE DEF a1, a2, b1, b2, b3, b4
<1>8. a \in Seq(Pair(V)) /\ \A n : Values(a, n) = Values(a1, n) \cup Values(a2, n)
  BY <1>1, <1>2, ValuesJoined
<1>9. c2 \in Seq(Pair(V)) /\ \A n : Values(c2, n) = Values(b1, n) \cup Values(b2, n)
  BY <1>3, <1>4, ValuesJoined
<1> HIDE DEF a, c2
<1>10. c3 \in Seq(Pair(V)) /\ \A n : Values(c3, n) = Values(c2, n) \cup Values(b3, n)
  BY <1>5, <1>9, ValuesJoined
<1> HIDE DEF c3
<1>11. c4 \in Seq(Pair(V)) /\ \A n : Values(c4, n) = Values(c3, n) \cup Values(b4, n)
  BY <1>6, <1>10, ValuesJoined
<1> HIDE DEF c4
<1> DEFINE all == a \o c4
<1>12. all \in Seq(Pair(V)) /\ \A n : Values(all, n) = Values(a, n) \cup Values(c4, n)
  BY <1>8, <1>11, ValuesJoined
<1>13. UploadCollectionEntries(o) = all
  BY <1>7
<1> HIDE DEF all
<1>14. \A n : Values(all, n) =
                Fixed("Content-Type", "application/x-tar", n)
                  \cup Fixed("Swarm-Collection", TRUE, n)
                  \cup (OfUpload(o, n) \cup Text("Swarm-Index-Document", o.index_document, n)
                          \cup Text("Swarm-Error-Document", o.error_document, n)
                          \cup OfRedundancy(o, n))
  <2> TAKE n
  <2>1. Values(a, n) = Fixed("Content-Type", "application/x-tar", n)
                         \cup Fixed("Swarm-Collection", TRUE, n)
    BY <1>1, <1>2, <1>8
  <2>2. Values(c2, n) = OfUpload(o, n) \cup Text("Swarm-Index-Document", o.index_document, n)
    BY <1>3, <1>4, <1>9
  <2>3. Values(c3, n) = Values(c2, n) \cup Text("Swarm-Error-Document", o.error_document, n)
    BY <1>5, <1>10
  <2>4. Values(c4, n) = Values(c3, n) \cup OfRedundancy(o, n)
    BY <1>6, <1>11
  <2> QED
    BY <1>12, <2>1, <2>2, <2>3, <2>4
<1> QED
  BY <1>12, <1>13, <1>14

\* Those of a download have access control if one of its options asks for it.
WantsAct(o) ==
  \/ o.act_publisher # None /\ Safe(o.act_publisher)
  \/ o.act_history_address # None \/ ~Unset(o.act_timestamp)

OfAct(o, n) ==
  Text("Swarm-Act-Publisher", o.act_publisher, n)
    \cup Option("Swarm-Act-History-Address", o.act_history_address, n)
    \cup Number("Swarm-Act-Timestamp", o.act_timestamp, n)

\* What the headers of a download hold under each name, whatever the options.
LEMMA DownloadHas ==
  ASSUME NEW V, NEW o,
         {o.redundancy_strategy, o.fallback, o.timeout_ms, o.act_publisher,
          o.act_history_address, o.act_timestamp, TRUE} \subseteq V
  PROVE  /\ DownloadData(o) \in Seq(Pair(V))
         /\ \A n : Values(DownloadData(o), n) =
                     Option("Swarm-Redundancy-Strategy", o.redundancy_strategy, n)
                       \cup Option("Swarm-Redundancy-Fallback-Mode", o.fallback, n)
                       \cup Number("Swarm-Chunk-Retrieval-Timeout", o.timeout_ms, n)
                       \cup OfAct(o, n)
                       \cup (IF WantsAct(o) THEN Fixed("Swarm-Act", TRUE, n) ELSE {})
<1> DEFINE a1 == SafeText("Swarm-Act-Publisher", o.act_publisher)
           a2 == Given("Swarm-Act-History-Address", o.act_history_address)
           a3 == Positive("Swarm-Act-Timestamp", o.act_timestamp)
           a12 == a1 \o a2
           act == a12 \o a3
           b1 == Given("Swarm-Redundancy-Strategy", o.redundancy_strategy)
           b2 == Given("Swarm-Redundancy-Fallback-Mode", o.fallback)
           b3 == Positive("Swarm-Chunk-Retrieval-Timeout", o.timeout_ms)
           e  == IF act = <<>> THEN <<>> ELSE Header("Swarm-Act", TRUE)
           c2 == b1 \o b2
           c3 == c2 \o b3
           c4 == c3 \o act
           c5 == c4 \o e
<1>0. o.redundancy_strategy \in V /\ o.fallback \in V /\ o.timeout_ms \in V /\ o.act_publisher \in V /\ o.act_history_address \in V /\ o.act_timestamp \in V /\ TRUE \in V
  OBVIOUS
<1>1. a1 \in Seq(Pair(V)) /\ \A n : Values(a1, n) = Text("Swarm-Act-Publisher", o.act_publisher, n)
  BY <1>0, NamesAre, ValuesSafeText, Zenon
<1>2. a2 \in Seq(Pair(V))
      /\ \A n : Values(a2, n) = Option("Swarm-Act-History-Address", o.act_history_address, n)
  BY <1>0, NamesAre, ValuesGiven, Zenon
<1>3. a3 \in Seq(Pair(V)) /\ \A n : Values(a3, n) = Number("Swarm-Act-Timestamp", o.act_timestamp, n)
  BY <1>0, NamesAre, ValuesPositive, Zenon
<1>4. b1 \in Seq(Pair(V))
      /\ \A n : Values(b1, n) = Option("Swarm-Redundancy-Strategy", o.redundancy_strategy, n)
  BY <1>0, NamesAre, ValuesGiven, Zenon
<1>5. b2 \in Seq(Pair(V)) /\ \A n : Values(b2, n) = Option("Swarm-Redundancy-Fallback-Mode", o.fallback, n)
  BY <1>0, NamesAre, ValuesGiven, Zenon
<1>6. b3 \in Seq(Pair(V))
      /\ \A n : Values(b3, n) = Number("Swarm-Chunk-Retrieval-Timeout", o.timeout_ms, n)
  BY <1>0, NamesAre, ValuesPositive, Zenon
<1>7. DownloadData(o) = c5
  BY DEF DownloadData, PrepareDownload
<1> HIDE DEF a1, a2, a3, b1, b2, b3
<1>8. a12 \in Seq(Pair(V)) /\ \A n : Values(a12, n) = Values(a1, n) \cup Values(a2, n)
  BY <1>1, <1>2, ValuesJoined
<1> HIDE DEF a12
<1>9. act \in Seq(Pair(V)) /\ \A n : Values(act, n) = Values(a12, n) \cup Values(a3, n)
  BY <1>3, <1>8, ValuesJoined
<1> HIDE DEF act
<1>10. \A n : Values(act, n) = OfAct(o, n)
  BY <1>1, <1>2, <1>3, <1>8, <1>9 DEF OfAct
<1>11. act = <<>> <=> ~WantsAct(o)
  <2>1. ASSUME act = <<>> PROVE ~WantsAct(o)
    <3>1. \A n : OfAct(o, n) = {}
      BY <1>10, <2>1, ValuesEmpty
    <3>2. /\ OfAct(o, "Swarm-Act-Publisher") = {} /\ OfAct(o, "Swarm-Act-History-Address") = {}
          /\ OfAct(o, "Swarm-Act-Timestamp") = {}
      BY <3>1
    <3> QED
      BY <3>2 DEF OfAct, WantsAct, Text, Option, Number, Unset
  <2>2. ASSUME act # <<>> PROVE WantsAct(o)
    <3>1. act[1][2] \in Values(act, act[1][1])
      <4>1. 1 \in DOMAIN act
        BY <1>9, <2>2
      <4> QED
        BY <4>1 DEF Values, Range
    <3>2. OfAct(o, act[1][1]) # {}
      BY <1>10, <3>1
    <3> QED
      BY <3>2 DEF OfAct, WantsAct, Text, Option, Number, Unset
  <2> QED
    BY <2>1, <2>2
<1>12. e \in Seq(Pair(V))
       /\ \A n : Values(e, n) = IF WantsAct(o) THEN Fixed("Swarm-Act", TRUE, n) ELSE {}
  BY <1>0, <1>11, NamesAre, ValuesHeader, ValuesEmpty, Zenon
<1> HIDE DEF e
<1>13. c2 \in Seq(Pair(V)) /\ \A n : Values(c2, n) = Values(b1, n) \cup Values(b2, n)
  BY <1>4, <1>5, ValuesJoined
<1> HIDE DEF c2
<1>14. c3 \in Seq(Pair(V)) /\ \A n : Values(c3, n) = Values(c2, n) \cup Values(b3, n)
  BY <1>6, <1>13, ValuesJoined
<1> HIDE DEF c3
<1>15. c4 \in Seq(Pair(V)) /\ \A n : Values(c4, n) = Values(c3, n) \cup Values(act, n)
  BY <1>9, <1>14, ValuesJoined
<1> HIDE DEF c4
<1>16. c5 \in Seq(Pair(V)) /\ \A n : Values(c5, n) = Values(c4, n) \cup Values(e, n)
  BY <1>12, <1>15, ValuesJoined
<1> HIDE DEF c5
<1>17. \A n : Values(c5, n) =
                Option("Swarm-Redundancy-Strategy", o.redundancy_strategy, n)
                  \cup Option("Swarm-Redundancy-Fallback-Mode", o.fallback, n)
                  \cup Number("Swarm-Chunk-Retrieval-Timeout", o.timeout_ms, n)
                  \cup OfAct(o, n)
                  \cup (IF WantsAct(o) THEN Fixed("Swarm-Act", TRUE, n) ELSE {})
  <2> TAKE n
  <2>1. Values(c2, n) = Option("Swarm-Redundancy-Strategy", o.redundancy_strategy, n)
                          \cup Option("Swarm-Redundancy-Fallback-Mode", o.fallback, n)
    BY <1>4, <1>5, <1>13
  <2>2. Values(c3, n) = Values(c2, n) \cup Number("Swarm-Chunk-Retrieval-Timeout", o.timeout_ms, n)
    BY <1>6, <1>14
  <2>3. Values(c4, n) = Values(c3, n) \cup OfAct(o, n)
    BY <1>10, <1>15
  <2>4. Values(c5, n) =
          Values(c4, n) \cup (IF WantsAct(o) THEN Fixed("Swarm-Act", TRUE, n) ELSE {})
    BY <1>12, <1>16
  <2> QED
    BY <2>1, <2>2, <2>3, <2>4
<1> QED
  BY <1>7, <1>16, <1>17

-----------------------------------------------------------------------------
(* What they mean.                                                         *)

\* What the node reads of an option is the option, or its default, ...
AsOption(headers) ==
  \A name, v, default : Values(headers, name) = Option(name, v, name) =>
    ReadAs(headers, name, default) = IF v = None THEN default ELSE v

AsNumber(headers) ==
  \A name, v, default : Values(headers, name) = Number(name, v, name) =>
    ReadAs(headers, name, default) = IF v \in {None, 0} THEN default ELSE v

AsText(headers) ==
  \A name, v, default : Values(headers, name) = Text(name, v, name) =>
    ReadAs(headers, name, default) = IF v = None \/ ~Safe(v) THEN default ELSE v

AsFixed(headers) ==
  \A name, v, default : Values(headers, name) = Fixed(name, v, name) =>
    ReadAs(headers, name, default) = v

AsNone(headers) ==
  \A name, default : Values(headers, name) = {} => ReadAs(headers, name, default) = default

\* The node reads an option as it was meant, however it was written.
LEMMA ReadsOption ==
  ASSUME NEW V, NEW headers \in Seq(Pair(V))
  PROVE  /\ AsOption(headers) /\ AsNumber(headers) /\ AsText(headers) /\ AsFixed(headers)
         /\ AsNone(headers)
<1>1. AsNone(headers)
  BY ReadsValue DEF AsNone
<1>2. \A name, v, default : Values(headers, name) = {v} => ReadAs(headers, name, default) = v
  BY ReadsValue
<1>3. AsFixed(headers)
  BY <1>2 DEF AsFixed, Fixed
<1>4. AsOption(headers)
  BY <1>1, <1>2 DEF AsNone, AsOption, Option
<1>5. AsNumber(headers)
  BY <1>1, <1>2 DEF AsNone, AsNumber, Number
<1>6. AsText(headers)
  BY <1>1, <1>2 DEF AsNone, AsText, Text
<1> QED
  BY <1>1, <1>3, <1>4, <1>5, <1>6

\* ... and so of those all uploads have in common.
SaysUpload(headers, o) ==
  LET Says(name, default) == ReadAs(headers, name, default)
  IN  /\ Says("Swarm-Pin", FALSE) = (o.pin = TRUE)
      /\ Says("Swarm-Encrypt", FALSE) = (o.encrypt = TRUE)
      /\ Says("Swarm-Act", FALSE) = (o.act = TRUE)
      /\ Says("Swarm-Deferred-Upload", TRUE) = (o.deferred # FALSE)
      /\ Says("Swarm-Tag", 0) = o.tag
      /\ Says("Swarm-Act-History-Address", None) = o.act_history_address

UploadNames == {"Swarm-Pin", "Swarm-Encrypt", "Swarm-Act", "Swarm-Deferred-Upload", "Swarm-Tag",
                "Swarm-Act-History-Address"}

\* An upload with the headers of its options says to the node what the options mean.
LEMMA UploadSays ==
  ASSUME NEW V, NEW headers \in Seq(Pair(V)), NEW o, UploadOptions(o),
         \A n \in UploadNames : Values(headers, n) = OfUpload(o, n)
  PROVE  SaysUpload(headers, o)
<1>1. /\ {o.pin, o.encrypt, o.deferred, o.act} \subseteq BOOLEAN \cup {None} /\ o.tag \in Nat
      /\ None \notin BOOLEAN \cup Nat
  BY TransfersAssumption DEF UploadOptions, TransfersAssumption
<1>2. /\ Values(headers, "Swarm-Pin") = Option("Swarm-Pin", o.pin, "Swarm-Pin")
      /\ Values(headers, "Swarm-Encrypt") = Option("Swarm-Encrypt", o.encrypt, "Swarm-Encrypt")
      /\ Values(headers, "Swarm-Act") = Option("Swarm-Act", o.act, "Swarm-Act")
      /\ Values(headers, "Swarm-Deferred-Upload") =
           Option("Swarm-Deferred-Upload", o.deferred, "Swarm-Deferred-Upload")
      /\ Values(headers, "Swarm-Tag") = Number("Swarm-Tag", o.tag, "Swarm-Tag")
      /\ Values(headers, "Swarm-Act-History-Address") =
           Option("Swarm-Act-History-Address", o.act_history_address, "Swarm-Act-History-Address")
  BY DEF UploadNames, OfUpload, Option, Number
<1>20. AsOption(headers) /\ AsNumber(headers)
  BY ReadsOption
<1>3. ReadAs(headers, "Swarm-Pin", FALSE) = IF o.pin = None THEN FALSE ELSE o.pin
  BY <1>2, <1>20 DEF AsOption
<1>4. ReadAs(headers, "Swarm-Encrypt", FALSE) = IF o.encrypt = None THEN FALSE ELSE o.encrypt
  BY <1>2, <1>20 DEF AsOption
<1>5. ReadAs(headers, "Swarm-Act", FALSE) = IF o.act = None THEN FALSE ELSE o.act
  BY <1>2, <1>20 DEF AsOption
<1>6. ReadAs(headers, "Swarm-Deferred-Upload", TRUE) = IF o.deferred = None THEN TRUE ELSE o.deferred
  BY <1>2, <1>20 DEF AsOption
<1>7. ReadAs(headers, "Swarm-Tag", 0) = IF o.tag \in {None, 0} THEN 0 ELSE o.tag
  BY <1>2, <1>20 DEF AsNumber
<1>8. ReadAs(headers, "Swarm-Act-History-Address", None) =
        IF o.act_history_address = None THEN None ELSE o.act_history_address
  BY <1>2, <1>20 DEF AsOption
<1>9. None # TRUE /\ None # FALSE /\ o.tag # None
  BY <1>1
<1>10. ReadAs(headers, "Swarm-Pin", FALSE) = (o.pin = TRUE)
  BY <1>1, <1>3, <1>9, Zenon
<1>11. ReadAs(headers, "Swarm-Encrypt", FALSE) = (o.encrypt = TRUE)
  BY <1>1, <1>4, <1>9, Zenon
<1>12. ReadAs(headers, "Swarm-Act", FALSE) = (o.act = TRUE)
  BY <1>1, <1>5, <1>9, Zenon
<1>13. ReadAs(headers, "Swarm-Deferred-Upload", TRUE) = (o.deferred # FALSE)
  BY <1>1, <1>6, <1>9, Zenon
<1> QED
  BY <1>7, <1>8, <1>9, <1>10, <1>11, <1>12, <1>13 DEF SaysUpload

\* A header that is always the same has one value.
LEMMA OneTruth == \A name, v, n : \A x, y \in Fixed(name, v, n) : x = y
  BY DEF Fixed

\* What a request must say of its options, whatever its kind.
Meant(headers) ==
  sent = headers =>
    /\ \A i \in DOMAIN sent : Cardinality(Values(sent, sent[i][1])) = 1
    /\ IF transfer.kind = "download" THEN DownloadMeant ELSE UploadMeant

\* The headers of a chunk say what is meant, ...
LEMMA ChunkMeant ==
  ASSUME transfer.kind = "chunk", UploadOptions(transfer.options)
  PROVE  Meant(UploadChunk(transfer.options))
<1> SUFFICES ASSUME sent = UploadChunk(transfer.options)
             PROVE  /\ \A i \in DOMAIN sent : Cardinality(Values(sent, sent[i][1])) = 1
                    /\ UploadMeant
  BY DEF Meant
<1> DEFINE o == transfer.options
           V == {o.pin, o.encrypt, o.tag, o.deferred, o.act, o.act_history_address,
                 "application/octet-stream"}
           type == "application/octet-stream"
           All(n) == Fixed("Content-Type", type, n) \cup OfUpload(o, n)
<1>1. /\ sent \in Seq(Pair(V))
      /\ \A n : Values(sent, n) = All(n)
  <2>1. /\ {o.pin, o.encrypt, o.tag, o.deferred, o.act, o.act_history_address} \subseteq V
        /\ "application/octet-stream" \in V
    OBVIOUS
  <2> HIDE DEF o, V
  <2>2. sent = UploadChunk(o)
    BY DEF o
  <2> QED
    BY <2>1, <2>2, ChunkHas
<1> HIDE DEF V, o
<1>12. \A n : \A x, y \in All(n) : x = y
  BY DEF Fixed, OfUpload, Option, Number
<1>13. \A n \in UploadNames : All(n) = OfUpload(o, n)
  BY DEF Fixed, UploadNames
<1>14. All("Content-Type") = Fixed("Content-Type", type, "Content-Type")
  BY DEF Fixed, OfUpload, Option, Number
<1>15. All("Swarm-Redundancy-Level") = {}
  BY DEF Fixed, OfUpload, Option, Number
<1> HIDE DEF All
<1>2. \A n : \A x, y \in Values(sent, n) : x = y
  BY <1>1, <1>12
<1>3. \A n \in UploadNames : Values(sent, n) = OfUpload(o, n)
  BY <1>1, <1>13
<1>4. SaysUpload(sent, o)
  BY <1>1, <1>3, UploadSays DEF o
<1>5. /\ Values(sent, "Content-Type") = Fixed("Content-Type", type, "Content-Type")
      /\ Values(sent, "Swarm-Redundancy-Level") = {}
  BY <1>1, <1>14, <1>15
<1>20. AsOption(sent) /\ AsNumber(sent) /\ AsText(sent) /\ AsFixed(sent) /\ AsNone(sent)
  BY <1>1, ReadsOption
<1>6. /\ ReadAs(sent, "Content-Type", None) = type
      /\ ReadAs(sent, "Swarm-Redundancy-Level", 0) = 0
  BY <1>5, <1>20 DEF AsFixed, AsNumber, AsNone
<1>7. UploadMeant
  BY <1>4, <1>6 DEF UploadMeant, SaysUpload, Collections, o
<1> QED
  BY <1>1, <1>2, <1>7, OneEach

\* ... those of data, ...
LEMMA DataMeant ==
  ASSUME transfer.kind = "data", UploadOptions(transfer.options)
  PROVE  Meant(UploadData(transfer.options))
<1> SUFFICES ASSUME sent = UploadData(transfer.options)
             PROVE  /\ \A i \in DOMAIN sent : Cardinality(Values(sent, sent[i][1])) = 1
                    /\ UploadMeant
  BY DEF Meant
<1> DEFINE o == transfer.options
           V == {o.pin, o.encrypt, o.tag, o.deferred, o.act, o.act_history_address,
                 "application/octet-stream", o.redundancy_level}
           type == "application/octet-stream"
           All(n) == Fixed("Content-Type", type, n) \cup (OfUpload(o, n) \cup OfRedundancy(o, n))
<1>1. /\ sent \in Seq(Pair(V))
      /\ \A n : Values(sent, n) = All(n)
  <2>1. /\ {o.pin, o.encrypt, o.tag, o.deferred, o.act, o.act_history_address} \subseteq V
        /\ {"application/octet-stream", o.redundancy_level} \subseteq V
    OBVIOUS
  <2> HIDE DEF o, V
  <2>2. sent = UploadData(o)
    BY DEF o
  <2> QED
    BY <2>1, <2>2, DataHas
<1> HIDE DEF V, o
<1>12. \A n : \A x, y \in All(n) : x = y
  BY DEF Fixed, OfUpload, OfRedundancy, Option, Number
<1>13. \A n \in UploadNames : All(n) = OfUpload(o, n)
  BY DEF Fixed, OfRedundancy, Number, UploadNames
<1>14. All("Content-Type") = Fixed("Content-Type", type, "Content-Type")
  BY DEF Fixed, OfUpload, OfRedundancy, Option, Number
<1>15. All("Swarm-Redundancy-Level") =
           Number("Swarm-Redundancy-Level", o.redundancy_level, "Swarm-Redundancy-Level")
  BY DEF Fixed, OfUpload, OfRedundancy, Option, Number
<1> HIDE DEF All
<1>2. \A n : \A x, y \in Values(sent, n) : x = y
  BY <1>1, <1>12
<1>3. \A n \in UploadNames : Values(sent, n) = OfUpload(o, n)
  BY <1>1, <1>13
<1>4. SaysUpload(sent, o)
  BY <1>1, <1>3, UploadSays DEF o
<1>5. /\ Values(sent, "Content-Type") = Fixed("Content-Type", type, "Content-Type")
      /\ Values(sent, "Swarm-Redundancy-Level") =
           Number("Swarm-Redundancy-Level", o.redundancy_level, "Swarm-Redundancy-Level")
  BY <1>1, <1>14, <1>15
<1>20. AsOption(sent) /\ AsNumber(sent) /\ AsText(sent) /\ AsFixed(sent) /\ AsNone(sent)
  BY <1>1, ReadsOption
<1>6. /\ ReadAs(sent, "Content-Type", None) = type
      /\ ReadAs(sent, "Swarm-Redundancy-Level", 0) =
           IF o.redundancy_level \in {None, 0} THEN 0 ELSE o.redundancy_level
  BY <1>5, <1>20 DEF AsFixed, AsNumber, AsNone
<1>7. UploadMeant
  BY <1>4, <1>6 DEF UploadMeant, SaysUpload, Collections, Unset, o
<1> QED
  BY <1>1, <1>2, <1>7, OneEach

\* The type of the options goes before the argument.
LEMMA TypeIs == \A o : o.content_type # None => o.content_type = FileType(o)
  BY DEF FileType

\* ... those of a file, whose type may be there twice, but is the same, ...
LEMMA FileMeant ==
  ASSUME transfer.kind = "file", UploadOptions(transfer.options)
  PROVE  Meant(UploadFile(transfer.options))
<1> SUFFICES ASSUME sent = UploadFile(transfer.options)
             PROVE  /\ \A i \in DOMAIN sent : Cardinality(Values(sent, sent[i][1])) = 1
                    /\ UploadMeant
  BY DEF Meant
<1> DEFINE o == transfer.options
           type == FileType(o)
           V == {o.pin, o.encrypt, o.tag, o.deferred, o.act, o.act_history_address,
                 FileType(o), o.content_type, o.redundancy_level}
           All(n) == Fixed("Content-Type", type, n)
                       \cup (OfUpload(o, n) \cup Option("Content-Type", o.content_type, n)
                               \cup OfRedundancy(o, n))
<1>1. /\ sent \in Seq(Pair(V))
      /\ \A n : Values(sent, n) = All(n)
  <2>1. /\ {o.pin, o.encrypt, o.tag, o.deferred, o.act, o.act_history_address} \subseteq V
        /\ {FileType(o), o.content_type, o.redundancy_level} \subseteq V
    OBVIOUS
  <2> HIDE DEF o, V
  <2>2. sent = UploadFile(o)
    BY DEF o
  <2> QED
    BY <2>1, <2>2, FileHas
<1>11. o.content_type # None => o.content_type = type
  BY TypeIs
<1> HIDE DEF V, o, type
<1>12. \A n : \A x, y \in All(n) : x = y
  BY <1>11 DEF Fixed, OfUpload, OfRedundancy, Option, Number
<1>13. \A n \in UploadNames : All(n) = OfUpload(o, n)
  BY DEF Fixed, OfRedundancy, Option, Number, UploadNames
<1>14. All("Content-Type") = Fixed("Content-Type", type, "Content-Type")
  BY <1>11 DEF Fixed, OfUpload, OfRedundancy, Option, Number
<1>15. All("Swarm-Redundancy-Level") =
           Number("Swarm-Redundancy-Level", o.redundancy_level, "Swarm-Redundancy-Level")
  BY <1>11 DEF Fixed, OfUpload, OfRedundancy, Option, Number
<1> HIDE DEF All
<1>2. \A n : \A x, y \in Values(sent, n) : x = y
  BY <1>1, <1>12
<1>3. \A n \in UploadNames : Values(sent, n) = OfUpload(o, n)
  BY <1>1, <1>13
<1>4. SaysUpload(sent, o)
  BY <1>1, <1>3, UploadSays DEF o
<1>5. /\ Values(sent, "Content-Type") = Fixed("Content-Type", type, "Content-Type")
      /\ Values(sent, "Swarm-Redundancy-Level") =
           Number("Swarm-Redundancy-Level", o.redundancy_level, "Swarm-Redundancy-Level")
  BY <1>1, <1>14, <1>15
<1>20. AsOption(sent) /\ AsNumber(sent) /\ AsText(sent) /\ AsFixed(sent) /\ AsNone(sent)
  BY <1>1, ReadsOption
<1>6. /\ ReadAs(sent, "Content-Type", None) = type
      /\ ReadAs(sent, "Swarm-Redundancy-Level", 0) =
           IF o.redundancy_level \in {None, 0} THEN 0 ELSE o.redundancy_level
  BY <1>5, <1>20 DEF AsFixed, AsNumber, AsNone
<1>7. UploadMeant
  BY <1>4, <1>6 DEF UploadMeant, SaysUpload, Collections, Unset, o, type
<1> QED
  BY <1>1, <1>2, <1>7, OneEach

\* ... those of a collection, whose documents were found to be header values, ...
LEMMA CollectionMeant ==
  ASSUME transfer.kind = "collection", UploadOptions(transfer.options),
         ValidCollection(transfer.options)
  PROVE  Meant(UploadCollectionEntries(transfer.options))
<1> SUFFICES ASSUME sent = UploadCollectionEntries(transfer.options)
             PROVE  /\ \A i \in DOMAIN sent : Cardinality(Values(sent, sent[i][1])) = 1
                    /\ UploadMeant
  BY DEF Meant
<1> DEFINE o == transfer.options
           type == "application/x-tar"
           V == {o.pin, o.encrypt, o.tag, o.deferred, o.act, o.act_history_address,
                 "application/x-tar", TRUE, o.index_document, o.error_document, o.redundancy_level}
           All(n) == Fixed("Content-Type", type, n)
                       \cup Fixed("Swarm-Collection", TRUE, n)
                       \cup (OfUpload(o, n) \cup Text("Swarm-Index-Document", o.index_document, n)
                               \cup Text("Swarm-Error-Document", o.error_document, n)
                               \cup OfRedundancy(o, n))
<1>1. /\ sent \in Seq(Pair(V))
      /\ \A n : Values(sent, n) = All(n)
  <2>1. /\ {o.pin, o.encrypt, o.tag, o.deferred, o.act, o.act_history_address} \subseteq V
        /\ {"application/x-tar", o.index_document, o.error_document, o.redundancy_level} \subseteq V
        /\ TRUE \in V
    OBVIOUS
  <2> HIDE DEF o, V
  <2>2. sent = UploadCollectionEntries(o)
    BY DEF o
  <2> QED
    BY <2>1, <2>2, CollectionHas, Zenon
<1>11. Safe(o.index_document) /\ Safe(o.error_document)
  BY DEF ValidCollection
<1> HIDE DEF V, o
<1>13. \A n \in UploadNames : All(n) = OfUpload(o, n)
  BY DEF Fixed, OfRedundancy, Number, Text, UploadNames
<1>14. All("Content-Type") = Fixed("Content-Type", type, "Content-Type")
  BY DEF Fixed, OfUpload, OfRedundancy, Option, Number, Text
<1>15. All("Swarm-Redundancy-Level") =
           Number("Swarm-Redundancy-Level", o.redundancy_level, "Swarm-Redundancy-Level")
  BY DEF Fixed, OfUpload, OfRedundancy, Option, Number, Text
<1>16. All("Swarm-Index-Document") =
           Text("Swarm-Index-Document", o.index_document, "Swarm-Index-Document")
  BY DEF Fixed, OfUpload, OfRedundancy, Option, Number, Text
<1>17. All("Swarm-Error-Document") =
           Text("Swarm-Error-Document", o.error_document, "Swarm-Error-Document")
  BY DEF Fixed, OfUpload, OfRedundancy, Option, Number, Text
<1>18. All("Swarm-Collection") = Fixed("Swarm-Collection", TRUE, "Swarm-Collection")
  BY DEF Fixed, OfUpload, OfRedundancy, Option, Number, Text
<1>19. ASSUME NEW n, n \notin UploadNames \cup {"Content-Type", "Swarm-Redundancy-Level",
                 "Swarm-Index-Document", "Swarm-Error-Document", "Swarm-Collection"}
       PROVE  All(n) = {}
  BY <1>19 DEF Fixed, OfUpload, OfRedundancy, Option, Number, Text, UploadNames
<1>12. \A n : \A x, y \in All(n) : x = y
  <2> HIDE DEF All
  <2> SUFFICES ASSUME NEW n, NEW x \in All(n), NEW y \in All(n) PROVE x = y
    OBVIOUS
  <2>1. CASE n \in UploadNames
    BY <1>13, <2>1 DEF OfUpload, UploadNames, Option, Number
  <2>2. CASE n \in {"Content-Type", "Swarm-Redundancy-Level", "Swarm-Index-Document",
                    "Swarm-Error-Document", "Swarm-Collection"}
    <3>1. CASE n = "Content-Type"
      BY <1>14, <3>1 DEF Fixed
    <3>2. CASE n = "Swarm-Redundancy-Level"
      BY <1>15, <3>2 DEF Number
    <3>3. CASE n = "Swarm-Index-Document"
      BY <1>16, <3>3 DEF Text
    <3>4. CASE n = "Swarm-Error-Document"
      BY <1>17, <3>4 DEF Text
    <3>5. CASE n = "Swarm-Collection"
      BY <1>18, <3>5, OneTruth, Zenon
    <3> QED
      BY <2>2, <3>1, <3>2, <3>3, <3>4, <3>5
  <2> QED
    BY <1>19, <2>1, <2>2
<1> HIDE DEF All
<1>2. \A n : \A x, y \in Values(sent, n) : x = y
  BY <1>1, <1>12
<1>3. \A n \in UploadNames : Values(sent, n) = OfUpload(o, n)
  BY <1>1, <1>13
<1>4. SaysUpload(sent, o)
  BY <1>1, <1>3, UploadSays DEF o
<1>5. /\ Values(sent, "Content-Type") = Fixed("Content-Type", type, "Content-Type")
      /\ Values(sent, "Swarm-Redundancy-Level") =
           Number("Swarm-Redundancy-Level", o.redundancy_level, "Swarm-Redundancy-Level")
      /\ Values(sent, "Swarm-Index-Document") =
           Text("Swarm-Index-Document", o.index_document, "Swarm-Index-Document")
      /\ Values(sent, "Swarm-Error-Document") =
           Text("Swarm-Error-Document", o.error_document, "Swarm-Error-Document")
  BY <1>1, <1>14, <1>15, <1>16, <1>17
<1>20. AsOption(sent) /\ AsNumber(sent) /\ AsText(sent) /\ AsFixed(sent) /\ AsNone(sent)
  BY <1>1, ReadsOption
<1>6. /\ ReadAs(sent, "Content-Type", None) = type
      /\ ReadAs(sent, "Swarm-Redundancy-Level", 0) =
           IF o.redundancy_level \in {None, 0} THEN 0 ELSE o.redundancy_level
  BY <1>5, <1>20 DEF AsFixed, AsNumber, AsNone
<1>7. /\ ReadAs(sent, "Swarm-Index-Document", None) = o.index_document
      /\ ReadAs(sent, "Swarm-Error-Document", None) = o.error_document
  BY <1>5, <1>11, <1>20 DEF AsText
<1>8. UploadMeant
  BY <1>4, <1>6, <1>7 DEF UploadMeant, SaysUpload, Collections, Unset, o
<1> QED
  BY <1>1, <1>2, <1>8, OneEach

\* ... and those of a download.
LEMMA DownloadIsMeant ==
  ASSUME transfer.kind = "download", DownloadOptions(transfer.options)
  PROVE  Meant(DownloadData(transfer.options))
<1> SUFFICES ASSUME sent = DownloadData(transfer.options)
             PROVE  /\ \A i \in DOMAIN sent : Cardinality(Values(sent, sent[i][1])) = 1
                    /\ DownloadMeant
  BY DEF Meant
<1> DEFINE o == transfer.options
           V == {o.redundancy_strategy, o.fallback, o.timeout_ms, o.act_publisher,
                 o.act_history_address, o.act_timestamp, TRUE}
           All(n) == Option("Swarm-Redundancy-Strategy", o.redundancy_strategy, n)
                       \cup Option("Swarm-Redundancy-Fallback-Mode", o.fallback, n)
                       \cup Number("Swarm-Chunk-Retrieval-Timeout", o.timeout_ms, n)
                       \cup OfAct(o, n)
                       \cup (IF WantsAct(o) THEN Fixed("Swarm-Act", TRUE, n) ELSE {})
<1>1. sent \in Seq(Pair(V)) /\ \A n : Values(sent, n) = All(n)
  <2>1. {o.redundancy_strategy, o.fallback, o.timeout_ms, o.act_publisher,
         o.act_history_address, o.act_timestamp, TRUE} \subseteq V
    OBVIOUS
  <2> HIDE DEF o, V
  <2>2. sent = DownloadData(o)
    BY DEF o
  <2> QED
    BY <2>1, <2>2, DownloadHas, Zenon
<1> HIDE DEF V
<1> HIDE DEF o
<1>11. All("Swarm-Redundancy-Strategy") =
         Option("Swarm-Redundancy-Strategy", o.redundancy_strategy, "Swarm-Redundancy-Strategy")
  BY DEF Fixed, OfAct, Option, Number, Text
<1>12. All("Swarm-Redundancy-Fallback-Mode") =
         Option("Swarm-Redundancy-Fallback-Mode", o.fallback, "Swarm-Redundancy-Fallback-Mode")
  BY DEF Fixed, OfAct, Option, Number, Text
<1>13. All("Swarm-Chunk-Retrieval-Timeout") =
         Number("Swarm-Chunk-Retrieval-Timeout", o.timeout_ms, "Swarm-Chunk-Retrieval-Timeout")
  BY DEF Fixed, OfAct, Option, Number, Text
<1>14. All("Swarm-Act") = IF WantsAct(o) THEN Fixed("Swarm-Act", TRUE, "Swarm-Act") ELSE {}
  BY DEF Fixed, OfAct, Option, Number, Text
<1>15. /\ All("Swarm-Act-Publisher") =
            Text("Swarm-Act-Publisher", o.act_publisher, "Swarm-Act-Publisher")
       /\ All("Swarm-Act-History-Address") =
            Option("Swarm-Act-History-Address", o.act_history_address, "Swarm-Act-History-Address")
       /\ All("Swarm-Act-Timestamp") =
            Number("Swarm-Act-Timestamp", o.act_timestamp, "Swarm-Act-Timestamp")
  BY DEF Fixed, OfAct, Option, Number, Text
<1> DEFINE Names == {"Swarm-Redundancy-Strategy", "Swarm-Redundancy-Fallback-Mode",
                     "Swarm-Chunk-Retrieval-Timeout", "Swarm-Act", "Swarm-Act-Publisher",
                     "Swarm-Act-History-Address", "Swarm-Act-Timestamp"}
<1>16. ASSUME NEW n, n \notin Names PROVE All(n) = {}
  BY <1>16 DEF Fixed, OfAct, Option, Number, Text
<1> HIDE DEF All
<1>2. \A n : \A x, y \in Values(sent, n) : x = y
  <2> SUFFICES ASSUME NEW n, NEW x \in All(n), NEW y \in All(n) PROVE x = y
    BY <1>1
  <2>1. CASE n \in Names
    <3>1. CASE n = "Swarm-Redundancy-Strategy"
      BY <1>11, <3>1 DEF Option
    <3>2. CASE n = "Swarm-Redundancy-Fallback-Mode"
      BY <1>12, <3>2 DEF Option
    <3>3. CASE n = "Swarm-Chunk-Retrieval-Timeout"
      BY <1>13, <3>3 DEF Number
    <3>4. CASE n = "Swarm-Act"
      BY <1>14, <3>4, OneTruth, Zenon
    <3>5. CASE n = "Swarm-Act-Publisher"
      BY <1>15, <3>5 DEF Text
    <3>6. CASE n = "Swarm-Act-History-Address"
      BY <1>15, <3>6 DEF Option
    <3>7. CASE n = "Swarm-Act-Timestamp"
      BY <1>15, <3>7 DEF Number
    <3> QED
      BY <2>1, <3>1, <3>2, <3>3, <3>4, <3>5, <3>6, <3>7
  <2> QED
    BY <1>16, <2>1
<1>20. AsOption(sent) /\ AsNumber(sent) /\ AsText(sent) /\ AsFixed(sent) /\ AsNone(sent)
  BY <1>1, ReadsOption
<1>3. /\ Values(sent, "Swarm-Redundancy-Strategy") = All("Swarm-Redundancy-Strategy")
      /\ Values(sent, "Swarm-Redundancy-Fallback-Mode") = All("Swarm-Redundancy-Fallback-Mode")
      /\ Values(sent, "Swarm-Chunk-Retrieval-Timeout") = All("Swarm-Chunk-Retrieval-Timeout")
      /\ Values(sent, "Swarm-Act") = All("Swarm-Act")
  BY <1>1
<1>4. /\ ReadAs(sent, "Swarm-Redundancy-Strategy", None) =
           IF o.redundancy_strategy = None THEN None ELSE o.redundancy_strategy
      /\ ReadAs(sent, "Swarm-Redundancy-Fallback-Mode", TRUE) =
           IF o.fallback = None THEN TRUE ELSE o.fallback
      /\ ReadAs(sent, "Swarm-Chunk-Retrieval-Timeout", 0) =
           IF o.timeout_ms \in {None, 0} THEN 0 ELSE o.timeout_ms
  <2>1. ReadAs(sent, "Swarm-Redundancy-Strategy", None) =
          IF o.redundancy_strategy = None THEN None ELSE o.redundancy_strategy
    BY <1>3, <1>11, <1>20 DEF AsOption
  <2>2. ReadAs(sent, "Swarm-Redundancy-Fallback-Mode", TRUE) =
          IF o.fallback = None THEN TRUE ELSE o.fallback
    <3>1. Values(sent, "Swarm-Redundancy-Fallback-Mode") =
            Option("Swarm-Redundancy-Fallback-Mode", o.fallback, "Swarm-Redundancy-Fallback-Mode")
      BY <1>3, <1>12
    <3> QED
      BY <1>20, <3>1 DEF AsOption
  <2>3. ReadAs(sent, "Swarm-Chunk-Retrieval-Timeout", 0) =
          IF o.timeout_ms \in {None, 0} THEN 0 ELSE o.timeout_ms
    BY <1>3, <1>13, <1>20 DEF AsNumber
  <2> QED
    BY <2>1, <2>2, <2>3, Zenon
<1>5. ReadAs(sent, "Swarm-Act", FALSE) <=> WantsAct(o)
  <2>1. CASE WantsAct(o)
    <3>1. Values(sent, "Swarm-Act") = Fixed("Swarm-Act", TRUE, "Swarm-Act")
      BY <1>3, <1>14, <2>1
    <3>2. ReadAs(sent, "Swarm-Act", FALSE) = TRUE
      BY <1>20, <3>1 DEF AsFixed
    <3> QED
      BY <2>1, <3>2
  <2>2. CASE ~WantsAct(o)
    <3>1. ReadAs(sent, "Swarm-Act", FALSE) = FALSE
      BY <1>3, <1>14, <1>20, <2>2 DEF AsNone
    <3> QED
      BY <2>2, <3>1
  <2> QED
    BY <2>1, <2>2
<1>6. o.fallback \in BOOLEAN \cup {None} /\ None \notin BOOLEAN
  BY TransfersAssumption DEF TransfersAssumption, DownloadOptions, o
<1>7. ReadAs(sent, "Swarm-Redundancy-Fallback-Mode", TRUE) = (o.fallback # FALSE)
  <2> HIDE DEF o
  <2>1. None # TRUE /\ None # FALSE
    BY <1>6
  <2> QED
    BY <1>4, <1>6, <2>1, Zenon
<1>8. DownloadMeant
  BY <1>4, <1>5, <1>7, Zenon DEF DownloadMeant, WantsAct, Unset, o
<1> QED
  BY <1>1, <1>2, <1>8, OneEach

-----------------------------------------------------------------------------
(* The archive.                                                            *)

\* Entries no two of which have the same path.
Distinct(S) == \A a, b \in S : a.path \in Nat /\ (a.path = b.path => a = b)

InOrder(s, n) == \A i, j \in 1..n : i < j => s[i].path < s[j].path

CanSort(S) == \E s \in [1..Cardinality(S) -> S] : InOrder(s, Cardinality(S))

\* With the entry of the least path put before the others in order all are in order.
LEMMA SortOneMore ==
  ASSUME NEW S, IsFiniteSet(S), Distinct(S), S # {},
         \A T \in SUBSET S : Cardinality(T) + 1 = Cardinality(S) => CanSort(T)
  PROVE  CanSort(S)
<1> DEFINE P == {a.path : a \in S}
<1>1. P # {} /\ P \in SUBSET Nat
  BY DEF Distinct
<1>2. PICK e \in S : \A a \in S : e.path <= a.path
  <2>1. PICK m \in P : \A q \in P : m <= q
    <3> HIDE DEF P
    <3> QED
      BY <1>1, LeastOf
  <2>2. PICK e \in S : e.path = m
    BY <2>1
  <2> QED
    BY <2>1, <2>2
<1> DEFINE T == S \ {e}
           n == Cardinality(T)
<1>3. IsFiniteSet(T) /\ n \in Nat /\ Cardinality(S) = n + 1
  <2>1. IsFiniteSet(T) /\ n = Cardinality(S) - 1
    BY FS_RemoveElement
  <2>2. Cardinality(S) \in Nat /\ n \in Nat
    BY <2>1, FS_CardinalityType
  <2> QED
    BY <2>1, <2>2
<1>4. CanSort(T)
  <2>1. T \in SUBSET S
    OBVIOUS
  <2> QED
    BY <1>3, <2>1
<1>5. PICK s \in [1..n -> T] : InOrder(s, n)
  BY <1>4 DEF CanSort
<1>6. \A a \in T : e.path < a.path
  BY <1>2 DEF Distinct
<1> HIDE DEF n
<1> DEFINE g == [i \in 1 .. n + 1 |-> IF i = 1 THEN e ELSE s[i - 1]]
<1>7. g \in [1 .. n + 1 -> S]
  <2>1. \A i \in 1 .. n + 1 : i # 1 => i - 1 \in 1..n
    BY <1>3
  <2>2. \A i \in 1 .. n + 1 : i # 1 => s[i - 1] \in S
    BY <1>5, <2>1
  <2> QED
    BY <1>2, <2>2
<1>8. InOrder(g, n + 1)
  <2> SUFFICES ASSUME NEW i \in 1 .. n + 1, NEW j \in 1 .. n + 1, i < j
               PROVE  g[i].path < g[j].path
    BY DEF InOrder
  <2>1. j - 1 \in 1..n /\ g[j] = s[j - 1] /\ s[j - 1] \in T
    BY <1>3, <1>5
  <2>2. CASE i = 1
    BY <1>6, <2>1, <2>2
  <2>3. CASE i # 1
    <3>1. i - 1 \in 1..n /\ g[i] = s[i - 1] /\ i - 1 < j - 1
      BY <1>3, <2>3
    <3> QED
      BY <1>5, <2>1, <3>1 DEF InOrder
  <2> QED
    BY <2>2, <2>3
<1> HIDE DEF g
<1> QED
  BY <1>3, <1>7, <1>8 DEF CanSort

\* So entries can be put in order, however many.
LEMMA AllSort ==
  ASSUME NEW E
  PROVE  \A S \in SUBSET E : IsFiniteSet(S) /\ Distinct(S) => CanSort(S)
<1> DEFINE Unsorted(n) == \E S \in SUBSET E : IsFiniteSet(S) /\ Distinct(S) /\ ~CanSort(S)
                                             /\ Cardinality(S) = n
           N == {n \in Nat : Unsorted(n)}
<1>1. N = {}
  <2> SUFFICES ASSUME N # {} PROVE FALSE
    OBVIOUS
  <2>1. PICK n \in N : \A m \in N : n <= m
    <3>1. N \in SUBSET Nat
      OBVIOUS
    <3> HIDE DEF N
    <3> QED
      BY <3>1, LeastOf
  <2>2. PICK S \in SUBSET E : IsFiniteSet(S) /\ Distinct(S) /\ ~CanSort(S) /\ Cardinality(S) = n
    BY <2>1
  <2>3. S # {}
    <3> SUFFICES ASSUME S = {} PROVE CanSort(S)
      BY <2>2
    <3>1. Cardinality(S) = 0 /\ 1..0 = {}
      BY FS_EmptySet
    <3>2. [i \in 1..0 |-> {}] \in [1..0 -> S] /\ InOrder([i \in 1..0 |-> {}], 0)
      BY <3>1 DEF InOrder
    <3> QED
      BY <3>1, <3>2 DEF CanSort
  <2>4. ASSUME NEW T \in SUBSET S, Cardinality(T) + 1 = Cardinality(S) PROVE CanSort(T)
    <3>1. IsFiniteSet(T) /\ Cardinality(T) \in Nat /\ T \in SUBSET E /\ Distinct(T)
      BY <2>2, FS_Subset, FS_CardinalityType DEF Distinct
    <3>2. ~(n <= Cardinality(T))
      BY <2>1, <2>2, <2>4, <3>1
    <3>3. Cardinality(T) \notin N
      BY <2>1, <3>2
    <3> QED
      BY <3>1, <3>3
  <2> QED
    BY <2>2, <2>3, <2>4, SortOneMore
<1> QED
  <2> SUFFICES ASSUME NEW S \in SUBSET E, IsFiniteSet(S), Distinct(S) PROVE CanSort(S)
    OBVIOUS
  <2>1. Cardinality(S) \in Nat
    BY FS_CardinalityType
  <2> QED
    BY <1>1, <2>1

\* They are put in order, each of them once.
LEMMA SortedIs ==
  ASSUME NEW S, IsFiniteSet(S), Distinct(S)
  PROVE  /\ Sorted(S) \in Seq(S) /\ Range(Sorted(S)) = S
         /\ InOrder(Sorted(S), Len(Sorted(S))) /\ DOMAIN Sorted(S) = 1..Len(Sorted(S))
<1> DEFINE n == Cardinality(S)
           f == Sorted(S)
<1>1. n \in Nat
  BY FS_CardinalityType
<1>2. CanSort(S)
  BY AllSort
<1>3. f \in [1..n -> S] /\ InOrder(f, n)
  <2>1. \E s \in [1..n -> S] : \A i, j \in 1..n : i < j => s[i].path < s[j].path
    BY <1>2 DEF CanSort, InOrder
  <2> QED
    BY <2>1 DEF Sorted, InOrder
<1> HIDE DEF f
<1>4. f \in Seq(S) /\ Len(f) = n /\ DOMAIN f = 1..n
  BY <1>1, <1>3
<1>5. f \in Injection(1..n, S)
  <2> SUFFICES ASSUME NEW i \in 1..n, NEW j \in 1..n, f[i] = f[j] PROVE i = j
    BY <1>3 DEF Injection, IsInjective
  <2>1. i \in Nat /\ j \in Nat /\ f[i].path \in Nat
    BY <1>1, <1>3 DEF Distinct
  <2> QED
    BY <1>3, <2>1 DEF InOrder
<1>6. IsFiniteSet(1..n) /\ Cardinality(1..n) = n
  BY <1>1, FS_Interval
<1>7. f \in Surjection(1..n, S)
  BY <1>5, <1>6, FS_Injection
<1>8. Range(f) = S
  BY <1>4, <1>7 DEF Surjection, Range
<1> QED
  BY <1>3, <1>4, <1>8 DEF f

\* An entry has a path and a content.
LEMMA EntriesTyped ==
  ASSUME NEW s \in Seq(Entry)
  PROVE  /\ DOMAIN s = 1..Len(s) /\ Len(s) \in Nat
         /\ \A i \in DOMAIN s : s[i] \in Entry /\ s[i].path \in FilePath /\ s[i].path \in Nat
<1>1. DOMAIN s = 1..Len(s) /\ Len(s) \in Nat /\ \A i \in DOMAIN s : s[i] \in Entry
  OBVIOUS
<1>2. \A e \in Entry : e.path \in FilePath /\ e.path \in Nat
  BY TransfersAssumption DEF Entry, TransfersAssumption
<1> QED
  BY <1>1, <1>2

\* What a path has been only grows, and what is said of it stays true.
LEMMA RewrittenOK == TransferInv /\ Rewritten => TransferInv'
<1> SUFFICES ASSUME TransferInv, Rewritten PROVE TransferInv'
  OBVIOUS
<1>1. PICK p \in FilePath, c \in Content \cup {None, LINK} :
        files' = [files EXCEPT ![p] = c] /\ was' = [was EXCEPT ![p] = @ \cup {c}]
  BY DEF Rewritten
<1>2. /\ step \in {"walk", "open"} /\ transfer' = transfer /\ step' = step /\ listed' = listed
      /\ opening' = opening /\ entries' = entries /\ told' = told /\ sent' = sent
  BY DEF Rewritten
<1>3. Collections /\ ReadOK /\ WalkOK
  BY <1>2 DEF TransferInv
<1>4. \A q \in FilePath : was[q] \subseteq was'[q] /\ was'[q] \subseteq Content \cup {None, LINK}
  BY <1>1, <1>3 DEF ReadOK
<1>5. was' \in [FilePath -> SUBSET (Content \cup {None, LINK})]
      /\ files' \in [FilePath -> Content \cup {None, LINK}]
  BY <1>1, <1>3 DEF ReadOK
<1>6. \A q \in FilePath : files'[q] \in was'[q]
  BY <1>1, <1>3 DEF ReadOK
<1>7. \A i \in DOMAIN entries : entries[i].path \in FilePath
  BY <1>3, EntriesTyped DEF ReadOK
<1>8. PathsRead' = PathsRead
  BY <1>2 DEF PathsRead
<1>9. ReadOK'
  BY <1>2, <1>3, <1>4, <1>5, <1>6, <1>7, <1>8 DEF ReadOK
<1>10. WalkOK'
  BY <1>2, <1>3, <1>4, <1>8 DEF WalkOK, ReadOK
<1> QED
  BY <1>2, <1>3, <1>9, <1>10 DEF TransferInv, Collections, ToldOK

\* The walk comes to a path.
LEMMA WalkListsOK == \A p \in FilePath : TransferInv /\ WalkLists(p) => TransferInv'
<1> SUFFICES ASSUME NEW p \in FilePath, TransferInv, WalkLists(p) PROVE TransferInv'
  OBVIOUS
<1>1. /\ step = "walk" /\ p \notin listed /\ files[p] # None /\ listed' = listed \cup {p}
      /\ IF files[p] = LINK THEN step' = step /\ opening' = opening
                            ELSE step' = "open" /\ opening' = p
      /\ transfer' = transfer /\ files' = files /\ was' = was /\ entries' = entries
      /\ told' = told /\ sent' = sent
  BY DEF WalkLists, Unchanged
<1>2. Collections /\ ReadOK /\ WalkOK
  BY <1>1 DEF TransferInv
<1>3. PathsRead' = PathsRead /\ PathsRead \subseteq listed
  BY <1>1, <1>2 DEF PathsRead, ReadOK
<1>4. ReadOK'
  BY <1>1, <1>2, <1>3 DEF ReadOK
<1>5. files[p] = LINK => ~(was[p] \subseteq Content)
  BY <1>2, TransfersAssumption DEF ReadOK, TransfersAssumption
<1>6. WalkOK'
  <2>1. told' = <<>> /\ opening = None
    BY <1>1, <1>2 DEF WalkOK
  <2>2. opening' \in IF step' = "open" THEN listed' \ PathsRead' ELSE {None}
    BY <1>1, <1>3, <2>1
  <2>3. ASSUME NEW q \in listed', was'[q] \subseteq Content PROVE q \in PathsRead' \cup {opening'}
    <3>1. CASE q = p
      BY <1>1, <1>5, <2>3, <3>1
    <3>2. CASE q # p
      <4>1. q \in listed /\ q \in FilePath /\ None \notin FilePath
        BY <1>1, <1>2, <3>2, TransfersAssumption DEF ReadOK, TransfersAssumption
      <4> QED
        BY <1>1, <1>2, <1>3, <2>1, <2>3, <4>1 DEF WalkOK
    <3> QED
      BY <3>1, <3>2
  <2> QED
    BY <2>1, <2>2, <2>3 DEF WalkOK
<1> QED
  BY <1>1, <1>2, <1>4, <1>6 DEF TransferInv, Collections, ToldOK

\* It opens a file, which may be another by now, or a link to another.
LEMMA WalkOpensOK == TransferInv /\ WalkOpens => TransferInv'
<1> SUFFICES ASSUME TransferInv, WalkOpens PROVE TransferInv'
  OBVIOUS
<1>1. /\ step = "open" /\ opening' = None /\ listed' = listed
      /\ transfer' = transfer /\ files' = files /\ was' = was
      /\ told' = told /\ sent' = sent
  BY DEF WalkOpens, Unchanged
<1>2. Collections /\ ReadOK /\ WalkOK
  BY <1>1 DEF TransferInv
<1>3. CASE step' = "refused" /\ entries' = entries
  <2>1. ReadOK'
    BY <1>1, <1>2, <1>3 DEF ReadOK, PathsRead
  <2> QED
    BY <1>1, <1>2, <1>3, <2>1 DEF TransferInv, Collections, ToldOK
<1>4. CASE /\ files[opening] # None /\ step' = "walk"
           /\ \E c \in IF files[opening] = LINK THEN Content ELSE {files[opening]} :
                entries' = Append(entries, [path |-> opening, data |-> c])
  <2>1. PICK c : /\ c \in IF files[opening] = LINK THEN Content ELSE {files[opening]}
                 /\ entries' = Append(entries, [path |-> opening, data |-> c])
    BY <1>4
  <2>2. opening \in FilePath /\ opening \in listed /\ opening \notin PathsRead
        /\ files[opening] \in was[opening] /\ files[opening] \in Content \cup {None, LINK}
    BY <1>1, <1>2 DEF ReadOK, WalkOK
  <2>3. c \in Content /\ (c \in was[opening] \/ LINK \in was[opening])
    BY <1>4, <2>1, <2>2
  <2> DEFINE e == [path |-> opening, data |-> c]
             n == Len(entries)
  <2>4. e \in Entry /\ e.path = opening /\ e.data = c
    BY <2>2, <2>3 DEF Entry
  <2> HIDE DEF e
  <2>5. entries \in Seq(Entry) /\ n \in Nat /\ DOMAIN entries = 1..n
    BY <1>2 DEF ReadOK
  <2>6. entries' = Append(entries, e)
    BY <2>1 DEF e
  <2>7. /\ entries' \in Seq(Entry) /\ DOMAIN entries' = 1 .. n + 1 /\ entries'[n + 1] = e
        /\ \A i \in 1..n : entries'[i] = entries[i]
    BY <2>4, <2>5, <2>6, AppendProperties
  <2> HIDE DEF n
  <2>8. \A i \in 1 .. n + 1 : i \in 1..n \/ i = n + 1
    BY <2>5
  <2>9. n + 1 \in 1 .. n + 1 /\ \A i \in 1..n : i \in 1 .. n + 1
    BY <2>5
  <2>10. PathsRead' = PathsRead \cup {opening}
    BY <2>4, <2>5, <2>7, <2>8, <2>9 DEF PathsRead
  <2>11. \A i \in 1..n : entries[i].path \in PathsRead
    BY <2>5 DEF PathsRead
  <2>12. \A i \in DOMAIN entries' :
           entries'[i].data \in was'[entries'[i].path] \/ LINK \in was'[entries'[i].path]
    BY <1>1, <1>2, <2>3, <2>4, <2>5, <2>7, <2>8 DEF ReadOK
  <2>13. \A i, j \in DOMAIN entries' : i # j => entries'[i].path # entries'[j].path
    BY <1>2, <2>2, <2>4, <2>5, <2>7, <2>8, <2>11 DEF ReadOK
  <2>14. ReadOK'
    BY <1>1, <1>2, <2>2, <2>7, <2>10, <2>12, <2>13 DEF ReadOK
  <2>15. WalkOK'
    BY <1>1, <1>2, <1>4, <2>10 DEF WalkOK
  <2> QED
    BY <1>1, <1>2, <1>4, <2>14, <2>15 DEF TransferInv, Collections, ToldOK
<1> QED
  BY <1>3, <1>4 DEF WalkOpens

\* The walk ends, with every file that was there all the time.
LEMMA WalkEndsOK == TransferInv /\ WalkEnds => TransferInv'
<1> SUFFICES ASSUME TransferInv, WalkEnds PROVE TransferInv'
  OBVIOUS
<1>1. /\ step = "walk" /\ step' = "tell" /\ listed' = listed
      /\ \A p \in FilePath : p \in listed \/ None \in was[p]
      /\ entries' = Sorted(Range(entries))
      /\ transfer' = transfer /\ files' = files /\ was' = was
      /\ told' = told /\ sent' = sent
  BY DEF WalkEnds, Unchanged
<1>2. Collections /\ ReadOK /\ WalkOK
  BY <1>1 DEF TransferInv
<1> DEFINE S == Range(entries)
<1>3. entries \in Seq(Entry) /\ DOMAIN entries = 1..Len(entries) /\ Len(entries) \in Nat
      /\ \A i \in DOMAIN entries : entries[i].path \in Nat
  BY <1>2, EntriesTyped DEF ReadOK
<1>4. S \subseteq Entry /\ \A s \in S : \E i \in DOMAIN entries : s = entries[i]
  BY <1>3 DEF Range
<1>5. IsFiniteSet(S)
  <2>1. entries \in Surjection(1..Len(entries), S) /\ IsFiniteSet(1..Len(entries))
    <3>1. entries \in [1..Len(entries) -> S] /\ \A v \in S : \E i \in 1..Len(entries) : entries[i] = v
      BY <1>3 DEF Range
    <3>2. 1 \in Int /\ Len(entries) \in Int
      BY <1>3
    <3> QED
      BY <3>1, <3>2, FS_Interval DEF Surjection
  <2> QED
    BY <2>1, FS_Surjection
<1>6. Distinct(S)
  BY <1>2, <1>3, <1>4 DEF Distinct, ReadOK
<1>7. \A i \in DOMAIN entries : entries[i] \in S
  BY DEF Range
<1> HIDE DEF S
<1>8. /\ entries' \in Seq(S) /\ Range(entries') = S /\ InOrder(entries', Len(entries'))
      /\ DOMAIN entries' = 1..Len(entries')
  BY <1>1, <1>5, <1>6, SortedIs DEF S
<1>9. entries' \in Seq(Entry)
  BY <1>4, <1>8, SeqMonotonic
<1>10. /\ \A i \in DOMAIN entries' : entries'[i] \in S
       /\ \A s \in S : \E i \in DOMAIN entries' : s = entries'[i]
  BY <1>8 DEF Range
<1>11. PathsRead' = PathsRead
  BY <1>4, <1>7, <1>10 DEF PathsRead
<1>12. \A i, j \in DOMAIN entries' : i < j => entries'[i].path < entries'[j].path
  BY <1>8 DEF InOrder
<1>13. \A i, j \in DOMAIN entries' : i # j => entries'[i].path # entries'[j].path
  <2> SUFFICES ASSUME NEW i \in DOMAIN entries', NEW j \in DOMAIN entries', i # j
               PROVE  entries'[i].path # entries'[j].path
    OBVIOUS
  <2>1. i \in Nat /\ j \in Nat /\ (i < j \/ j < i)
    BY <1>8, <1>9
  <2>2. entries'[i].path \in Nat /\ entries'[j].path \in Nat
    BY <1>6, <1>10 DEF Distinct
  <2> QED
    BY <1>12, <2>1, <2>2
<1>14. \A i \in DOMAIN entries' :
         entries'[i].data \in was'[entries'[i].path] \/ LINK \in was'[entries'[i].path]
  BY <1>1, <1>2, <1>4, <1>10 DEF ReadOK
<1>15. ReadOK'
  BY <1>1, <1>2, <1>9, <1>11, <1>13, <1>14 DEF ReadOK
<1>16. WalkedOK'
  <2> SUFFICES ASSUME NEW p \in FilePath, was[p] \subseteq Content PROVE p \in PathsRead
    BY <1>1, <1>11, <1>12 DEF WalkedOK
  <2>1. None \notin Content /\ None \notin Nat /\ p \in Nat
    BY TransfersAssumption DEF TransfersAssumption
  <2>2. p \in listed
    BY <1>1, <2>1
  <2> QED
    BY <1>1, <1>2, <2>1, <2>2 DEF WalkOK
<1>17. ToldOK'
  BY <1>1, <1>2, <1>8, EmptySeq DEF ToldOK, WalkOK
<1> QED
  BY <1>1, <1>2, <1>15, <1>16, <1>17 DEF TransferInv, Collections

\* The callback is told of an entry, or all have been told.
LEMMA TellsOK == TransferInv /\ Tells => TransferInv'
<1> SUFFICES ASSUME TransferInv, Tells PROVE TransferInv'
  OBVIOUS
<1>1. /\ step = "tell" /\ transfer' = transfer /\ files' = files /\ was' = was
      /\ listed' = listed /\ entries' = entries /\ sent' = sent
  BY DEF Tells, Unchanged
<1>2. /\ Collections /\ ReadOK /\ WalkedOK /\ told \in Seq(FilePath) /\ Len(told) <= Len(entries)
      /\ \A i \in DOMAIN told : told[i] = entries[i].path
  BY <1>1 DEF TransferInv, ToldOK
<1>3. ReadOK' /\ WalkedOK'
  BY <1>1, <1>2 DEF ReadOK, WalkedOK, PathsRead
<1>4. DOMAIN entries = 1..Len(entries) /\ Len(entries) \in Nat /\ Len(told) \in Nat
      /\ DOMAIN told = 1..Len(told) /\ \A i \in DOMAIN entries : entries[i].path \in FilePath
  BY <1>2, EntriesTyped DEF ReadOK
<1>5. CASE Len(told) = Len(entries)
  <2>1. step' = "pack" /\ told' = told
    BY <1>5 DEF Tells
  <2>2. told = [i \in DOMAIN entries |-> entries[i].path]
    <3>1. told = [i \in DOMAIN told |-> told[i]] /\ DOMAIN told = DOMAIN entries
      BY <1>2, <1>4, <1>5
    <3> QED
      BY <1>2, <3>1
  <2> QED
    BY <1>1, <1>2, <1>3, <2>1, <2>2 DEF TransferInv, Collections, ToldOK
<1>6. CASE Len(told) # Len(entries)
  <2> DEFINE n == Len(told)
             q == entries[n + 1].path
  <2>0. n \in Nat /\ Len(entries) \in Nat /\ n + 1 <= Len(entries)
    <3> DEFINE m == Len(entries)
    <3>1. n \in Nat /\ m \in Nat /\ n <= m /\ n # m
      BY <1>2, <1>4, <1>6
    <3> HIDE DEF n, m
    <3>2. n + 1 <= m
      BY <3>1
    <3> QED
      BY <3>1, <3>2 DEF m
  <2>1. step' = step /\ told' = Append(told, q)
    BY <1>6 DEF Tells
  <2>2. n + 1 \in DOMAIN entries /\ q \in FilePath
    <3>1. n + 1 \in DOMAIN entries
      BY <2>0, <1>4
    <3> QED
      BY <1>4, <3>1
  <2> HIDE DEF q
  <2>3. /\ told' \in Seq(FilePath) /\ Len(told') = n + 1 /\ DOMAIN told' = 1 .. n + 1
        /\ told'[n + 1] = q /\ \A i \in 1..n : told'[i] = told[i]
    BY <1>2, <2>1, <2>2, AppendProperties
  <2>4. Len(told') <= Len(entries) /\ \A i \in DOMAIN told' : told'[i] = entries[i].path
    <3>1. Len(told') <= Len(entries)
      BY <2>0, <2>3, Zenon
    <3>2. \A i \in 1 .. n + 1 : i \in 1..n \/ i = n + 1
      BY <1>4
    <3>3. \A i \in 1..n : told'[i] = entries[i].path
      BY <1>2, <1>4, <2>3
    <3> QED
      BY <2>3, <3>1, <3>2, <3>3 DEF q
  <2> QED
    BY <1>1, <1>2, <1>3, <2>1, <2>3, <2>4 DEF TransferInv, Collections, ToldOK
<1> QED
  BY <1>5, <1>6

\* The request is sent, with its headers, or refused.
LEMMA SendsOK == TransferInv /\ Sends => TransferInv'
<1> SUFFICES ASSUME TransferInv, Sends PROVE TransferInv'
  OBVIOUS
<1>1. /\ step = "pack" /\ transfer' = transfer /\ files' = files /\ was' = was
      /\ listed' = listed /\ opening' = opening /\ entries' = entries /\ told' = told
  BY DEF Sends, Unchanged
<1>2. \/ step' = "refused"
      \/ step' = "sent" /\ sent' = Headers /\ (Collections => ValidCollection(transfer.options))
  BY DEF Sends
<1>3. Collections => ReadOK' /\ WalkedOK' /\ ToldOK'
  BY <1>1, <1>2 DEF TransferInv, ReadOK, WalkedOK, PathsRead, ToldOK
<1>4. Headers' = Headers /\ Collections' = Collections
  BY <1>1 DEF Headers, Collections
<1> QED
  BY <1>1, <1>2, <1>3, <1>4 DEF TransferInv

\* A transfer begins with nothing read.
LEMMA TransferInitOK == TransferInit => TransferInv
<1> SUFFICES ASSUME TransferInit PROVE TransferInv
  OBVIOUS
<1>1. /\ transfer \in Transfer /\ step = (IF Collections THEN "walk" ELSE "pack")
      /\ was = [p \in FilePath |-> {files[p]}] /\ listed = {} /\ opening = None
      /\ entries = <<>> /\ told = <<>>
      /\ Collections => files \in [FilePath -> Content \cup {None, LINK}]
  BY DEF TransferInit
<1>2. ASSUME Collections PROVE ReadOK /\ WalkOK
  <2>1. DOMAIN entries = {} /\ entries \in Seq(Entry)
    BY <1>1
  <2>2. PathsRead = {}
    BY <2>1 DEF PathsRead
  <2>3. ReadOK
    BY <1>1, <1>2, <2>1, <2>2 DEF ReadOK
  <2>4. WalkOK
    BY <1>1, <1>2 DEF WalkOK
  <2> QED
    BY <2>3, <2>4
<1> QED
  BY <1>1, <1>2 DEF TransferInv, ToldOK

\* What is sent is what was meant.
LEMMA SentMeant == TransferInv => SentIsMeant
<1> SUFFICES ASSUME TransferInv, step = "sent" PROVE
      /\ \A i \in DOMAIN sent : Cardinality(Values(sent, sent[i][1])) = 1
      /\ IF transfer.kind = "download" THEN DownloadMeant ELSE UploadMeant
      /\ Collections => ArchiveTrue
  BY DEF SentIsMeant
<1>1. transfer \in Transfer /\ sent = Headers /\ (Collections => ValidCollection(transfer.options))
  BY DEF TransferInv
<1>2. \/ transfer.kind \in {"chunk", "data", "file", "collection"} /\ UploadOptions(transfer.options)
      \/ transfer.kind = "download" /\ DownloadOptions(transfer.options)
  BY <1>1, TransfersAssumption DEF TransfersAssumption
<1>3. Meant(Headers)
  <2>1. CASE transfer.kind = "chunk"
    BY <1>2, <2>1, ChunkMeant DEF Headers
  <2>2. CASE transfer.kind = "data"
    BY <1>2, <2>2, DataMeant DEF Headers
  <2>3. CASE transfer.kind = "file"
    BY <1>2, <2>3, FileMeant DEF Headers
  <2>4. CASE transfer.kind = "collection"
    BY <1>1, <1>2, <2>4, CollectionMeant DEF Headers, Collections
  <2>5. CASE transfer.kind = "download"
    BY <1>2, <2>5, DownloadIsMeant DEF Headers
  <2> QED
    BY <1>2, <2>1, <2>2, <2>3, <2>4, <2>5
<1>4. ASSUME Collections PROVE ArchiveTrue
  <2>1. ReadOK /\ WalkedOK /\ ToldOK
    BY <1>4 DEF TransferInv
  <2>2. \A p \in FilePath : was[p] \subseteq Content => \E i \in DOMAIN entries : entries[i].path = p
    BY <2>1 DEF WalkedOK, PathsRead
  <2> QED
    BY <2>1, <2>2 DEF ArchiveTrue, ReadOK, WalkedOK, ToldOK
<1> QED
  BY <1>1, <1>3, <1>4 DEF Meant

\* No step of the transfer or of another program makes the invariant false.
LEMMA TransferStepOK == TransferInv /\ [TransferNext]_transferVars => TransferInv'
<1> SUFFICES ASSUME TransferInv, [TransferNext]_transferVars PROVE TransferInv'
  OBVIOUS
<1>1. CASE UNCHANGED transferVars
  <2>1. /\ transfer' = transfer /\ step' = step /\ files' = files /\ was' = was
        /\ listed' = listed /\ opening' = opening /\ entries' = entries /\ told' = told
        /\ sent' = sent
    BY <1>1 DEF transferVars
  <2>2. /\ Collections' = Collections /\ (ReadOK' <=> ReadOK) /\ (WalkOK' <=> WalkOK)
        /\ (WalkedOK' <=> WalkedOK) /\ (ToldOK' <=> ToldOK) /\ Headers' = Headers
    BY <2>1 DEF Collections, ReadOK, WalkOK, WalkedOK, ToldOK, PathsRead, Headers
  <2> QED
    BY <2>1, <2>2 DEF TransferInv
<1> QED
  BY <1>1, RewrittenOK, WalkListsOK, WalkOpensOK, WalkEndsOK, TellsOK, SendsOK DEF TransferNext

\* What is sent says what the options mean and the directory was, whatever the
\* options, however many files there are and however they change.
THEOREM TransfersAreMeant == TransferSpec => []SentIsMeant
<1>1. TransferInit => TransferInv
  BY TransferInitOK
<1>2. TransferInv /\ [TransferNext]_transferVars => TransferInv'
  BY TransferStepOK
<1>3. TransferInv => SentIsMeant
  BY SentMeant
<1> QED
  BY <1>1, <1>2, <1>3, PTL DEF TransferSpec
=============================================================================
