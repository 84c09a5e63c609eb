-------------------------- MODULE FileChunkerProofs --------------------------
(***************************************************************************)
(* Proofs about the streaming chunker, for any sizes of chunks, any input  *)
(* however it is cut into writes, and any refusals of its callback: the    *)
(* order of what it seals, and the tree over the input that it builds.     *)
(***************************************************************************)
EXTENDS FileChunker, Integers, SequenceTheorems, WellFoundedInduction, TLAPS

\* What was sealed, and how much of the input is not in the buffer any more.
Chunks == {sealed[i] : i \in DOMAIN sealed}
Gone   == consumed - Len(leaf_buf)

LastByte(chunk) == chunk.bytes[Len(chunk.bytes)]

\* The buffer holds the input's last bytes.
BufferOK ==
  /\ data \in Nat /\ consumed \in Nat /\ leaf_buf \in Seq(Nat)
  /\ Len(leaf_buf) <= CHUNK_SIZE /\ Len(leaf_buf) <= consumed
  /\ \A i \in 1 .. Len(leaf_buf) : leaf_buf[i] = Gone + i

\* A reference that is kept is of a chunk that was accepted.
LevelsOK == levels \in Seq(Seq(Chunks))

\* No leaf that was sealed reaches into the buffer.
LeavesOK ==
  \A i \in DOMAIN sealed :
    sealed[i].kids = <<>> => LastByte(sealed[i]) \in Nat /\ LastByte(sealed[i]) <= Gone

\* Nothing empty is sealed.
CallOK ==
  /\ scan \in Nat /\ (finalizing => scan >= 1) /\ (pc = "scan" => finalizing)
  /\ pc = "flush" => leaf_buf # <<>>
  /\ pc = "collapse" => level \in 1 .. Len(levels) /\ levels[level] # <<>>

IInv ==
  /\ sealed \in Seq(Chunks)
  /\ BufferOK /\ LevelsOK /\ LeavesOK /\ CallOK
  /\ SealedInOrder

-----------------------------------------------------------------------------
(* Sequences of references.                                                *)

\* A reference that is pushed is on its level, which is there then.
LEMMA Pushed ==
  ASSUME NEW S, NEW ls \in Seq(Seq(S)), NEW l \in 1 .. Len(ls) + 1, NEW c \in S
  PROVE  /\ PushRef(ls, l, c) \in Seq(Seq(S))
         /\ l \in 1 .. Len(PushRef(ls, l, c)) /\ PushRef(ls, l, c)[l] # <<>>
<1> DEFINE grown == IF l > Len(ls) THEN Append(ls, <<>>) ELSE ls
<1>1. grown \in Seq(Seq(S)) /\ l \in 1 .. Len(grown)
  <2>1. <<>> \in Seq(S)
    OBVIOUS
  <2>2. CASE l > Len(ls)
    <3>1. Append(ls, <<>>) \in Seq(Seq(S)) /\ Len(Append(ls, <<>>)) = Len(ls) + 1
      BY <2>1
    <3> QED
      BY <2>2, <3>1
  <2>3. CASE ~(l > Len(ls))
    BY <2>3
  <2> QED
    BY <2>2, <2>3
<1> HIDE DEF grown
<1>2. grown[l] \in Seq(S) /\ Append(grown[l], c) \in Seq(S) /\ Append(grown[l], c) # <<>>
  <2> DEFINE refs == grown[l]
  <2>1. refs \in Seq(S)
    BY <1>1
  <2> HIDE DEF refs
  <2>2. Append(refs, c) \in Seq(S) /\ Len(Append(refs, c)) = Len(refs) + 1 /\ Len(refs) \in Nat
    BY <2>1
  <2>3. Append(refs, c) # <<>>
    <3> DEFINE more == Append(refs, c)
    <3>1. Len(more) # 0
      BY <2>2
    <3> HIDE DEF more
    <3>2. more # <<>>
      BY <3>1
    <3> QED
      BY <3>2 DEF more
  <2> QED
    BY <2>1, <2>2, <2>3 DEF refs
<1>3. PushRef(ls, l, c) = [grown EXCEPT ![l] = Append(grown[l], c)]
  BY DEF PushRef, grown
<1> QED
  BY <1>1, <1>2, <1>3

\* A level that is taken out is empty.
LEMMA Emptied ==
  ASSUME NEW S, NEW ls \in Seq(Seq(S)), NEW l \in 1 .. Len(ls)
  PROVE  [ls EXCEPT ![l] = <<>>] \in Seq(Seq(S)) /\ Len([ls EXCEPT ![l] = <<>>]) = Len(ls)
<1>1. <<>> \in Seq(S)
  OBVIOUS
<1> QED
  BY <1>1

\* More may be kept than before.
LEMMA MoreToKeep ==
  ASSUME NEW S, NEW T, S \subseteq T, NEW ls \in Seq(Seq(S))
  PROVE  ls \in Seq(Seq(T))
<1>1. Seq(S) \subseteq Seq(T)
  OBVIOUS
<1> QED
  BY <1>1

-----------------------------------------------------------------------------
(* Sealing.                                                                *)

\* A chunk goes to the end of what was sealed, after its children and after the
\* leaves whose bytes come before its own.
LEMMA SealOK ==
  ASSUME IInv, NEW chunk, sealed' = Append(sealed, chunk),
         \A k \in DOMAIN chunk.kids : chunk.kids[k] \in Chunks,
         Gone \in Nat, Gone' \in Nat, Gone <= Gone',
         chunk.kids = <<>> =>
           /\ chunk.bytes[1] \in Nat /\ chunk.bytes[1] > Gone
           /\ LastByte(chunk) \in Nat /\ LastByte(chunk) <= Gone'
  PROVE  /\ sealed' \in Seq(Chunks') /\ LeavesOK' /\ SealedInOrder'
         /\ Chunks \subseteq Chunks' /\ chunk \in Chunks'
<1> DEFINE n == Len(sealed)
           more == Append(sealed, chunk)
<1>1. /\ n \in Nat /\ DOMAIN sealed = 1 .. n /\ more \in Seq(Chunks \cup {chunk})
      /\ Len(more) = n + 1 /\ DOMAIN more = 1 .. n + 1
      /\ \A i \in 1 .. n : more[i] = sealed[i]
      /\ more[n + 1] = chunk
  BY DEF IInv
<1> HIDE DEF more
<1>2. sealed' = more
  BY DEF more
<1>3. Chunks \subseteq Chunks' /\ chunk \in Chunks' /\ Chunks' = Chunks \cup {chunk}
  <2>1. /\ \A i \in DOMAIN sealed : i \in DOMAIN more /\ more[i] = sealed[i]
        /\ n + 1 \in DOMAIN more
        /\ \A i \in DOMAIN more : i \in DOMAIN sealed \/ i = n + 1
    BY <1>1
  <2> QED
    BY <1>1, <1>2, <2>1 DEF Chunks
<1>4. LeavesOK'
  <2> SUFFICES ASSUME NEW i \in 1 .. n + 1, more[i].kids = <<>>
               PROVE  LastByte(more[i]) \in Nat /\ LastByte(more[i]) <= Gone'
    BY <1>1, <1>2 DEF LeavesOK
  <2>1. CASE i \in 1 .. n
    <3>1. more[i] = sealed[i] /\ i \in DOMAIN sealed
      BY <1>1, <2>1
    <3>2. LastByte(sealed[i]) \in Nat /\ LastByte(sealed[i]) <= Gone
      BY <3>1 DEF IInv, LeavesOK
    <3> QED
      BY <3>1, <3>2
  <2>2. CASE i = n + 1
    BY <1>1, <2>2
  <2> QED
    BY <1>1, <2>1, <2>2
<1>5. ASSUME NEW i \in 1 .. n + 1, NEW k \in DOMAIN more[i].kids
      PROVE  \E j \in 1 .. (i - 1) : more[j] = more[i].kids[k]
  <2>1. CASE i \in 1 .. n
    <3>1. more[i] = sealed[i] /\ i \in DOMAIN sealed
      BY <1>1, <2>1
    <3>2. PICK j \in 1 .. (i - 1) : sealed[j] = sealed[i].kids[k]
      BY <1>5, <3>1 DEF IInv, SealedInOrder
    <3>3. j \in 1 .. n
      BY <1>1, <2>1
    <3> QED
      BY <1>1, <3>1, <3>2, <3>3
  <2>2. CASE i = n + 1
    <3>1. more[i].kids[k] \in Chunks
      BY <1>1, <1>5, <2>2
    <3>2. PICK j \in 1 .. n : sealed[j] = more[i].kids[k]
      BY <1>1, <3>1 DEF Chunks
    <3>3. j \in 1 .. (i - 1)
      BY <1>1, <2>2
    <3> QED
      BY <1>1, <3>2, <3>3
  <2> QED
    BY <1>1, <2>1, <2>2
<1>6. ASSUME NEW i \in 1 .. n + 1, NEW j \in 1 .. n + 1, i < j,
             more[i].kids = <<>>, more[j].kids = <<>>
      PROVE  LastByte(more[i]) < more[j].bytes[1]
  <2>1. i \in 1 .. n /\ more[i] = sealed[i] /\ i \in DOMAIN sealed
    BY <1>1, <1>6
  <2>2. CASE j \in 1 .. n
    BY <1>1, <1>6, <2>1, <2>2 DEF IInv, SealedInOrder, LastByte
  <2>3. CASE j = n + 1
    <3>1. LastByte(sealed[i]) \in Nat /\ LastByte(sealed[i]) <= Gone
      BY <1>6, <2>1 DEF IInv, LeavesOK
    <3>2. more[j].bytes[1] \in Nat /\ more[j].bytes[1] > Gone
      BY <1>1, <1>6, <2>3
    <3> QED
      BY <2>1, <3>1, <3>2
  <2> QED
    BY <1>1, <2>2, <2>3
<1>7. SealedInOrder'
  BY <1>1, <1>2, <1>5, <1>6 DEF SealedInOrder, LastByte
<1> QED
  BY <1>1, <1>2, <1>3, <1>4, <1>7

\* The chunk is accepted, and its reference kept on its level.
LEMMA AcceptOK ==
  ASSUME IInv, NEW ls \in Seq(Seq(Chunks)), NEW l \in 1 .. Len(ls) + 1, NEW chunk,
         Accept(ls, l, chunk),
         \A k \in DOMAIN chunk.kids : chunk.kids[k] \in Chunks,
         Gone \in Nat, Gone' \in Nat, Gone <= Gone',
         chunk.kids = <<>> =>
           /\ chunk.bytes[1] \in Nat /\ chunk.bytes[1] > Gone
           /\ LastByte(chunk) \in Nat /\ LastByte(chunk) <= Gone',
         scan' = scan, finalizing' = finalizing, BufferOK'
  PROVE  IInv'
<1>1. /\ sealed' = Append(sealed, chunk) /\ levels' = PushRef(ls, l, chunk)
      /\ \/ pc' = "collapse" /\ level' = l
         \/ pc' = Resume
  BY DEF Accept
<1>2. /\ sealed' \in Seq(Chunks') /\ LeavesOK' /\ SealedInOrder'
      /\ Chunks \subseteq Chunks' /\ chunk \in Chunks'
  BY <1>1, SealOK
<1>3. ls \in Seq(Seq(Chunks'))
  BY <1>2, MoreToKeep
<1>4. /\ levels' \in Seq(Seq(Chunks'))
      /\ l \in 1 .. Len(levels') /\ levels'[l] # <<>>
  BY <1>1, <1>2, <1>3, Pushed
<1>5. CallOK'
  BY <1>1, <1>4 DEF IInv, CallOK, Resume
<1> QED
  BY <1>2, <1>4, <1>5 DEF IInv, LevelsOK

\* The chunk is refused, and what was taken out for it is gone.
LEMMA AbortOK ==
  ASSUME IInv, Abort, levels' \in Seq(Seq(Chunks)), scan' = scan, finalizing' = finalizing,
         Gone \in Nat, Gone' \in Nat, Gone <= Gone', BufferOK'
  PROVE  IInv'
<1>1. sealed' = sealed /\ pc' \in {"done", "idle"}
  BY DEF Abort
<1>2. Chunks' = Chunks
  BY <1>1 DEF Chunks
<1>3. LeavesOK'
  <2> SUFFICES ASSUME NEW i \in DOMAIN sealed, sealed[i].kids = <<>>
               PROVE  LastByte(sealed[i]) \in Nat /\ LastByte(sealed[i]) <= Gone'
    BY <1>1 DEF LeavesOK
  <2>1. LastByte(sealed[i]) \in Nat /\ LastByte(sealed[i]) <= Gone
    BY DEF IInv, LeavesOK
  <2> QED
    BY <2>1
<1> QED
  BY <1>1, <1>2, <1>3 DEF IInv, LevelsOK, CallOK, SealedInOrder

-----------------------------------------------------------------------------
(* The calls.                                                              *)

\* What is left of the running write goes into the buffer, as far as there is room.
LEMMA WriteLoopOK == IInv /\ WriteLoop => IInv'
<1> SUFFICES ASSUME IInv, WriteLoop PROVE IInv'
  OBVIOUS
<1> DEFINE take == Lesser(data, CHUNK_SIZE - Len(leaf_buf))
           more == [i \in 1 .. take |-> consumed + i]
<1>1. /\ data \in Nat /\ consumed \in Nat /\ leaf_buf \in Seq(Nat) /\ Len(leaf_buf) \in Nat
      /\ Len(leaf_buf) <= CHUNK_SIZE /\ Len(leaf_buf) <= consumed
      /\ \A i \in 1 .. Len(leaf_buf) : leaf_buf[i] = Gone + i
      /\ CHUNK_SIZE \in Nat \ {0}
  BY ChunkTreeAssumption DEF IInv, BufferOK, ChunkTreeAssumption
<1>2. /\ leaf_buf' = leaf_buf \o more /\ data' = data - take /\ consumed' = consumed + take
      /\ levels' = levels /\ level' = level /\ scan' = scan /\ finalizing' = finalizing
      /\ sealed' = sealed
      /\ pc' = IF Len(leaf_buf') = CHUNK_SIZE THEN "flush" ELSE "write"
  BY DEF WriteLoop
<1>3. take \in Nat /\ take <= data /\ take <= CHUNK_SIZE - Len(leaf_buf)
  BY <1>1 DEF Lesser
<1> HIDE DEF take
<1>4. more \in Seq(Nat) /\ Len(more) = take /\ \A i \in 1 .. take : more[i] = consumed + i
  BY <1>1, <1>3
<1> HIDE DEF more
<1>5. /\ leaf_buf' \in Seq(Nat) /\ Len(leaf_buf') = Len(leaf_buf) + take
      /\ \A i \in 1 .. Len(leaf_buf) + take :
           leaf_buf'[i] = IF i <= Len(leaf_buf) THEN leaf_buf[i] ELSE more[i - Len(leaf_buf)]
  BY <1>1, <1>2, <1>4, ConcatProperties
<1>6. Gone' = Gone
  BY <1>1, <1>2, <1>3, <1>5 DEF Gone
<1>7. BufferOK'
  <2>1. ASSUME NEW i \in 1 .. Len(leaf_buf) + take PROVE leaf_buf'[i] = Gone + i
    <3>1. CASE i <= Len(leaf_buf)
      BY <1>1, <1>3, <1>5, <3>1
    <3>2. CASE i > Len(leaf_buf)
      <4>1. i - Len(leaf_buf) \in 1 .. take /\ leaf_buf'[i] = more[i - Len(leaf_buf)]
        BY <1>1, <1>3, <1>5, <3>2
      <4>2. leaf_buf'[i] = consumed + (i - Len(leaf_buf))
        BY <1>4, <4>1
      <4> QED
        BY <1>1, <4>2 DEF Gone
    <3> QED
      BY <1>1, <1>3, <3>1, <3>2
  <2>2. data' \in Nat /\ consumed' \in Nat /\ Len(leaf_buf') <= CHUNK_SIZE /\ Len(leaf_buf') <= consumed'
    BY <1>1, <1>2, <1>3, <1>5
  <2> QED
    BY <1>5, <1>6, <2>1, <2>2 DEF BufferOK
<1>8. pc' = "flush" => leaf_buf' # <<>>
  BY <1>1, <1>2
<1> QED
  BY <1>2, <1>6, <1>7, <1>8 DEF IInv, LevelsOK, LeavesOK, CallOK, SealedInOrder, Chunks

\* The buffer is sealed: its bytes come after those of every leaf before.
LEMMA FlushLeafOK == IInv /\ FlushLeaf => IInv'
<1> SUFFICES ASSUME IInv, FlushLeaf PROVE IInv'
  OBVIOUS
<1> DEFINE n == Len(leaf_buf)
<1>1. /\ consumed \in Nat /\ leaf_buf \in Seq(Nat) /\ n \in Nat /\ n <= consumed
      /\ \A i \in 1 .. n : leaf_buf[i] = Gone + i
      /\ CHUNK_SIZE \in Nat
  BY ChunkTreeAssumption DEF IInv, BufferOK, ChunkTreeAssumption
<1>2. /\ pc = "flush" /\ leaf_buf' = <<>> /\ scan' = scan /\ finalizing' = finalizing
      /\ consumed' = consumed
  BY DEF FlushLeaf
<1>3. n >= 1
  BY <1>1, <1>2 DEF IInv, CallOK
<1>4. Gone = consumed - n /\ Gone \in Nat /\ Gone' = consumed /\ Gone' \in Nat /\ Gone <= Gone'
  BY <1>1, <1>2 DEF Gone
<1>5. /\ leaf_buf[1] \in Nat /\ leaf_buf[1] > Gone
      /\ leaf_buf[n] \in Nat /\ leaf_buf[n] <= Gone'
  BY <1>1, <1>3, <1>4
<1>6. data' \in Nat => BufferOK'
  BY <1>1, <1>2 DEF BufferOK
<1>7. levels \in Seq(Seq(Chunks)) /\ 1 \in 1 .. Len(levels) + 1
  BY DEF IInv, LevelsOK
<1>8. CASE Accept(levels, 1, Leaf(leaf_buf))
  <2> DEFINE leaf == Leaf(leaf_buf)
  <2>1. leaf.kids = <<>> /\ leaf.bytes = leaf_buf
    BY DEF Leaf
  <2>2. \A k \in DOMAIN leaf.kids : leaf.kids[k] \in Chunks
    BY <2>1
  <2>3. /\ leaf.bytes[1] \in Nat /\ leaf.bytes[1] > Gone
        /\ LastByte(leaf) \in Nat /\ LastByte(leaf) <= Gone'
    BY <1>5, <2>1 DEF LastByte
  <2>4. BufferOK'
    BY <1>6, <1>8 DEF Accept, IInv, BufferOK
  <2> HIDE DEF leaf
  <2>5. Accept(levels, 1, leaf)
    BY <1>8 DEF leaf
  <2> QED
    BY <1>2, <1>4, <1>7, <2>2, <2>3, <2>4, <2>5, AcceptOK
<1>9. CASE Abort /\ levels' = levels
  <2>1. BufferOK'
    BY <1>6, <1>9 DEF Abort
  <2> QED
    BY <1>2, <1>4, <1>7, <1>9, <2>1, AbortOK
<1> QED
  BY <1>8, <1>9 DEF FlushLeaf

\* The references of a level are all of accepted chunks, and there is one at least.
LEMMA CollapseLevelOK == IInv /\ CollapseLevel => IInv'
<1> SUFFICES ASSUME IInv, CollapseLevel PROVE IInv'
  OBVIOUS
<1> DEFINE refs  == levels[level]
           taken == [levels EXCEPT ![level] = <<>>]
           chunk == Parent(refs, TotalSpan(refs))
<1>1. /\ pc = "collapse" /\ leaf_buf' = leaf_buf /\ scan' = scan /\ finalizing' = finalizing
      /\ consumed' = consumed
  BY DEF CollapseLevel
<1>2. levels \in Seq(Seq(Chunks)) /\ level \in 1 .. Len(levels) /\ refs # <<>>
  BY <1>1 DEF IInv, LevelsOK, CallOK
<1>3. taken \in Seq(Seq(Chunks)) /\ Len(taken) = Len(levels)
  BY <1>2, Emptied
<1>4. refs \in Seq(Chunks) /\ \A k \in DOMAIN refs : refs[k] \in Chunks
  BY <1>2
<1>5. /\ consumed \in Nat /\ leaf_buf \in Seq(Nat) /\ Len(leaf_buf) <= consumed
  BY DEF IInv, BufferOK
<1>6. Gone \in Nat /\ Gone' = Gone /\ Gone' \in Nat /\ Gone <= Gone'
  BY <1>1, <1>5 DEF Gone
<1>7. data' \in Nat => BufferOK'
  BY <1>1, <1>6 DEF IInv, BufferOK
<1>8. CASE Accept(taken, level + 1, chunk)
  <2>1. chunk.kids = refs
    BY DEF Parent
  <2> HIDE DEF chunk
  <2>2. chunk.kids # <<>> /\ \A k \in DOMAIN chunk.kids : chunk.kids[k] \in Chunks
    BY <1>2, <1>4, <2>1
  <2>3. BufferOK'
    BY <1>7, <1>8 DEF Accept, IInv, BufferOK
  <2>4. level + 1 \in 1 .. Len(taken) + 1
    BY <1>2, <1>3
  <2> HIDE DEF taken
  <2> QED
    BY <1>1, <1>3, <1>6, <1>8, <2>2, <2>3, <2>4, AcceptOK
<1>9. CASE Abort /\ levels' = taken
  <2>1. BufferOK'
    BY <1>7, <1>9 DEF Abort
  <2>2. levels' \in Seq(Seq(Chunks))
    BY <1>3, <1>9
  <2> QED
    BY <1>1, <1>6, <1>9, <2>1, <2>2, AbortOK
<1> QED
  BY <1>8, <1>9 DEF CollapseLevel

\* A call begins, ends, or looks at a level.
LEMMA CallsOK ==
  ASSUME IInv, (\E n \in 1 .. MaxWrite : Write(n)) \/ WriteReturn \/ Finalize \/ ScanLevel \/ TakeRoot
               \/ UNCHANGED vars
  PROVE  IInv'
<1>1. /\ leaf_buf' = leaf_buf /\ levels' = levels /\ consumed' = consumed /\ sealed' = sealed
      /\ data' \in Nat
  <2>1. CASE \E n \in 1 .. MaxWrite : Write(n)
    BY <2>1, ChunkerAssumption DEF Write, chunkerVars, ChunkerAssumption
  <2>2. CASE WriteReturn \/ Finalize \/ ScanLevel \/ TakeRoot \/ UNCHANGED vars
    BY <2>2 DEF WriteReturn, Finalize, ScanLevel, TakeRoot, vars, chunkerVars, histVars, IInv, BufferOK
  <2> QED
    BY <2>1, <2>2
<1>2. Gone' = Gone /\ Chunks' = Chunks
  BY <1>1 DEF Gone, Chunks
<1>3. BufferOK' /\ LevelsOK' /\ LeavesOK' /\ SealedInOrder' /\ sealed' \in Seq(Chunks')
  BY <1>1, <1>2 DEF IInv, BufferOK, LevelsOK, LeavesOK, SealedInOrder
<1>4. CallOK'
  <2>1. CASE \E n \in 1 .. MaxWrite : Write(n)
    BY <1>1, <2>1 DEF Write, IInv, CallOK
  <2>2. CASE WriteReturn
    BY <1>1, <2>2 DEF WriteReturn, IInv, CallOK
  <2>3. CASE Finalize
    BY <1>1, <2>3 DEF Finalize, IInv, CallOK
  <2>4. CASE ScanLevel
    <3>1. /\ pc = "scan" /\ scan <= Len(levels) /\ scan' = scan + 1 /\ finalizing' = finalizing
          /\ \/ pc' = pc
             \/ pc' = "collapse" /\ level' = scan /\ levels[scan] # <<>>
      BY <2>4 DEF ScanLevel
    <3>2. scan \in Nat /\ scan >= 1 /\ finalizing /\ Len(levels) \in Nat
      BY <3>1 DEF IInv, CallOK, LevelsOK
    <3> QED
      BY <1>1, <3>1, <3>2 DEF CallOK
  <2>5. CASE TakeRoot
    BY <1>1, <2>5 DEF TakeRoot, IInv, CallOK
  <2>6. CASE UNCHANGED vars
    BY <2>6 DEF vars, IInv, CallOK
  <2> QED
    BY <2>1, <2>2, <2>3, <2>4, <2>5, <2>6
<1> QED
  BY <1>3, <1>4 DEF IInv

\* Nothing has been written, or sealed.
LEMMA InitOK == Init => IInv
<1> SUFFICES ASSUME Init PROVE IInv
  OBVIOUS
<1>1. /\ leaf_buf = <<>> /\ levels = <<>> /\ sealed = <<>> /\ consumed = 0 /\ data = 0
      /\ pc = "idle" /\ scan = 0 /\ finalizing = FALSE
  BY DEF Init
<1>2. sealed \in Seq(Chunks) /\ levels \in Seq(Seq(Chunks))
  BY <1>1
<1>3. BufferOK
  BY <1>1, ChunkTreeAssumption DEF BufferOK, ChunkTreeAssumption
<1>4. CallOK
  BY <1>1 DEF CallOK
<1> QED
  BY <1>1, <1>2, <1>3, <1>4 DEF IInv, LevelsOK, LeavesOK, SealedInOrder

\* The invariant is kept by every turn of every call.
LEMMA StepOK == IInv /\ [Next]_vars => IInv'
BY WriteLoopOK, FlushLeafOK, CollapseLevelOK, CallsOK DEF Next, Step, Finished

\* However the input is cut and whatever the callback refuses, it sees a chunk only
\* after all of its children, and the leaves in the order of the input.
THEOREM NoDanglingParent == Spec => []SealedInOrder
<1>1. IInv => SealedInOrder
  BY DEF IInv
<1> QED
  BY <1>1, InitOK, StepOK, PTL DEF Spec
-----------------------------------------------------------------------------
(* The root.  While nothing was refused the levels are what is left of a   *)
(* tower: T[l] has all the references that were pushed on level l, and     *)
(* S[l] counts the chunks above it.                                        *)

Level == Nat \ {0}

Sequences(T, C) == T \in [Level -> Seq(C)]

\* The parent of the i-th run of references.
GroupParent(refs, i) ==
  LET group == SubSeq(refs, (i - 1) * MAX_BRANCHES + 1, Lesser(i * MAX_BRANCHES, Len(refs)))
  IN  Parent(group, TotalSpan(group))

Grouped(below, above) == \A i \in 1 .. Len(above) : above[i] = GroupParent(below, i)

\* The references without a parent yet; every parent is that of a whole run.
Rest(below, above, refs) ==
  /\ Len(below) = MAX_BRANCHES * Len(above) + Len(refs)
  /\ \A i \in 1 .. Len(refs) : refs[i] = below[MAX_BRANCHES * Len(above) + i]

\* The levels below lo have all their parents, the last of a shorter run perhaps.
Tower(T, ls, lo) ==
  /\ \A l \in Level : l > Len(ls) => T[l] = <<>>
  /\ \A l \in 1 .. Len(ls) : T[l] # <<>> /\ (l < Len(ls) => Len(T[l]) >= 2)
  /\ \A l \in Level : Grouped(T[l], T[l + 1])
  /\ \A l \in 1 .. Len(ls) :
       IF l < lo THEN ls[l] = <<>> /\ Len(T[l + 1]) = DivCeil(Len(T[l]), MAX_BRANCHES)
                 ELSE Rest(T[l], T[l + 1], ls[l])

\* The scan of finalize leaves whole levels behind.
Low == IF ~finalizing THEN 1 ELSE IF pc = "collapse" /\ level < scan THEN level ELSE scan

Bytes(a, b) == [k \in 1 .. (b - a) |-> a + k]

\* The leaves are the input's, up to the buffer.
LeavesIn(T) ==
  /\ \A i \in 1 .. Len(T[1]) :
       T[1][i] = Leaf(Bytes((i - 1) * CHUNK_SIZE, Lesser(i * CHUNK_SIZE, consumed)))
  /\ IF finalizing /\ pc # "flush"
     THEN leaf_buf = <<>> /\ Len(T[1]) = DivCeil(consumed, CHUNK_SIZE)
     ELSE consumed = CHUNK_SIZE * Len(T[1]) + Len(leaf_buf)

\* One chunk after the other: n of them on so many levels.
Counted(S, T, height, n) ==
  /\ S[0] = n
  /\ \A l \in Nat : S[l] = Len(T[l + 1]) + S[l + 1] /\ (l >= height => S[l] = 0)

\* A level is full only until it is collapsed; the last chunk that was sealed is the last
\* of the lowest level that is not empty; the scan stays on the stack.
StackOK ==
  /\ \A l \in 1 .. Len(levels) :
       /\ Len(levels[l]) <= MAX_BRANCHES
       /\ Len(levels[l]) = MAX_BRANCHES => pc = "collapse" /\ level = l
  /\ \A k \in 1 .. Len(levels) :
       levels[k] # <<>> /\ (\A j \in 1 .. (k - 1) : levels[j] = <<>>)
         => levels[k][Len(levels[k])] = sealed[Len(sealed)]
  /\ pc = "collapse" => \A j \in 1 .. (level - 1) : levels[j] = <<>>
  /\ pc = "collapse" =>
       \/ (finalizing => level >= scan) /\ Len(levels[level]) = MAX_BRANCHES
       \/ finalizing /\ level + 1 = scan /\ (level < Len(levels) \/ Len(levels[level]) >= 2)
  /\ pc \in {"idle", "write"} => ~finalizing
  /\ finalizing => pc \in {"flush", "scan", "collapse"} /\ consumed > 0
  /\ pc = "flush" => IF finalizing THEN scan = 1 ELSE Len(leaf_buf) = CHUNK_SIZE
  /\ pc = "scan" => scan <= Len(levels)

Whole ==
  \E T, S :
    /\ Sequences(T, Chunks) /\ Tower(T, levels, Low) /\ LeavesIn(T)
    /\ S \in [Nat -> Nat] /\ Counted(S, T, Len(levels), Len(sealed))

TreeInv ==
  /\ fails \in Nat
  /\ outcome.kind = "root" => pc = "done"
  /\ RootIsCanonical /\ UploadSeesTheTree
  /\ fails = 0 /\ pc # "done" => StackOK /\ Whole

-----------------------------------------------------------------------------
(* Runs of references.                                                     *)

\* The first n runs of b are n times b long.
LEMMA Runs ==
  ASSUME NEW b \in Nat \ {0}, NEW n \in Nat, NEW i \in 1 .. n
  PROVE  /\ (i - 1) * b \in Nat /\ i * b \in Nat /\ i * b = (i - 1) * b + b
         /\ b * n \in Nat /\ i * b <= b * n
<1>1. PICK d \in Nat : n = i + d
  <2>1. n - i \in Nat /\ n = i + (n - i)
    OBVIOUS
  <2> QED
    BY <2>1
<1>2. b * n = i * b + b * d /\ b * d \in Nat /\ i * b \in Nat
  BY <1>1
<1>3. i - 1 \in Nat
  OBVIOUS
<1>4. i * b = (i - 1) * b + b /\ (i - 1) * b \in Nat
  BY <1>3
<1> QED
  BY <1>2, <1>4

\* The quotient of a number is what it is made of.
LEMMA Quotient ==
  ASSUME NEW b \in Nat \ {0}, NEW m \in Nat, NEW e \in 0 .. (b - 1)
  PROVE  (b * m + e) \div b = m
<1> DEFINE v == b * m + e
           q == v \div b
<1>1. b * m \in Nat /\ v \in Nat
  OBVIOUS
<1>2. v = b * m + e
  OBVIOUS
<1> HIDE DEF v
<1>3. q \in Nat /\ b * q <= v /\ v < b * q + b
  BY <1>1
<1> HIDE DEF q
<1>4. CASE q > m
  <2>1. PICK d \in Nat : q = m + 1 + d
    <3>1. q - m - 1 \in Nat /\ q = m + 1 + (q - m - 1)
      BY <1>3, <1>4
    <3> QED
      BY <3>1
  <2>2. b * q = b * m + b + b * d /\ b * d \in Nat
    BY <2>1
  <2> QED
    BY <1>1, <1>2, <1>3, <2>2
<1>5. CASE q < m
  <2>1. PICK d \in Nat : m = q + 1 + d
    <3>1. m - q - 1 \in Nat /\ m = q + 1 + (m - q - 1)
      BY <1>3, <1>5
    <3> QED
      BY <3>1
  <2>2. b * m = b * q + b + b * d /\ b * d \in Nat /\ b * q \in Nat
    BY <1>3, <2>1
  <2> QED
    BY <1>2, <1>3, <2>2
<1> QED
  BY <1>3, <1>4, <1>5 DEF q, v

\* A run that is not whole counts as one.
LEMMA RunsCount ==
  ASSUME NEW b \in Nat \ {0}, NEW n \in Nat
  PROVE  /\ DivCeil(b * n, b) = n
         /\ \A r \in 1 .. b : DivCeil(b * n + r, b) = n + 1
<1>1. b * n \in Nat /\ b * (n + 1) = b * n + b /\ n + 1 \in Nat
  OBVIOUS
<1>2. DivCeil(b * n, b) = n
  <2>1. b - 1 \in 0 .. (b - 1)
    OBVIOUS
  <2>2. (b * n + (b - 1)) \div b = n
    BY <2>1, Quotient
  <2>3. b * n + b - 1 = b * n + (b - 1)
    BY <1>1
  <2> QED
    BY <2>2, <2>3 DEF DivCeil
<1>3. ASSUME NEW r \in 1 .. b PROVE DivCeil(b * n + r, b) = n + 1
  <2>1. r - 1 \in 0 .. (b - 1)
    OBVIOUS
  <2>2. (b * (n + 1) + (r - 1)) \div b = n + 1
    BY <1>1, <2>1, Quotient
  <2>3. b * n + r + b - 1 = b * (n + 1) + (r - 1)
    BY <1>1
  <2> QED
    BY <2>2, <2>3 DEF DivCeil
<1> QED
  BY <1>2, <1>3

\* A whole run stays as it is when more references come after it.
LEMMA GroupStays ==
  ASSUME NEW S, NEW refs \in Seq(S), NEW c \in S, NEW n \in Nat, MAX_BRANCHES * n <= Len(refs),
         NEW i \in 1 .. n
  PROVE  GroupParent(Append(refs, c), i) = GroupParent(refs, i)
<1> DEFINE more == Append(refs, c)
           a == (i - 1) * MAX_BRANCHES
           z == i * MAX_BRANCHES
<1>1. MAX_BRANCHES \in Nat \ {0}
  BY ChunkTreeAssumption DEF ChunkTreeAssumption
<1>2. a \in Nat /\ z \in Nat /\ z = a + MAX_BRANCHES /\ z <= MAX_BRANCHES * n /\ MAX_BRANCHES * n \in Nat
  BY <1>1, Runs
<1> HIDE DEF a, z
<1>3. /\ more \in Seq(S) /\ Len(more) = Len(refs) + 1 /\ Len(refs) \in Nat
      /\ \A j \in 1 .. Len(refs) : more[j] = refs[j]
  OBVIOUS
<1> HIDE DEF more
<1>4. Lesser(z, Len(refs)) = z /\ Lesser(z, Len(more)) = z
  BY <1>2, <1>3 DEF Lesser
<1>5. SubSeq(more, a + 1, z) = SubSeq(refs, a + 1, z)
  <2>1. \A j \in (a + 1) .. z : j \in 1 .. Len(refs) /\ refs[j] \in S /\ more[j] = refs[j]
    BY <1>2, <1>3
  <2>2. \A j \in (a + 1) .. z : more[j] \in S
    BY <2>1
  <2>3. /\ SubSeq(refs, a + 1, z) \in Seq(S)
        /\ Len(SubSeq(refs, a + 1, z)) = IF a + 1 <= z THEN z - (a + 1) + 1 ELSE 0
        /\ \A j \in 1 .. z - (a + 1) + 1 : SubSeq(refs, a + 1, z)[j] = refs[(a + 1) + j - 1]
    BY <1>2, <2>1, SubSeqProperties
  <2>4. /\ SubSeq(more, a + 1, z) \in Seq(S)
        /\ Len(SubSeq(more, a + 1, z)) = IF a + 1 <= z THEN z - (a + 1) + 1 ELSE 0
        /\ \A j \in 1 .. z - (a + 1) + 1 : SubSeq(more, a + 1, z)[j] = more[(a + 1) + j - 1]
    BY <1>2, <2>2, SubSeqProperties
  <2>5. Len(SubSeq(refs, a + 1, z)) = z - a
    BY <1>1, <1>2, <2>3
  <2>6. \A j \in 1 .. z - a : /\ (a + 1) + j - 1 \in (a + 1) .. z
                              /\ j \in 1 .. z - (a + 1) + 1
    BY <1>2
  <2>7. \A j \in 1 .. z - a : SubSeq(more, a + 1, z)[j] = SubSeq(refs, a + 1, z)[j]
    BY <2>1, <2>3, <2>4, <2>6
  <2>8. Len(SubSeq(more, a + 1, z)) = Len(SubSeq(refs, a + 1, z))
    BY <2>3, <2>4
  <2> QED
    BY <2>3, <2>4, <2>5, <2>7, <2>8, SeqEqual
<1> QED
  BY <1>4, <1>5 DEF GroupParent, a, z, more

\* The references at the end are the next run.
LEMMA GroupIs ==
  ASSUME NEW S, NEW below \in Seq(S), NEW above, NEW refs \in Seq(S), Len(above) \in Nat,
         Rest(below, above, refs), refs # <<>>, Len(refs) <= MAX_BRANCHES
  PROVE  Parent(refs, TotalSpan(refs)) = GroupParent(below, Len(above) + 1)
<1> DEFINE n == Len(above)
           a == MAX_BRANCHES * n
           r == Len(refs)
<1>1. MAX_BRANCHES \in Nat \ {0} /\ n \in Nat /\ n + 1 \in 1 .. n + 1
  BY ChunkTreeAssumption DEF ChunkTreeAssumption
<1>2. /\ a \in Nat /\ ((n + 1) - 1) * MAX_BRANCHES = a /\ (n + 1) * MAX_BRANCHES = a + MAX_BRANCHES
  <2> HIDE DEF n
  <2>1. (n + 1) - 1 = n
    BY <1>1
  <2> QED
    BY <1>1, <2>1
<1>3. r \in Nat /\ Len(below) = a + r /\ \A j \in 1 .. r : refs[j] = below[a + j]
  BY DEF Rest
<1>4. r >= 1
  BY <1>3
<1> HIDE DEF a, n, r
<1>5. Lesser((n + 1) * MAX_BRANCHES, Len(below)) = a + r
  BY <1>1, <1>2, <1>3 DEF Lesser, r
<1>6. SubSeq(below, a + 1, a + r) = refs
  <2>1. \A j \in (a + 1) .. (a + r) : below[j] \in S
    BY <1>2, <1>3
  <2>2. /\ SubSeq(below, a + 1, a + r) \in Seq(S)
        /\ Len(SubSeq(below, a + 1, a + r)) = IF a + 1 <= a + r THEN (a + r) - (a + 1) + 1 ELSE 0
        /\ \A j \in 1 .. (a + r) - (a + 1) + 1 : SubSeq(below, a + 1, a + r)[j] = below[(a + 1) + j - 1]
    BY <1>2, <1>3, <2>1, SubSeqProperties
  <2>3. Len(SubSeq(below, a + 1, a + r)) = r
    BY <1>2, <1>3, <1>4, <2>2
  <2>4. ASSUME NEW j \in 1 .. r PROVE SubSeq(below, a + 1, a + r)[j] = refs[j]
    <3>1. j \in 1 .. (a + r) - (a + 1) + 1 /\ (a + 1) + j - 1 = a + j
      BY <1>2, <1>3
    <3> QED
      BY <1>3, <2>2, <3>1
  <2> QED
    BY <2>2, <2>3, <2>4, SeqEqual DEF r
<1>7. SubSeq(below, ((n + 1) - 1) * MAX_BRANCHES + 1, Lesser((n + 1) * MAX_BRANCHES, Len(below))) = refs
  BY <1>2, <1>5, <1>6
<1> QED
  BY <1>7 DEF GroupParent, n

-----------------------------------------------------------------------------
(* One more reference.                                                     *)

\* The stack with a reference put on level k.
OnLevel(p, ls, k, c) ==
  /\ Len(p) = IF k > Len(ls) THEN k ELSE Len(ls)
  /\ \A l \in 1 .. Len(p) :
       p[l] = IF l = k THEN Append(IF k > Len(ls) THEN <<>> ELSE ls[k], c) ELSE ls[l]

\* What is pushed is the last on its level, and nothing else on the stack changes.
LEMMA PushRefIs ==
  ASSUME NEW C, NEW ls \in Seq(Seq(C)), NEW k \in 1 .. Len(ls) + 1, NEW c \in C
  PROVE  OnLevel(PushRef(ls, k, c), ls, k, c)
<1> DEFINE grown == IF k > Len(ls) THEN Append(ls, <<>>) ELSE ls
<1>1. /\ Len(grown) = IF k > Len(ls) THEN k ELSE Len(ls)
      /\ grown \in Seq(Seq(C)) /\ k \in 1 .. Len(grown)
      /\ \A l \in 1 .. Len(grown) : grown[l] = IF l = k /\ k > Len(ls) THEN <<>> ELSE ls[l]
  <2>1. CASE k > Len(ls)
    <3> DEFINE e == <<>>
               more == Append(ls, e)
    <3>1. e \in Seq(C)
      OBVIOUS
    <3> HIDE DEF e
    <3>2. /\ more \in Seq(Seq(C)) /\ Len(more) = Len(ls) + 1 /\ k = Len(ls) + 1
          /\ \A l \in 1 .. Len(ls) + 1 : more[l] = IF l = k THEN e ELSE ls[l]
      BY <2>1, <3>1
    <3>3. grown = more
      BY <2>1 DEF e
    <3> HIDE DEF grown, more
    <3> QED
      BY <2>1, <3>2, <3>3 DEF e
  <2>2. CASE ~(k > Len(ls))
    BY <2>2
  <2> QED
    BY <2>1, <2>2
<1>2. PushRef(ls, k, c) = [grown EXCEPT ![k] = Append(grown[k], c)]
  BY DEF PushRef
<1> HIDE DEF grown
<1>3. /\ Len(PushRef(ls, k, c)) = Len(grown)
      /\ \A l \in 1 .. Len(grown) :
           PushRef(ls, k, c)[l] = IF l = k THEN Append(grown[k], c) ELSE grown[l]
  BY <1>1, <1>2
<1>4. grown[k] = IF k > Len(ls) THEN <<>> ELSE ls[k]
  BY <1>1
<1>5. ASSUME NEW l \in 1 .. Len(grown), l # k PROVE grown[l] = ls[l]
  BY <1>1, <1>5
<1> DEFINE p == PushRef(ls, k, c)
<1>6. /\ Len(p) = IF k > Len(ls) THEN k ELSE Len(ls)
      /\ \A l \in 1 .. Len(p) :
           p[l] = IF l = k THEN Append(IF k > Len(ls) THEN <<>> ELSE ls[k], c) ELSE ls[l]
  BY <1>1, <1>3, <1>4, <1>5
<1> HIDE DEF p
<1>7. OnLevel(p, ls, k, c)
  BY <1>6 DEF OnLevel
<1> QED
  BY <1>7 DEF p

\* It is the last of the references without a parent, too.
LEMMA RestGrows ==
  ASSUME NEW C, NEW below \in Seq(C), NEW above, Len(above) \in Nat, NEW refs \in Seq(C),
         NEW c \in C, Rest(below, above, refs)
  PROVE  Rest(Append(below, c), above, Append(refs, c))
<1> DEFINE a == MAX_BRANCHES * Len(above)
           r == Len(refs)
           b2 == Append(below, c)
           r2 == Append(refs, c)
<1>1. a \in Nat /\ r \in Nat
  BY ChunkTreeAssumption DEF ChunkTreeAssumption
<1>2. Len(below) = a + r /\ \A i \in 1 .. r : refs[i] = below[a + i]
  BY DEF Rest
<1> HIDE DEF a
<1>3. /\ Len(b2) = a + r + 1 /\ Len(r2) = r + 1
      /\ \A i \in 1 .. a + r : b2[i] = below[i]
      /\ \A i \in 1 .. r : r2[i] = refs[i]
      /\ b2[a + r + 1] = c /\ r2[r + 1] = c
  BY <1>1, <1>2
<1> HIDE DEF b2, r2, r
<1>4. ASSUME NEW i \in 1 .. r + 1 PROVE r2[i] = b2[a + i]
  <2>1. CASE i = r + 1
    <3>1. a + i = a + r + 1
      BY <1>1, <2>1
    <3> QED
      BY <1>3, <2>1, <3>1
  <2>2. CASE i \in 1 .. r
    <3>1. a + i \in 1 .. a + r
      BY <1>1, <2>2
    <3> QED
      BY <1>2, <1>3, <2>2, <3>1
  <2> QED
    BY <1>1, <2>1, <2>2
<1>5. Len(b2) = a + Len(r2)
  BY <1>1, <1>3
<1> QED
  BY <1>3, <1>4, <1>5 DEF Rest, a, b2, r2

\* The stack after a push: the level below has been taken, if there is one.
OneMore(ls2, ls, k, c) ==
  /\ Len(ls2) = IF k > Len(ls) THEN k ELSE Len(ls)
  /\ \A l \in 1 .. Len(ls2) :
       ls2[l] = IF l = k THEN Append(IF k > Len(ls) THEN <<>> ELSE ls[k], c)
                ELSE IF l = k - 1 THEN <<>> ELSE ls[l]

Stack(ls, C) == Len(ls) \in Nat /\ \A l \in 1 .. Len(ls) : ls[l] \in Seq(C)

\* What is pushed: a leaf, or the parent of a whole run, or of the last run of the
\* lowest level.
Fits(T, height, k, c, lo, hi) ==
  \/ k = 1 /\ lo = 1 /\ hi = 1
  \/ /\ k > 1 /\ c = GroupParent(T[k - 1], Len(T[k]) + 1)
     /\ k > height => Len(T[k - 1]) >= 2
     /\ \/ lo < k /\ hi = lo /\ Len(T[k - 1]) = MAX_BRANCHES * (Len(T[k]) + 1)
        \/ lo = k - 1 /\ hi = k /\ Len(T[k]) + 1 = DivCeil(Len(T[k - 1]), MAX_BRANCHES)

Longer(T, k, c) == [T EXCEPT ![k] = Append(T[k], c)]

\* A sequence of the tower gets longer.
LEMMA Appended ==
  ASSUME NEW C, NEW T, Sequences(T, C), NEW k \in Level, NEW c \in C
  PROVE  /\ Sequences(Longer(T, k, c), C)
         /\ \A l \in Level : T[l] \in Seq(C)
         /\ \A l \in Level : Longer(T, k, c)[l] = IF l = k THEN Append(T[k], c) ELSE T[l]
         /\ Longer(T, k, c)[k] = Append(T[k], c)
         /\ Len(T[k]) \in Nat /\ Len(Append(T[k], c)) = Len(T[k]) + 1
         /\ \A i \in 1 .. Len(T[k]) : Append(T[k], c)[i] = T[k][i]
         /\ Append(T[k], c)[Len(T[k]) + 1] = c
<1>1. T[k] \in Seq(C) /\ \A l \in Level : T[l] \in Seq(C)
  BY DEF Sequences
<1> DEFINE t == T[k]
           u == Append(t, c)
<1>2. /\ u \in Seq(C) /\ Len(t) \in Nat /\ Len(u) = Len(t) + 1
      /\ \A i \in 1 .. Len(t) : u[i] = t[i]
      /\ u[Len(t) + 1] = c
  BY <1>1
<1> HIDE DEF u
<1>3. [T EXCEPT ![k] = u] \in [Level -> Seq(C)]
  BY <1>2 DEF Sequences
<1>4. \A l \in Level : [T EXCEPT ![k] = u][l] = IF l = k THEN u ELSE T[l]
  BY DEF Sequences
<1> QED
  BY <1>1, <1>2, <1>3, <1>4 DEF Sequences, Longer, u

\* The tower is whole after it.
LEMMA GrowOK ==
  ASSUME NEW C, NEW T, Sequences(T, C), NEW ls, NEW ls2, NEW k \in Level, NEW c \in C,
         NEW lo \in Nat, NEW hi \in Nat, Stack(ls, C), k <= Len(ls) + 1, OneMore(ls2, ls, k, c),
         Tower(T, ls, lo), Fits(T, Len(ls), k, c, lo, hi)
  PROVE  Tower(Longer(T, k, c), ls2, hi)
<1> DEFINE T2 == Longer(T, k, c)
           R == IF k > Len(ls) THEN <<>> ELSE ls[k]
           N == Len(ls)
<1>0. N \in Nat /\ k \in Nat /\ k >= 1 /\ \A l \in Level : l \in Nat /\ l >= 1
  BY DEF Stack, Level
<1>1. T[k] \in Seq(C) /\ T[k + 1] \in Seq(C)
  <2>1. k + 1 \in Level
    BY <1>0 DEF Level
  <2> QED
    BY <2>1, Appended
<1>2. \A l \in Level : T2[l] = IF l = k THEN Append(T[k], c) ELSE T[l]
  BY Appended
<1> HIDE DEF T2
<1>3. /\ Len(ls2) = (IF k > N THEN k ELSE N) /\ Len(ls2) \in Nat /\ Len(ls2) >= N
      /\ k <= Len(ls2)
  BY <1>0 DEF OneMore
<1>4. /\ ls2[k] = Append(R, c)
      /\ \A l \in 1 .. Len(ls2) : l # k => ls2[l] = IF l = k - 1 THEN <<>> ELSE ls[l]
  <2>1. k \in 1 .. Len(ls2)
    BY <1>0, <1>3
  <2> QED
    BY <2>1 DEF OneMore
<1>5. lo <= k /\ hi <= k /\ lo <= hi /\ (lo # hi => lo = k - 1 /\ hi = k)
  BY <1>0 DEF Fits
<1>6. R \in Seq(C) /\ Rest(T[k], T[k + 1], R)
  <2>1. CASE k > N
    <3>1. T[k] = <<>> /\ T[k + 1] = <<>>
      <4>1. k + 1 \in Level /\ k + 1 > N
        BY <1>0, <2>1 DEF Level
      <4> QED
        BY <2>1, <4>1 DEF Tower
    <3>2. MAX_BRANCHES * 0 = 0
      BY ChunkTreeAssumption DEF ChunkTreeAssumption
    <3>3. R = <<>>
      BY <2>1
    <3> HIDE DEF R
    <3>4. R \in Seq(C) /\ Len(R) = 0
      BY <3>3
    <3> QED
      BY <3>1, <3>2, <3>4 DEF Rest
  <2>2. CASE ~(k > N)
    <3>1. k \in 1 .. N /\ ~(k < lo) /\ R = ls[k]
      BY <1>0, <1>5, <2>2
    <3>2. ls[k] \in Seq(C)
      BY <3>1 DEF Stack
    <3>3. Rest(T[k], T[k + 1], ls[k])
      BY <3>1 DEF Tower
    <3> QED
      BY <3>1, <3>2, <3>3
  <2> QED
    BY <2>1, <2>2
<1> HIDE DEF R
<1>7. /\ T2[k] = Append(T[k], c) /\ Len(T2[k]) = Len(T[k]) + 1 /\ Len(T[k]) \in Nat
      /\ \A i \in 1 .. Len(T[k]) : T2[k][i] = T[k][i]
      /\ T2[k][Len(T[k]) + 1] = c
  <2>1. T2[k] = Append(T[k], c)
    BY <1>2
  <2>2. /\ Len(Append(T[k], c)) = Len(T[k]) + 1 /\ Len(T[k]) \in Nat
        /\ \A i \in 1 .. Len(T[k]) : Append(T[k], c)[i] = T[k][i]
        /\ Append(T[k], c)[Len(T[k]) + 1] = c
    BY Appended
  <2> QED
    BY <2>1, <2>2
<1>8. \A l \in Level : l > Len(ls2) => T2[l] = <<>>
  <2> SUFFICES ASSUME NEW l \in Level, l > Len(ls2) PROVE T2[l] = <<>>
    OBVIOUS
  <2>1. l # k /\ l > N
    BY <1>0, <1>3
  <2>2. T[l] = <<>>
    BY <2>1 DEF Tower
  <2> QED
    BY <1>2, <2>1, <2>2
<1>9. \A l \in 1 .. Len(ls2) : T2[l] # <<>> /\ (l < Len(ls2) => Len(T2[l]) >= 2)
  <2> SUFFICES ASSUME NEW l \in 1 .. Len(ls2)
               PROVE  T2[l] # <<>> /\ (l < Len(ls2) => Len(T2[l]) >= 2)
    OBVIOUS
  <2>1. CASE l = k
    <3>1. T2[l] # <<>>
      <4> DEFINE u == T2[k]
      <4>1. Len(u) # 0
        BY <1>7
      <4> HIDE DEF u
      <4>2. u # <<>>
        BY <4>1
      <4> QED
        BY <2>1, <4>2 DEF u
    <3>2. ASSUME l < Len(ls2) PROVE Len(T2[l]) >= 2
      <4>1. k \in 1 .. N /\ k < N
        BY <1>0, <1>3, <2>1, <3>2
      <4>2. Len(T[k]) >= 2
        BY <4>1 DEF Tower
      <4> QED
        BY <1>7, <2>1, <4>2
    <3> QED
      BY <3>1, <3>2
  <2>2. CASE l # k
    <3>1. l \in 1 .. N /\ l \in Level
      BY <1>0, <1>3, <2>2 DEF Level
    <3>2. T2[l] = T[l]
      BY <1>2, <2>2, <3>1
    <3>3. T[l] # <<>> /\ (l < N => Len(T[l]) >= 2)
      BY <3>1 DEF Tower
    <3>4. ASSUME l < Len(ls2), ~(l < N) PROVE Len(T[l]) >= 2
      <4>1. l = k - 1 /\ k > 1 /\ k > N
        BY <1>0, <1>3, <2>2, <3>1, <3>4
      <4> QED
        BY <4>1 DEF Fits
    <3> QED
      BY <3>2, <3>3, <3>4
  <2> QED
    BY <2>1, <2>2
<1>10. \A l \in Level : Grouped(T2[l], T2[l + 1])
  <2> SUFFICES ASSUME NEW l \in Level PROVE Grouped(T2[l], T2[l + 1])
    OBVIOUS
  <2>1. l + 1 \in Level /\ l \in Nat /\ l >= 1
    BY <1>0 DEF Level
  <2>2. Grouped(T[l], T[l + 1])
    BY DEF Tower
  <2>3. CASE l = k
    <3>1. T2[l + 1] = T[k + 1] /\ T2[l] = Append(T[k], c)
      BY <1>2, <1>7, <2>1, <2>3
    <3>2. MAX_BRANCHES * Len(T[k + 1]) <= Len(T[k]) /\ Len(T[k + 1]) \in Nat
      <4> DEFINE a == MAX_BRANCHES * Len(T[k + 1])
      <4>1. Len(T[k + 1]) \in Nat /\ Len(R) \in Nat
        BY <1>1, <1>6
      <4>2. Len(T[k]) = a + Len(R) /\ a \in Nat
        BY <1>6, <4>1, ChunkTreeAssumption DEF Rest, ChunkTreeAssumption
      <4> HIDE DEF a
      <4>3. a <= Len(T[k])
        BY <4>1, <4>2
      <4> QED
        BY <4>1, <4>3 DEF a
    <3>3. ASSUME NEW i \in 1 .. Len(T[k + 1]) PROVE T[k + 1][i] = GroupParent(Append(T[k], c), i)
      <4>1. T[k + 1][i] = GroupParent(T[k], i)
        BY <2>2, <2>3 DEF Grouped
      <4>2. GroupParent(Append(T[k], c), i) = GroupParent(T[k], i)
        BY <1>1, <3>2, GroupStays
      <4> QED
        BY <4>1, <4>2
    <3> QED
      BY <3>1, <3>3 DEF Grouped
  <2>4. CASE l + 1 = k
    <3>1. k > 1 /\ l = k - 1 /\ l # k
      BY <1>0, <2>1, <2>4
    <3>2. T2[l] = T[k - 1] /\ T2[l + 1] = T2[k]
      BY <1>2, <2>4, <3>1
    <3>3. c = GroupParent(T[k - 1], Len(T[k]) + 1)
      BY <3>1 DEF Fits
    <3>4. ASSUME NEW i \in 1 .. Len(T2[k]) PROVE T2[k][i] = GroupParent(T[k - 1], i)
      <4>1. CASE i = Len(T[k]) + 1
        BY <1>7, <3>3, <4>1
      <4>2. CASE i \in 1 .. Len(T[k])
        <5>1. T[k][i] = GroupParent(T[k - 1], i)
          BY <2>2, <2>4, <3>1, <4>2 DEF Grouped
        <5> QED
          BY <1>7, <4>2, <5>1
      <4>3. i = Len(T[k]) + 1 \/ i \in 1 .. Len(T[k])
        BY <1>7
      <4> QED
        BY <4>1, <4>2, <4>3
    <3> QED
      BY <3>2, <3>4 DEF Grouped
  <2>5. CASE l # k /\ l + 1 # k
    <3>1. T2[l] = T[l] /\ T2[l + 1] = T[l + 1]
      BY <1>2, <2>1, <2>5
    <3> QED
      BY <2>2, <3>1
  <2> QED
    BY <2>3, <2>4, <2>5
<1>11. ASSUME NEW l \in 1 .. Len(ls2)
       PROVE  IF l < hi THEN ls2[l] = <<>> /\ Len(T2[l + 1]) = DivCeil(Len(T2[l]), MAX_BRANCHES)
                        ELSE Rest(T2[l], T2[l + 1], ls2[l])
  <2>1. l \in Level /\ l + 1 \in Level /\ l \in Nat
    BY <1>3 DEF Level
  <2>2. CASE l = k
    <3>1. ~(l < hi) /\ l + 1 # k
      BY <1>0, <1>5, <2>1, <2>2
    <3>2. T2[l + 1] = T[k + 1] /\ ls2[l] = Append(R, c)
      BY <1>2, <1>4, <2>1, <2>2, <3>1
    <3>3. Rest(Append(T[k], c), T[k + 1], Append(R, c))
      <4>1. Len(T[k + 1]) \in Nat
        BY <1>1
      <4> QED
        BY <1>1, <1>6, <4>1, RestGrows
    <3> QED
      BY <1>7, <2>2, <3>1, <3>2, <3>3
  <2>3. CASE l = k - 1
    <3>1. k > 1 /\ l + 1 = k /\ l # k
      BY <1>0, <2>1, <2>3
    <3>2. T2[l] = T[k - 1] /\ T2[l + 1] = T2[k] /\ ls2[l] = <<>>
      BY <1>2, <1>4, <2>1, <2>3, <3>1
    <3>3. CASE lo < k /\ hi = lo /\ Len(T[k - 1]) = MAX_BRANCHES * (Len(T[k]) + 1)
      <4>1. ~(l < hi)
        BY <1>0, <2>3, <3>3
      <4>2. Rest(T[k - 1], T2[k], <<>>)
        <5> DEFINE a == MAX_BRANCHES * Len(T2[k])
        <5>1. Len(T[k - 1]) = a /\ a \in Nat
          BY <1>7, <3>3, ChunkTreeAssumption DEF ChunkTreeAssumption
        <5> HIDE DEF a
        <5>2. Len(T[k - 1]) = a + Len(<<>>) /\ Len(<<>>) = 0
          BY <5>1
        <5> QED
          BY <5>2 DEF Rest, a
      <4> QED
        BY <3>2, <4>1, <4>2
    <3>4. CASE lo = k - 1 /\ hi = k /\ Len(T[k]) + 1 = DivCeil(Len(T[k - 1]), MAX_BRANCHES)
      <4>1. l < hi
        BY <1>0, <2>3, <3>4
      <4> QED
        BY <1>7, <3>2, <3>4, <4>1
    <3> QED
      BY <3>1, <3>3, <3>4 DEF Fits
  <2>4. CASE l # k /\ l # k - 1
    <3>1. l \in 1 .. N /\ l + 1 # k
      BY <1>0, <1>3, <2>1, <2>4
    <3>2. T2[l] = T[l] /\ T2[l + 1] = T[l + 1] /\ ls2[l] = ls[l]
      BY <1>2, <1>4, <2>1, <2>4, <3>1
    <3>3. l < lo <=> l < hi
      BY <1>0, <1>5, <2>1, <2>4
    <3>4. IF l < lo THEN ls[l] = <<>> /\ Len(T[l + 1]) = DivCeil(Len(T[l]), MAX_BRANCHES)
                    ELSE Rest(T[l], T[l + 1], ls[l])
      BY <3>1 DEF Tower
    <3> QED
      BY <3>2, <3>3, <3>4
  <2> QED
    BY <2>2, <2>3, <2>4
<1>12. Tower(T2, ls2, hi)
  BY <1>8, <1>9, <1>10, <1>11 DEF Tower
<1> QED
  BY <1>12 DEF T2

\* And one more is counted.
LEMMA CountGrows ==
  ASSUME NEW C, NEW T, Sequences(T, C), NEW S \in [Nat -> Nat], NEW N \in Nat,
         NEW k \in Level, k <= N + 1, NEW c \in C, NEW n \in Nat, Counted(S, T, N, n)
  PROVE  \E S2 \in [Nat -> Nat] :
           Counted(S2, Longer(T, k, c), IF k > N THEN k ELSE N, n + 1)
<1> DEFINE T2 == Longer(T, k, c)
           S2 == [l \in Nat |-> IF l < k THEN S[l] + 1 ELSE S[l]]
           M == IF k > N THEN k ELSE N
<1>1. k \in Nat /\ k >= 1 /\ M \in Nat /\ M >= N /\ M >= k
  BY DEF Level
<1> HIDE DEF M
<1>2. \A l \in Level : Len(T[l]) \in Nat /\ Len(T2[l]) = IF l = k THEN Len(T[k]) + 1 ELSE Len(T[l])
  <2>1. \A l \in Level : Len(T[l]) \in Nat
    BY Appended
  <2>2. Len(Append(T[k], c)) = Len(T[k]) + 1
    BY Appended
  <2>3. \A l \in Level : T2[l] = IF l = k THEN Append(T[k], c) ELSE T[l]
    BY Appended
  <2> HIDE DEF T2
  <2> QED
    BY <2>1, <2>2, <2>3
<1> HIDE DEF T2
<1>3. S2 \in [Nat -> Nat] /\ \A l \in Nat : S2[l] = IF l < k THEN S[l] + 1 ELSE S[l]
  BY <1>1
<1> HIDE DEF S2
<1>4. \A l \in Nat : S[l] = Len(T[l + 1]) + S[l + 1] /\ (l >= N => S[l] = 0)
  BY DEF Counted
<1>5. S2[0] = n + 1
  <2>1. S[0] = n /\ 0 < k
    BY <1>1 DEF Counted
  <2> QED
    BY <1>3, <2>1
<1>6. ASSUME NEW l \in Nat
      PROVE  S2[l] = Len(T2[l + 1]) + S2[l + 1] /\ (l >= M => S2[l] = 0)
  <2>1. /\ l + 1 \in Level /\ l + 1 \in Nat /\ S[l] = Len(T[l + 1]) + S[l + 1]
        /\ S[l] \in Nat /\ S[l + 1] \in Nat /\ Len(T[l + 1]) \in Nat
    <3>1. l + 1 \in Level /\ l + 1 \in Nat
      BY DEF Level
    <3> QED
      BY <1>2, <1>4, <3>1
  <2>2. /\ Len(T2[l + 1]) = IF l + 1 = k THEN Len(T[l + 1]) + 1 ELSE Len(T[l + 1])
        /\ S2[l] = (IF l < k THEN S[l] + 1 ELSE S[l])
        /\ S2[l + 1] = IF l + 1 < k THEN S[l + 1] + 1 ELSE S[l + 1]
    BY <1>2, <1>3, <2>1
  <2>3. S2[l] = Len(T2[l + 1]) + S2[l + 1]
    <3> DEFINE x == S[l]
               y == Len(T[l + 1])
               z == S[l + 1]
    <3>0. x \in Nat /\ y \in Nat /\ z \in Nat /\ x = y + z
      BY <2>1
    <3>1. CASE l + 1 < k
      <4>1. l < k /\ l + 1 # k
        BY <1>1, <2>1, <3>1
      <4>2. S2[l] = x + 1 /\ S2[l + 1] = z + 1 /\ Len(T2[l + 1]) = y
        BY <2>2, <3>1, <4>1
      <4> HIDE DEF x, y, z
      <4>3. x + 1 = y + (z + 1)
        BY <3>0
      <4> QED
        BY <4>2, <4>3, Zenon
    <3>2. CASE l + 1 = k
      <4>1. l < k /\ ~(l + 1 < k)
        BY <1>1, <2>1, <3>2
      <4>2. S2[l] = x + 1 /\ S2[l + 1] = z /\ Len(T2[l + 1]) = y + 1
        BY <2>2, <3>2, <4>1
      <4> HIDE DEF x, y, z
      <4>3. x + 1 = (y + 1) + z
        BY <3>0
      <4> QED
        BY <4>2, <4>3, Zenon
    <3>3. CASE l + 1 > k
      BY <1>1, <2>1, <2>2, <3>3
    <3> QED
      BY <1>1, <2>1, <3>1, <3>2, <3>3
  <2>4. ASSUME l >= M PROVE S2[l] = 0
    <3>1. l >= N /\ ~(l < k)
      BY <1>1, <2>4
    <3> QED
      BY <1>4, <2>2, <3>1
  <2> QED
    BY <2>3, <2>4
<1>7. Counted(S2, T2, M, n + 1)
  BY <1>5, <1>6 DEF Counted
<1> QED
  BY <1>3, <1>7 DEF T2, M

-----------------------------------------------------------------------------
(* The whole tower is the reference tree.                                  *)

\* A set of numbers that is not empty has a least one.
LEMMA LeastExists ==
  ASSUME NEW S \in SUBSET Nat, S # {}
  PROVE  \E n \in S : \A m \in S : n <= m
<1> DEFINE Less == OpToRel(<, Nat)
<1>1. IsWellFoundedOn(Less, Nat)
  BY NatLessThanWellFounded
<1>2. \A x, y \in Nat : <<x, y>> \in Less <=> x < y
  BY DEF OpToRel
<1> HIDE DEF Less
<1>3. PICK n \in S : \A m \in S : ~ (<<m, n>> \in Less)
  BY <1>1, WFMin
<1>4. \A m \in S : m \in Nat /\ n \in Nat /\ ~ (m < n)
  BY <1>2, <1>3
<1> QED
  BY <1>4

\* There are no more parts than there is to cut, and fewer when two go into one.
LEMMA FewerParts ==
  ASSUME NEW n \in Nat \ {0}, NEW b \in Nat \ {0}
  PROVE  /\ DivCeil(n, b) \in 1 .. n
         /\ n > 1 /\ b > 1 => DivCeil(n, b) < n
         /\ \A i \in 1 .. DivCeil(n, b) : (i - 1) * b \in Nat /\ (i - 1) * b < n
<1> DEFINE q == (n + b - 1) \div b
<1>1. q \in Nat /\ b * q <= n + b - 1 /\ n + b - 1 < b * q + b
  OBVIOUS
<1> HIDE DEF q
<1>2. q >= 1
  <2> SUFFICES ASSUME q = 0 PROVE FALSE
    BY <1>1
  <2> QED
    BY <1>1
<1>3. q <= n
  <2> SUFFICES ASSUME q >= n + 1 PROVE FALSE
    BY <1>1
  <2>1. PICK k \in Nat : q = n + 1 + k
    BY <1>1
  <2>2. b * q = b * n + b + b * k /\ b * n >= n /\ b * k >= 0
    BY <2>1
  <2> QED
    BY <1>1, <2>2
<1>4. ASSUME n > 1, b > 1 PROVE q < n
  <2> SUFFICES ASSUME q >= n PROVE FALSE
    BY <1>1
  <2>1. PICK k \in Nat : q = n + k
    BY <1>1
  <2>2. PICK c \in Nat : b = c + 2
    BY <1>4
  <2>3. b * q = b * n + b * k /\ b * k >= 0 /\ b * n = c * n + 2 * n /\ c * n >= c
    BY <1>4, <2>1, <2>2
  <2> QED
    BY <1>1, <1>4, <2>2, <2>3
<1>5. ASSUME NEW i \in 1 .. q PROVE (i - 1) * b \in Nat /\ (i - 1) * b < n
  <2>1. /\ (i - 1) * b \in Nat /\ i * b = (i - 1) * b + b
        /\ b * q \in Nat /\ i * b <= b * q
    BY <1>1, <1>5, Runs
  <2> QED
    BY <1>1, <2>1
<1> QED
  BY <1>1, <1>2, <1>3, <1>4, <1>5 DEF q, DivCeil

\* A whole tower over n leaves: every level has all the parents of the level below.
Peaked(T, h, n) ==
  /\ h \in Level /\ Len(T[h]) = 1 /\ Len(T[1]) \in 1 .. n
  /\ \A l \in 1 .. h : Len(T[l]) \in Nat
  /\ \A l \in 1 .. (h - 1) :
       Len(T[l]) >= 2 /\ Len(T[l + 1]) = DivCeil(Len(T[l]), MAX_BRANCHES)

\* It narrows.
LEMMA Narrows ==
  ASSUME NEW T, NEW h, NEW n \in Nat, Peaked(T, h, n)
  PROVE  \A l \in 1 .. h : Len(T[l]) \in 1 .. (n + 1 - l)
<1>0. h \in Nat /\ h >= 1
  BY DEF Peaked, Level
<1> DEFINE Bad == {l \in 1 .. h : ~(Len(T[l]) \in 1 .. (n + 1 - l))}
<1> SUFFICES ASSUME Bad # {} PROVE FALSE
  OBVIOUS
<1>1. PICK l \in Bad : \A m \in Bad : l <= m
  <2>1. Bad \in SUBSET Nat
    BY <1>0
  <2> HIDE DEF Bad
  <2> QED
    BY <2>1, LeastExists
<1>2. l \in 1 .. h /\ ~(Len(T[l]) \in 1 .. (n + 1 - l))
  BY <1>1
<1>3. CASE l = 1
  <2>1. Len(T[1]) \in 1 .. n /\ n + 1 - 1 = n
    BY DEF Peaked
  <2> QED
    BY <1>2, <1>3, <2>1
<1>4. CASE l > 1
  <2> DEFINE k == l - 1
  <2>1. k \in 1 .. (h - 1) /\ k \in 1 .. h /\ l = k + 1 /\ ~(l <= k) /\ k \in Nat
    BY <1>0, <1>2, <1>4
  <2> HIDE DEF k
  <2>2. Len(T[k]) \in 1 .. (n + 1 - k)
    BY <1>1, <2>1
  <2>3. Len(T[k]) >= 2 /\ Len(T[l]) = DivCeil(Len(T[k]), MAX_BRANCHES)
    BY <2>1 DEF Peaked
  <2> DEFINE a == Len(T[k])
             b == Len(T[l])
  <2>4. a \in Nat \ {0} /\ a > 1 /\ a <= n + 1 - k
    BY <2>1, <2>2, <2>3
  <2>5. b = DivCeil(a, MAX_BRANCHES)
    BY <2>3
  <2> HIDE DEF a, b
  <2>6. b \in 1 .. a /\ b < a
    BY <2>4, <2>5, FewerParts, ChunkTreeAssumption DEF ChunkTreeAssumption
  <2>7. b \in 1 .. (n + 1 - l)
    BY <2>1, <2>4, <2>6
  <2> QED
    BY <1>2, <2>7 DEF b
<1> QED
  BY <1>0, <1>2, <1>3, <1>4

\* The chunks above a level of n, as TotalChunksFor counts them.
Above(f, m) ==
  f = [n \in 0 .. m |-> IF n <= 1 THEN 0
                        ELSE LET parents == DivCeil(n, MAX_BRANCHES) IN parents + f[parents]]

\* There is a function that counts them.
LEMMA AboveExists == \A m \in Nat : \E f : Above(f, m)
<1> DEFINE S == {m \in Nat : ~ \E f : Above(f, m)}
<1> SUFFICES ASSUME S # {} PROVE FALSE
  OBVIOUS
<1>1. PICK m \in S : \A k \in S : m <= k
  BY LeastExists
<1>2. m \in Nat /\ ~ \E f : Above(f, m)
  BY <1>1
<1>3. CASE m = 0
  <2>1. Above([n \in 0 .. 0 |-> 0], 0)
    BY DEF Above
  <2> QED
    BY <1>2, <1>3, <2>1
<1>4. CASE m > 0
  <2>1. m - 1 \in Nat /\ m - 1 \notin S
    BY <1>1, <1>2, <1>4
  <2>2. PICK f : Above(f, m - 1)
    BY <2>1
  <2> DEFINE new == IF m <= 1 THEN 0
                    ELSE DivCeil(m, MAX_BRANCHES) + f[DivCeil(m, MAX_BRANCHES)]
             g == [n \in 0 .. m |-> IF n = m THEN new ELSE f[n]]
  <2>3. \A n \in 0 .. (m - 1) :
          /\ g[n] = f[n]
          /\ f[n] = IF n <= 1 THEN 0 ELSE DivCeil(n, MAX_BRANCHES) + f[DivCeil(n, MAX_BRANCHES)]
    BY <1>2, <2>2 DEF Above
  <2>4. g[m] = new
    BY <1>2
  <2>5. ASSUME NEW n \in 0 .. m, n > 1
        PROVE  g[DivCeil(n, MAX_BRANCHES)] = f[DivCeil(n, MAX_BRANCHES)]
    <3>1. DivCeil(n, MAX_BRANCHES) \in 0 .. (n - 1)
      <4>1. n \in Nat \ {0} /\ MAX_BRANCHES \in Nat \ {0} /\ MAX_BRANCHES > 1
        BY <1>2, <2>5, ChunkTreeAssumption DEF ChunkTreeAssumption
      <4>2. DivCeil(n, MAX_BRANCHES) \in 1 .. n /\ DivCeil(n, MAX_BRANCHES) < n
        BY <2>5, <4>1, FewerParts
      <4> QED
        BY <4>1, <4>2
    <3>2. DivCeil(n, MAX_BRANCHES) \in 0 .. (m - 1)
      BY <1>2, <2>5, <3>1
    <3> QED
      BY <2>3, <3>2
  <2>6. ASSUME NEW n \in 0 .. m
        PROVE  g[n] = IF n <= 1 THEN 0
                      ELSE DivCeil(n, MAX_BRANCHES) + g[DivCeil(n, MAX_BRANCHES)]
    <3>1. CASE n = m
      BY <1>2, <2>4, <2>5, <3>1
    <3>2. CASE n # m
      <4>1. n \in 0 .. (m - 1)
        BY <1>2, <3>2
      <4> QED
        BY <1>2, <2>3, <2>5, <4>1
    <3> QED
      BY <3>1, <3>2
  <2>7. g = [n \in 0 .. m |-> g[n]]
    OBVIOUS
  <2> HIDE DEF g, new
  <2>8. Above(g, m)
    BY <2>6, <2>7 DEF Above
  <2> QED
    BY <1>2, <2>8
<1> QED
  BY <1>2, <1>3, <1>4

\* What was counted along the tower is what the pre-count counts.
LEMMA CountIsTotal ==
  ASSUME NEW T, NEW h, NEW n \in Nat \ {0}, Peaked(T, h, n), Len(T[1]) = DivCeil(n, CHUNK_SIZE),
         NEW S \in [Nat -> Nat], NEW c, Counted(S, T, h, c)
  PROVE  c = TotalChunksFor(n)
<1>0. h \in Nat /\ h >= 1
  BY DEF Peaked, Level
<1> DEFINE above[m \in 0 .. n] ==
             IF m <= 1 THEN 0
             ELSE LET parents == DivCeil(m, MAX_BRANCHES) IN parents + above[parents]
<1>1. Above(above, n)
  BY AboveExists DEF Above
<1>2. TotalChunksFor(n) = DivCeil(n, CHUNK_SIZE) + above[DivCeil(n, CHUNK_SIZE)]
  BY DEF TotalChunksFor
<1> HIDE DEF above
<1>3. \A m \in 0 .. n :
        above[m] = IF m <= 1 THEN 0
                   ELSE DivCeil(m, MAX_BRANCHES) + above[DivCeil(m, MAX_BRANCHES)]
  BY <1>1 DEF Above
<1>4. \A l \in 1 .. h : Len(T[l]) \in 1 .. (n + 1 - l)
  BY Narrows
<1>5. ASSUME NEW l \in 1 .. h PROVE Len(T[l]) \in 0 .. n
  <2> DEFINE a == Len(T[l])
  <2>1. a \in 1 .. (n + 1 - l)
    BY <1>4, Zenon
  <2>2. l \in Nat /\ l >= 1
    BY <1>0
  <2> HIDE DEF a
  <2>3. a \in 0 .. n
    BY <2>1, <2>2
  <2> QED
    BY <2>3 DEF a
<1> DEFINE Bad == {d \in 0 .. (h - 1) : above[Len(T[h - d])] # S[h - d]}
<1>6. Bad = {}
  <2> SUFFICES ASSUME Bad # {} PROVE FALSE
    OBVIOUS
  <2>1. PICK d \in Bad : \A e \in Bad : d <= e
    <3>1. Bad \in SUBSET Nat
      BY <1>0
    <3> HIDE DEF Bad
    <3> QED
      BY <3>1, LeastExists
  <2>2. d \in 0 .. (h - 1) /\ above[Len(T[h - d])] # S[h - d]
    BY <2>1
  <2>3. CASE d = 0
    <3>1. h - d = h /\ Len(T[h]) = 1 /\ 1 \in 0 .. n
      BY <1>0, <2>3 DEF Peaked
    <3>2. above[1] = 0
      <4> DEFINE one == 1
      <4>1. one \in 0 .. n /\ one <= 1
        BY <3>1
      <4> HIDE DEF one
      <4>2. above[one] = 0
        BY <1>3, <4>1
      <4> QED
        BY <4>2 DEF one
    <3>3. S[h] = 0
      BY <1>0 DEF Counted
    <3> QED
      BY <2>2, <3>1, <3>2, <3>3
  <2>4. CASE d > 0
    <3> DEFINE l == h - d
    <3>1. /\ l \in 1 .. (h - 1) /\ l \in 1 .. h /\ l \in Nat /\ l + 1 = h - (d - 1)
          /\ d - 1 \in 0 .. (h - 1) /\ ~(d <= d - 1)
      BY <1>0, <2>2, <2>4
    <3>2. above[Len(T[l + 1])] = S[l + 1]
      BY <2>1, <3>1
    <3> HIDE DEF l
    <3>3. Len(T[l]) >= 2 /\ Len(T[l + 1]) = DivCeil(Len(T[l]), MAX_BRANCHES)
      BY <3>1 DEF Peaked
    <3>4. above[Len(T[l])] = Len(T[l + 1]) + above[Len(T[l + 1])]
      <4> DEFINE a == Len(T[l])
      <4>1. a \in 0 .. n /\ a >= 2
        BY <1>5, <3>1, <3>3
      <4> HIDE DEF a
      <4>2. above[a] = DivCeil(a, MAX_BRANCHES) + above[DivCeil(a, MAX_BRANCHES)]
        BY <1>3, <4>1
      <4> QED
        BY <3>3, <4>2 DEF a
    <3>5. S[l] = Len(T[l + 1]) + S[l + 1]
      BY <3>1 DEF Counted
    <3>6. above[Len(T[l])] = S[l]
      BY <3>2, <3>4, <3>5
    <3> QED
      BY <2>2, <3>6 DEF l
  <2> QED
    BY <2>2, <2>3, <2>4
<1>7. above[Len(T[1])] = S[1]
  <2>1. h - 1 \in 0 .. (h - 1) /\ h - (h - 1) = 1
    BY <1>0
  <2>2. h - 1 \notin Bad
    BY <1>6
  <2> QED
    BY <2>1, <2>2
<1>8. c = Len(T[1]) + S[1]
  <2>1. S[0] = c /\ \A l \in Nat : S[l] = Len(T[l + 1]) + S[l + 1]
    BY DEF Counted
  <2>2. 0 \in Nat /\ 0 + 1 = 1
    OBVIOUS
  <2> QED
    BY <2>1, <2>2
<1> QED
  BY <1>2, <1>7, <1>8

\* The input's parts are the leaves'.
LEMMA LeavesAre ==
  ASSUME consumed \in Nat \ {0}, NEW C, NEW leaves \in Seq(C),
         Len(leaves) = DivCeil(consumed, CHUNK_SIZE),
         \A i \in 1 .. Len(leaves) :
           leaves[i] = Leaf(Bytes((i - 1) * CHUNK_SIZE, Lesser(i * CHUNK_SIZE, consumed)))
  PROVE  RefLeaves(Input) = leaves
<1>1. CHUNK_SIZE \in Nat \ {0}
  BY ChunkTreeAssumption DEF ChunkTreeAssumption
<1>2. /\ Input \in Seq(Nat) /\ Len(Input) = consumed
      /\ \A k \in 1 .. consumed : Input[k] = k
  BY DEF Input
<1> HIDE DEF Input
<1> DEFINE q == DivCeil(consumed, CHUNK_SIZE)
<1>3. /\ q \in Nat
      /\ \A i \in 1 .. q : (i - 1) * CHUNK_SIZE \in Nat /\ (i - 1) * CHUNK_SIZE < consumed
  BY <1>1, FewerParts
<1> HIDE DEF q
<1>4. ASSUME NEW i \in 1 .. q
      PROVE  SubSeq(Input, (i - 1) * CHUNK_SIZE + 1, Lesser(i * CHUNK_SIZE, consumed))
               = Bytes((i - 1) * CHUNK_SIZE, Lesser(i * CHUNK_SIZE, consumed))
  <2> DEFINE a == (i - 1) * CHUNK_SIZE
             z == Lesser(i * CHUNK_SIZE, consumed)
             b == Bytes(a, z)
             p == SubSeq(Input, a + 1, z)
  <2>1. a \in Nat /\ a < consumed /\ i * CHUNK_SIZE = a + CHUNK_SIZE
    BY <1>1, <1>3, Runs
  <2>2. z \in Nat /\ a + 1 <= z /\ z <= consumed
    <3>1. z = Lesser(a + CHUNK_SIZE, consumed)
      BY <2>1
    <3> HIDE DEF a, z
    <3> QED
      BY <1>1, <2>1, <3>1 DEF Lesser
  <2> HIDE DEF a, z
  <2>3. /\ b \in Seq(Nat) /\ Len(b) = z - a
        /\ \A k \in 1 .. z - a : b[k] = a + k
    <3> DEFINE d == z - a
    <3>1. d \in Nat
      BY <2>1, <2>2
    <3>2. b = [k \in 1 .. d |-> a + k]
      BY DEF Bytes
    <3> HIDE DEF d, b
    <3>3. b \in Seq(Nat) /\ Len(b) = d /\ \A k \in 1 .. d : b[k] = a + k
      BY <2>1, <3>1, <3>2
    <3> QED
      BY <3>3 DEF d
  <2> HIDE DEF b
  <2>4. \A k \in (a + 1) .. z : Input[k] \in Nat /\ Input[k] = k
    BY <1>2, <2>1, <2>2
  <2>5. /\ p \in Seq(Nat)
        /\ Len(p) = IF a + 1 <= z THEN z - (a + 1) + 1 ELSE 0
        /\ \A k \in 1 .. z - (a + 1) + 1 : p[k] = Input[(a + 1) + k - 1]
    BY <1>2, <2>1, <2>2, <2>4, SubSeqProperties
  <2> HIDE DEF p
  <2>6. Len(p) = z - a
    BY <2>1, <2>2, <2>5
  <2>7. ASSUME NEW k \in 1 .. z - a PROVE p[k] = b[k]
    <3>1. /\ k \in 1 .. z - (a + 1) + 1 /\ (a + 1) + k - 1 = a + k
          /\ a + k \in (a + 1) .. z
      BY <2>1, <2>2
    <3> QED
      BY <2>3, <2>4, <2>5, <3>1
  <2>8. p = b
    BY <2>3, <2>5, <2>6, <2>7, SeqEqual
  <2> QED
    BY <2>8 DEF p, b, a, z
<1>5. /\ DOMAIN leaves = 1 .. q
      /\ leaves = [i \in 1 .. q |-> leaves[i]]
  <2>1. DOMAIN leaves = 1 .. Len(leaves) /\ leaves = [i \in DOMAIN leaves |-> leaves[i]]
    OBVIOUS
  <2> QED
    BY <2>1 DEF q
<1>6. \A i \in 1 .. q :
        leaves[i] = Leaf(SubSeq(Input, (i - 1) * CHUNK_SIZE + 1, Lesser(i * CHUNK_SIZE, consumed)))
  BY <1>4 DEF q
<1> DEFINE parts == Cut(Input, CHUNK_SIZE)
<1>7. parts = [i \in 1 .. q |->
                 SubSeq(Input, (i - 1) * CHUNK_SIZE + 1, Lesser(i * CHUNK_SIZE, consumed))]
  BY <1>2 DEF Cut, q
<1>8. RefLeaves(Input) = [i \in DOMAIN parts |-> Leaf(parts[i])]
  BY DEF RefLeaves
<1> HIDE DEF parts
<1>9. RefLeaves(Input) = [i \in 1 .. q |-> leaves[i]]
  <2>1. \A i \in 1 .. q : Leaf(parts[i]) = leaves[i]
    BY <1>6, <1>7
  <2>2. DOMAIN parts = 1 .. q
    BY <1>7
  <2> QED
    BY <1>8, <2>1, <2>2
<1> QED
  BY <1>5, <1>9

\* A level that has a parent for every run is what the reference puts on top.
LEMMA ParentsAre ==
  ASSUME NEW C, NEW below, NEW above \in Seq(C), Grouped(below, above),
         Len(above) = DivCeil(Len(below), MAX_BRANCHES)
  PROVE  RefParents(below) = above
<1> DEFINE q == DivCeil(Len(below), MAX_BRANCHES)
           groups == Cut(below, MAX_BRANCHES)
<1>1. DOMAIN above = 1 .. q /\ above = [i \in 1 .. q |-> above[i]]
  <2>1. DOMAIN above = 1 .. Len(above) /\ above = [i \in DOMAIN above |-> above[i]]
    OBVIOUS
  <2> QED
    BY <2>1
<1>2. \A i \in 1 .. q : above[i] = GroupParent(below, i)
  BY DEF Grouped
<1>3. groups = [i \in 1 .. q |->
                  SubSeq(below, (i - 1) * MAX_BRANCHES + 1, Lesser(i * MAX_BRANCHES, Len(below)))]
  BY DEF Cut
<1>4. RefParents(below) = [i \in DOMAIN groups |-> Parent(groups[i], TotalSpan(groups[i]))]
  BY DEF RefParents
<1> HIDE DEF groups, q
<1>5. DOMAIN groups = 1 .. q /\ \A i \in 1 .. q : Parent(groups[i], TotalSpan(groups[i])) = above[i]
  BY <1>2, <1>3 DEF GroupParent
<1> QED
  BY <1>1, <1>4, <1>5

\* The reference goes up level by level, and stays at the top.
Climbs(lvl, input) ==
  lvl = [k \in 0 .. Len(input) |->
           IF k = 0 THEN RefLeaves(input)
           ELSE LET below == lvl[k - 1]
                IN  IF Len(below) = 1 THEN below ELSE RefParents(below)]

\* There is one way to go up at most.
LEMMA OneClimb ==
  ASSUME NEW input, Len(input) \in Nat, NEW f, Climbs(f, input), NEW g, Climbs(g, input)
  PROVE  \A k \in 0 .. Len(input) : f[k] = g[k]
<1> DEFINE n == Len(input)
           Bad == {k \in 0 .. n : f[k] # g[k]}
<1>0. n \in Nat
  OBVIOUS
<1> HIDE DEF n
<1> SUFFICES ASSUME Bad # {} PROVE FALSE
  BY DEF n
<1>1. PICK k \in Bad : \A m \in Bad : k <= m
  <2>1. Bad \in SUBSET Nat
    OBVIOUS
  <2> HIDE DEF Bad
  <2> QED
    BY <2>1, LeastExists
<1>2. k \in 0 .. n /\ f[k] # g[k]
  BY <1>1
<1>3. \A j \in 0 .. n :
        /\ f[j] = IF j = 0 THEN RefLeaves(input)
                  ELSE IF Len(f[j - 1]) = 1 THEN f[j - 1] ELSE RefParents(f[j - 1])
        /\ g[j] = IF j = 0 THEN RefLeaves(input)
                  ELSE IF Len(g[j - 1]) = 1 THEN g[j - 1] ELSE RefParents(g[j - 1])
  BY DEF Climbs, n
<1>4. CASE k = 0
  BY <1>2, <1>3, <1>4
<1>5. CASE k > 0
  <2>1. k - 1 \in 0 .. n /\ ~(k <= k - 1)
    BY <1>0, <1>2, <1>5
  <2>2. f[k - 1] = g[k - 1]
    BY <1>1, <2>1
  <2> QED
    BY <1>2, <1>3, <1>5, <2>2
<1> QED
  BY <1>2, <1>4, <1>5

\* The top of a whole tower over the input is the reference's root.
LEMMA TopIsRoot ==
  ASSUME consumed \in Nat \ {0}, NEW C, NEW T, Sequences(T, C), NEW h, Peaked(T, h, consumed),
         \A l \in 1 .. (h - 1) : Grouped(T[l], T[l + 1]),
         T[1] = RefLeaves(Input)
  PROVE  RefRoot(Input) = T[h][1]
<1>0. h \in Nat /\ h >= 1
  BY DEF Peaked, Level
<1> DEFINE lvl[k \in 0 .. Len(Input)] ==
             IF k = 0 THEN RefLeaves(Input)
             ELSE LET below == lvl[k - 1]
                  IN  IF Len(below) = 1 THEN below ELSE RefParents(below)
           g == [k \in 0 .. consumed |-> T[Lesser(k + 1, h)]]
<1>1. Len(Input) = consumed
  BY DEF Input
<1>2. RefRoot(Input) = lvl[Len(Input)][1]
  BY DEF RefRoot
<1>3. ASSUME NEW k \in 0 .. consumed
      PROVE  g[k] = IF k = 0 THEN RefLeaves(Input)
                    ELSE IF Len(g[k - 1]) = 1 THEN g[k - 1] ELSE RefParents(g[k - 1])
  <2>1. g[k] = T[Lesser(k + 1, h)]
    OBVIOUS
  <2>2. CASE k = 0
    <3>1. Lesser(k + 1, h) = 1
      BY <1>0, <2>2 DEF Lesser
    <3> HIDE DEF g
    <3> QED
      BY <2>1, <2>2, <3>1
  <2>3. CASE k > 0
    <3>1. k - 1 \in 0 .. consumed /\ (k - 1) + 1 = k
      BY <2>3
    <3>2. g[k - 1] = T[Lesser(k, h)]
      BY <3>1
    <3> HIDE DEF g
    <3>3. CASE k < h
      <4>1. Lesser(k, h) = k /\ Lesser(k + 1, h) = k + 1 /\ k \in 1 .. (h - 1)
        BY <1>0, <2>3, <3>3 DEF Lesser
      <4>2. Len(T[k]) >= 2 /\ Len(T[k + 1]) = DivCeil(Len(T[k]), MAX_BRANCHES) /\ Len(T[k]) # 1
        <5>1. Len(T[k]) >= 2 /\ Len(T[k + 1]) = DivCeil(Len(T[k]), MAX_BRANCHES)
          BY <4>1, Zenon DEF Peaked
        <5> DEFINE a == Len(T[k])
        <5>2. a >= 2
          BY <5>1
        <5> HIDE DEF a
        <5>3. a # 1
          BY <5>2
        <5> QED
          BY <5>1, <5>3 DEF a
      <4>3. T[k + 1] \in Seq(C)
        <5>1. k + 1 \in Level
          BY <4>1 DEF Level
        <5> QED
          BY <5>1 DEF Sequences
      <4>4. RefParents(T[k]) = T[k + 1]
        BY <4>1, <4>2, <4>3, ParentsAre
      <4> QED
        BY <2>1, <2>3, <3>2, <4>1, <4>2, <4>4
    <3>4. CASE ~(k < h)
      <4>1. Lesser(k, h) = h /\ Lesser(k + 1, h) = h
        BY <1>0, <2>3, <3>4 DEF Lesser
      <4>2. Len(T[h]) = 1
        BY DEF Peaked
      <4> QED
        BY <2>1, <2>3, <3>2, <4>1, <4>2
    <3> QED
      BY <3>3, <3>4
  <2> QED
    BY <2>2, <2>3
<1>4. Climbs(g, Input)
  <2>1. g = [k \in 0 .. consumed |-> g[k]]
    OBVIOUS
  <2> HIDE DEF g
  <2> QED
    BY <1>1, <1>3, <2>1 DEF Climbs
<1> HIDE DEF g
<1>5. Climbs(lvl, Input)
  BY <1>4 DEF Climbs
<1> HIDE DEF lvl
<1>6. lvl[consumed] = g[consumed]
  <2>1. consumed \in 0 .. consumed
    OBVIOUS
  <2> QED
    BY <1>1, <1>4, <1>5, <2>1, OneClimb
<1>7. g[consumed] = T[h]
  <2>1. h \in 1 .. h /\ Len(T[h]) = 1 /\ Len(T[h]) \in 1 .. (consumed + 1 - h)
    <3>1. h \in 1 .. h
      BY <1>0
    <3> QED
      BY <3>1, Narrows DEF Peaked
  <2>2. h <= consumed
    BY <1>0, <2>1
  <2>3. Lesser(consumed + 1, h) = h
    BY <1>0, <2>2 DEF Lesser
  <2> QED
    BY <2>3 DEF g
<1> QED
  BY <1>1, <1>2, <1>6, <1>7

-----------------------------------------------------------------------------
(* Every step keeps the tower.                                             *)

\* A call goes on.
LEMMA StillRunning ==
  ASSUME TreeInv, pc # "done", outcome' = outcome, fails' = fails,
         fails = 0 => StackOK' /\ Whole'
  PROVE  TreeInv'
<1>1. outcome'.kind # "root"
  BY DEF TreeInv
<1>2. RootIsCanonical' /\ UploadSeesTheTree'
  BY <1>1 DEF RootIsCanonical, UploadSeesTheTree
<1> QED
  BY <1>1, <1>2 DEF TreeInv

\* Once a chunk was refused nothing is promised of the root.
LEMMA RefusedOK ==
  ASSUME TreeInv, pc # "done", Abort
  PROVE  TreeInv'
<1>1. fails' = fails + 1 /\ fails \in Nat /\ (outcome' = Refused \/ outcome' = outcome)
  BY DEF Abort, TreeInv
<1>2. fails' \in Nat /\ fails' # 0
  BY <1>1
<1>3. outcome'.kind # "root"
  BY <1>1 DEF TreeInv, Refused
<1>4. RootIsCanonical' /\ UploadSeesTheTree'
  BY <1>3 DEF RootIsCanonical, UploadSeesTheTree
<1> QED
  BY <1>2, <1>3, <1>4 DEF TreeInv

\* What was sealed before is there after.
LEMMA ChunksGrow ==
  ASSUME sealed \in Seq(Chunks), NEW chunk, sealed' = Append(sealed, chunk)
  PROVE  /\ Chunks \subseteq Chunks' /\ chunk \in Chunks'
         /\ Len(sealed) \in Nat /\ Len(sealed') = Len(sealed) + 1
         /\ sealed'[Len(sealed')] = chunk
<1> DEFINE n == Len(sealed)
           more == Append(sealed, chunk)
<1>1. /\ n \in Nat /\ DOMAIN sealed = 1 .. n /\ more \in Seq(Chunks \cup {chunk})
      /\ Len(more) = n + 1 /\ DOMAIN more = 1 .. n + 1
      /\ \A i \in 1 .. n : more[i] = sealed[i]
      /\ more[n + 1] = chunk
  OBVIOUS
<1> HIDE DEF more
<1>2. sealed' = more
  BY DEF more
<1>3. \A i \in DOMAIN sealed : i \in DOMAIN more /\ more[i] = sealed[i]
  BY <1>1
<1>4. n + 1 \in DOMAIN more
  BY <1>1
<1>5. Chunks \subseteq Chunks' /\ chunk \in Chunks'
  BY <1>1, <1>2, <1>3, <1>4 DEF Chunks
<1> QED
  BY <1>1, <1>2, <1>5

\* The scan is not ahead of level k, what is below the level under it is empty, and there
\* is room for one more from k on.
Room(k) ==
  /\ finalizing => scan <= k
  /\ \A l \in 1 .. Len(levels) : IF l < k THEN l < k - 1 => levels[l] = <<>>
                                          ELSE Len(levels[l]) < MAX_BRANCHES

\* The reference is pushed on level k; a full level is collapsed next.
Pushes(k, chunk) ==
  /\ OneMore(levels', levels, k, chunk)
  /\ IF Len(levels'[k]) = MAX_BRANCHES THEN pc' = "collapse" /\ level' = k
                                       ELSE pc' = Resume /\ level' = level
  /\ scan' = scan /\ finalizing' = finalizing /\ consumed' = consumed

\* What a level is after a push.
LEMMA PushedLevels ==
  ASSUME NEW C, Stack(levels, C), NEW k \in 1 .. Len(levels) + 1, NEW chunk \in C,
         Pushes(k, chunk), Room(k)
  PROVE  /\ Len(levels') \in Nat /\ k \in 1 .. Len(levels')
         /\ Len(levels'[k]) \in 1 .. MAX_BRANCHES /\ levels'[k][Len(levels'[k])] = chunk
         /\ \A l \in 1 .. Len(levels') : l < k => levels'[l] = <<>>
         /\ \A l \in 1 .. Len(levels') : l # k => Len(levels'[l]) \in 0 .. (MAX_BRANCHES - 1)
<1> DEFINE N == Len(levels)
           R == IF k > N THEN <<>> ELSE levels[k]
           top == levels'[k]
<1>1. N \in Nat /\ k \in Nat /\ k >= 1 /\ k <= N + 1
  BY DEF Stack
<1>2. MAX_BRANCHES \in Nat /\ MAX_BRANCHES >= 2
  BY ChunkTreeAssumption DEF ChunkTreeAssumption
<1>3. Len(levels') = (IF k > N THEN k ELSE N)
  BY DEF Pushes, OneMore
<1>4. Len(levels') \in Nat /\ k \in 1 .. Len(levels') /\ Len(levels') >= N
  BY <1>1, <1>3
<1>5. \A l \in 1 .. Len(levels') :
        levels'[l] = IF l = k THEN Append(R, chunk) ELSE IF l = k - 1 THEN <<>> ELSE levels[l]
  BY DEF Pushes, OneMore
<1>6. R \in Seq(C) /\ Len(R) \in Nat /\ Len(R) < MAX_BRANCHES
  <2>1. CASE k > N
    <3>1. R = <<>>
      BY <2>1
    <3> HIDE DEF R
    <3> QED
      BY <1>2, <3>1
  <2>2. CASE ~(k > N)
    <3>1. k \in 1 .. N /\ ~(k < k) /\ R = levels[k]
      BY <1>1, <2>2
    <3>2. levels[k] \in Seq(C)
      BY <3>1 DEF Stack
    <3>3. Len(levels[k]) < MAX_BRANCHES
      BY <3>1 DEF Room
    <3> HIDE DEF R
    <3>4. R \in Seq(C) /\ Len(R) < MAX_BRANCHES
      BY <3>1, <3>2, <3>3
    <3> QED
      BY <3>4
  <2> QED
    BY <2>1, <2>2
<1>7. top = Append(R, chunk)
  BY <1>4, <1>5
<1> HIDE DEF R, top
<1>8. Len(top) = Len(R) + 1 /\ top[Len(R) + 1] = chunk
  BY <1>6, <1>7
<1>9. Len(top) \in 1 .. MAX_BRANCHES /\ top[Len(top)] = chunk
  BY <1>2, <1>6, <1>8
<1>10. ASSUME NEW l \in 1 .. Len(levels'), l # k
       PROVE  /\ l < k => levels'[l] = <<>>
              /\ Len(levels'[l]) \in 0 .. (MAX_BRANCHES - 1)
  <2>1. l \in 1 .. N /\ l \in Nat
    BY <1>1, <1>3, <1>4, <1>10
  <2>2. CASE l = k - 1
    <3>1. levels'[l] = <<>>
      BY <1>5, <1>10, <2>2
    <3> DEFINE e == levels'[l]
    <3>2. e = <<>>
      BY <3>1
    <3> HIDE DEF e
    <3>3. Len(e) \in 0 .. (MAX_BRANCHES - 1)
      BY <1>2, <3>2
    <3> QED
      BY <3>1, <3>3 DEF e
  <2>3. CASE l # k - 1
    <3>1. levels'[l] = levels[l]
      BY <1>5, <1>10, <2>3
    <3> DEFINE e == levels[l]
    <3>2. e \in Seq(C)
      BY <2>1 DEF Stack
    <3>3. l < k => e = <<>>
      <4>1. l < k => l < k - 1
        BY <1>1, <2>1, <2>3
      <4> QED
        BY <2>1, <4>1 DEF Room
    <3>4. ~(l < k) => Len(e) < MAX_BRANCHES
      BY <2>1 DEF Room
    <3> HIDE DEF e
    <3>5. Len(e) \in 0 .. (MAX_BRANCHES - 1)
      <4>1. CASE l < k
        BY <1>2, <3>3, <4>1
      <4>2. CASE ~(l < k)
        BY <1>2, <3>2, <3>4, <4>2
      <4> QED
        BY <4>1, <4>2
    <3> QED
      BY <3>1, <3>3, <3>5 DEF e
  <2> QED
    BY <2>2, <2>3
<1>11. \A l \in 1 .. Len(levels') : l < k => levels'[l] = <<>>
  <2>1. \A l \in 1 .. Len(levels') : l < k => l # k
    BY <1>1
  <2> QED
    BY <1>10, <2>1
<1> QED
  BY <1>4, <1>9, <1>10, <1>11 DEF top

\* So the stack is as it should be.
LEMMA SealStack ==
  ASSUME StackOK, scan \in Nat, NEW C, Stack(levels, C), NEW k \in 1 .. Len(levels) + 1,
         NEW chunk \in C, Pushes(k, chunk), Room(k), sealed'[Len(sealed')] = chunk
  PROVE  StackOK'
<1>1. k \in Nat /\ k >= 1 /\ MAX_BRANCHES \in Nat
  BY ChunkTreeAssumption DEF Stack, ChunkTreeAssumption
<1>2. /\ Len(levels') \in Nat /\ k \in 1 .. Len(levels')
      /\ Len(levels'[k]) \in 1 .. MAX_BRANCHES /\ levels'[k][Len(levels'[k])] = chunk
      /\ \A l \in 1 .. Len(levels') : l < k => levels'[l] = <<>>
      /\ \A l \in 1 .. Len(levels') : l # k => Len(levels'[l]) \in 0 .. (MAX_BRANCHES - 1)
  BY PushedLevels
<1>3. /\ IF Len(levels'[k]) = MAX_BRANCHES THEN pc' = "collapse" /\ level' = k
                                           ELSE pc' = Resume /\ level' = level
      /\ scan' = scan /\ finalizing' = finalizing /\ consumed' = consumed
      /\ finalizing => scan <= k
  BY DEF Pushes, Room
<1>4. ASSUME NEW l \in 1 .. Len(levels')
      PROVE  /\ Len(levels'[l]) <= MAX_BRANCHES
             /\ Len(levels'[l]) = MAX_BRANCHES => pc' = "collapse" /\ level' = l
  <2> DEFINE a == Len(levels'[l])
  <2>1. CASE l = k
    <3>1. a \in 1 .. MAX_BRANCHES
      BY <1>2, <2>1
    <3>2. a = MAX_BRANCHES => pc' = "collapse" /\ level' = l
      BY <1>3, <2>1
    <3> HIDE DEF a
    <3>3. a <= MAX_BRANCHES
      BY <1>1, <3>1
    <3> QED
      BY <3>2, <3>3 DEF a
  <2>2. CASE l # k
    <3>1. a \in 0 .. (MAX_BRANCHES - 1)
      BY <1>2, <2>2
    <3> HIDE DEF a
    <3>2. a <= MAX_BRANCHES /\ a # MAX_BRANCHES
      BY <1>1, <3>1
    <3> QED
      BY <3>2 DEF a
  <2> QED
    BY <2>1, <2>2
<1>5. ASSUME NEW m \in 1 .. Len(levels'), levels'[m] # <<>>,
             \A j \in 1 .. (m - 1) : levels'[j] = <<>>
      PROVE  levels'[m][Len(levels'[m])] = sealed'[Len(sealed')]
  <2>1. ~(m < k)
    BY <1>2, <1>5
  <2>2. ~(k < m)
    <3> SUFFICES ASSUME k < m PROVE FALSE
      OBVIOUS
    <3>1. k \in 1 .. (m - 1)
      BY <1>1, <1>2
    <3> DEFINE top == levels'[k]
    <3>2. top = <<>>
      BY <1>5, <3>1
    <3>3. Len(top) \in 1 .. MAX_BRANCHES
      BY <1>2
    <3> HIDE DEF top
    <3> QED
      BY <1>1, <3>2, <3>3
  <2>3. m = k
    BY <1>1, <1>2, <2>1, <2>2
  <2> QED
    BY <1>2, <2>3
<1>6. pc' = "collapse" =>
        /\ level' = k /\ Len(levels'[level']) = MAX_BRANCHES
        /\ \A j \in 1 .. (level' - 1) : levels'[j] = <<>>
        /\ finalizing' => level' >= scan'
  <2> SUFFICES ASSUME pc' = "collapse"
               PROVE  /\ level' = k /\ Len(levels'[k]) = MAX_BRANCHES
                      /\ \A j \in 1 .. (k - 1) : levels'[j] = <<>>
                      /\ finalizing => k >= scan
    BY <1>3
  <2>1. level' = k /\ Len(levels'[k]) = MAX_BRANCHES
    BY <1>3 DEF Resume
  <2>2. \A j \in 1 .. (k - 1) : j \in 1 .. Len(levels') /\ j < k
    BY <1>1, <1>2
  <2>3. \A j \in 1 .. (k - 1) : levels'[j] = <<>>
    BY <1>2, <2>2
  <2>4. finalizing => k >= scan
    BY <1>1, <1>3
  <2> QED
    BY <2>1, <2>3, <2>4
<1>7. pc' \in {"collapse", Resume}
  BY <1>3
<1>8. finalizing => consumed > 0
  BY DEF StackOK
<1>9. /\ pc' \in {"idle", "write"} => ~finalizing'
      /\ finalizing' => pc' \in {"flush", "scan", "collapse"} /\ consumed' > 0
      /\ pc' = "flush" => IF finalizing' THEN scan' = 1 ELSE Len(leaf_buf') = CHUNK_SIZE
  BY <1>3, <1>7, <1>8 DEF Resume
<1>10. pc' = "scan" => scan' <= Len(levels')
  <2> SUFFICES ASSUME pc' = "scan" PROVE scan <= Len(levels')
    BY <1>3
  <2>1. finalizing
    BY <1>7 DEF Resume
  <2> QED
    BY <1>1, <1>2, <1>3, <2>1
<1> QED
  BY <1>4, <1>5, <1>6, <1>9, <1>10 DEF StackOK

\* Where the tower is whole after a chunk was sealed.
NextLow == IF finalizing THEN scan ELSE 1

\* A chunk that fits is sealed: the tower has it on its level.
LEMMA SealTree ==
  ASSUME IInv, StackOK, NEW k \in 1 .. Len(levels) + 1, NEW chunk,
         sealed' = Append(sealed, chunk), Pushes(k, chunk), Room(k),
         NEW T, Sequences(T, Chunks), Tower(T, levels, Low),
         Fits(T, Len(levels), k, chunk, Low, NextLow),
         NEW S \in [Nat -> Nat], Counted(S, T, Len(levels), Len(sealed))
  PROVE  /\ StackOK'
         /\ Sequences(T, Chunks') /\ chunk \in Chunks' /\ k \in Level
         /\ Sequences(Longer(T, k, chunk), Chunks') /\ Tower(Longer(T, k, chunk), levels', Low')
         /\ \E S2 \in [Nat -> Nat] :
              Counted(S2, Longer(T, k, chunk), Len(levels'), Len(sealed'))
<1> DEFINE N == Len(levels)
<1>2. /\ Chunks \subseteq Chunks' /\ chunk \in Chunks'
      /\ Len(sealed) \in Nat /\ Len(sealed') = Len(sealed) + 1
      /\ sealed'[Len(sealed')] = chunk
  BY ChunksGrow DEF IInv
<1>3. scan \in Nat /\ N \in Nat
  BY DEF IInv, CallOK, LevelsOK
<1>4. k \in Level /\ k \in Nat /\ k >= 1 /\ k <= N + 1
  BY <1>3 DEF Level
<1>5. Sequences(T, Chunks')
  <2>1. Seq(Chunks) \subseteq Seq(Chunks')
    BY <1>2
  <2> QED
    BY <2>1 DEF Sequences
<1>7. Stack(levels, Chunks')
  <2>1. levels \in Seq(Seq(Chunks'))
    BY <1>2, MoreToKeep DEF IInv, LevelsOK
  <2>2. \A l \in 1 .. Len(levels) : levels[l] \in Seq(Chunks')
    BY <2>1
  <2> QED
    BY <1>3, <2>2 DEF Stack
<1>8. OneMore(levels', levels, k, chunk)
  BY DEF Pushes
<1>9. StackOK'
  BY <1>2, <1>3, <1>7, SealStack
<1>11. Low' = NextLow
  <2>1. scan' = scan /\ finalizing' = finalizing /\ (pc' = "collapse" /\ finalizing => level' = k)
    BY DEF Pushes, Resume
  <2>2. CASE ~finalizing
    BY <2>1, <2>2 DEF Low, NextLow
  <2>3. CASE finalizing
    <3>1. ~(k < scan)
      BY <1>3, <1>4, <2>3 DEF Room
    <3> QED
      BY <2>1, <2>3, <3>1 DEF Low, NextLow
  <2> QED
    BY <2>2, <2>3
<1>12. Low \in Nat /\ NextLow \in Nat
  <2>1. pc = "collapse" => level \in Nat
    BY DEF IInv, CallOK
  <2> QED
    BY <1>3, <2>1 DEF Low, NextLow
<1> HIDE DEF N
<1>13. Tower(Longer(T, k, chunk), levels', Low')
  <2>1. Tower(Longer(T, k, chunk), levels', NextLow)
    BY <1>2, <1>4, <1>5, <1>7, <1>8, <1>12, GrowOK DEF N
  <2> QED
    BY <1>11, <2>1
<1>14. \E S2 \in [Nat -> Nat] :
         Counted(S2, Longer(T, k, chunk), Len(levels'), Len(sealed'))
  <2>1. \E S2 \in [Nat -> Nat] :
          Counted(S2, Longer(T, k, chunk), IF k > N THEN k ELSE N, Len(sealed) + 1)
    <3>1. Counted(S, T, N, Len(sealed))
      BY DEF N
    <3>2. k <= N + 1 /\ N \in Nat /\ Len(sealed) \in Nat
      BY <1>2, <1>3, <1>4 DEF N
    <3>3. k \in Level /\ chunk \in Chunks'
      BY <1>2, <1>4
    <3> QED
      BY <1>5, <3>1, <3>2, <3>3, CountGrows, Zenon
  <2>2. Len(levels') = IF k > N THEN k ELSE N
    BY <1>8 DEF OneMore, N
  <2> QED
    BY <1>2, <2>1, <2>2
<1>15. Sequences(Longer(T, k, chunk), Chunks')
  BY <1>2, <1>4, <1>5, Appended
<1> QED
  BY <1>2, <1>4, <1>5, <1>9, <1>13, <1>14, <1>15

\* A leaf is pushed on the lowest level.
LEMMA PushedFirst ==
  ASSUME NEW C, NEW ls \in Seq(Seq(C)), NEW c \in C
  PROVE  OneMore(PushRef(ls, 1, c), ls, 1, c)
<1> DEFINE one == 1
           p == PushRef(ls, one, c)
<1>1. one \in 1 .. Len(ls) + 1 /\ \A l \in 1 .. Len(p) : l # one - 1
  OBVIOUS
<1>2. OneMore(p, ls, 1, c) <=> OneMore(p, ls, one, c)
  OBVIOUS
<1> HIDE DEF one
<1>3. /\ Len(p) = IF one > Len(ls) THEN one ELSE Len(ls)
      /\ \A l \in 1 .. Len(p) :
           p[l] = IF l = one THEN Append(IF one > Len(ls) THEN <<>> ELSE ls[one], c) ELSE ls[l]
  <2>1. OnLevel(p, ls, one, c)
    BY <1>1, PushRefIs, Zenon
  <2> HIDE DEF p
  <2> QED
    BY <2>1 DEF OnLevel
<1> HIDE DEF p
<1>4. OneMore(p, ls, one, c)
  BY <1>1, <1>3 DEF OneMore
<1> QED
  BY <1>2, <1>4 DEF p, one

\* A parent is pushed on the level above the one that was taken.
LEMMA PushedAbove ==
  ASSUME NEW C, NEW ls \in Seq(Seq(C)), NEW k \in 1 .. Len(ls), NEW c \in C
  PROVE  OneMore(PushRef([ls EXCEPT ![k] = <<>>], k + 1, c), ls, k + 1, c)
<1> DEFINE taken == [ls EXCEPT ![k] = <<>>]
           m == k + 1
           p == PushRef(taken, m, c)
<1>1. taken \in Seq(Seq(C)) /\ Len(taken) = Len(ls)
  BY Emptied
<1>2. \A l \in 1 .. Len(ls) : taken[l] = IF l = k THEN <<>> ELSE ls[l]
  OBVIOUS
<1>3. Len(ls) \in Nat /\ k \in Nat /\ k >= 1 /\ k <= Len(ls)
  OBVIOUS
<1>4. m \in Nat /\ m - 1 = k /\ m # k /\ m \in 1 .. Len(taken) + 1
  BY <1>1, <1>3
<1> HIDE DEF taken, m
<1>5. /\ Len(p) = IF m > Len(taken) THEN m ELSE Len(taken)
      /\ \A l \in 1 .. Len(p) :
           p[l] = IF l = m THEN Append(IF m > Len(taken) THEN <<>> ELSE taken[m], c) ELSE taken[l]
  <2>1. OnLevel(p, taken, m, c)
    BY <1>1, <1>4, PushRefIs, Zenon
  <2> HIDE DEF p
  <2> QED
    BY <2>1 DEF OnLevel
<1> HIDE DEF p
<1>6. ~(m > Len(ls)) => taken[m] = ls[m]
  <2>1. ASSUME ~(m > Len(ls)) PROVE m \in 1 .. Len(ls)
    BY <1>1, <1>3, <1>4, <2>1
  <2> QED
    BY <1>2, <1>4, <2>1
<1>7. \A l \in 1 .. Len(p) : l # m => taken[l] = IF l = m - 1 THEN <<>> ELSE ls[l]
  <2>1. \A l \in 1 .. Len(p) : l # m => l \in 1 .. Len(ls)
    BY <1>1, <1>3, <1>4, <1>5
  <2> QED
    BY <1>2, <1>4, <2>1
<1>8. Len(p) = IF m > Len(ls) THEN m ELSE Len(ls)
  BY <1>1, <1>5
<1>9. \A l \in 1 .. Len(p) :
        p[l] = IF l = m THEN Append(IF m > Len(ls) THEN <<>> ELSE ls[m], c)
               ELSE IF l = m - 1 THEN <<>> ELSE ls[l]
  BY <1>1, <1>5, <1>6, <1>7
<1>10. OneMore(p, ls, m, c)
  BY <1>8, <1>9 DEF OneMore
<1> QED
  BY <1>10 DEF p, taken, m

\* What the buffer holds is the next leaf.
LEMMA FlushLeaves ==
  ASSUME BufferOK, pc = "flush", leaf_buf # <<>>, leaf_buf' = <<>>,
         consumed' = consumed, finalizing' = finalizing, pc' \in {"collapse", Resume},
         ~finalizing => Len(leaf_buf) = CHUNK_SIZE,
         NEW C, NEW T, Sequences(T, C), NEW c \in C, c = Leaf(leaf_buf), LeavesIn(T)
  PROVE  LeavesIn(Longer(T, 1, c))'
<1> DEFINE n == Len(T[1])
           r == Len(leaf_buf)
           T2 == Longer(T, 1, c)
<1>1. CHUNK_SIZE \in Nat \ {0}
  BY ChunkTreeAssumption DEF ChunkTreeAssumption
<1>2. 1 \in Level
  BY DEF Level
<1>3. /\ n \in Nat /\ Len(T2[1]) = n + 1 /\ T2[1][n + 1] = c
      /\ \A i \in 1 .. n : T2[1][i] = T[1][i]
  <2>1. T2[1] = Append(T[1], c)
    <3>1. Longer(T, 1, c)[1] = Append(T[1], c)
      BY <1>2, Appended
    <3> QED
      BY <3>1
  <2>2. /\ Len(T[1]) \in Nat /\ Len(Append(T[1], c)) = Len(T[1]) + 1
        /\ \A i \in 1 .. Len(T[1]) : Append(T[1], c)[i] = T[1][i]
        /\ Append(T[1], c)[Len(T[1]) + 1] = c
    BY <1>2, Appended
  <2> HIDE DEF T2
  <2> QED
    BY <2>1, <2>2
<1>4. /\ consumed \in Nat /\ leaf_buf \in Seq(Nat) /\ r \in Nat /\ r >= 1 /\ r <= CHUNK_SIZE
      /\ \A i \in 1 .. r : leaf_buf[i] = (consumed - r) + i
  <2>1. /\ consumed \in Nat /\ leaf_buf \in Seq(Nat) /\ r <= CHUNK_SIZE
        /\ \A i \in 1 .. r : leaf_buf[i] = (consumed - r) + i
    BY DEF BufferOK, Gone
  <2>2. r \in Nat /\ r >= 1
    BY <2>1
  <2> QED
    BY <2>1, <2>2
<1>5. /\ consumed = CHUNK_SIZE * n + r
      /\ \A i \in 1 .. n :
           T[1][i] = Leaf(Bytes((i - 1) * CHUNK_SIZE, Lesser(i * CHUNK_SIZE, consumed)))
  BY DEF LeavesIn
<1> HIDE DEF n, r, T2
<1>6. /\ CHUNK_SIZE * n \in Nat /\ ((n + 1) - 1) * CHUNK_SIZE = CHUNK_SIZE * n
      /\ (n + 1) * CHUNK_SIZE = CHUNK_SIZE * n + CHUNK_SIZE
      /\ CHUNK_SIZE * (n + 1) = CHUNK_SIZE * n + CHUNK_SIZE
  <2>1. (n + 1) - 1 = n
    BY <1>3
  <2> QED
    BY <1>1, <1>3, <2>1
<1> DEFINE a == CHUNK_SIZE * n
<1>7. Lesser((n + 1) * CHUNK_SIZE, consumed) = consumed
  <2>1. a \in Nat /\ consumed = a + r /\ (n + 1) * CHUNK_SIZE = a + CHUNK_SIZE
    BY <1>5, <1>6
  <2> HIDE DEF a
  <2>2. Lesser(a + CHUNK_SIZE, consumed) = consumed
    BY <1>1, <1>4, <2>1 DEF Lesser
  <2> QED
    BY <2>1, <2>2
<1>8. leaf_buf = Bytes(a, consumed)
  <2>1. a \in Nat /\ consumed = a + r
    BY <1>5, <1>6
  <2> HIDE DEF a
  <2>2. consumed - a = r /\ consumed - r = a
    BY <1>4, <2>1
  <2>3. leaf_buf = [i \in 1 .. r |-> leaf_buf[i]]
    <3>1. leaf_buf = [i \in 1 .. Len(leaf_buf) |-> leaf_buf[i]]
      BY <1>4
    <3> QED
      BY <3>1 DEF r
  <2>4. \A i \in 1 .. r : leaf_buf[i] = a + i
    BY <1>4, <2>2
  <2>5. [i \in 1 .. r |-> leaf_buf[i]] = [i \in 1 .. r |-> a + i]
    BY <2>4
  <2> QED
    BY <2>2, <2>3, <2>5 DEF Bytes
<1>9. c = Leaf(Bytes(((n + 1) - 1) * CHUNK_SIZE, Lesser((n + 1) * CHUNK_SIZE, consumed)))
  BY <1>6, <1>7, <1>8
<1> HIDE DEF a
<1>10. ASSUME NEW i \in 1 .. (n + 1)
       PROVE  T2[1][i] = Leaf(Bytes((i - 1) * CHUNK_SIZE, Lesser(i * CHUNK_SIZE, consumed)))
  <2>1. CASE i = n + 1
    BY <1>3, <1>9, <2>1
  <2>2. CASE i # n + 1
    <3>1. i \in 1 .. n
      BY <1>3, <2>2
    <3> QED
      BY <1>3, <1>5, <3>1
  <2> QED
    BY <2>1, <2>2
<1>11. CASE finalizing
  <2>1. pc' # "flush" /\ finalizing'
    BY <1>11 DEF Resume
  <2>2. Len(T2[1]) = DivCeil(consumed, CHUNK_SIZE)
    <3>1. r \in 1 .. CHUNK_SIZE
      BY <1>1, <1>4
    <3>2. DivCeil(CHUNK_SIZE * n + r, CHUNK_SIZE) = n + 1
      BY <1>1, <1>3, <3>1, RunsCount
    <3> QED
      BY <1>3, <1>5, <3>2
  <2>3. LeavesIn(T2)'
    BY <1>3, <1>10, <2>1, <2>2 DEF LeavesIn
  <2> QED
    BY <2>3 DEF T2
<1>12. CASE ~finalizing
  <2>1. consumed = CHUNK_SIZE * Len(T2[1])
    BY <1>3, <1>5, <1>6, <1>12 DEF r
  <2>2. CHUNK_SIZE * Len(T2[1]) \in Nat /\ consumed' = CHUNK_SIZE * Len(T2[1]) + Len(leaf_buf')
    <3> DEFINE b == CHUNK_SIZE * Len(T2[1])
               e == leaf_buf'
    <3>1. e = <<>> /\ b = consumed
      BY <2>1
    <3> HIDE DEF b, e
    <3>2. consumed = b + Len(e) /\ b \in Nat
      BY <1>4, <3>1
    <3> QED
      BY <3>2 DEF b, e
  <2>3. LeavesIn(T2)'
    BY <1>3, <1>10, <1>12, <2>2 DEF LeavesIn
  <2> QED
    BY <2>3 DEF T2
<1> QED
  BY <1>11, <1>12

\* The buffer is sealed while the whole tower is in progress.
LEMMA FlushTree == IInv /\ TreeInv /\ FlushLeaf => TreeInv'
<1> SUFFICES ASSUME IInv, TreeInv, FlushLeaf PROVE TreeInv'
  OBVIOUS
<1>1. /\ pc = "flush" /\ leaf_buf' = <<>> /\ scan' = scan /\ finalizing' = finalizing
      /\ consumed' = consumed
  BY DEF FlushLeaf
<1>2. CASE Abort
  BY <1>1, <1>2, RefusedOK
<1>3. CASE Accept(levels, 1, Leaf(leaf_buf))
  <2>2. PICK leaf : leaf = Leaf(leaf_buf)
    OBVIOUS
  <2>1. /\ sealed' = Append(sealed, leaf) /\ levels' = PushRef(levels, 1, leaf)
        /\ IF Len(levels'[1]) = MAX_BRANCHES THEN pc' = "collapse" /\ level' = 1
                                             ELSE pc' = Resume /\ level' = level
        /\ outcome' = outcome /\ fails' = fails
    BY <1>3, <2>2 DEF Accept, Full
  <2>3. SUFFICES ASSUME fails = 0 PROVE StackOK' /\ Whole'
    BY <1>1, <2>1, StillRunning
  <2>4. StackOK /\ Whole
    BY <1>1, <2>3 DEF TreeInv
  <2>5. PICK T, S :
          /\ Sequences(T, Chunks) /\ Tower(T, levels, Low) /\ LeavesIn(T)
          /\ S \in [Nat -> Nat] /\ Counted(S, T, Len(levels), Len(sealed))
    BY <2>4 DEF Whole
  <2>6. Chunks \subseteq Chunks' /\ leaf \in Chunks'
    BY <2>1, ChunksGrow DEF IInv
  <2>7. OneMore(levels', levels, 1, leaf)
    <3>1. levels \in Seq(Seq(Chunks'))
      BY <2>6, MoreToKeep DEF IInv, LevelsOK
    <3> QED
      BY <2>1, <2>6, <3>1, PushedFirst
  <2>8. Pushes(1, leaf)
    BY <1>1, <2>1, <2>7 DEF Pushes
  <2>9. finalizing => scan = 1
    BY <1>1, <2>4 DEF StackOK
  <2>10. Room(1)
    <3>1. \A l \in 1 .. Len(levels) : Len(levels[l]) < MAX_BRANCHES
      <4> SUFFICES ASSUME NEW l \in 1 .. Len(levels) PROVE Len(levels[l]) < MAX_BRANCHES
        OBVIOUS
      <4> DEFINE a == Len(levels[l])
      <4>1. a <= MAX_BRANCHES /\ a # MAX_BRANCHES
        BY <1>1, <2>4 DEF StackOK
      <4>2. a \in Nat
        BY DEF IInv, LevelsOK
      <4> HIDE DEF a
      <4>3. a < MAX_BRANCHES
        BY <4>1, <4>2, ChunkTreeAssumption DEF ChunkTreeAssumption
      <4> QED
        BY <4>3 DEF a
    <3>2. \A l \in 1 .. Len(levels) : ~(l < 1)
      OBVIOUS
    <3>3. finalizing => scan <= 1
      BY <2>9
    <3> QED
      BY <3>1, <3>2, <3>3 DEF Room
  <2>11. Low = 1 /\ NextLow = 1
    BY <1>1, <2>9 DEF Low, NextLow
  <2>12. Fits(T, Len(levels), 1, leaf, Low, NextLow)
    BY <2>11 DEF Fits
  <2>13. 1 \in 1 .. Len(levels) + 1
    BY DEF IInv, LevelsOK
  <2>14. /\ StackOK' /\ Sequences(T, Chunks')
         /\ Sequences(Longer(T, 1, leaf), Chunks') /\ Tower(Longer(T, 1, leaf), levels', Low')
         /\ \E S2 \in [Nat -> Nat] :
              Counted(S2, Longer(T, 1, leaf), Len(levels'), Len(sealed'))
    BY <2>1, <2>4, <2>5, <2>8, <2>10, <2>12, <2>13, SealTree
  <2>15. LeavesIn(Longer(T, 1, leaf))'
    <3>1. leaf_buf # <<>> /\ (~finalizing => Len(leaf_buf) = CHUNK_SIZE) /\ BufferOK
      BY <1>1, <2>4 DEF IInv, CallOK, StackOK
    <3>2. pc' \in {"collapse", Resume}
      BY <2>1
    <3> QED
      BY <1>1, <2>2, <2>5, <2>6, <2>14, <3>1, <3>2, FlushLeaves
  <2>16. PICK S2 \in [Nat -> Nat] : Counted(S2, Longer(T, 1, leaf), Len(levels'), Len(sealed'))
    BY <2>14
  <2>17. Whole'
    BY <2>14, <2>15, <2>16 DEF Whole
  <2> QED
    BY <2>14, <2>17
<1> QED
  BY <1>2, <1>3 DEF FlushLeaf

\* A run of references is sealed under their parent.
LEMMA CollapseTree == IInv /\ TreeInv /\ CollapseLevel => TreeInv'
<1> SUFFICES ASSUME IInv, TreeInv, CollapseLevel PROVE TreeInv'
  OBVIOUS
<1> DEFINE refs  == levels[level]
           taken == [levels EXCEPT ![level] = <<>>]
<1>1. /\ pc = "collapse" /\ leaf_buf' = leaf_buf /\ scan' = scan /\ finalizing' = finalizing
      /\ consumed' = consumed
  BY DEF CollapseLevel
<1>2. CASE Abort
  BY <1>1, <1>2, RefusedOK
<1>3. CASE Accept(taken, level + 1, Parent(refs, TotalSpan(refs)))
  <2>2. PICK k, up : k = level + 1 /\ up = Parent(refs, TotalSpan(refs))
    OBVIOUS
  <2>1. /\ sealed' = Append(sealed, up) /\ levels' = PushRef(taken, k, up)
        /\ IF Len(levels'[k]) = MAX_BRANCHES THEN pc' = "collapse" /\ level' = k
                                             ELSE pc' = Resume /\ level' = level
        /\ outcome' = outcome /\ fails' = fails
    BY <1>3, <2>2 DEF Accept, Full
  <2>3. SUFFICES ASSUME fails = 0 PROVE StackOK' /\ Whole'
    BY <1>1, <2>1, StillRunning
  <2>4. StackOK /\ Whole
    BY <1>1, <2>3 DEF TreeInv
  <2>5. PICK T, S :
          /\ Sequences(T, Chunks) /\ Tower(T, levels, Low) /\ LeavesIn(T)
          /\ S \in [Nat -> Nat] /\ Counted(S, T, Len(levels), Len(sealed))
    BY <2>4 DEF Whole
  <2>6. Chunks \subseteq Chunks' /\ up \in Chunks'
    BY <2>1, ChunksGrow DEF IInv
  <2>7. /\ level \in 1 .. Len(levels) /\ refs # <<>> /\ Len(levels) \in Nat
        /\ scan \in Nat /\ (finalizing => scan >= 1)
    BY <1>1 DEF IInv, CallOK, LevelsOK
  <2>8. refs \in Seq(Chunks) /\ \A l \in 1 .. Len(levels) : Len(levels[l]) \in Nat
    BY <2>7 DEF IInv, LevelsOK
  <2>9. OneMore(levels', levels, k, up)
    <3>1. levels \in Seq(Seq(Chunks'))
      BY <2>6, MoreToKeep DEF IInv, LevelsOK
    <3> QED
      BY <2>1, <2>2, <2>6, <2>7, <3>1, PushedAbove
  <2> HIDE DEF taken
  <2>10. /\ k \in Nat /\ k > 1 /\ k - 1 = level /\ k \in 1 .. Len(levels) + 1 /\ level < k
         /\ level \in Nat /\ level >= 1 /\ level \in Level /\ k \in Level
    BY <2>2, <2>7 DEF Level
  <2>11. /\ \A j \in 1 .. (level - 1) : levels[j] = <<>>
         /\ \/ (finalizing => level >= scan) /\ Len(refs) = MAX_BRANCHES
            \/ finalizing /\ k = scan /\ (level < Len(levels) \/ Len(refs) >= 2)
         /\ \A l \in 1 .. Len(levels) : Len(levels[l]) = MAX_BRANCHES => level = l
         /\ \A l \in 1 .. Len(levels) : Len(levels[l]) <= MAX_BRANCHES
    BY <1>1, <2>2, <2>4 DEF StackOK
  <2> HIDE DEF refs
  <2>12. Pushes(k, up)
    BY <1>1, <2>1, <2>9 DEF Pushes
  <2>13. Room(k)
    <3>1. finalizing => scan <= k
      BY <2>7, <2>10, <2>11
    <3>2. \A l \in 1 .. Len(levels) : l < k => (l < k - 1 => levels[l] = <<>>)
      BY <2>7, <2>10, <2>11
    <3>3. \A l \in 1 .. Len(levels) : ~(l < k) => Len(levels[l]) < MAX_BRANCHES
      <4> SUFFICES ASSUME NEW l \in 1 .. Len(levels), ~(l < k) PROVE Len(levels[l]) < MAX_BRANCHES
        OBVIOUS
      <4> DEFINE a == Len(levels[l])
      <4>1. a <= MAX_BRANCHES /\ a # MAX_BRANCHES /\ a \in Nat
        BY <2>8, <2>10, <2>11
      <4> HIDE DEF a
      <4>2. a < MAX_BRANCHES
        BY <4>1, ChunkTreeAssumption DEF ChunkTreeAssumption
      <4> QED
        BY <4>2 DEF a
    <3> QED
      BY <3>1, <3>2, <3>3 DEF Room
  <2>14. /\ NextLow = (IF finalizing THEN scan ELSE 1)
         /\ Low = IF finalizing /\ k = scan THEN level ELSE NextLow
         /\ Low <= level
    <3>1. NextLow = IF finalizing THEN scan ELSE 1
      BY DEF NextLow
    <3>2. CASE ~finalizing
      BY <2>10, <3>1, <3>2 DEF Low
    <3>3. CASE finalizing /\ k = scan
      BY <1>1, <2>10, <3>1, <3>3 DEF Low
    <3>4. CASE finalizing /\ k # scan
      <4>1. level >= scan /\ ~(level < scan)
        BY <2>7, <2>10, <2>11, <3>4
      <4> QED
        BY <3>1, <3>4, <4>1 DEF Low
    <3> QED
      BY <3>2, <3>3, <3>4
  <2>15. Low \in Nat
    BY <2>7, <2>10, <2>14
  <2>16. Rest(T[level], T[k], refs) /\ T[level] \in Seq(Chunks) /\ T[k] \in Seq(Chunks)
    <3>1. level + 1 = k /\ ~(level < Low)
      BY <2>2, <2>10, <2>14, <2>15
    <3>2. Rest(T[level], T[level + 1], levels[level])
      BY <2>5, <2>7, <3>1 DEF Tower
    <3>3. T[level] \in Seq(Chunks) /\ T[k] \in Seq(Chunks)
      BY <2>5, <2>10 DEF Sequences
    <3> QED
      BY <3>1, <3>2, <3>3 DEF refs
  <2> DEFINE n == Len(T[k])
             r == Len(refs)
             m == Len(T[level])
  <2>17. /\ n \in Nat /\ r \in Nat /\ m \in Nat /\ r >= 1 /\ r <= MAX_BRANCHES
         /\ m = MAX_BRANCHES * n + r
    <3>1. n \in Nat /\ m \in Nat
      BY <2>16
    <3>2. r \in Nat /\ r # 0
      BY <2>7, <2>8
    <3>3. r <= MAX_BRANCHES
      BY <2>7, <2>11 DEF refs
    <3>4. m = MAX_BRANCHES * n + r
      BY <2>16 DEF Rest
    <3> HIDE DEF n, r, m
    <3> QED
      BY <3>1, <3>2, <3>3, <3>4
  <2>18. up = GroupParent(T[level], n + 1)
    <3>1. Len(T[k]) \in Nat /\ Len(refs) <= MAX_BRANCHES
      BY <2>17
    <3> QED
      BY <2>2, <2>7, <2>8, <2>16, <3>1, GroupIs DEF refs
  <2>19. MAX_BRANCHES \in Nat /\ MAX_BRANCHES >= 2
    BY ChunkTreeAssumption DEF ChunkTreeAssumption
  <2>20. Fits(T, Len(levels), k, up, Low, NextLow)
    <3>1. up = GroupParent(T[k - 1], Len(T[k]) + 1)
      BY <2>10, <2>18
    <3>2. CASE ~(finalizing /\ k = scan)
      <4>1. r = MAX_BRANCHES
        BY <2>11, <3>2
      <4>2. m = MAX_BRANCHES * (n + 1) /\ m >= 2
        <5>1. MAX_BRANCHES * (n + 1) = MAX_BRANCHES * n + MAX_BRANCHES /\ MAX_BRANCHES * n \in Nat
          <6> HIDE DEF n, r, m
          <6> QED
            BY <2>17, <2>19
        <5> DEFINE x == MAX_BRANCHES * n
        <5>2. m = x + MAX_BRANCHES /\ MAX_BRANCHES * (n + 1) = x + MAX_BRANCHES /\ x \in Nat
          BY <2>17, <4>1, <5>1
        <5> HIDE DEF x, n, r, m
        <5> QED
          BY <2>19, <5>2
      <4>3. NextLow = Low /\ Low < k
        BY <2>10, <2>14, <2>15, <3>2
      <4> QED
        BY <2>10, <3>1, <4>2, <4>3 DEF Fits
    <3>3. CASE finalizing /\ k = scan
      <4>1. Low = k - 1 /\ NextLow = k
        BY <2>10, <2>14, <3>3
      <4>2. n + 1 = DivCeil(m, MAX_BRANCHES)
        <5>1. r \in 1 .. MAX_BRANCHES
          BY <2>17, <2>19
        <5> HIDE DEF n, r, m
        <5>2. DivCeil(MAX_BRANCHES * n + r, MAX_BRANCHES) = n + 1
          <6>1. MAX_BRANCHES \in Nat \ {0} /\ n \in Nat
            BY <2>17, <2>19
          <6> QED
            BY <5>1, <6>1, RunsCount
        <5> QED
          BY <2>17, <5>2
      <4>3. k > Len(levels) => m >= 2
        <5> SUFFICES ASSUME k > Len(levels) PROVE m >= 2
          OBVIOUS
        <5>1. r = MAX_BRANCHES \/ r >= 2
          BY <2>7, <2>10, <2>11, <3>3
        <5> DEFINE x == MAX_BRANCHES * n
        <5>2. x \in Nat /\ m = x + r
          BY <2>17, <2>19
        <5> HIDE DEF x, n, r, m
        <5> QED
          BY <2>17, <2>19, <5>1, <5>2
      <4> QED
        BY <2>10, <3>1, <4>1, <4>2, <4>3 DEF Fits
    <3> QED
      BY <3>2, <3>3
  <2> HIDE DEF n, r, m
  <2>21. /\ StackOK' /\ Sequences(T, Chunks')
         /\ Sequences(Longer(T, k, up), Chunks') /\ Tower(Longer(T, k, up), levels', Low')
         /\ \E S2 \in [Nat -> Nat] :
              Counted(S2, Longer(T, k, up), Len(levels'), Len(sealed'))
    BY <2>1, <2>4, <2>5, <2>10, <2>12, <2>13, <2>20, SealTree
  <2>22. LeavesIn(Longer(T, k, up))'
    <3>1. Longer(T, k, up)[1] = T[1]
      <4>1. 1 \in Level /\ 1 # k
        BY <2>10 DEF Level
      <4> QED
        BY <2>21, <4>1 DEF Longer, Sequences
    <3>2. pc' \in {"collapse", Resume} /\ pc' # "flush"
      BY <2>1 DEF Resume
    <3> QED
      BY <1>1, <2>5, <3>1, <3>2 DEF LeavesIn
  <2>23. PICK S2 \in [Nat -> Nat] : Counted(S2, Longer(T, k, up), Len(levels'), Len(sealed'))
    BY <2>21
  <2>24. Whole'
    BY <2>21, <2>22, <2>23 DEF Whole
  <2> QED
    BY <2>21, <2>24
<1> QED
  BY <1>2, <1>3 DEF CollapseLevel

\* What goes into the buffer is not in a leaf yet.
LEMMA WriteLoopTree == IInv /\ TreeInv /\ WriteLoop => TreeInv'
<1> SUFFICES ASSUME IInv, TreeInv, WriteLoop PROVE TreeInv'
  OBVIOUS
<1> DEFINE take == Lesser(data, CHUNK_SIZE - Len(leaf_buf))
           more == [i \in 1 .. take |-> consumed + i]
<1>1. /\ pc = "write" /\ leaf_buf' = leaf_buf \o more /\ consumed' = consumed + take
      /\ pc' = (IF Len(leaf_buf') = CHUNK_SIZE THEN "flush" ELSE "write")
      /\ levels' = levels /\ level' = level /\ scan' = scan /\ finalizing' = finalizing
      /\ sealed' = sealed /\ fails' = fails /\ outcome' = outcome
  BY DEF WriteLoop
<1>2. /\ data \in Nat /\ consumed \in Nat /\ leaf_buf \in Seq(Nat) /\ Len(leaf_buf) \in Nat
      /\ Len(leaf_buf) <= CHUNK_SIZE /\ CHUNK_SIZE \in Nat \ {0}
  BY ChunkTreeAssumption DEF IInv, BufferOK, ChunkTreeAssumption
<1>3. take \in Nat
  BY <1>2 DEF Lesser
<1> HIDE DEF take
<1>4. Len(leaf_buf') = Len(leaf_buf) + take
  <2>1. more \in Seq(Nat) /\ Len(more) = take
    BY <1>2, <1>3
  <2> HIDE DEF more
  <2> QED
    BY <1>1, <1>2, <2>1, ConcatProperties
<1> HIDE DEF more
<1>5. SUFFICES ASSUME fails = 0 PROVE StackOK' /\ Whole'
  BY <1>1, StillRunning
<1>6. StackOK /\ Whole
  BY <1>1, <1>5 DEF TreeInv
<1>7. PICK T, S :
        /\ Sequences(T, Chunks) /\ Tower(T, levels, Low) /\ LeavesIn(T)
        /\ S \in [Nat -> Nat] /\ Counted(S, T, Len(levels), Len(sealed))
  BY <1>6 DEF Whole
<1>8. ~finalizing
  BY <1>1, <1>6 DEF StackOK
<1>9. StackOK'
  <2>1. \A l \in 1 .. Len(levels) :
          Len(levels[l]) <= MAX_BRANCHES /\ Len(levels[l]) # MAX_BRANCHES
    BY <1>1, <1>6 DEF StackOK
  <2>2. \A k \in 1 .. Len(levels) :
          levels[k] # <<>> /\ (\A j \in 1 .. (k - 1) : levels[j] = <<>>)
            => levels[k][Len(levels[k])] = sealed[Len(sealed)]
    BY <1>6 DEF StackOK
  <2>3. pc' \in {"flush", "write"} /\ (pc' = "flush" => Len(leaf_buf') = CHUNK_SIZE)
    BY <1>1
  <2> QED
    BY <1>1, <1>8, <2>1, <2>2, <2>3 DEF StackOK
<1>10. Chunks' = Chunks /\ Low' = Low
  BY <1>1, <1>8 DEF Chunks, Low
<1> DEFINE n == Len(T[1])
<1>11. n \in Nat
  <2>1. T[1] \in Seq(Chunks)
    BY <1>7 DEF Sequences, Level
  <2> QED
    BY <2>1
<1>12. /\ consumed = CHUNK_SIZE * n + Len(leaf_buf)
       /\ \A i \in 1 .. n :
            T[1][i] = Leaf(Bytes((i - 1) * CHUNK_SIZE, Lesser(i * CHUNK_SIZE, consumed)))
  BY <1>7, <1>8 DEF LeavesIn
<1> HIDE DEF n
<1> DEFINE a == CHUNK_SIZE * n
           b == Len(leaf_buf)
<1>13. a \in Nat /\ consumed = a + b
  BY <1>2, <1>11, <1>12
<1>14. \A i \in 1 .. n : i * CHUNK_SIZE \in Nat /\ i * CHUNK_SIZE <= a
  BY <1>2, <1>11, Runs
<1> HIDE DEF a, b
<1>15. consumed' = a + (b + take) /\ b \in Nat
  BY <1>1, <1>2, <1>3, <1>13 DEF b
<1>16. ASSUME NEW i \in 1 .. n
       PROVE  Lesser(i * CHUNK_SIZE, consumed') = Lesser(i * CHUNK_SIZE, consumed)
  <2> DEFINE x == i * CHUNK_SIZE
  <2>1. x \in Nat /\ x <= a
    BY <1>14
  <2> HIDE DEF x
  <2>2. Lesser(x, consumed') = x
    BY <1>3, <1>13, <1>15, <2>1 DEF Lesser
  <2>3. Lesser(x, consumed) = x
    BY <1>3, <1>13, <1>15, <2>1 DEF Lesser
  <2> QED
    BY <2>2, <2>3 DEF x
<1>17. consumed' = CHUNK_SIZE * n + Len(leaf_buf')
  <2>1. Len(leaf_buf') = b + take
    BY <1>4 DEF b
  <2> QED
    BY <1>15, <2>1 DEF a
<1>18. LeavesIn(T)'
  <2>1. ~finalizing'
    BY <1>1, <1>8
  <2> QED
    BY <1>12, <1>16, <1>17, <2>1 DEF LeavesIn, n
<1>19. Whole'
  BY <1>1, <1>7, <1>10, <1>18 DEF Whole
<1> QED
  BY <1>9, <1>19

\* Nothing moves when a call begins or ends.
LEMMA CallTree ==
  ASSUME IInv, TreeInv, (\E n \in 1 .. MaxWrite : Write(n)) \/ WriteReturn
  PROVE  TreeInv'
<1>1. /\ leaf_buf' = leaf_buf /\ levels' = levels /\ level' = level /\ scan' = scan
      /\ finalizing' = finalizing /\ consumed' = consumed /\ sealed' = sealed
      /\ fails' = fails /\ outcome' = outcome
      /\ pc \in {"idle", "write"} /\ pc' \in {"idle", "write"}
  <2>1. CASE \E n \in 1 .. MaxWrite : Write(n)
    BY <2>1 DEF Write, chunkerVars
  <2>2. CASE WriteReturn
    BY <2>2 DEF WriteReturn, chunkerVars, histVars
  <2> QED
    BY <2>1, <2>2
<1>2. SUFFICES ASSUME fails = 0 PROVE StackOK' /\ Whole'
  <2>1. pc # "done"
    BY <1>1
  <2> QED
    BY <1>1, <2>1, StillRunning
<1>3. StackOK /\ Whole
  <2>1. pc # "done"
    BY <1>1
  <2> QED
    BY <1>2, <2>1 DEF TreeInv
<1>4. ~finalizing /\ pc # "collapse" /\ pc' # "collapse" /\ pc' # "flush" /\ pc' # "scan"
  BY <1>1, <1>3 DEF StackOK
<1>5. StackOK'
  BY <1>1, <1>3, <1>4 DEF StackOK
<1>6. PICK T, S :
        /\ Sequences(T, Chunks) /\ Tower(T, levels, Low) /\ LeavesIn(T)
        /\ S \in [Nat -> Nat] /\ Counted(S, T, Len(levels), Len(sealed))
  BY <1>3 DEF Whole
<1>7. Chunks' = Chunks /\ Low' = Low
  BY <1>1, <1>4 DEF Chunks, Low
<1>8. LeavesIn(T)'
  BY <1>1, <1>4, <1>6 DEF LeavesIn
<1>9. Whole'
  BY <1>1, <1>6, <1>7, <1>8 DEF Whole
<1> QED
  BY <1>5, <1>9

\* The scan begins on the lowest level, with all the leaves there once the buffer is empty.
LEMMA FinalizeTree == IInv /\ TreeInv /\ Finalize => TreeInv'
<1> SUFFICES ASSUME IInv, TreeInv, Finalize PROVE TreeInv'
  OBVIOUS
<1>1. /\ pc = "idle" /\ leaf_buf' = leaf_buf /\ levels' = levels /\ level' = level
      /\ consumed' = consumed /\ sealed' = sealed /\ fails' = fails
  BY DEF Finalize, chunkerVars
<1>2. CASE levels = <<>> /\ leaf_buf = <<>>
  <2>1. pc' = "done" /\ outcome' = NoInput
    BY <1>2 DEF Finalize
  <2>2. outcome'.kind # "root"
    BY <2>1 DEF NoInput
  <2> QED
    BY <1>1, <2>1, <2>2 DEF TreeInv, RootIsCanonical, UploadSeesTheTree
<1>3. CASE ~(levels = <<>> /\ leaf_buf = <<>>)
  <2>1. /\ pc' = (IF leaf_buf = <<>> THEN "scan" ELSE "flush")
        /\ finalizing' = TRUE /\ scan' = 1 /\ outcome' = outcome
    BY <1>3 DEF Finalize
  <2>2. SUFFICES ASSUME fails = 0 PROVE StackOK' /\ Whole'
    BY <1>1, <2>1, StillRunning
  <2>3. StackOK /\ Whole
    BY <1>1, <2>2 DEF TreeInv
  <2>4. PICK T, S :
          /\ Sequences(T, Chunks) /\ Tower(T, levels, Low) /\ LeavesIn(T)
          /\ S \in [Nat -> Nat] /\ Counted(S, T, Len(levels), Len(sealed))
    BY <2>3 DEF Whole
  <2>5. ~finalizing
    BY <1>1, <2>3 DEF StackOK
  <2> DEFINE n == Len(T[1])
             b == Len(leaf_buf)
             N == Len(levels)
  <2>6. n \in Nat /\ b \in Nat /\ N \in Nat /\ (leaf_buf # <<>> => b >= 1)
    <3>1. T[1] \in Seq(Chunks)
      BY <2>4 DEF Sequences, Level
    <3>2. leaf_buf \in Seq(Nat)
      BY DEF IInv, BufferOK
    <3>3. N \in Nat
      BY DEF IInv, LevelsOK
    <3> QED
      BY <3>1, <3>2, <3>3
  <2>7. leaf_buf = <<>> => N >= 1 /\ n >= 1
    <3> SUFFICES ASSUME leaf_buf = <<>> PROVE N >= 1 /\ n >= 1
      OBVIOUS
    <3>1. N >= 1
      <4>1. levels # <<>> /\ levels \in Seq(Seq(Chunks))
        BY <1>3 DEF IInv, LevelsOK
      <4> QED
        BY <4>1
    <3>2. T[1] # <<>>
      <4>1. 1 \in 1 .. N
        BY <2>6, <3>1
      <4> QED
        BY <2>4, <4>1 DEF Tower
    <3>3. T[1] \in Seq(Chunks)
      BY <2>4 DEF Sequences, Level
    <3> QED
      BY <3>1, <3>2, <3>3
  <2>8. consumed = CHUNK_SIZE * n + b
    BY <2>4, <2>5 DEF LeavesIn
  <2>9. b = 0 => leaf_buf = <<>>
    BY <2>6
  <2>10. leaf_buf = <<>> => b = 0
    OBVIOUS
  <2> HIDE DEF n, b, N
  <2>11. CHUNK_SIZE \in Nat \ {0}
    BY ChunkTreeAssumption DEF ChunkTreeAssumption
  <2>12. consumed > 0
    <3>1. CASE leaf_buf = <<>>
      <4>1. CHUNK_SIZE * n \in Nat /\ 1 * CHUNK_SIZE <= CHUNK_SIZE * n /\ 1 * CHUNK_SIZE = CHUNK_SIZE
        <5>1. 1 \in 1 .. n
          BY <2>6, <2>7, <3>1
        <5> QED
          BY <2>6, <2>11, <5>1, Runs
      <4> DEFINE a == CHUNK_SIZE * n
      <4>2. a \in Nat /\ CHUNK_SIZE <= a /\ consumed = a + b
        BY <2>8, <4>1
      <4> HIDE DEF a
      <4> QED
        BY <2>6, <2>11, <4>2
    <3>2. CASE leaf_buf # <<>>
      <4> DEFINE a == CHUNK_SIZE * n
      <4>1. a \in Nat /\ consumed = a + b /\ b >= 1
        BY <2>6, <2>8, <2>11, <3>2
      <4> HIDE DEF a
      <4> QED
        BY <2>6, <4>1
    <3> QED
      BY <3>1, <3>2
  <2>13. StackOK'
    <3>1. \A l \in 1 .. Len(levels) :
            Len(levels[l]) <= MAX_BRANCHES /\ Len(levels[l]) # MAX_BRANCHES
      BY <1>1, <2>3 DEF StackOK
    <3>2. \A k \in 1 .. Len(levels) :
            levels[k] # <<>> /\ (\A j \in 1 .. (k - 1) : levels[j] = <<>>)
              => levels[k][Len(levels[k])] = sealed[Len(sealed)]
      BY <2>3 DEF StackOK
    <3>3. /\ pc' \in {"flush", "scan"}
          /\ pc' = "scan" => scan' <= Len(levels)
      BY <2>1, <2>6, <2>7 DEF N
    <3> QED
      BY <1>1, <2>1, <2>12, <3>1, <3>2, <3>3 DEF StackOK
  <2>14. Chunks' = Chunks /\ Low' = 1 /\ Low = 1
    BY <1>1, <2>1, <2>5 DEF Chunks, Low
  <2>15. leaf_buf = <<>> => n = DivCeil(consumed, CHUNK_SIZE)
    <3> SUFFICES ASSUME leaf_buf = <<>> PROVE n = DivCeil(consumed, CHUNK_SIZE)
      OBVIOUS
    <3>1. consumed = CHUNK_SIZE * n
      <4> DEFINE a == CHUNK_SIZE * n
      <4>1. a \in Nat /\ consumed = a + b /\ b = 0
        BY <2>6, <2>8, <2>10, <2>11
      <4> HIDE DEF a
      <4>2. consumed = a
        BY <4>1
      <4> QED
        BY <4>2 DEF a
    <3> QED
      BY <2>6, <2>11, <3>1, RunsCount
  <2>16. LeavesIn(T)'
    <3>1. CASE leaf_buf = <<>>
      BY <1>1, <2>1, <2>4, <2>15, <3>1 DEF LeavesIn, n
    <3>2. CASE leaf_buf # <<>>
      BY <1>1, <2>1, <2>4, <2>8, <3>2 DEF LeavesIn, n, b
    <3> QED
      BY <3>1, <3>2
  <2>17. Whole'
    BY <1>1, <2>4, <2>14, <2>16 DEF Whole
  <2> QED
    BY <2>13, <2>17
<1> QED
  BY <1>2, <1>3

\* A level that the scan leaves behind is whole.
LEMMA ScanTree == IInv /\ TreeInv /\ ScanLevel => TreeInv'
<1> SUFFICES ASSUME IInv, TreeInv, ScanLevel PROVE TreeInv'
  OBVIOUS
<1>1. /\ pc = "scan" /\ scan <= Len(levels) /\ ~AtRoot /\ scan' = scan + 1
      /\ leaf_buf' = leaf_buf /\ levels' = levels /\ finalizing' = finalizing
      /\ consumed' = consumed /\ sealed' = sealed /\ fails' = fails /\ outcome' = outcome
      /\ IF levels[scan] = <<>> THEN pc' = pc /\ level' = level
                                ELSE pc' = "collapse" /\ level' = scan
  BY DEF ScanLevel, chunkerVars, histVars
<1>2. SUFFICES ASSUME fails = 0 PROVE StackOK' /\ Whole'
  BY <1>1, StillRunning
<1>3. StackOK /\ Whole
  BY <1>1, <1>2 DEF TreeInv
<1>4. PICK T, S :
        /\ Sequences(T, Chunks) /\ Tower(T, levels, Low) /\ LeavesIn(T)
        /\ S \in [Nat -> Nat] /\ Counted(S, T, Len(levels), Len(sealed))
  BY <1>3 DEF Whole
<1> DEFINE N == Len(levels)
           refs == levels[scan]
<1>5. /\ finalizing /\ scan \in Nat /\ scan >= 1 /\ N \in Nat /\ scan \in 1 .. N
      /\ scan \in Level /\ scan + 1 \in Level
  <2>1. finalizing /\ scan \in Nat /\ scan >= 1 /\ N \in Nat
    BY <1>1 DEF IInv, CallOK, LevelsOK
  <2> QED
    BY <1>1, <2>1 DEF Level
<1>6. refs \in Seq(Chunks)
  BY <1>5 DEF IInv, LevelsOK
<1>7. Low = scan
  BY <1>1, <1>5 DEF Low
<1>8. /\ \A l \in 1 .. N : l < scan => levels[l] = <<>>
      /\ Rest(T[scan], T[scan + 1], refs)
  <2>1. scan \in 1 .. N /\ ~(scan < scan)
    BY <1>5
  <2> QED
    BY <1>4, <1>7, <2>1 DEF Tower
<1>9. /\ \A l \in 1 .. N : Len(levels[l]) <= MAX_BRANCHES /\ Len(levels[l]) # MAX_BRANCHES
      /\ \A k \in 1 .. N :
           levels[k] # <<>> /\ (\A j \in 1 .. (k - 1) : levels[j] = <<>>)
             => levels[k][Len(levels[k])] = sealed[Len(sealed)]
      /\ consumed > 0
  BY <1>1, <1>3, <1>5 DEF StackOK
<1>10. Chunks' = Chunks
  BY <1>1 DEF Chunks
<1>11. LeavesIn(T)'
  <2>1. pc # "flush" /\ pc' # "flush"
    BY <1>1
  <2> QED
    BY <1>1, <1>4, <2>1 DEF LeavesIn
<1>12. CASE refs = <<>>
  <2>1. pc' = "scan" /\ level' = level
    BY <1>1, <1>12
  <2> DEFINE m == Len(T[scan])
             n == Len(T[scan + 1])
  <2>2. n \in Nat /\ m = MAX_BRANCHES * n /\ MAX_BRANCHES \in Nat \ {0}
    <3>1. T[scan + 1] \in Seq(Chunks)
      BY <1>4, <1>5 DEF Sequences
    <3>2. n \in Nat /\ m = MAX_BRANCHES * n + Len(refs)
      BY <1>8, <3>1 DEF Rest
    <3>3. Len(refs) = 0 /\ MAX_BRANCHES \in Nat \ {0}
      <4> HIDE DEF refs
      <4> QED
        BY <1>12, ChunkTreeAssumption DEF ChunkTreeAssumption
    <3> DEFINE r == Len(refs)
    <3> HIDE DEF m, n, r
    <3>4. m = MAX_BRANCHES * n + r /\ r = 0
      BY <3>2, <3>3 DEF r
    <3>5. m = MAX_BRANCHES * n
      BY <3>2, <3>3, <3>4
    <3> QED
      BY <3>2, <3>3, <3>5
  <2>3. scan < N
    <3> SUFFICES ASSUME scan = N PROVE FALSE
      BY <1>5
    <3>1. T[scan + 1] = <<>>
      <4>1. scan + 1 > N
        BY <1>5
      <4> QED
        BY <1>4, <1>5, <4>1 DEF Tower
    <3>2. T[scan] # <<>> /\ T[scan] \in Seq(Chunks)
      BY <1>4, <1>5 DEF Tower, Sequences
    <3>3. m # 0
      BY <3>2
    <3>4. n = 0
      BY <3>1
    <3> HIDE DEF m, n
    <3> QED
      BY <2>2, <3>3, <3>4
  <2>4. Len(T[scan + 1]) = DivCeil(Len(T[scan]), MAX_BRANCHES)
    <3> HIDE DEF m, n
    <3>1. DivCeil(MAX_BRANCHES * n, MAX_BRANCHES) = n
      BY <2>2, RunsCount
    <3> QED
      BY <2>2, <3>1 DEF m, n
  <2> HIDE DEF m, n
  <2>5. Low' = scan + 1
    BY <1>1, <1>5, <2>1 DEF Low
  <2>6. Tower(T, levels, scan + 1)
    <3>1. ASSUME NEW l \in 1 .. N
          PROVE  IF l < scan + 1
                 THEN levels[l] = <<>> /\ Len(T[l + 1]) = DivCeil(Len(T[l]), MAX_BRANCHES)
                 ELSE Rest(T[l], T[l + 1], levels[l])
      <4>1. IF l < scan THEN levels[l] = <<>> /\ Len(T[l + 1]) = DivCeil(Len(T[l]), MAX_BRANCHES)
                        ELSE Rest(T[l], T[l + 1], levels[l])
        BY <1>4, <1>7 DEF Tower
      <4>2. CASE l = scan
        <5>1. l < scan + 1
          BY <1>5, <4>2
        <5> QED
          BY <1>12, <2>4, <4>2, <5>1
      <4>3. CASE l # scan
        <5>1. l < scan + 1 <=> l < scan
          BY <1>5, <4>3
        <5> QED
          BY <4>1, <5>1
      <4> QED
        BY <4>2, <4>3
    <3>2. /\ \A l \in Level : l > Len(levels) => T[l] = <<>>
          /\ \A l \in 1 .. Len(levels) : T[l] # <<>> /\ (l < Len(levels) => Len(T[l]) >= 2)
          /\ \A l \in Level : Grouped(T[l], T[l + 1])
      BY <1>4 DEF Tower
    <3> QED
      BY <3>1, <3>2 DEF Tower
  <2>7. Whole'
    BY <1>1, <1>4, <1>10, <1>11, <2>5, <2>6 DEF Whole
  <2>8. StackOK'
    <3>1. scan' <= Len(levels')
      BY <1>1, <1>5, <2>3
    <3> QED
      BY <1>1, <1>5, <1>9, <2>1, <3>1 DEF StackOK
  <2> QED
    BY <2>7, <2>8
<1>13. CASE refs # <<>>
  <2>1. pc' = "collapse" /\ level' = scan
    BY <1>1, <1>13
  <2>2. Low' = scan
    BY <1>1, <1>5, <2>1 DEF Low
  <2>3. Whole'
    BY <1>1, <1>4, <1>7, <1>10, <1>11, <2>2 DEF Whole
  <2>4. scan < N \/ Len(refs) >= 2
    <3>0. SUFFICES ASSUME scan = N PROVE Len(refs) >= 2
      BY <1>5
    <3>1. Len(refs) # 1
      BY <1>1, <3>0 DEF AtRoot
    <3> HIDE DEF refs
    <3>2. Len(refs) \in Nat /\ Len(refs) # 0
      BY <1>6, <1>13
    <3> QED
      BY <3>1, <3>2
  <2>5. \A j \in 1 .. (scan - 1) : levels[j] = <<>>
    <3>1. \A j \in 1 .. (scan - 1) : j \in 1 .. N /\ j < scan
      BY <1>5
    <3> QED
      BY <1>8, <3>1
  <2>6. StackOK'
    <3>1. level' + 1 = scan' /\ (level' < Len(levels') \/ Len(levels'[level']) >= 2)
      BY <1>1, <2>1, <2>4
    <3>2. \A j \in 1 .. (level' - 1) : levels'[j] = <<>>
      BY <1>1, <2>1, <2>5
    <3> QED
      BY <1>1, <1>5, <1>9, <2>1, <3>1, <3>2 DEF StackOK
  <2> QED
    BY <2>3, <2>6
<1> QED
  BY <1>12, <1>13

\* The scan ends on the top of a whole tower.
LEMMA RootTree == IInv /\ TreeInv /\ TakeRoot => TreeInv'
<1> SUFFICES ASSUME IInv, TreeInv, TakeRoot PROVE TreeInv'
  OBVIOUS
<1>1. /\ pc = "scan" /\ (scan > Len(levels) \/ AtRoot) /\ pc' = "done"
      /\ outcome' = (IF levels[Len(levels)] = <<>>
                     THEN Panicked ELSE Root(levels[Len(levels)][1]))
      /\ consumed' = consumed /\ sealed' = sealed /\ fails' = fails
  BY DEF TakeRoot
<1>2. SUFFICES ASSUME fails = 0, outcome'.kind = "root"
               PROVE  RootIsCanonical' /\ UploadSeesTheTree'
  BY <1>1 DEF TreeInv, RootIsCanonical, UploadSeesTheTree
<1>3. StackOK /\ Whole
  BY <1>1, <1>2 DEF TreeInv
<1>4. PICK T, S :
        /\ Sequences(T, Chunks) /\ Tower(T, levels, Low) /\ LeavesIn(T)
        /\ S \in [Nat -> Nat] /\ Counted(S, T, Len(levels), Len(sealed))
  BY <1>3 DEF Whole
<1>5. PICK h : h = Len(levels)
  OBVIOUS
<1> DEFINE refs == levels[h]
           n == Len(T[1])
<1>6. /\ finalizing /\ h \in Nat /\ h >= 1 /\ h \in 1 .. h /\ h \in Level /\ h + 1 \in Level
      /\ scan = h /\ Len(refs) = 1 /\ refs \in Seq(Chunks) /\ consumed > 0 /\ consumed \in Nat
  <2>1. /\ finalizing /\ h \in Nat /\ scan \in Nat /\ scan >= 1 /\ consumed \in Nat
    BY <1>1, <1>5 DEF IInv, CallOK, LevelsOK, BufferOK
  <2>2. scan <= h /\ consumed > 0
    BY <1>1, <1>3, <1>5, <2>1 DEF StackOK
  <2>3. scan = h /\ Len(refs) = 1
    BY <1>1, <1>5, <2>1, <2>2 DEF AtRoot
  <2>4. h \in 1 .. h /\ h \in Level /\ h + 1 \in Level
    BY <2>1, <2>2, <2>3 DEF Level
  <2>5. refs \in Seq(Chunks)
    BY <1>5, <2>4 DEF IInv, LevelsOK
  <2> QED
    BY <2>1, <2>2, <2>3, <2>4, <2>5
<1>7. outcome'.address = refs[1]
  <2>1. refs # <<>>
    <3>1. Len(refs) # 0
      BY <1>6
    <3> HIDE DEF refs
    <3> QED
      BY <3>1
  <2> QED
    BY <1>1, <1>5, <2>1 DEF Root
<1>8. Low = h
  BY <1>1, <1>6 DEF Low
<1>9. \A l \in Level : T[l] \in Seq(Chunks) /\ Len(T[l]) \in Nat
  <2>1. \A l \in Level : T[l] \in Seq(Chunks)
    BY <1>4 DEF Sequences
  <2> QED
    BY <2>1
<1>10. Len(T[h]) = 1 /\ T[h][1] = refs[1]
  <2>1. Rest(T[h], T[h + 1], refs)
    <3>1. h \in 1 .. Len(levels) /\ ~(h < Low)
      BY <1>5, <1>6, <1>8
    <3> QED
      BY <1>4, <3>1 DEF Tower
  <2>2. T[h + 1] = <<>>
    <3>1. h + 1 > Len(levels)
      BY <1>5, <1>6
    <3> QED
      BY <1>4, <1>6, <3>1 DEF Tower
  <2> DEFINE a == Len(T[h + 1])
             z == MAX_BRANCHES * a
             below == T[h]
  <2>3. a = 0
    BY <2>2
  <2>4. Len(below) = z + Len(refs) /\ \A i \in 1 .. Len(refs) : refs[i] = below[z + i]
    BY <2>1 DEF Rest
  <2> HIDE DEF a, below, refs
  <2>5. z = 0
    BY <2>3, ChunkTreeAssumption DEF ChunkTreeAssumption
  <2> HIDE DEF z
  <2>6. Len(below) = 1 /\ refs[1] = below[1]
    <3>1. 1 \in 1 .. Len(refs) /\ z + 1 = 1 /\ z + Len(refs) = 1
      BY <1>6, <2>5
    <3> QED
      BY <2>4, <3>1
  <2> QED
    BY <2>6 DEF below
<1>11. /\ \A l \in 1 .. (h - 1) :
            Len(T[l]) >= 2 /\ Len(T[l + 1]) = DivCeil(Len(T[l]), MAX_BRANCHES)
       /\ \A l \in 1 .. (h - 1) : Grouped(T[l], T[l + 1])
       /\ \A l \in 1 .. (h - 1) : levels[l] = <<>>
  <2> SUFFICES ASSUME NEW l \in 1 .. (h - 1)
               PROVE  /\ Len(T[l]) >= 2 /\ Len(T[l + 1]) = DivCeil(Len(T[l]), MAX_BRANCHES)
                      /\ Grouped(T[l], T[l + 1]) /\ levels[l] = <<>>
    OBVIOUS
  <2>1. l \in 1 .. Len(levels) /\ l < Len(levels) /\ l < Low /\ l \in Level
    BY <1>5, <1>6, <1>8 DEF Level
  <2>2. Len(T[l]) >= 2
    BY <1>4, <2>1 DEF Tower
  <2>3. levels[l] = <<>> /\ Len(T[l + 1]) = DivCeil(Len(T[l]), MAX_BRANCHES)
    BY <1>4, <2>1 DEF Tower
  <2>4. Grouped(T[l], T[l + 1])
    BY <1>4, <2>1 DEF Tower
  <2> QED
    BY <2>2, <2>3, <2>4
<1>12. /\ n = DivCeil(consumed, CHUNK_SIZE) /\ T[1] \in Seq(Chunks)
       /\ \A i \in 1 .. n :
            T[1][i] = Leaf(Bytes((i - 1) * CHUNK_SIZE, Lesser(i * CHUNK_SIZE, consumed)))
  <2>1. 1 \in Level
    BY DEF Level
  <2> QED
    BY <1>1, <1>4, <1>6, <1>9, <2>1 DEF LeavesIn
<1>13. consumed \in Nat \ {0}
  BY <1>6
<1>14. Peaked(T, h, consumed)
  <2>1. n \in 1 .. consumed
    <3> HIDE DEF n
    <3> QED
      BY <1>12, <1>13, FewerParts, ChunkTreeAssumption DEF ChunkTreeAssumption
  <2>2. \A l \in 1 .. h : Len(T[l]) \in Nat
    <3>1. \A l \in 1 .. h : l \in Level
      BY <1>6 DEF Level
    <3> QED
      BY <1>9, <3>1
  <2> QED
    BY <1>6, <1>10, <1>11, <2>1, <2>2 DEF Peaked
<1>15. T[1] = RefLeaves(Input)
  BY <1>12, <1>13, LeavesAre
<1>16. RefRoot(Input) = refs[1]
  <2>1. RefRoot(Input) = T[h][1]
    BY <1>4, <1>11, <1>13, <1>14, <1>15, TopIsRoot
  <2> QED
    BY <1>10, <2>1
<1>17. Input' = Input
  BY <1>1 DEF Input
<1>18. RootIsCanonical'
  <2>1. RefRoot(Input)' = RefRoot(Input')
    BY DEF RefRoot, RefLeaves, RefParents
  <2> QED
    BY <1>7, <1>16, <1>17, <2>1 DEF RootIsCanonical
<1>19. Len(sealed) = TotalChunksFor(consumed)
  <2>1. Counted(S, T, h, Len(sealed))
    BY <1>4, <1>5
  <2> QED
    BY <1>4, <1>12, <1>13, <1>14, <2>1, CountIsTotal
<1>20. sealed[Len(sealed)] = refs[1]
  <2>1. h \in 1 .. Len(levels) /\ levels[h] # <<>>
    BY <1>5, <1>6
  <2>2. levels[h][Len(levels[h])] = sealed[Len(sealed)]
    BY <1>3, <1>11, <2>1 DEF StackOK
  <2> QED
    BY <1>6, <2>2
<1>21. UploadSeesTheTree'
  <2>1. TotalChunksFor(consumed)' = TotalChunksFor(consumed)
    BY <1>1
  <2> QED
    BY <1>1, <1>7, <1>19, <1>20, <2>1 DEF UploadSeesTheTree
<1> QED
  BY <1>18, <1>21

\* There is no tower yet.
LEMMA InitTree == Init => TreeInv
<1> SUFFICES ASSUME Init PROVE TreeInv
  OBVIOUS
<1>1. /\ leaf_buf = <<>> /\ levels = <<>> /\ sealed = <<>> /\ consumed = 0
      /\ pc = "idle" /\ finalizing = FALSE /\ fails = 0 /\ outcome = Pending
  BY DEF Init
<1>2. outcome.kind # "root"
  BY <1>1 DEF Pending
<1>3. Len(levels) = 0
  BY <1>1
<1>4. StackOK
  BY <1>1, <1>3 DEF StackOK
<1> DEFINE e == <<>>
           T == [l \in Level |-> e]
           S == [l \in Nat |-> 0]
<1>5. e \in Seq(Chunks) /\ Len(e) = 0
  OBVIOUS
<1> HIDE DEF e
<1>6. \A l \in Level : l + 1 \in Level
  BY DEF Level
<1>7. Sequences(T, Chunks) /\ \A l \in Level : T[l] = e /\ T[l + 1] = e
  BY <1>5, <1>6 DEF Sequences
<1>8. S \in [Nat -> Nat] /\ \A l \in Nat : S[l] = 0 /\ S[l + 1] = 0
  OBVIOUS
<1> HIDE DEF T, S
<1>9. Tower(T, levels, Low)
  <2>1. \A l \in 1 .. Len(levels) : FALSE
    BY <1>3
  <2>2. \A l \in Level : Grouped(T[l], T[l + 1])
    <3> SUFFICES ASSUME NEW l \in Level PROVE Grouped(T[l], T[l + 1])
      OBVIOUS
    <3>1. \A i \in 1 .. Len(T[l + 1]) : FALSE
      BY <1>5, <1>7
    <3> QED
      BY <3>1 DEF Grouped
  <2>3. \A l \in Level : T[l] = <<>>
    BY <1>7 DEF e
  <2> QED
    BY <2>1, <2>2, <2>3 DEF Tower
<1>10. LeavesIn(T)
  <2>1. T[1] = e
    BY <1>7 DEF Level
  <2>2. \A i \in 1 .. Len(T[1]) : FALSE
    BY <1>5, <2>1
  <2>3. consumed = CHUNK_SIZE * Len(T[1]) + Len(leaf_buf)
    <3>1. Len(leaf_buf) = 0 /\ Len(T[1]) = 0 /\ CHUNK_SIZE * 0 = 0
      BY <1>1, <1>5, <2>1, ChunkTreeAssumption DEF ChunkTreeAssumption
    <3> QED
      BY <1>1, <3>1
  <2> QED
    BY <1>1, <2>2, <2>3 DEF LeavesIn
<1>11. Counted(S, T, Len(levels), Len(sealed))
  <2>1. S[0] = Len(sealed)
    BY <1>1, <1>8
  <2>2. ASSUME NEW l \in Nat
        PROVE  S[l] = Len(T[l + 1]) + S[l + 1] /\ (l >= Len(levels) => S[l] = 0)
    <3>1. l + 1 \in Level
      BY DEF Level
    <3>2. Len(T[l + 1]) = 0
      BY <1>5, <1>7, <3>1
    <3> QED
      BY <1>8, <3>2
  <2> QED
    BY <2>1, <2>2 DEF Counted
<1>12. Whole
  BY <1>7, <1>8, <1>9, <1>10, <1>11 DEF Whole
<1> QED
  BY <1>1, <1>2, <1>4, <1>12 DEF TreeInv, RootIsCanonical, UploadSeesTheTree

\* Where nothing changes nothing is lost.
LEMMA StillTree == TreeInv /\ UNCHANGED vars => TreeInv'
<1> SUFFICES ASSUME TreeInv, UNCHANGED vars PROVE TreeInv'
  OBVIOUS
<1>1. /\ leaf_buf' = leaf_buf /\ levels' = levels /\ pc' = pc /\ level' = level /\ scan' = scan
      /\ finalizing' = finalizing /\ consumed' = consumed /\ sealed' = sealed
      /\ fails' = fails /\ outcome' = outcome
  BY DEF vars
<1>2. Chunks' = Chunks /\ Low' = Low /\ Input' = Input
  BY <1>1 DEF Chunks, Low, Input
<1>3. StackOK => StackOK'
  BY <1>1 DEF StackOK
<1>4. Whole => Whole'
  <2> SUFFICES ASSUME Whole PROVE Whole'
    OBVIOUS
  <2>1. PICK T, S :
          /\ Sequences(T, Chunks) /\ Tower(T, levels, Low) /\ LeavesIn(T)
          /\ S \in [Nat -> Nat] /\ Counted(S, T, Len(levels), Len(sealed))
    BY DEF Whole
  <2>2. LeavesIn(T)'
    BY <1>1, <2>1 DEF LeavesIn
  <2> QED
    BY <1>1, <1>2, <2>1, <2>2 DEF Whole
<1>5. RefRoot(Input)' = RefRoot(Input) /\ TotalChunksFor(consumed)' = TotalChunksFor(consumed)
  BY <1>1, <1>2
<1>6. RootIsCanonical' /\ UploadSeesTheTree'
  BY <1>1, <1>5 DEF TreeInv, RootIsCanonical, UploadSeesTheTree
<1> QED
  BY <1>1, <1>3, <1>4, <1>6 DEF TreeInv

\* Every turn of every call keeps the tower.
LEMMA TreeStep == IInv /\ TreeInv /\ [Next]_vars => TreeInv'
<1> SUFFICES ASSUME IInv, TreeInv, [Next]_vars PROVE TreeInv'
  OBVIOUS
<1>1. CASE (\E n \in 1 .. MaxWrite : Write(n)) \/ WriteReturn
  BY <1>1, CallTree
<1>2. CASE WriteLoop
  BY <1>2, WriteLoopTree
<1>3. CASE Finalize
  BY <1>3, FinalizeTree
<1>4. CASE FlushLeaf
  BY <1>4, FlushTree
<1>5. CASE CollapseLevel
  BY <1>5, CollapseTree
<1>6. CASE ScanLevel
  BY <1>6, ScanTree
<1>7. CASE TakeRoot
  BY <1>7, RootTree
<1>8. CASE Finished \/ UNCHANGED vars
  BY <1>8, StillTree DEF Finished
<1> QED
  BY <1>1, <1>2, <1>3, <1>4, <1>5, <1>6, <1>7, <1>8 DEF Next, Step

\* However the input is cut into writes, the root that finalize returns is that of the
\* reference tree over the whole of it, unless a chunk was refused.
THEOREM RootIsTheTrees == Spec => []RootIsCanonical
<1>1. TreeInv => RootIsCanonical
  BY DEF TreeInv
<1> QED
  BY <1>1, InitOK, StepOK, InitTree, TreeStep, PTL DEF Spec

\* The number of chunks that is told from the length is the number that is sealed, and
\* the last that is sealed is the root.
THEOREM TotalIsTheTrees == Spec => []UploadSeesTheTree
<1>1. TreeInv => UploadSeesTheTree
  BY DEF TreeInv
<1> QED
  BY <1>1, InitOK, StepOK, InitTree, TreeStep, PTL DEF Spec

=============================================================================
