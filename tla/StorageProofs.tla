---------------------------- MODULE StorageProofs ----------------------------
(***************************************************************************)
(* Proofs about buying and extending storage, for any breakpoint table     *)
(* that has no gap and does not decrease, and any programs: sizes stay     *)
(* covered, what is quoted is what is charged, and durations add up.       *)
(* Then about conversions: what is typed, rendered or encoded reads back,  *)
(* for any precisions, widths and texts.                                   *)
(***************************************************************************)
EXTENDS Storage, Conversions, SequenceTheorems, FiniteSetTheorems, FunctionTheorems,
  WellFoundedInduction, TLAPS

Depths == Table \cup {FALLBACK_DEPTH}

BatchOK(found) ==
  /\ DOMAIN found = {"live", "depth", "amount", "usable"}
  /\ found.live => found.depth \in Depths

\* A purchase writes the depth of its size; an extension writes to a batch there is.
JobOK(j, stamps) ==
  /\ DOMAIN j = {"op", "pc", "b", "arg", "ticks", "price", "depth", "amount", "value"}
  /\ j.arg \in Nat
  /\ j.op \in {"none", "buy", "storage_cost"} \/ j.b \in Batch
  /\ j.op \in {"none", "buy", "storage_cost"} => j.pc # "batch"
  /\ j.pc = "write" /\ j.op = "buy" => j.depth = DepthForSize(j.arg)
  /\ j.pc = "write" /\ j.op = "extend_size" => stamps[j.b].live

\* Every size that was promised has at least its depth.
PromisesOK(sizes, found) ==
  \A s \in sizes : s \in Nat /\ found.live /\ (Covered(s) => DepthForSize(s) <= found.depth)

\* The first three say no more than that these are functions on their sets.
IInv ==
  /\ batch \in [Batch -> {batch[b] : b \in Batch}]
  /\ job \in [Client -> {job[c] : c \in Client}]
  /\ promised \in [Batch -> {promised[b] : b \in Batch}]
  /\ \A b \in Batch : BatchOK(batch[b]) /\ PromisesOK(promised[b], batch[b])
  /\ \A c \in Client : JobOK(job[c], batch)

-----------------------------------------------------------------------------
(* The table.                                                              *)

\* The depths of the table are numbers below the one beyond it.
LEMMA TableDepths == Table \subseteq Nat /\ FALLBACK_DEPTH \in Nat
<1>1. Table \subseteq 0 .. FALLBACK_DEPTH - 1 /\ FALLBACK_DEPTH \in Nat
  BY StampMathAssumption DEF StampMathAssumption
<1> QED
  BY <1>1

\* A set of numbers that is not empty has a least one.
LEMMA LeastExists ==
  ASSUME NEW S \in SUBSET Nat, S # {}
  PROVE  \E n \in S : \A m \in S : n <= m
<1> DEFINE Less == OpToRel(<, Nat)
<1>1. IsWellFoundedOn(Less, Nat)
  BY NatLessThanWellFounded
<1>2. \A x, y \in Nat : <<x, y>> \in Less <=> x < y
  BY DEF OpToRel
<1> HIDE DEF Less
<1>3. PICK n \in S : \A m \in S : ~ (<<m, n>> \in Less)
  BY <1>1, WFMin
<1>4. \A m \in S : m \in Nat /\ n \in Nat /\ ~ (m < n)
  BY <1>2, <1>3
<1> QED
  BY <1>4

\* A size the table covers gets a depth of the table that holds it.
LEMMA DepthHolds ==
  ASSUME NEW size, Covered(size)
  PROVE  DepthForSize(size) \in Table /\ size <= Breakpoint[DepthForSize(size)]
<1> DEFINE S == {d \in Table : size <= Breakpoint[d]}
<1>1. S # {} /\ S \in SUBSET Nat
  BY TableDepths DEF Covered
<1>2. PICK n \in S : \A m \in S : n <= m
  BY <1>1, LeastExists
<1>3. n \in Table /\ size <= Breakpoint[n] /\ \A e \in Table : size <= Breakpoint[e] => n <= e
  BY <1>2
<1>4. \E d \in Table : size <= Breakpoint[d] /\ \A e \in Table : size <= Breakpoint[e] => d <= e
  BY <1>3
<1> QED
  BY <1>4 DEF DepthForSize

\* Every size gets a depth of the table or the one beyond it.
LEMMA DepthOfSize ==
  ASSUME NEW size
  PROVE  DepthForSize(size) \in Depths /\ DepthForSize(size) \in Nat
<1>1. CASE Covered(size)
  BY <1>1, DepthHolds, TableDepths DEF Depths
<1>2. CASE ~Covered(size)
  BY <1>2, TableDepths DEF DepthForSize, Depths
<1> QED
  BY <1>1, <1>2

\* A batch of that depth, or of a larger one, holds the size.
LEMMA DeeperHolds ==
  ASSUME NEW size \in Nat, Covered(size), NEW depth \in Depths, DepthForSize(size) <= depth
  PROVE  size <= EffectiveBytes(depth)
<1> DEFINE d == DepthForSize(size)
<1>1. d \in Table /\ size <= Breakpoint[d]
  BY DepthHolds
<1> HIDE DEF d
<1>2. CASE depth \in Table
  <2>1. d <= depth
    BY DEF d
  <2>2. Breakpoint[d] <= Breakpoint[depth] /\ Breakpoint[d] \in Nat /\ Breakpoint[depth] \in Nat
    BY <1>1, <1>2, <2>1, StampMathAssumption DEF StampMathAssumption
  <2>3. EffectiveBytes(depth) = Breakpoint[depth]
    BY <1>2 DEF EffectiveBytes
  <2> QED
    BY <1>1, <2>2, <2>3
<1>3. CASE depth = FALLBACK_DEPTH /\ depth \notin Table
  <2>1. FALLBACK_DEPTH \in FALLBACK_DEPTH .. MAX_DEPTH
    BY StampMathAssumption DEF StampMathAssumption
  <2>2. Breakpoint[d] <= EffectiveBytes(FALLBACK_DEPTH) /\ Breakpoint[d] \in Nat
    BY <1>1, <2>1, StampMathAssumption DEF StampMathAssumption
  <2>3. EffectiveBytes(FALLBACK_DEPTH) \in Int
    <3>1. EffectiveBytes(FALLBACK_DEPTH) = (TheoreticalBytes(FALLBACK_DEPTH) * 9) \div 10
      BY <1>3, StampMathAssumption DEF EffectiveBytes, StampMathAssumption
    <3>2. TheoreticalBytes(FALLBACK_DEPTH) \in Int
      BY StampMathAssumption DEF TheoreticalBytes, StampMathAssumption
    <3> QED
      BY <3>1, <3>2
  <2> QED
    BY <1>1, <1>3, <2>2, <2>3
<1> QED
  BY <1>2, <1>3 DEF Depths

\* The invariant is why a promised size is covered.
LEMMA PromisesHold == IInv => SizesCovered
<1> SUFFICES ASSUME IInv, NEW b \in Batch, NEW s \in promised[b], Covered(s)
             PROVE  s <= EffectiveBytes(batch[b].depth)
  BY DEF SizesCovered
<1>1. /\ s \in Nat /\ batch[b].depth \in Depths /\ DepthForSize(s) <= batch[b].depth
  BY DEF IInv, PromisesOK, BatchOK
<1> QED
  BY <1>1, DeeperHolds

-----------------------------------------------------------------------------
(* The helpers.                                                            *)

\* A call that goes on to a state that is in order leaves the others as they were.
LEMMA GoesOn ==
  ASSUME IInv, NEW c \in Client, NEW j, Goto(c, j), JobOK(j, batch)
  PROVE  /\ job' \in [Client -> {job'[d] : d \in Client}]
         /\ \A d \in Client : JobOK(job'[d], batch)
<1>1. job' = [job EXCEPT ![c] = j] /\ DOMAIN job = Client
  BY DEF Goto, IInv
<1>2. \A d \in Client : job'[d] = IF d = c THEN j ELSE job[d]
  BY <1>1
<1> QED
  BY <1>1, <1>2 DEF IInv

\* A call that changes nothing but its own state leaves the invariant as it is.
LEMMA OnlyGoesOn ==
  ASSUME IInv, NEW c \in Client, NEW j, Goto(c, j), JobOK(j, batch),
         batch' = batch, promised' = promised
  PROVE  IInv'
  BY GoesOn DEF IInv

\* Every helper begins in order, with a read.
LEMMA CallOK ==
  ASSUME IInv, NEW c \in Client, NEW j, Call(c, j), JobOK(j, batch)
  PROVE  IInv'
<1>1. Goto(c, j) /\ batch' = batch /\ promised' = promised
  BY DEF Call
<1> QED
  BY <1>1, OnlyGoesOn

\* So do a purchase and the preview of one,
LEMMA BuyOK ==
  ASSUME IInv, NEW c \in Client, NEW t, NEW s \in Size,
         BuyStorage(c, s, t) \/ StorageCost(c, s, t)
  PROVE  IInv'
<1>1. s \in Nat
  BY StorageAssumption DEF StorageAssumption
<1>2. CASE BuyStorage(c, s, t)
  <2> DEFINE j == [Idle EXCEPT !.op = "buy", !.pc = "price", !.arg = s, !.ticks = t]
  <2>1. JobOK(j, batch)
    BY <1>1 DEF JobOK, Idle
  <2> QED
    BY <1>2, <2>1, CallOK DEF BuyStorage
<1>3. CASE StorageCost(c, s, t)
  <2> DEFINE j == [Idle EXCEPT !.op = "storage_cost", !.pc = "price", !.arg = s, !.ticks = t]
  <2>1. JobOK(j, batch)
    BY <1>1 DEF JobOK, Idle
  <2> QED
    BY <1>3, <2>1, CallOK DEF StorageCost
<1> QED
  BY <1>2, <1>3

\* and what is asked of a batch there may be.
LEMMA ExtendOK ==
  ASSUME IInv, NEW c \in Client, NEW b \in Batch, NEW t,
         NEW s \in Nat, NEW op \in {"extend_size", "size_cost", "top_up_to"},
         \/ Refill(c, b, t) \/ ExtendDuration(c, b, t) \/ DurationCost(c, b, t)
         \/ OfBatch(c, op, b, s)
  PROVE  IInv'
<1>1. CASE Refill(c, b, t)
  <2> DEFINE j == [Idle EXCEPT !.op = "refill", !.pc = "price", !.b = b, !.ticks = t]
  <2>1. JobOK(j, batch)
    BY DEF JobOK, Idle
  <2> QED
    BY <1>1, <2>1, CallOK DEF Refill
<1>2. CASE ExtendDuration(c, b, t)
  <2> DEFINE j == [Idle EXCEPT !.op = "extend_duration", !.pc = "price", !.b = b, !.ticks = t]
  <2>1. JobOK(j, batch)
    BY DEF JobOK, Idle
  <2> QED
    BY <1>2, <2>1, CallOK DEF ExtendDuration
<1>3. CASE DurationCost(c, b, t)
  <2> DEFINE j == [Idle EXCEPT !.op = "duration_cost", !.pc = "batch", !.b = b, !.ticks = t]
  <2>1. JobOK(j, batch)
    BY DEF JobOK, Idle
  <2> QED
    BY <1>3, <2>1, CallOK DEF DurationCost
<1>4. CASE OfBatch(c, op, b, s)
  <2> DEFINE j == [Idle EXCEPT !.op = op, !.pc = "batch", !.b = b, !.arg = s]
  <2>1. JobOK(j, batch)
    BY DEF JobOK, Idle
  <2> QED
    BY <1>4, <2>1, CallOK DEF OfBatch
<1> QED
  BY <1>1, <1>2, <1>3, <1>4

\* With the price read a purchase knows its depth.
LEMMA ReadPriceOK ==
  ASSUME IInv, NEW c \in Client, ReadPrice(c)
  PROVE  IInv'
<1> DEFINE j == [job[c] EXCEPT !.price = price, !.amount = AmountFor(price, job[c].ticks)]
<1>1. JobOK(job[c], batch) /\ job[c].pc = "price" /\ batch' = batch /\ promised' = promised
  BY DEF IInv, ReadPrice
<1>2. /\ DOMAIN j = DOMAIN job[c] /\ j.op = job[c].op /\ j.pc = job[c].pc
      /\ j.b = job[c].b /\ j.arg = job[c].arg /\ j.depth = job[c].depth
  BY <1>1 DEF JobOK
<1>3. JobOK(j, batch)
  BY <1>1, <1>2 DEF JobOK
<1>4. Goto(c, CASE j.op = "buy" -> [j EXCEPT !.pc = "write", !.depth = DepthForSize(j.arg)]
                [] j.op = "extend_duration" -> [j EXCEPT !.pc = "write"]
                [] j.op = "storage_cost" ->
                     Ok(j, StampCost(DepthForSize(j.arg), j.amount))
                [] j.op = "refill" -> [j EXCEPT !.pc = "batch"]
                [] OTHER -> Ok(j, StampCost(j.depth, j.amount)))
  BY DEF ReadPrice
<1> HIDE DEF j
<1>5. CASE j.op = "buy"
  <2> DEFINE k == [j EXCEPT !.pc = "write", !.depth = DepthForSize(j.arg)]
  <2>1. JobOK(k, batch)
    BY <1>3, <1>5 DEF JobOK
  <2>2. Goto(c, k)
    BY <1>4, <1>5
  <2> QED
    BY <1>1, <2>1, <2>2, OnlyGoesOn
<1>6. CASE j.op = "extend_duration"
  <2> DEFINE k == [j EXCEPT !.pc = "write"]
  <2>1. JobOK(k, batch)
    BY <1>3, <1>6 DEF JobOK
  <2>2. Goto(c, k)
    BY <1>4, <1>6
  <2> QED
    BY <1>1, <2>1, <2>2, OnlyGoesOn
<1>7. CASE j.op = "refill"
  <2> DEFINE k == [j EXCEPT !.pc = "batch"]
  <2>1. JobOK(k, batch)
    BY <1>3, <1>7 DEF JobOK
  <2>2. Goto(c, k)
    BY <1>4, <1>7
  <2> QED
    BY <1>1, <2>1, <2>2, OnlyGoesOn
<1>8. CASE j.op \notin {"buy", "extend_duration", "refill"}
  <2>1. ASSUME NEW v PROVE JobOK(Ok(j, v), batch)
    BY <1>3 DEF Ok, JobOK
  <2>2. \E v : Goto(c, Ok(j, v))
    BY <1>4, <1>8
  <2> QED
    BY <1>1, <2>1, <2>2, OnlyGoesOn
<1> QED
  BY <1>5, <1>6, <1>7, <1>8

\* A batch that was found deep enough for a size is promised to cover it.
LEMMA ReadBatchOK ==
  ASSUME IInv, NEW c \in Client, NEW reported \in BOOLEAN, ReadBatch(c, reported)
  PROVE  IInv'
<1> DEFINE found == batch[job[c].b]
           j     == [job[c] EXCEPT !.depth = found.depth, !.amount = found.amount]
           next  == CASE j.op = "duration_cost" -> [j EXCEPT !.pc = "price"]
                      [] j.op = "refill" ->
                           Ok(j, StampCost(j.depth, RefillAmount(j.price, j.ticks)))
                      [] j.op = "extend_size" ->
                           IF DeepEnough(j, j.depth) THEN Ok(j, 0) ELSE [j EXCEPT !.pc = "write"]
                      [] j.op = "size_cost" ->
                           IF DeepEnough(j, j.depth) THEN Ok(j, 0)
                           ELSE IF ~reported THEN Err(j)
                           ELSE Ok(j, SizeCost(j.depth, j.amount, DepthForSize(j.arg)))
                      [] OTHER ->
                           IF ~reported THEN Err(j)
                           ELSE [j EXCEPT !.pc = "write", !.value = Missing(j.arg, j.amount)]
<1>1. /\ JobOK(job[c], batch) /\ job[c].pc = "batch" /\ batch' = batch /\ found.live
      /\ Goto(c, next)
      /\ promised' = IF j.op = "extend_size" /\ DeepEnough(j, j.depth)
                     THEN [promised EXCEPT ![j.b] = @ \cup {j.arg}] ELSE promised
  BY DEF IInv, ReadBatch
<1>2. /\ DOMAIN j = DOMAIN job[c] /\ j.op = job[c].op /\ j.pc = job[c].pc
      /\ j.b = job[c].b /\ j.arg = job[c].arg /\ j.depth = found.depth
  BY <1>1 DEF JobOK
<1>3. /\ j.b \in Batch /\ j.arg \in Nat
      /\ j.op \notin {"none", "buy", "storage_cost"} /\ batch[j.b].live
      /\ DOMAIN j = {"op", "pc", "b", "arg", "ticks", "price", "depth", "amount", "value"}
  BY <1>1, <1>2 DEF JobOK
<1>4. found = batch[j.b]
  BY <1>2
<1> HIDE DEF j, found
<1>5. JobOK(next, batch)
  <2>1. ASSUME NEW pc \in {"price", "write"} PROVE JobOK([j EXCEPT !.pc = pc], batch)
    BY <1>3 DEF JobOK
  <2>2. ASSUME NEW v PROVE JobOK(Ok(j, v), batch)
    BY <1>3 DEF Ok, JobOK
  <2>3. JobOK(Err(j), batch)
    BY <1>3 DEF Err, JobOK
  <2>4. ASSUME NEW v PROVE JobOK([j EXCEPT !.pc = "write", !.value = v], batch)
    BY <1>3 DEF JobOK
  <2>5. \/ \E pc \in {"price", "write"} : next = [j EXCEPT !.pc = pc]
        \/ \E v : next = Ok(j, v)
        \/ next = Err(j)
        \/ \E v : next = [j EXCEPT !.pc = "write", !.value = v]
    OBVIOUS
  <2> QED
    BY <2>1, <2>2, <2>3, <2>4, <2>5
<1> HIDE DEF next
<1>6. /\ job' \in [Client -> {job'[d] : d \in Client}]
      /\ \A d \in Client : JobOK(job'[d], batch')
  BY <1>1, <1>5, GoesOn
<1>7. CASE j.op = "extend_size" /\ DeepEnough(j, j.depth)
  <2>1. promised' = [promised EXCEPT ![j.b] = @ \cup {j.arg}] /\ DOMAIN promised = Batch
    BY <1>1, <1>7 DEF IInv
  <2>2. \A b \in Batch : promised'[b] = IF b = j.b THEN promised[b] \cup {j.arg} ELSE promised[b]
    BY <2>1
  <2>3. DepthForSize(j.arg) <= batch[j.b].depth
    BY <1>2, <1>4, <1>7 DEF DeepEnough
  <2>4. ASSUME NEW b \in Batch PROVE PromisesOK(promised'[b], batch[b])
    <3>1. PromisesOK(promised[b], batch[b])
      BY DEF IInv
    <3> QED
      BY <1>3, <2>2, <2>3, <3>1 DEF PromisesOK
  <2>5. promised' \in [Batch -> {promised'[b] : b \in Batch}]
    BY <2>1
  <2> QED
    BY <1>1, <1>6, <2>4, <2>5 DEF IInv
<1>8. CASE ~(j.op = "extend_size" /\ DeepEnough(j, j.depth))
  <2>1. promised' = promised
    BY <1>1, <1>8
  <2> QED
    BY <1>1, <1>6, <2>1 DEF IInv
<1> QED
  BY <1>7, <1>8

\* A helper that fails, is refused, or sees its batch promises nothing more.
LEMMA ReturnOK ==
  ASSUME IInv, NEW c \in Client, Fails(c) \/ DiluteRefused(c) \/ Poll(c)
  PROVE  IInv'
<1>1. JobOK(job[c], batch) /\ batch' = batch /\ promised' = promised
  BY DEF IInv, Fails, DiluteRefused, Poll
<1>2. JobOK(Err(job[c]), batch) /\ JobOK([job[c] EXCEPT !.pc = "ok"], batch)
  BY <1>1 DEF Err, JobOK
<1>3. Goto(c, Err(job[c])) \/ Goto(c, [job[c] EXCEPT !.pc = "ok"])
  BY DEF Fails, DiluteRefused, Poll
<1> QED
  BY <1>1, <1>2, <1>3, OnlyGoesOn

-----------------------------------------------------------------------------
(* The writes.                                                             *)

\* A batch that gets no shallower keeps its promises, and the helpers in order.
LEMMA BatchMoves ==
  ASSUME IInv, NEW b \in Batch, NEW found, batch' = [batch EXCEPT ![b] = found],
         BatchOK(found), batch[b].live => found.live /\ batch[b].depth <= found.depth
  PROVE  /\ batch' \in [Batch -> {batch'[a] : a \in Batch}]
         /\ \A a \in Batch : BatchOK(batch'[a]) /\ PromisesOK(promised[a], batch'[a])
         /\ \A c \in Client : JobOK(job[c], batch')
         /\ batch'[b] = found
<1>1. DOMAIN batch = Batch /\ DOMAIN batch' = Batch
  BY DEF IInv
<1>2. \A a \in Batch : batch'[a] = IF a = b THEN found ELSE batch[a]
  BY <1>1
<1>3. batch' \in [Batch -> {batch'[a] : a \in Batch}]
  BY <1>1
<1>4. ASSUME NEW a \in Batch
      PROVE  /\ BatchOK(batch'[a]) /\ PromisesOK(promised[a], batch'[a])
             /\ batch[a].live => batch'[a].live
  <2>1. BatchOK(batch[a]) /\ PromisesOK(promised[a], batch[a])
    BY DEF IInv
  <2>2. CASE a # b
    BY <1>2, <2>1, <2>2
  <2>3. CASE a = b
    <3>1. \A s \in promised[b] : Covered(s) => DepthForSize(s) <= found.depth
      <4> SUFFICES ASSUME NEW s \in promised[b], Covered(s)
                   PROVE  DepthForSize(s) <= found.depth
        OBVIOUS
      <4>1. /\ DepthForSize(s) <= batch[b].depth /\ batch[b].depth <= found.depth
            /\ batch[b].depth \in Depths /\ found.depth \in Depths
        BY <2>1, <2>3 DEF PromisesOK, BatchOK
      <4>2. /\ batch[b].depth \in Nat /\ found.depth \in Nat /\ DepthForSize(s) \in Nat
        BY <4>1, DepthOfSize, TableDepths DEF Depths
      <4> QED
        BY <4>1, <4>2
    <3> QED
      BY <1>2, <2>1, <2>3, <3>1 DEF PromisesOK
  <2> QED
    BY <2>2, <2>3
<1>5. ASSUME NEW c \in Client PROVE JobOK(job[c], batch')
  <2>1. JobOK(job[c], batch)
    BY DEF IInv
  <2> QED
    BY <1>4, <2>1 DEF JobOK
<1> QED
  BY <1>2, <1>3, <1>4, <1>5

\* A write that answers Ok may promise the size it was for.
LEMMA WriteOK ==
  ASSUME IInv, NEW b \in Batch, NEW found, batch' = [batch EXCEPT ![b] = found],
         BatchOK(found), batch[b].live => found.live /\ batch[b].depth <= found.depth,
         NEW c \in Client, NEW j, Goto(c, j), JobOK(j, batch'),
         \/ promised' = promised
         \/ \E s \in Nat : /\ promised' = [promised EXCEPT ![b] = @ \cup {s}]
                           /\ found.live /\ DepthForSize(s) <= found.depth
  PROVE  IInv'
<1>1. /\ batch' \in [Batch -> {batch'[a] : a \in Batch}]
      /\ \A a \in Batch : BatchOK(batch'[a]) /\ PromisesOK(promised[a], batch'[a])
      /\ \A d \in Client : JobOK(job[d], batch')
      /\ batch'[b] = found
  BY BatchMoves
<1>2. /\ job' \in [Client -> {job'[d] : d \in Client}]
      /\ \A d \in Client : JobOK(job'[d], batch')
  <2>1. job' = [job EXCEPT ![c] = j] /\ DOMAIN job = Client
    BY DEF Goto, IInv
  <2>2. \A d \in Client : job'[d] = IF d = c THEN j ELSE job[d]
    BY <2>1
  <2> QED
    BY <1>1, <2>1, <2>2
<1>3. CASE promised' = promised
  BY <1>1, <1>2, <1>3 DEF IInv
<1>4. ASSUME NEW s \in Nat, promised' = [promised EXCEPT ![b] = @ \cup {s}],
             found.live, DepthForSize(s) <= found.depth
      PROVE  IInv'
  <2>1. DOMAIN promised = Batch
    BY DEF IInv
  <2>2. \A a \in Batch : promised'[a] = IF a = b THEN promised[b] \cup {s} ELSE promised[a]
    BY <1>4, <2>1
  <2>3. ASSUME NEW a \in Batch PROVE PromisesOK(promised'[a], batch'[a])
    BY <1>1, <1>4, <2>2 DEF PromisesOK
  <2>4. promised' \in [Batch -> {promised'[a] : a \in Batch}]
    BY <1>4, <2>1
  <2> QED
    BY <1>1, <1>2, <2>3, <2>4 DEF IInv
<1> QED
  BY <1>3, <1>4

\* A purchase gets the depth of its size.
LEMMA CreateOK ==
  ASSUME IInv, NEW c \in Client, NEW b \in Batch, NEW arrives \in BOOLEAN,
         Create(c, b, arrives)
  PROVE  IInv'
<1> DEFINE j     == job[c]
           found == [live |-> TRUE, depth |-> j.depth, amount |-> j.amount, usable |-> FALSE]
           k     == IF arrives THEN [j EXCEPT !.pc = "poll", !.b = b] ELSE Err(j)
<1>1. /\ JobOK(j, batch) /\ j.pc = "write" /\ j.op = "buy" /\ ~batch[b].live
      /\ batch' = [batch EXCEPT ![b] = found] /\ Goto(c, k)
      /\ promised' = IF arrives THEN [promised EXCEPT ![b] = @ \cup {j.arg}] ELSE promised
  BY DEF IInv, Create
<1>2. j.depth = DepthForSize(j.arg) /\ j.arg \in Nat
  BY <1>1 DEF JobOK
<1>3. BatchOK(found) /\ found.live /\ found.depth = j.depth
  BY <1>2, DepthOfSize DEF BatchOK
<1>4. JobOK(k, batch')
  <2>1. ASSUME NEW stamps PROVE JobOK([j EXCEPT !.pc = "poll", !.b = b], stamps)
    BY <1>1 DEF JobOK
  <2>2. ASSUME NEW stamps PROVE JobOK(Err(j), stamps)
    BY <1>1 DEF JobOK, Err
  <2> QED
    BY <2>1, <2>2
<1>5. DepthForSize(j.arg) <= found.depth
  BY <1>2, <1>3, DepthOfSize
<1> HIDE DEF j, found, k
<1> QED
  BY <1>1, <1>2, <1>3, <1>4, <1>5, WriteOK

\* A top-up leaves the depth alone.
LEMMA TopUpOK ==
  ASSUME IInv, NEW c \in Client, NEW arrives \in BOOLEAN, TopUp(c, arrives)
  PROVE  IInv'
<1> DEFINE j     == job[c]
           by    == IF j.op = "extend_duration" THEN j.amount ELSE j.value
           found == [batch[j.b] EXCEPT !.amount = @ + by]
           k     == IF arrives THEN [j EXCEPT !.pc = "ok"] ELSE Err(j)
<1>1. /\ JobOK(j, batch) /\ j.op \in {"extend_duration", "top_up_to"}
      /\ promised' = promised /\ Goto(c, k)
      /\ batch' = [batch EXCEPT ![j.b] = found]
  BY DEF IInv, TopUp, Answer
<1>2. j.b \in Batch
  BY <1>1 DEF JobOK
<1>3. BatchOK(batch[j.b])
  BY <1>2 DEF IInv
<1>4. BatchOK(found) /\ found.live = batch[j.b].live /\ found.depth = batch[j.b].depth
  BY <1>3 DEF BatchOK
<1>5. JobOK(k, batch')
  <2>1. ASSUME NEW stamps PROVE JobOK([j EXCEPT !.pc = "ok"], stamps) /\ JobOK(Err(j), stamps)
    BY <1>1 DEF JobOK, Err
  <2> QED
    BY <2>1
<1>6. batch[j.b].live => found.live /\ batch[j.b].depth <= found.depth
  BY <1>3, <1>4, TableDepths DEF BatchOK, Depths
<1> HIDE DEF j, by, found, k
<1> QED
  BY <1>1, <1>2, <1>4, <1>5, <1>6, WriteOK

\* A dilution is carried out only if it makes the batch deeper, whatever the depth was
\* when it was read.
LEMMA DiluteOK ==
  ASSUME IInv, NEW c \in Client, NEW arrives \in BOOLEAN, Dilute(c, arrives)
  PROVE  IInv'
<1> DEFINE j      == job[c]
           target == DepthForSize(j.arg)
           found  == [batch[j.b] EXCEPT !.depth = target,
                                        !.amount = @ \div 2^(target - batch[j.b].depth)]
           k      == IF arrives THEN [j EXCEPT !.pc = "ok"] ELSE Err(j)
<1>1. /\ JobOK(j, batch) /\ j.op = "extend_size" /\ j.pc = "write"
      /\ target > batch[j.b].depth /\ Goto(c, k)
      /\ promised' = IF arrives THEN [promised EXCEPT ![j.b] = @ \cup {j.arg}] ELSE promised
  BY DEF IInv, Dilute, Answer
<1>2. j.b \in Batch /\ j.arg \in Nat /\ batch[j.b].live
  BY <1>1 DEF JobOK
<1>3. BatchOK(batch[j.b]) /\ DOMAIN batch = Batch
  BY <1>2 DEF IInv
<1>4. batch' = [batch EXCEPT ![j.b] = found]
  BY <1>2, <1>3 DEF Dilute
<1>5. BatchOK(found) /\ found.live = batch[j.b].live /\ found.depth = target
  BY <1>3, DepthOfSize DEF BatchOK
<1>6. JobOK(k, batch')
  <2>1. ASSUME NEW stamps PROVE JobOK([j EXCEPT !.pc = "ok"], stamps) /\ JobOK(Err(j), stamps)
    BY <1>1 DEF JobOK, Err
  <2> QED
    BY <2>1
<1>7. target \in Nat /\ batch[j.b].depth \in Nat
  BY <1>2, <1>3, DepthOfSize, TableDepths DEF BatchOK, Depths
<1> HIDE DEF j, k
<1>8. found.live /\ batch[j.b].depth <= found.depth /\ DepthForSize(j.arg) <= found.depth
  BY <1>1, <1>2, <1>5, <1>7
<1> HIDE DEF target, found
<1> QED
  BY <1>1, <1>2, <1>4, <1>5, <1>6, <1>8, WriteOK

\* A purchase that is mined keeps its depth.
LEMMA UsableOK ==
  ASSUME IInv, NEW b \in Batch, BecomesUsable(b)
  PROVE  IInv'
<1> DEFINE found == [batch[b] EXCEPT !.usable = TRUE]
<1>1. /\ batch' = [batch EXCEPT ![b] = found] /\ job' = job /\ promised' = promised
      /\ BatchOK(batch[b])
  BY DEF IInv, BecomesUsable
<1>2. BatchOK(found) /\ found.live = batch[b].live /\ found.depth = batch[b].depth
  BY <1>1 DEF BatchOK
<1>3. batch[b].live => found.live /\ batch[b].depth <= found.depth
  BY <1>1, <1>2, TableDepths DEF BatchOK, Depths
<1> HIDE DEF found
<1>4. /\ batch' \in [Batch -> {batch'[a] : a \in Batch}]
      /\ \A a \in Batch : BatchOK(batch'[a]) /\ PromisesOK(promised[a], batch'[a])
      /\ \A c \in Client : JobOK(job[c], batch')
  BY <1>1, <1>2, <1>3, BatchMoves
<1> QED
  BY <1>1, <1>4 DEF IInv

-----------------------------------------------------------------------------
(* The theorem.                                                            *)

\* Nothing is bought, and nothing promised, at first.
LEMMA InitOK == Init => IInv
<1> SUFFICES ASSUME Init PROVE IInv
  OBVIOUS
<1>1. \A b \in Batch : batch[b] = Unbought /\ promised[b] = {}
  BY DEF Init
<1>2. \A c \in Client : job[c] = Idle
  BY DEF Init
<1>3. BatchOK(Unbought) /\ JobOK(Idle, batch)
  BY DEF BatchOK, Unbought, JobOK, Idle
<1>4. /\ batch \in [Batch -> {batch[b] : b \in Batch}]
      /\ job \in [Client -> {job[c] : c \in Client}]
      /\ promised \in [Batch -> {promised[b] : b \in Batch}]
  BY DEF Init
<1> QED
  BY <1>1, <1>2, <1>3, <1>4 DEF IInv, PromisesOK

\* The invariant is kept by every call of every program, and by the chain.
LEMMA StepOK == IInv /\ [Next]_vars => IInv'
<1> SUFFICES ASSUME IInv, Next \/ UNCHANGED vars PROVE IInv'
  OBVIOUS
<1>1. CASE UNCHANGED vars
  <2>1. batch' = batch /\ job' = job /\ promised' = promised
    BY <1>1 DEF vars
  <2> QED
    BY <2>1 DEF IInv
<1>2. ASSUME NEW c \in Client, NEW t \in Ticks, NEW s \in Size,
             BuyStorage(c, s, t) \/ StorageCost(c, s, t)
      PROVE  IInv'
  BY <1>2, BuyOK
<1>3. ASSUME NEW c \in Client, NEW t \in Ticks, NEW b \in Batch,
             ExtendDuration(c, b, t) \/ DurationCost(c, b, t) \/ Refill(c, b, t)
      PROVE  IInv'
  BY <1>3, 0 \in Nat, ExtendOK
<1>4. ASSUME NEW c \in Client, NEW b \in Batch, NEW s \in Size,
             NEW op \in {"extend_size", "size_cost"}, OfBatch(c, op, b, s)
      PROVE  IInv'
  <2>1. s \in Nat /\ op \in {"extend_size", "size_cost", "top_up_to"}
    BY StorageAssumption DEF StorageAssumption
  <2> QED
    BY <1>4, <2>1, ExtendOK
<1>5. ASSUME NEW c \in Client, NEW b \in Batch, NEW t \in Target,
             OfBatch(c, "top_up_to", b, t)
      PROVE  IInv'
  <2>1. t \in Nat /\ "top_up_to" \in {"extend_size", "size_cost", "top_up_to"}
    BY StorageAssumption DEF StorageAssumption
  <2> QED
    BY <1>5, <2>1, ExtendOK
<1>6. ASSUME NEW c \in Client,
             ReadPrice(c) \/ Fails(c) \/ DiluteRefused(c) \/ Poll(c)
      PROVE  IInv'
  BY <1>6, ReadPriceOK, ReturnOK
<1>7. ASSUME NEW c \in Client, NEW reported \in BOOLEAN, ReadBatch(c, reported)
      PROVE  IInv'
  BY <1>7, ReadBatchOK
<1>8. ASSUME NEW c \in Client, NEW arrives \in BOOLEAN,
             (\E b \in Batch : Create(c, b, arrives)) \/ TopUp(c, arrives) \/ Dilute(c, arrives)
      PROVE  IInv'
  BY <1>8, CreateOK, TopUpOK, DiluteOK
<1>9. ASSUME NEW b \in Batch, BecomesUsable(b)
      PROVE  IInv'
  BY <1>9, UsableOK
<1>10. ASSUME NEW p \in Price, PriceMoves(p)
       PROVE  IInv'
  BY <1>10 DEF PriceMoves, IInv
<1> QED
  BY <1>1, <1>2, <1>3, <1>4, <1>5, <1>6, <1>7, <1>8, <1>9, <1>10 DEF Next

\* For any table, programs and batches: once Ok was answered for a size of the table
\* the batch holds it for good, whoever dilutes it between the read and the write.
THEOREM PromisedSizesHold == Spec => []SizesCovered
  BY InitOK, StepOK, PromisesHold, PTL DEF Spec

-----------------------------------------------------------------------------
(* Powers of two.                                                          *)

\* A power of two counts the subsets, of which there is at least one.
LEMMA PowerCounts ==
  ASSUME NEW n \in Nat
  PROVE  /\ IsFiniteSet(SUBSET (1..n)) /\ Cardinality(SUBSET (1..n)) = 2^n
         /\ 2^n \in Nat /\ 2^n > 0
<1>1. IsFiniteSet(1..n) /\ Cardinality(1..n) = n
  BY FS_Interval
<1>2. IsFiniteSet(SUBSET (1..n)) /\ Cardinality(SUBSET (1..n)) = 2^n
  BY <1>1, FS_SUBSET
<1>3. Cardinality(SUBSET (1..n)) \in Nat /\ Cardinality(SUBSET (1..n)) # 0
  <2>1. {} \in SUBSET (1..n)
    OBVIOUS
  <2> QED
    BY <1>2, <2>1, FS_CardinalityType, FS_EmptySet
<1> QED
  BY <1>2, <1>3

\* One more element makes twice as many subsets: those without it and those with it.
LEMMA PowerDoubles ==
  ASSUME NEW n \in Nat
  PROVE  2^(n + 1) = 2 * 2^n
<1> DEFINE without == SUBSET (1..n)
           added   == [s \in without |-> s \cup {n + 1}]
           with    == {s \cup {n + 1} : s \in without}
<1>1. n + 1 \in Nat
  OBVIOUS
<1>2. IsFiniteSet(without) /\ Cardinality(without) = 2^n /\ 2^n \in Nat
  BY PowerCounts
<1>3. Cardinality(SUBSET (1..(n + 1))) = 2^(n + 1)
  BY <1>1, PowerCounts
<1>4. n + 1 \notin 1..n /\ 1..(n + 1) = (1..n) \cup {n + 1}
  OBVIOUS
<1>5. added \in Bijection(without, with)
  <2>1. \A s, t \in without : added[s] = added[t] => s = t
    BY <1>4
  <2>2. added \in [without -> with] /\ \A t \in with : \E s \in without : added[s] = t
    OBVIOUS
  <2> HIDE DEF added, with, without
  <2> QED
    BY <2>1, <2>2 DEF Bijection, Injection, Surjection, IsInjective
<1>6. ExistsBijection(without, with)
  BY <1>5 DEF ExistsBijection
<1>7. IsFiniteSet(with) /\ Cardinality(with) = Cardinality(without)
  <2> HIDE DEF without, with
  <2> QED
    BY <1>2, <1>5, <1>6, FS_Bijection
<1>8. SUBSET (1..(n + 1)) = without \cup with
  <2>1. ASSUME NEW s \in SUBSET (1..(n + 1)) PROVE s \in without \cup with
    <3>1. CASE n + 1 \in s
      <4>1. s \ {n + 1} \in without /\ s = (s \ {n + 1}) \cup {n + 1}
        BY <1>4, <3>1
      <4> QED
        BY <4>1
    <3>2. CASE n + 1 \notin s
      BY <1>4, <3>2
    <3> QED
      BY <3>1, <3>2
  <2>2. without \cup with \subseteq SUBSET (1..(n + 1))
    BY <1>4
  <2> QED
    BY <2>1, <2>2
<1>9. without \cap with = {}
  BY <1>4
<1> HIDE DEF without, with, added
<1>10. Cardinality(without \cup with)
         = Cardinality(without) + Cardinality(with) - Cardinality(without \cap with)
  BY <1>2, <1>7, FS_Union
<1>11. Cardinality(without \cap with) = 0
  BY <1>9, FS_EmptySet
<1> DEFINE p == 2^n
           q == 2^(n + 1)
<1>12. p \in Nat /\ q = p + p - 0
  BY <1>2, <1>3, <1>7, <1>8, <1>10, <1>11
<1> HIDE DEF p, q
<1>13. q = 2 * p
  BY <1>12
<1> QED
  BY <1>13 DEF p, q

\* So a difference of exponents is a factor.
LEMMA PowersMultiply ==
  ASSUME NEW m \in Nat, NEW k \in Nat
  PROVE  2^(m + k) = 2^m * 2^k
<1> DEFINE S == {n \in Nat : 2^(m + n) # 2^m * 2^n}
<1>1. 2^m \in Nat
  BY PowerCounts
<1> SUFFICES ASSUME S # {} PROVE FALSE
  OBVIOUS
<1>2. PICK n \in S : \A j \in S : n <= j
  <2>1. S \in SUBSET Nat
    OBVIOUS
  <2> HIDE DEF S
  <2> QED
    BY <2>1, LeastExists
<1>3. n \in Nat /\ 2^(m + n) # 2^m * 2^n
  BY <1>2
<1>4. n # 0
  <2>1. 2^0 = 1
    OBVIOUS
  <2> DEFINE p == 2^m
  <2>2. p \in Nat /\ m + 0 = m
    BY <1>1
  <2>3. 2^(m + 0) = p * 2^0
    <3> HIDE DEF p
    <3>1. p * 2^0 = p
      BY <2>1, <2>2
    <3> QED
      BY <2>2, <3>1 DEF p
  <2> HIDE DEF p
  <2> SUFFICES ASSUME n = 0 PROVE FALSE
    OBVIOUS
  <2> QED
    BY <1>3, <2>3, Zenon DEF p
<1>5. PICK j \in Nat : n = j + 1 /\ j \notin S
  <2>1. n - 1 \in Nat /\ n - 1 \notin S
    BY <1>2, <1>3, <1>4
  <2> QED
    BY <1>3, <2>1
<1>6. 2^(m + j) = 2^m * 2^j
  BY <1>5
<1>7. 2^(j + 1) = 2 * 2^j /\ 2^((m + j) + 1) = 2 * 2^(m + j) /\ 2^j \in Nat
  <2>1. m + j \in Nat
    OBVIOUS
  <2> QED
    BY <2>1, PowerDoubles, PowerCounts
<1>8. m + n = (m + j) + 1
  BY <1>3, <1>5
<1>9. ASSUME NEW a \in Nat, NEW b \in Nat
      PROVE  2 * (a * b) = a * (2 * b)
  OBVIOUS
<1> QED
  BY <1>1, <1>3, <1>5, <1>6, <1>7, <1>8, <1>9

-----------------------------------------------------------------------------
(* The amounts.                                                            *)

\* What a batch has pays for the seconds it is said to last.
AmountOK(b) ==
  /\ batch[b].depth \in Nat /\ batch[b].amount \in Nat /\ due[b] \in Nat
  /\ ~batch[b].live => batch[b].amount = 0
  /\ due[b] * price <= batch[b].amount * BLOCK_TIME

Bought == {"write", "poll", "ok"}

\* What a helper has computed is of what it has read and was asked for.
ComputedOK(j) ==
  /\ {j.arg, j.ticks, j.price, j.depth, j.amount} \subseteq Nat
  /\ j.pc = "price" => j.op \notin {"size_cost", "top_up_to"}
  /\ j.pc = "batch" => j.op # "extend_duration"
  /\ j.pc = "poll" => j.op = "buy"
  /\ j.op \in {"buy", "extend_duration"} /\ j.pc \in Bought =>
       j.amount = AmountFor(j.price, j.ticks)
  /\ j.op = "buy" /\ j.pc \in Bought => j.depth = DepthForSize(j.arg)
  /\ j.op = "top_up_to" /\ j.pc = "write" => j.value \in Nat
  /\ j.pc = "ok" =>
       /\ j.op = "duration_cost" => j.value = StampCost(j.depth, AmountFor(j.price, j.ticks))
       /\ j.op = "storage_cost" =>
            j.value = StampCost(DepthForSize(j.arg), AmountFor(j.price, j.ticks))
       /\ j.op = "refill" => j.value = StampCost(j.depth, RefillAmount(j.price, j.ticks))
       /\ j.op = "size_cost" /\ DepthForSize(j.arg) > j.depth =>
            j.value = SizeCost(j.depth, j.amount, DepthForSize(j.arg))

\* The amounts rest on the batches and helpers being in order (IInv); the second part
\* says no more than that this is a function.
AInv ==
  /\ price \in Price
  /\ due \in [Batch -> {due[b] : b \in Batch}]
  /\ \A b \in Batch : AmountOK(b)
  /\ \A c \in Client : ComputedOK(job[c])

-----------------------------------------------------------------------------
(* Why the quotes hold.                                                    *)

\* A quotient, by its bounds.
LEMMA Divided ==
  ASSUME NEW v \in Nat, NEW t \in Nat \ {0}
  PROVE  v \div t \in Nat /\ (v \div t) * t <= v /\ v < (v \div t) * t + t
<1> DEFINE q == v \div t
<1>1. q \in Nat /\ t * q <= v /\ v < t * q + t
  OBVIOUS
<1> HIDE DEF q
<1>2. q * t = t * q
  BY <1>1
<1> QED
  BY <1>1, <1>2 DEF q

\* A duration that is rounded up to blocks has at most one more than it has whole ones.
LEMMA BlocksWithin ==
  ASSUME NEW s \in Nat
  PROVE  /\ WholeBlocks(s) \in Nat /\ SecondsToBlocks(s) \in Nat
         /\ WholeBlocks(s) <= SecondsToBlocks(s) /\ SecondsToBlocks(s) <= WholeBlocks(s) + 1
         /\ s <= SecondsToBlocks(s) * BLOCK_TIME
<1> DEFINE t == BLOCK_TIME
           w == WholeBlocks(s)
           u == SecondsToBlocks(s)
<1>1. t \in Nat \ {0}
  BY StampMathAssumption DEF StampMathAssumption
<1>2. w \in Nat /\ w * t <= s /\ s < w * t + t
  BY <1>1, Divided DEF WholeBlocks
<1>3. u \in Nat /\ u * t <= s + t - 1 /\ s + t - 1 < u * t + t
  <2>1. s + t - 1 \in Nat
    BY <1>1
  <2> QED
    BY <1>1, <2>1, Divided DEF SecondsToBlocks
<1> HIDE DEF t, w, u
<1>4. w * t \in Nat /\ u * t \in Nat
  BY <1>1, <1>2, <1>3
<1>5. s <= u * t
  BY <1>1, <1>3, <1>4
<1>6. w <= u
  <2> SUFFICES ASSUME w > u PROVE FALSE
    BY <1>2, <1>3
  <2>1. PICK k \in Nat : w = u + 1 + k
    <3>1. w - u - 1 \in Nat /\ w = u + 1 + (w - u - 1)
      BY <1>2, <1>3
    <3> QED
      BY <3>1
  <2>2. w * t = u * t + t + k * t /\ k * t \in Nat
    BY <1>1, <1>3, <2>1
  <2> QED
    BY <1>1, <1>2, <1>3, <1>4, <2>2
<1>7. u <= w + 1
  <2> SUFFICES ASSUME u > w + 1 PROVE FALSE
    BY <1>2, <1>3
  <2>1. PICK k \in Nat : u = w + 2 + k
    <3>1. u - w - 2 \in Nat /\ u = w + 2 + (u - w - 2)
      BY <1>2, <1>3
    <3> QED
      BY <3>1
  <2>2. u * t = w * t + t + t + k * t /\ k * t \in Nat
    BY <1>1, <1>2, <2>1
  <2> QED
    BY <1>1, <1>2, <1>3, <1>4, <2>2
<1> QED
  BY <1>2, <1>3, <1>5, <1>6, <1>7 DEF t, w, u

\* A duration pays for its whole seconds.
LEMMA AmountPays ==
  ASSUME NEW p \in Nat, NEW ticks \in Nat
  PROVE  /\ Seconds(ticks) \in Nat /\ AmountFor(p, ticks) \in Nat
         /\ Seconds(ticks) * p <= AmountFor(p, ticks) * BLOCK_TIME
<1> DEFINE s == Seconds(ticks)
           u == SecondsToBlocks(s)
           t == BLOCK_TIME
<1>1. s \in Nat
  <2>1. TICKS \in Nat /\ TICKS > 0
    BY StorageAssumption DEF StorageAssumption
  <2> QED
    BY <2>1 DEF Seconds
<1>2. u \in Nat /\ s <= u * t /\ t \in Nat
  <2> HIDE DEF s
  <2> QED
    BY <1>1, BlocksWithin, StampMathAssumption DEF StampMathAssumption
<1>3. AmountFor(p, ticks) = p * u
  BY DEF AmountFor
<1> HIDE DEF s, u
<1>4. p * u \in Nat /\ s * p <= (u * t) * p /\ (u * t) * p = (p * u) * t
  <2> HIDE DEF t
  <2>1. u * t \in Nat
    BY <1>2
  <2>2. ASSUME NEW a \in Nat, NEW b \in Nat, a <= b PROVE a * p <= b * p
    BY <2>2
  <2> QED
    BY <1>1, <1>2, <2>1, <2>2
<1> QED
  BY <1>1, <1>3, <1>4 DEF s

\* A longer or shorter amount of the same price differs by a block's price or less.
LEMMA RefillShort ==
  ASSUME NEW p \in Nat, NEW ticks \in Nat, NEW depth \in Nat
  PROVE  LET short == StampCost(depth, AmountFor(p, ticks))
                        - StampCost(depth, RefillAmount(p, ticks))
         IN  0 <= short /\ short <= StampCost(depth, p)
<1> DEFINE s == Seconds(ticks)
           u == SecondsToBlocks(s)
           w == WholeBlocks(s)
           k == 2^depth
<1>1. s \in Nat
  BY AmountPays
<1>2. u \in Nat /\ w \in Nat /\ (u = w \/ u = w + 1)
  <2> HIDE DEF s
  <2>1. u \in Nat /\ w \in Nat /\ w <= u /\ u <= w + 1
    BY <1>1, BlocksWithin
  <2> QED
    BY <2>1
<1>3. k \in Nat
  BY PowerCounts
<1>4. /\ StampCost(depth, AmountFor(p, ticks)) = k * (p * u)
      /\ StampCost(depth, RefillAmount(p, ticks)) = k * (p * w)
      /\ StampCost(depth, p) = k * p
  BY DEF StampCost, AmountFor, RefillAmount
<1> HIDE DEF u, w, k
<1>5. k * (p * w) \in Nat /\ k * p \in Nat
  BY <1>2, <1>3
<1>6. k * (p * (w + 1)) = k * (p * w) + k * p
  BY <1>2, <1>3
<1> QED
  BY <1>2, <1>4, <1>5, <1>6

\* The cost of the levels added is what the deeper batch takes to have the amount of the
\* shallower one again, but for what the division cuts off.
LEMMA SizeCostFills ==
  ASSUME NEW d \in Nat, NEW t \in Nat, t > d, NEW amount \in Nat
  PROVE  LET left == amount \div 2^(t - d)
             lost == StampCost(t, amount - left)
         IN  SizeCost(d, amount, t) <= lost /\ lost - SizeCost(d, amount, t) < StampCost(t, 1)
<1> DEFINE a == 2^d
           b == 2^(t - d)
           c == 2^t
           left == amount \div b
           cut == amount - left * b
           cost == SizeCost(d, amount, t)
           lost == StampCost(t, amount - left)
<1>1. a \in Nat \ {0} /\ b \in Nat \ {0} /\ c \in Nat
  <2>1. a \in Nat /\ a > 0 /\ b \in Nat /\ b > 0 /\ c \in Nat
    BY PowerCounts, t - d \in Nat
  <2> HIDE DEF a, b
  <2> QED
    BY <2>1
<1>2. c = a * b
  BY PowersMultiply, t - d \in Nat, t = d + (t - d)
<1>3. cost = (c - a) * amount /\ lost = c * (amount - left) /\ StampCost(t, 1) = c * 1
  BY DEF SizeCost, StampCost
<1> HIDE DEF a, c, cost, lost
<1>4. left \in Nat /\ left * b <= amount /\ amount < left * b + b
  <2> HIDE DEF b
  <2> QED
    BY <1>1, Divided
<1> HIDE DEF b, left
<1>5. left * b \in Nat
  BY <1>1, <1>4
<1>6. cut \in Nat /\ cut < b /\ amount = left * b + cut
  BY <1>1, <1>4, <1>5
<1> HIDE DEF cut
<1>7. a * amount = c * left + a * cut
  <2>1. a * (left * b + cut) = (a * b) * left + a * cut
    BY <1>1, <1>4, <1>6
  <2> QED
    BY <1>2, <1>6, <2>1
<1>8. (c - a) * amount = c * amount - a * amount /\ c * (amount - left) = c * amount - c * left
  BY <1>1, <1>4
<1>9. c * amount \in Int /\ c * left \in Int /\ a * cut \in Nat
  BY <1>1, <1>4, <1>6
<1>10. lost - cost = a * cut /\ lost \in Int /\ cost \in Int
  BY <1>3, <1>7, <1>8, <1>9
<1>11. a * cut < c * 1
  <2>1. PICK k \in Nat : b = cut + 1 + k
    <3>1. b - cut - 1 \in Nat /\ b = cut + 1 + (b - cut - 1)
      BY <1>1, <1>6
    <3> QED
      BY <3>1
  <2>2. a * b = a * cut + a + a * k /\ a * k \in Nat
    BY <1>1, <1>6, <2>1
  <2> QED
    BY <1>1, <1>2, <1>9, <2>2
<1>12. cost <= lost /\ lost - cost < StampCost(t, 1)
  BY <1>3, <1>9, <1>10, <1>11
<1> QED
  BY <1>12 DEF left, b, lost, cost

\* So the invariant says that durations add up and that the refills are close,
LEMMA QuotesFromAmounts == IInv /\ AInv => DurationsAddUp /\ RefillsAreClose
<1> SUFFICES ASSUME IInv, AInv PROVE DurationsAddUp /\ RefillsAreClose
  OBVIOUS
<1>1. DurationsAddUp
  BY DEF AInv, AmountOK, DurationsAddUp
<1>2. ASSUME NEW j \in Answered("refill")
      PROVE  LET short == StampCost(j.depth, AmountFor(j.price, j.ticks)) - j.value
             IN  0 <= short /\ short <= StampCost(j.depth, j.price)
  <2>1. j.op = "refill" /\ j.pc = "ok" /\ ComputedOK(j)
    BY DEF Answered, AInv
  <2>2. j.value = StampCost(j.depth, RefillAmount(j.price, j.ticks))
    BY <2>1 DEF ComputedOK
  <2>3. j.price \in Nat /\ j.depth \in Nat /\ j.ticks \in Nat
    BY <2>1 DEF ComputedOK
  <2> QED
    BY <2>2, <2>3, RefillShort
<1> QED
  BY <1>1, <1>2 DEF RefillsAreClose

\* What is known of a cost that was answered.
LEMMA AnswersComputed ==
  ASSUME AInv, NEW op, NEW j \in Answered(op)
  PROVE  /\ j.op = op /\ j.pc = "ok" /\ ComputedOK(j)
         /\ j.price \in Nat /\ j.depth \in Nat /\ j.amount \in Nat /\ j.ticks \in Nat
         /\ j.arg \in Nat
<1>1. j.op = op /\ j.pc = "ok" /\ ComputedOK(j)
  BY DEF Answered, AInv
<1> QED
  BY <1>1 DEF ComputedOK

\* and that a purchase takes what its preview said,
LEMMA PurchaseCharged ==
  ASSUME IInv, AInv, NEW c \in Client, NEW b \in Batch, NEW arrives \in BOOLEAN,
         Create(c, b, arrives)
  PROVE  CreateAsQuoted(c, b)
<1> DEFINE k == job[c]
<1>1. ComputedOK(k) /\ k.pc = "write" /\ k.op = "buy" /\ DOMAIN batch = Batch
  BY DEF IInv, AInv, Create
<1>2. batch'[b].depth = k.depth /\ batch'[b].amount = k.amount
  BY <1>1 DEF Create
<1> HIDE DEF k
<1>3. k.amount = AmountFor(k.price, k.ticks) /\ k.depth = DepthForSize(k.arg)
  BY <1>1 DEF ComputedOK, Bought
<1>4. ASSUME NEW j \in Answered("storage_cost"),
             j.price = k.price, j.arg = k.arg, j.ticks = k.ticks
      PROVE  j.value = StampCost(batch'[b].depth, batch'[b].amount)
  <2>1. j.value = StampCost(DepthForSize(j.arg), AmountFor(j.price, j.ticks))
    BY AnswersComputed DEF ComputedOK
  <2> QED
    BY <1>2, <1>3, <1>4, <2>1
<1> QED
  BY <1>4 DEF CreateAsQuoted, k

\* an extension what was quoted for it,
LEMMA ExtensionCharged ==
  ASSUME IInv, AInv, NEW c \in Client, NEW arrives \in BOOLEAN, TopUp(c, arrives)
  PROVE  ExtendAsQuoted(c, job[c].b)
<1> DEFINE k == job[c]
           b == k.b
<1>1. ComputedOK(k) /\ JobOK(k, batch) /\ k.pc = "write" /\ DOMAIN batch = Batch
  BY DEF IInv, AInv, TopUp
<1>2. k.op # "buy" /\ batch[b].live
  BY DEF TopUp
<1>3. b \in Batch
  BY <1>1, <1>2 DEF JobOK, TopUp
<1>4. BatchOK(batch[b]) /\ batch[b].amount \in Nat /\ batch[b].depth \in Nat
  BY <1>3 DEF IInv, AInv, AmountOK
<1>5. k.op = "extend_duration" => batch'[b].amount = batch[b].amount + k.amount
  BY <1>1, <1>3, <1>4 DEF TopUp, BatchOK
<1> HIDE DEF b
<1>6. ASSUME NEW j \in Answered("duration_cost"),
             k.op = "extend_duration", j.b = b, j.depth = batch[b].depth,
             j.price = k.price, j.ticks = k.ticks
      PROVE  j.value = StampCost(batch[b].depth, batch'[b].amount - batch[b].amount)
  <2>1. j.value = StampCost(j.depth, AmountFor(j.price, j.ticks))
    BY AnswersComputed DEF ComputedOK
  <2> HIDE DEF k
  <2>2. k.amount = AmountFor(k.price, k.ticks) /\ k.amount \in Nat
    BY <1>1, <1>6 DEF ComputedOK, Bought
  <2>3. batch'[b].amount - batch[b].amount = k.amount
    BY <1>4, <1>5, <1>6, <2>2
  <2> QED
    BY <1>6, <2>1, <2>2, <2>3
<1> QED
  BY <1>6 DEF ExtendAsQuoted, b

\* and a dilution, in what it takes from each chunk, what was quoted for it.
LEMMA DilutionCharged ==
  ASSUME IInv, AInv, NEW c \in Client, NEW arrives \in BOOLEAN, Dilute(c, arrives)
  PROVE  DiluteAsQuoted(c, job[c].b)
<1> DEFINE k == job[c]
           b == k.b
           t == DepthForSize(k.arg)
           d == batch[b].depth
           amount == batch[b].amount
<1>1. /\ ComputedOK(k) /\ JobOK(k, batch) /\ k.op = "extend_size" /\ k.pc = "write"
      /\ t > d /\ DOMAIN batch = Batch
  BY DEF IInv, AInv, Dilute
<1>2. b \in Batch /\ k.arg \in Nat
  BY <1>1 DEF JobOK
<1>3. BatchOK(batch[b]) /\ amount \in Nat /\ d \in Nat /\ t \in Nat
  BY <1>2, DepthOfSize DEF IInv, AInv, AmountOK
<1>4. batch'[b].depth = t /\ batch'[b].amount = amount \div 2^(t - d)
  BY <1>1, <1>2, <1>3 DEF Dilute, BatchOK
<1> HIDE DEF b, t, d, amount
<1>5. ASSUME NEW j \in Answered("size_cost"),
             j.b = b, j.arg = k.arg, j.depth = d, j.amount = amount
      PROVE  LET lost == StampCost(batch'[b].depth, amount - batch'[b].amount)
             IN  j.value <= lost /\ lost - j.value < StampCost(batch'[b].depth, 1)
  <2>1. DepthForSize(j.arg) = t
    BY <1>5 DEF t
  <2>2. j.value = SizeCost(d, amount, t)
    BY <1>1, <1>5, <2>1, AnswersComputed DEF ComputedOK
  <2> QED
    BY <1>1, <1>3, <1>4, <2>2, SizeCostFills
<1> QED
  BY <1>5 DEF DiluteAsQuoted, b, d, amount

\* So every write takes what was quoted.
LEMMA ChargesFromAmounts == IInv /\ AInv => ChargedAsQuoted
<1> SUFFICES ASSUME IInv, AInv, NEW c \in {d \in Client : job[d].pc = "write"},
                    NEW arrives \in BOOLEAN
             PROVE  /\ \A b \in Batch : Create(c, b, arrives) => CreateAsQuoted(c, b)
                    /\ TopUp(c, arrives) => ExtendAsQuoted(c, job[c].b)
                    /\ Dilute(c, arrives) => DiluteAsQuoted(c, job[c].b)
  BY DEF ChargedAsQuoted
<1>1. c \in Client
  OBVIOUS
<1> QED
  BY <1>1, PurchaseCharged, ExtensionCharged, DilutionCharged

-----------------------------------------------------------------------------
(* How the amounts are kept.                                               *)

\* A call that changes its own state alone leaves the amounts as they are.
LEMMA AmountsStay ==
  ASSUME IInv, AInv, NEW c \in Client, NEW j, Goto(c, j), ComputedOK(j),
         price' = price, batch' = batch, due' = due
  PROVE  AInv'
<1>1. job' = [job EXCEPT ![c] = j] /\ DOMAIN job = Client
  BY DEF Goto, IInv
<1>2. \A d \in Client : job'[d] = IF d = c THEN j ELSE job[d]
  BY <1>1
<1>3. \A d \in Client : ComputedOK(job'[d])
  BY <1>2 DEF AInv
<1>4. \A b \in Batch : AmountOK(b)'
  BY DEF AInv, AmountOK
<1> QED
  BY <1>3, <1>4 DEF AInv

\* A batch that is bought or changed pays for what it is then said to last.
LEMMA AmountsMove ==
  ASSUME IInv, AInv, NEW b \in Batch, NEW found, batch' = [batch EXCEPT ![b] = found],
         price' = price,
         found.depth \in Nat, found.amount \in Nat, found.live,
         NEW d \in Nat, due' = [due EXCEPT ![b] = d],
         d * price <= found.amount * BLOCK_TIME,
         NEW c \in Client, NEW j, Goto(c, j), ComputedOK(j)
  PROVE  AInv'
<1>1. DOMAIN batch = Batch /\ DOMAIN due = Batch /\ DOMAIN job = Client
  BY DEF IInv, AInv
<1>2. \A a \in Batch : batch'[a] = IF a = b THEN found ELSE batch[a]
  BY <1>1
<1>3. \A a \in Batch : due'[a] = IF a = b THEN d ELSE due[a]
  BY <1>1
<1>4. \A e \in Client : job'[e] = IF e = c THEN j ELSE job[e]
  BY <1>1 DEF Goto
<1>5. ASSUME NEW a \in Batch PROVE AmountOK(a)'
  <2>1. CASE a = b
    <3>1. batch'[a] = found /\ due'[a] = d
      BY <1>2, <1>3, <2>1
    <3> QED
      BY <3>1 DEF AmountOK
  <2>2. CASE a # b
    <3>1. batch'[a] = batch[a] /\ due'[a] = due[a] /\ AmountOK(a)
      BY <1>2, <1>3, <2>2 DEF AInv
    <3> QED
      BY <3>1 DEF AmountOK
  <2> QED
    BY <2>1, <2>2
<1>6. \A e \in Client : ComputedOK(job'[e])
  BY <1>4 DEF AInv
<1>7. due' \in [Batch -> {due'[a] : a \in Batch}] /\ price' \in Price
  BY <1>1 DEF AInv
<1> QED
  BY <1>5, <1>6, <1>7 DEF AInv

\* A helper that returns an error has nothing to show.
LEMMA ErrGoes ==
  ASSUME NEW j, NEW stamps, ComputedOK(j), JobOK(j, stamps)
  PROVE  ComputedOK(Err(j))
<1>1. /\ Err(j).op = j.op /\ Err(j).pc = "err" /\ Err(j).arg = j.arg /\ Err(j).ticks = j.ticks
      /\ Err(j).price = j.price /\ Err(j).depth = j.depth /\ Err(j).amount = j.amount
  BY DEF Err, JobOK
<1> QED
  BY <1>1 DEF ComputedOK, Bought

\* A helper begins with nothing but what it was asked for.
LEMMA CallAmounts ==
  ASSUME IInv, AInv, NEW c \in Client, NEW j, Call(c, j), j.pc \in {"price", "batch"},
         j.pc = "price" => j.op \notin {"size_cost", "top_up_to"},
         j.pc = "batch" => j.op # "extend_duration",
         {j.arg, j.ticks, j.price, j.depth, j.amount} \subseteq Nat
  PROVE  AInv'
<1>1. Goto(c, j) /\ price' = price /\ batch' = batch /\ due' = due
  BY DEF Call
<1>2. ComputedOK(j)
  BY DEF ComputedOK, Bought
<1> QED
  BY <1>1, <1>2, AmountsStay

\* So do a purchase and the preview of one,
LEMMA BuyAmounts ==
  ASSUME IInv, AInv, NEW c \in Client, NEW t \in Nat, NEW s \in Nat,
         BuyStorage(c, s, t) \/ StorageCost(c, s, t)
  PROVE  AInv'
<1>1. CASE BuyStorage(c, s, t)
  <2> DEFINE j == [Idle EXCEPT !.op = "buy", !.pc = "price", !.arg = s, !.ticks = t]
  <2>1. /\ Call(c, j) /\ j.op = "buy" /\ j.pc = "price"
        /\ {j.arg, j.ticks, j.price, j.depth, j.amount} \subseteq Nat
    BY <1>1 DEF BuyStorage, Idle
  <2> QED
    BY <2>1, CallAmounts
<1>2. CASE StorageCost(c, s, t)
  <2> DEFINE j == [Idle EXCEPT !.op = "storage_cost", !.pc = "price", !.arg = s, !.ticks = t]
  <2>1. /\ Call(c, j) /\ j.op = "storage_cost" /\ j.pc = "price"
        /\ {j.arg, j.ticks, j.price, j.depth, j.amount} \subseteq Nat
    BY <1>2 DEF StorageCost, Idle
  <2> QED
    BY <2>1, CallAmounts
<1> QED
  BY <1>1, <1>2

\* and what is asked of a batch.
LEMMA ExtendAmounts ==
  ASSUME IInv, AInv, NEW c \in Client, NEW t \in Nat, NEW s \in Nat, NEW b \in Batch,
         NEW op \in {"extend_size", "size_cost", "top_up_to"},
         \/ Refill(c, b, t) \/ ExtendDuration(c, b, t) \/ DurationCost(c, b, t)
         \/ OfBatch(c, op, b, s)
  PROVE  AInv'
<1>1. CASE Refill(c, b, t)
  <2> DEFINE j == [Idle EXCEPT !.op = "refill", !.pc = "price", !.b = b, !.ticks = t]
  <2>1. /\ Call(c, j) /\ j.op = "refill" /\ j.pc = "price"
        /\ {j.arg, j.ticks, j.price, j.depth, j.amount} \subseteq Nat
    BY <1>1 DEF Refill, Idle
  <2> QED
    BY <2>1, CallAmounts
<1>2. CASE ExtendDuration(c, b, t)
  <2> DEFINE j == [Idle EXCEPT !.op = "extend_duration", !.pc = "price", !.b = b, !.ticks = t]
  <2>1. /\ Call(c, j) /\ j.op = "extend_duration" /\ j.pc = "price"
        /\ {j.arg, j.ticks, j.price, j.depth, j.amount} \subseteq Nat
    BY <1>2 DEF ExtendDuration, Idle
  <2> QED
    BY <2>1, CallAmounts
<1>3. CASE DurationCost(c, b, t)
  <2> DEFINE j == [Idle EXCEPT !.op = "duration_cost", !.pc = "batch", !.b = b, !.ticks = t]
  <2>1. /\ Call(c, j) /\ j.op = "duration_cost" /\ j.pc = "batch"
        /\ {j.arg, j.ticks, j.price, j.depth, j.amount} \subseteq Nat
    BY <1>3 DEF DurationCost, Idle
  <2> QED
    BY <2>1, CallAmounts
<1>4. CASE OfBatch(c, op, b, s)
  <2> DEFINE j == [Idle EXCEPT !.op = op, !.pc = "batch", !.b = b, !.arg = s]
  <2>1. /\ Call(c, j) /\ j.op # "extend_duration" /\ j.pc = "batch"
        /\ {j.arg, j.ticks, j.price, j.depth, j.amount} \subseteq Nat
    BY <1>4 DEF OfBatch, Idle
  <2> QED
    BY <2>1, CallAmounts
<1> QED
  BY <1>1, <1>2, <1>3, <1>4

\* With the price an amount, and where the depth is known a cost, is computed.
LEMMA ReadPriceAmounts ==
  ASSUME IInv, AInv, NEW c \in Client, ReadPrice(c)
  PROVE  AInv'
<1> DEFINE j == [job[c] EXCEPT !.price = price, !.amount = AmountFor(price, job[c].ticks)]
<1>1. /\ JobOK(job[c], batch) /\ ComputedOK(job[c]) /\ job[c].pc = "price"
      /\ price' = price /\ batch' = batch /\ due' = due
  BY DEF IInv, AInv, ReadPrice
<1>2. price \in Nat
  BY StorageAssumption DEF AInv, StorageAssumption
<1>3. /\ j.op = job[c].op /\ j.pc = "price" /\ j.b = job[c].b /\ j.arg = job[c].arg
      /\ j.ticks = job[c].ticks /\ j.depth = job[c].depth /\ j.price = price
      /\ j.amount = AmountFor(price, job[c].ticks)
      /\ DOMAIN j = {"op", "pc", "b", "arg", "ticks", "price", "depth", "amount", "value"}
  BY <1>1 DEF JobOK
<1>4. {j.arg, j.ticks, j.price, j.depth, j.amount} \subseteq Nat
  <2>1. {job[c].arg, job[c].ticks, job[c].depth} \subseteq Nat
    BY <1>1 DEF ComputedOK
  <2>2. AmountFor(price, job[c].ticks) \in Nat
    BY <1>2, <2>1, AmountPays
  <2> QED
    BY <1>2, <1>3, <2>1, <2>2
<1>5. j.op \notin {"size_cost", "top_up_to"} /\ j.amount = AmountFor(j.price, j.ticks)
  BY <1>1, <1>3 DEF ComputedOK
<1>6. Goto(c, CASE j.op = "buy" -> [j EXCEPT !.pc = "write", !.depth = DepthForSize(j.arg)]
                [] j.op = "extend_duration" -> [j EXCEPT !.pc = "write"]
                [] j.op = "storage_cost" ->
                     Ok(j, StampCost(DepthForSize(j.arg), j.amount))
                [] j.op = "refill" -> [j EXCEPT !.pc = "batch"]
                [] OTHER -> Ok(j, StampCost(j.depth, j.amount)))
  BY DEF ReadPrice
<1> HIDE DEF j
<1>7. CASE j.op = "buy"
  <2> DEFINE k == [j EXCEPT !.pc = "write", !.depth = DepthForSize(j.arg)]
  <2>1. /\ k.op = "buy" /\ k.pc = "write" /\ k.arg = j.arg /\ k.ticks = j.ticks
        /\ k.price = j.price /\ k.depth = DepthForSize(j.arg) /\ k.amount = j.amount
    BY <1>3, <1>7
  <2>2. Goto(c, k)
    BY <1>6, <1>7
  <2> HIDE DEF k
  <2>3. ComputedOK(k)
    BY <1>4, <1>5, <2>1, DepthOfSize DEF ComputedOK
  <2> QED
    BY <1>1, <2>2, <2>3, AmountsStay
<1>8. CASE j.op \in {"extend_duration", "refill"}
  <2> DEFINE k == [j EXCEPT !.pc = IF j.op = "refill" THEN "batch" ELSE "write"]
  <2>1. /\ k.op = j.op /\ k.arg = j.arg /\ k.ticks = j.ticks
        /\ k.pc = IF j.op = "refill" THEN "batch" ELSE "write"
        /\ k.price = j.price /\ k.depth = j.depth /\ k.amount = j.amount
    BY <1>3
  <2>2. Goto(c, k)
    BY <1>6, <1>8
  <2> HIDE DEF k
  <2>3. ComputedOK(k)
    BY <1>4, <1>5, <1>8, <2>1 DEF ComputedOK
  <2> QED
    BY <1>1, <2>2, <2>3, AmountsStay
<1>9. CASE j.op \notin {"buy", "extend_duration", "refill"}
  <2> DEFINE v == StampCost(IF j.op = "storage_cost" THEN DepthForSize(j.arg) ELSE j.depth, j.amount)
             k == Ok(j, v)
  <2>1. /\ k.op = j.op /\ k.pc = "ok" /\ k.arg = j.arg /\ k.ticks = j.ticks
        /\ k.price = j.price /\ k.depth = j.depth /\ k.amount = j.amount /\ k.value = v
    BY <1>3 DEF Ok
  <2>2. Goto(c, k)
    BY <1>6, <1>9
  <2> HIDE DEF k
  <2>3. ComputedOK(k)
    BY <1>4, <1>5, <1>9, <2>1 DEF ComputedOK
  <2> QED
    BY <1>1, <2>2, <2>3, AmountsStay
<1> QED
  BY <1>7, <1>8, <1>9

\* With the batch read a cost or what is missing is computed of what it has now.
LEMMA ReadBatchAmounts ==
  ASSUME IInv, AInv, NEW c \in Client, NEW reported \in BOOLEAN, ReadBatch(c, reported)
  PROVE  AInv'
<1> DEFINE found == batch[job[c].b]
           j     == [job[c] EXCEPT !.depth = found.depth, !.amount = found.amount]
           next  == CASE j.op = "duration_cost" -> [j EXCEPT !.pc = "price"]
                      [] j.op = "refill" ->
                           Ok(j, StampCost(j.depth, RefillAmount(j.price, j.ticks)))
                      [] j.op = "extend_size" ->
                           IF DeepEnough(j, j.depth) THEN Ok(j, 0) ELSE [j EXCEPT !.pc = "write"]
                      [] j.op = "size_cost" ->
                           IF DeepEnough(j, j.depth) THEN Ok(j, 0)
                           ELSE IF ~reported THEN Err(j)
                           ELSE Ok(j, SizeCost(j.depth, j.amount, DepthForSize(j.arg)))
                      [] OTHER ->
                           IF ~reported THEN Err(j)
                           ELSE [j EXCEPT !.pc = "write", !.value = Missing(j.arg, j.amount)]
<1>1. /\ JobOK(job[c], batch) /\ ComputedOK(job[c]) /\ job[c].pc = "batch" /\ found.live
      /\ price' = price /\ batch' = batch /\ due' = due /\ Goto(c, next)
  BY DEF IInv, AInv, ReadBatch
<1>2. /\ j.op = job[c].op /\ j.pc = "batch" /\ j.b = job[c].b /\ j.arg = job[c].arg
      /\ j.ticks = job[c].ticks /\ j.depth = found.depth /\ j.price = job[c].price
      /\ j.amount = found.amount
      /\ DOMAIN j = {"op", "pc", "b", "arg", "ticks", "price", "depth", "amount", "value"}
  BY <1>1 DEF JobOK
<1>3. /\ j.b \in Batch /\ found = batch[j.b] /\ j.op \notin {"none", "buy", "storage_cost"}
      /\ j.op # "extend_duration"
  BY <1>1, <1>2 DEF JobOK, ComputedOK
<1>4. {j.arg, j.ticks, j.price, j.depth, j.amount} \subseteq Nat
  <2>1. {job[c].arg, job[c].ticks, job[c].price} \subseteq Nat
    BY <1>1 DEF ComputedOK
  <2>2. found.depth \in Nat /\ found.amount \in Nat
    BY <1>3 DEF AInv, AmountOK
  <2> QED
    BY <1>2, <2>1, <2>2
<1> HIDE DEF j, found
<1>5. ComputedOK(next)
  <2>1. \A pc : [j EXCEPT !.pc = pc] = [j EXCEPT !.pc = pc, !.value = j.value]
    BY <1>2
  <2>2. CASE j.op = "duration_cost"
    <3>1. next = [j EXCEPT !.pc = "price", !.value = j.value]
      BY <2>1, <2>2
    <3>2. /\ next.op = j.op /\ next.pc = "price" /\ next.b = j.b /\ next.arg = j.arg
          /\ next.ticks = j.ticks /\ next.price = j.price /\ next.depth = j.depth
          /\ next.amount = j.amount /\ next.value = j.value
      BY <1>2, <3>1, ZenonT(40)
    <3> HIDE DEF next
    <3> QED
      BY <1>4, <2>2, <3>2 DEF ComputedOK, Bought
  <2>3. CASE j.op = "refill"
    <3> DEFINE v == StampCost(j.depth, RefillAmount(j.price, j.ticks))
    <3>1. next = [j EXCEPT !.pc = "ok", !.value = v]
      BY <2>3 DEF Ok
    <3>2. /\ next.op = j.op /\ next.pc = "ok" /\ next.b = j.b /\ next.arg = j.arg
          /\ next.ticks = j.ticks /\ next.price = j.price /\ next.depth = j.depth
          /\ next.amount = j.amount /\ next.value = v
      BY <1>2, <3>1, ZenonT(40)
    <3> HIDE DEF next
    <3> QED
      BY <1>4, <2>3, <3>2 DEF ComputedOK, Bought
  <2>4. CASE j.op = "extend_size"
    <3>1. \/ next = [j EXCEPT !.pc = "ok", !.value = 0]
          \/ next = [j EXCEPT !.pc = "write", !.value = j.value]
      BY <2>1, <2>4 DEF Ok
    <3>2. /\ next.op = "extend_size" /\ next.pc \in {"ok", "write"}
          /\ {next.arg, next.ticks, next.price, next.depth, next.amount} \subseteq Nat
      <4>1. CASE next = [j EXCEPT !.pc = "ok", !.value = 0]
        <5> HIDE DEF next
        <5> QED
          BY <1>2, <1>4, <2>4, <4>1
      <4>2. CASE next = [j EXCEPT !.pc = "write", !.value = j.value]
        <5> HIDE DEF next
        <5> QED
          BY <1>2, <1>4, <2>4, <4>2
      <4> HIDE DEF next
      <4>3. QED
        BY <3>1, <4>1, <4>2
    <3> HIDE DEF next
    <3>3. CASE next.pc = "ok"
      BY <3>2, <3>3 DEF ComputedOK, Bought
    <3>4. CASE next.pc = "write"
      BY <3>2, <3>4 DEF ComputedOK, Bought
    <3> QED
      BY <3>2, <3>3, <3>4
  <2>5. CASE j.op = "size_cost"
    <3> DEFINE v == SizeCost(j.depth, j.amount, DepthForSize(j.arg))
    <3>1. CASE DeepEnough(j, j.depth)
      <4>1. next = [j EXCEPT !.pc = "ok", !.value = 0]
        BY <2>5, <3>1 DEF Ok
      <4>2. ~ (DepthForSize(j.arg) > j.depth)
        BY <1>4, <3>1, DepthOfSize DEF DeepEnough
      <4>3. /\ next.op = j.op /\ next.pc = "ok" /\ next.b = j.b /\ next.arg = j.arg
            /\ next.ticks = j.ticks /\ next.price = j.price /\ next.depth = j.depth
            /\ next.amount = j.amount /\ next.value = 0
        BY <1>2, <4>1, ZenonT(40)
      <4> HIDE DEF next
      <4> QED
        BY <1>4, <2>5, <4>2, <4>3 DEF ComputedOK, Bought
    <3>2. CASE ~DeepEnough(j, j.depth) /\ reported
      <4>1. next = [j EXCEPT !.pc = "ok", !.value = v]
        BY <2>5, <3>2 DEF Ok
      <4>2. /\ next.op = j.op /\ next.pc = "ok" /\ next.b = j.b /\ next.arg = j.arg
            /\ next.ticks = j.ticks /\ next.price = j.price /\ next.depth = j.depth
            /\ next.amount = j.amount /\ next.value = v
        BY <1>2, <4>1, ZenonT(40)
      <4> HIDE DEF next
      <4> QED
        BY <1>4, <2>5, <4>2 DEF ComputedOK, Bought
    <3>3. CASE ~DeepEnough(j, j.depth) /\ ~reported
      <4>1. next = [j EXCEPT !.pc = "err", !.value = j.value]
        BY <2>1, <2>5, <3>3 DEF Err
      <4>2. /\ next.op = j.op /\ next.pc = "err" /\ next.b = j.b /\ next.arg = j.arg
            /\ next.ticks = j.ticks /\ next.price = j.price /\ next.depth = j.depth
            /\ next.amount = j.amount /\ next.value = j.value
        BY <1>2, <4>1, ZenonT(40)
      <4> HIDE DEF next
      <4> QED
        BY <1>4, <2>5, <4>2 DEF ComputedOK, Bought
    <3> QED
      BY <3>1, <3>2, <3>3
  <2>6. CASE j.op \notin {"duration_cost", "refill", "extend_size", "size_cost"} /\ ~reported
    <3>1. next = [j EXCEPT !.pc = "err", !.value = j.value]
      BY <2>1, <2>6 DEF Err
    <3>2. /\ next.op = j.op /\ next.pc = "err" /\ next.b = j.b /\ next.arg = j.arg
          /\ next.ticks = j.ticks /\ next.price = j.price /\ next.depth = j.depth
          /\ next.amount = j.amount /\ next.value = j.value
      BY <1>2, <3>1, ZenonT(40)
    <3> HIDE DEF next
    <3> QED
      BY <1>4, <2>6, <3>2 DEF ComputedOK, Bought
  <2>7. CASE j.op \notin {"duration_cost", "refill", "extend_size", "size_cost"} /\ reported
    <3> DEFINE v == Missing(j.arg, j.amount)
    <3>1. next = [j EXCEPT !.pc = "write", !.value = v]
      BY <2>7
    <3>2. /\ next.op = j.op /\ next.pc = "write" /\ next.b = j.b /\ next.arg = j.arg
          /\ next.ticks = j.ticks /\ next.price = j.price /\ next.depth = j.depth
          /\ next.amount = j.amount /\ next.value = v
      BY <1>2, <3>1, ZenonT(40)
    <3> HIDE DEF next
    <3>3. next.op \notin {"buy", "extend_duration"} /\ next.pc = "write"
          /\ {next.arg, next.ticks, next.price, next.depth, next.amount} \subseteq Nat
      BY <1>3, <1>4, <2>7, <3>2
    <3>4. next.value \in Nat
      BY <1>4, <3>2 DEF Missing
    <3> QED
      BY <3>3, <3>4 DEF ComputedOK
  <2> QED
    BY <2>2, <2>3, <2>4, <2>5, <2>6, <2>7
<1> HIDE DEF next
<1> QED
  BY <1>1, <1>5, AmountsStay

\* What fails shows nothing; of what is polled for the purchase is known.
LEMMA ReturnAmounts ==
  ASSUME IInv, AInv, NEW c \in Client, Fails(c) \/ DiluteRefused(c) \/ Poll(c)
  PROVE  AInv'
<1>1. /\ JobOK(job[c], batch) /\ ComputedOK(job[c])
      /\ price' = price /\ batch' = batch /\ due' = due
  BY DEF IInv, AInv, Fails, DiluteRefused, Poll
<1>2. CASE Fails(c) \/ DiluteRefused(c)
  <2>1. Goto(c, Err(job[c]))
    BY <1>2 DEF Fails, DiluteRefused
  <2> QED
    BY <1>1, <2>1, ErrGoes, AmountsStay
<1>3. CASE Poll(c)
  <2> DEFINE j == job[c]
             k == [j EXCEPT !.pc = "ok"]
  <2>1. Goto(c, k) /\ j.pc = "poll"
    BY <1>3 DEF Poll
  <2>2. /\ k.op = j.op /\ k.pc = "ok" /\ k.arg = j.arg /\ k.ticks = j.ticks
        /\ k.price = j.price /\ k.depth = j.depth /\ k.amount = j.amount
    BY <1>1 DEF JobOK
  <2>3. ComputedOK(j)
    BY <1>1
  <2> HIDE DEF j, k
  <2>4. j.op = "buy" /\ k.op = "buy"
    BY <2>1, <2>2, <2>3 DEF ComputedOK
  <2>5. /\ {j.arg, j.ticks, j.price, j.depth, j.amount} \subseteq Nat
        /\ j.amount = AmountFor(j.price, j.ticks) /\ j.depth = DepthForSize(j.arg)
    BY <2>1, <2>3, <2>4 DEF ComputedOK, Bought
  <2>6. ComputedOK(k)
    BY <2>2, <2>4, <2>5 DEF ComputedOK
  <2> QED
    BY <1>1, <2>1, <2>6, AmountsStay
<1> QED
  BY <1>2, <1>3

\* The seconds that are owed for an amount that is added are paid for.
LEMMA OwedPaid ==
  ASSUME IInv, AInv, NEW b \in Batch, NEW p \in Nat, NEW ticks \in Nat, NEW told \in BOOLEAN,
         Owed(b, p, ticks, told), NEW m \in Nat, told => m = AmountFor(p, ticks)
  PROVE  \E d \in Nat : /\ due' = [due EXCEPT ![b] = d]
                        /\ d * price <= (batch[b].amount + m) * BLOCK_TIME
<1> DEFINE a == batch[b].amount
           t == BLOCK_TIME
           e == due[b]
<1>1. a \in Nat /\ e \in Nat /\ e * price <= a * t /\ t \in Nat /\ price \in Nat
  BY StampMathAssumption, StorageAssumption
     DEF AInv, AmountOK, StampMathAssumption, StorageAssumption
<1>2. CASE told /\ p = price
  <2> DEFINE s == Seconds(ticks)
  <2>1. s \in Nat /\ s * price <= m * t
    BY <1>2, AmountPays
  <2>2. due' = [due EXCEPT ![b] = e + s]
    BY <1>2 DEF Owed
  <2> HIDE DEF a, t, e, s
  <2>3. (e + s) * price = e * price + s * price /\ (a + m) * t = a * t + m * t
    BY <1>1, <2>1
  <2>4. e * price \in Nat /\ s * price \in Nat /\ a * t \in Nat /\ m * t \in Nat
    BY <1>1, <2>1
  <2>5. e + s \in Nat /\ (e + s) * price <= (a + m) * t
    BY <1>1, <2>1, <2>3, <2>4
  <2> QED
    BY <2>2, <2>5 DEF a, t
<1>3. CASE ~(told /\ p = price)
  <2>1. due' = due
    BY <1>3 DEF Owed
  <2>2. due' = [due EXCEPT ![b] = e]
    BY <2>1 DEF AInv
  <2> HIDE DEF a, t, e
  <2>3. (a + m) * t = a * t + m * t /\ m * t \in Nat /\ a * t \in Nat /\ e * price \in Nat
    BY <1>1
  <2>4. e * price <= (a + m) * t
    BY <1>1, <2>3
  <2> QED
    BY <1>1, <2>2, <2>4 DEF a, t
<1> QED
  BY <1>2, <1>3

\* A purchase has the amount that was computed for it.
LEMMA CreateAmounts ==
  ASSUME IInv, AInv, NEW c \in Client, NEW b \in Batch, NEW arrives \in BOOLEAN,
         Create(c, b, arrives)
  PROVE  AInv'
<1> DEFINE j     == job[c]
           found == [live |-> TRUE, depth |-> j.depth, amount |-> j.amount, usable |-> FALSE]
           k     == IF arrives THEN [j EXCEPT !.pc = "poll", !.b = b] ELSE Err(j)
<1>1. /\ JobOK(j, batch) /\ ComputedOK(j) /\ j.pc = "write" /\ j.op = "buy" /\ ~batch[b].live
      /\ batch' = [batch EXCEPT ![b] = found] /\ Goto(c, k) /\ price' = price
      /\ Owed(b, j.price, j.ticks, arrives)
  BY DEF IInv, AInv, Create
<1>2. /\ {j.arg, j.ticks, j.price, j.depth, j.amount} \subseteq Nat
      /\ j.amount = AmountFor(j.price, j.ticks) /\ j.depth = DepthForSize(j.arg)
  BY <1>1 DEF ComputedOK, Bought
<1>3. ComputedOK(k)
  <2>1. CASE arrives
    <3>1. /\ k.op = "buy" /\ k.pc = "poll" /\ k.arg = j.arg /\ k.ticks = j.ticks
          /\ k.price = j.price /\ k.depth = j.depth /\ k.amount = j.amount
      BY <1>1, <2>1 DEF JobOK
    <3> HIDE DEF k, j
    <3> QED
      BY <1>2, <3>1 DEF ComputedOK, Bought
  <2>2. CASE ~arrives
    <3>1. JobOK(j, batch')
      BY <1>1 DEF JobOK
    <3>2. k = Err(j)
      BY <2>2
    <3> HIDE DEF k, j
    <3> QED
      BY <1>1, <3>1, <3>2, ErrGoes
  <2> QED
    BY <2>1, <2>2
<1>4. /\ found.depth = j.depth /\ found.amount = j.amount /\ found.live
  OBVIOUS
<1> HIDE DEF k, found, j
<1>5. PICK d \in Nat : /\ due' = [due EXCEPT ![b] = d]
                       /\ d * price <= (batch[b].amount + j.amount) * BLOCK_TIME
  BY <1>1, <1>2, OwedPaid
<1>6. batch[b].amount + j.amount = found.amount
  <2>1. batch[b].amount = 0
    BY <1>1 DEF AInv, AmountOK
  <2> QED
    BY <1>2, <1>4, <2>1
<1> QED
  BY <1>1, <1>2, <1>3, <1>4, <1>5, <1>6, AmountsMove

\* A top-up adds the amount of a duration, or what was missing when the batch was read;
\* what others have added since is there as well.
LEMMA TopUpAmounts ==
  ASSUME IInv, AInv, NEW c \in Client, NEW arrives \in BOOLEAN, TopUp(c, arrives)
  PROVE  AInv'
<1> DEFINE j     == job[c]
           b     == j.b
           by    == IF j.op = "extend_duration" THEN j.amount ELSE j.value
           told  == arrives /\ j.op = "extend_duration"
           found == [batch[b] EXCEPT !.amount = @ + by]
           k     == IF arrives THEN [j EXCEPT !.pc = "ok"] ELSE Err(j)
<1>1. /\ JobOK(j, batch) /\ ComputedOK(j) /\ j.pc = "write"
      /\ j.op \in {"extend_duration", "top_up_to"} /\ batch[b].live
      /\ price' = price /\ Goto(c, k) /\ batch' = [batch EXCEPT ![b] = found]
      /\ Owed(b, j.price, j.ticks, told)
  BY DEF IInv, AInv, TopUp, Answer
<1>2. b \in Batch
  BY <1>1 DEF JobOK
<1>3. BatchOK(batch[b]) /\ AmountOK(b)
  BY <1>2 DEF IInv, AInv
<1>4. {j.arg, j.ticks, j.price, j.depth, j.amount} \subseteq Nat
  BY <1>1 DEF ComputedOK
<1>5. by \in Nat /\ (told => by = AmountFor(j.price, j.ticks))
  <2> HIDE DEF j
  <2>1. CASE j.op = "extend_duration"
    BY <1>1, <1>4, <2>1 DEF ComputedOK, Bought
  <2>2. CASE j.op = "top_up_to"
    BY <1>1, <2>2 DEF ComputedOK
  <2> QED
    BY <1>1, <2>1, <2>2
<1>6. /\ found.live = batch[b].live /\ found.depth = batch[b].depth
      /\ found.amount = batch[b].amount + by
  BY <1>3 DEF BatchOK
<1>7. PICK d \in Nat : /\ due' = [due EXCEPT ![b] = d]
                       /\ d * price <= (batch[b].amount + by) * BLOCK_TIME
  <2>1. told \in BOOLEAN
    OBVIOUS
  <2> HIDE DEF by, told, j, b, found
  <2> QED
    BY <1>1, <1>2, <1>4, <1>5, <2>1, OwedPaid
<1>8. batch[b].amount \in Nat /\ batch[b].depth \in Nat
  BY <1>3 DEF AmountOK
<1>9. batch'[b] = found
  BY <1>1, <1>2 DEF IInv
<1>10. ComputedOK(k)
  <2>1. CASE arrives
    <3>1. /\ k.op = j.op /\ k.pc = "ok" /\ k.b = b /\ k.arg = j.arg /\ k.ticks = j.ticks
          /\ k.price = j.price /\ k.depth = j.depth /\ k.amount = j.amount
      BY <1>1, <2>1 DEF JobOK
    <3> HIDE DEF k, found, by, told
    <3>2. j.op = "extend_duration" => j.amount = AmountFor(j.price, j.ticks)
      BY <1>1 DEF ComputedOK, Bought
    <3> HIDE DEF j
    <3> QED
      BY <1>1, <1>4, <3>1, <3>2 DEF ComputedOK
  <2>2. CASE ~arrives
    <3>1. JobOK(j, batch')
      BY <1>1 DEF JobOK
    <3>2. k = Err(j)
      BY <2>2
    <3> HIDE DEF k, j
    <3> QED
      BY <1>1, <3>1, <3>2, ErrGoes
  <2> QED
    BY <2>1, <2>2
<1> HIDE DEF j, b, by, told, found, k
<1>11. found.amount \in Nat
  BY <1>5, <1>6, <1>8
<1> QED
  BY <1>1, <1>2, <1>6, <1>7, <1>8, <1>10, <1>11, AmountsMove

\* A dilution spreads what there is over more chunks: nothing is owed any longer.
LEMMA DiluteAmounts ==
  ASSUME IInv, AInv, NEW c \in Client, NEW arrives \in BOOLEAN, Dilute(c, arrives)
  PROVE  AInv'
<1> DEFINE j      == job[c]
           b      == j.b
           target == DepthForSize(j.arg)
           scale  == 2^(target - batch[b].depth)
           found  == [batch[b] EXCEPT !.depth = target, !.amount = @ \div scale]
           k      == IF arrives THEN [j EXCEPT !.pc = "ok"] ELSE Err(j)
<1>1. /\ JobOK(j, batch) /\ ComputedOK(j) /\ j.op = "extend_size" /\ j.pc = "write"
      /\ target > batch[b].depth /\ Goto(c, k) /\ price' = price
      /\ due' = [due EXCEPT ![b] = 0]
  BY DEF IInv, AInv, Dilute, Answer
<1>2. b \in Batch /\ j.arg \in Nat /\ batch[b].live
  BY <1>1 DEF JobOK
<1>3. BatchOK(batch[b]) /\ AmountOK(b) /\ DOMAIN batch = Batch
  BY <1>2 DEF IInv, AInv
<1>4. batch' = [batch EXCEPT ![b] = found]
  BY <1>2, <1>3 DEF Dilute
<1>5. found.live = batch[b].live /\ found.depth = target /\ found.amount = batch[b].amount \div scale
  BY <1>3 DEF BatchOK
<1>6. target \in Nat /\ batch[b].depth \in Nat /\ batch[b].amount \in Nat
  BY <1>2, <1>3, DepthOfSize DEF AmountOK
<1>7. batch[b].amount \div scale \in Nat
  <2>1. target - batch[b].depth \in Nat
    <3> HIDE DEF target, b
    <3> QED
      BY <1>1, <1>6
  <2>2. scale \in Nat /\ scale > 0
    BY <2>1, PowerCounts
  <2> HIDE DEF scale
  <2>3. scale \in Nat \ {0}
    BY <2>2
  <2> QED
    BY <1>6, <2>3, Divided
<1>8. ComputedOK(k)
  <2>1. CASE arrives
    <3>1. /\ k.op = "extend_size" /\ k.pc = "ok" /\ k.arg = j.arg /\ k.ticks = j.ticks
          /\ k.price = j.price /\ k.depth = j.depth /\ k.amount = j.amount
      BY <1>1, <2>1 DEF JobOK
    <3>2. {j.arg, j.ticks, j.price, j.depth, j.amount} \subseteq Nat
      BY <1>1 DEF ComputedOK
    <3> HIDE DEF k, j
    <3> QED
      BY <3>1, <3>2 DEF ComputedOK, Bought
  <2>2. CASE ~arrives
    <3>1. JobOK(j, batch')
      BY <1>1, <1>2, <1>3, <1>4, <1>5 DEF JobOK
    <3>2. k = Err(j)
      BY <2>2
    <3> HIDE DEF k, j
    <3> QED
      BY <1>1, <3>1, <3>2, ErrGoes
  <2> QED
    BY <2>1, <2>2
<1>9. 0 * price <= (batch[b].amount \div scale) * BLOCK_TIME
  <2> DEFINE m == batch[b].amount \div scale
  <2>1. price \in Nat /\ BLOCK_TIME \in Nat /\ m \in Nat
    BY <1>7, StampMathAssumption, StorageAssumption
       DEF AInv, StampMathAssumption, StorageAssumption
  <2> HIDE DEF m
  <2>2. 0 * price <= m * BLOCK_TIME
    BY <2>1
  <2> QED
    BY <2>2 DEF m
<1> HIDE DEF j, b, target, scale, found, k
<1> QED
  BY <1>1, <1>2, <1>4, <1>5, <1>6, <1>7, <1>8, <1>9, AmountsMove

\* A purchase that is mined keeps its amount.
LEMMA UsableAmounts ==
  ASSUME IInv, AInv, NEW b \in Batch, BecomesUsable(b)
  PROVE  AInv'
<1> DEFINE found == [batch[b] EXCEPT !.usable = TRUE]
<1>1. /\ batch' = [batch EXCEPT ![b] = found] /\ job' = job /\ price' = price /\ due' = due
      /\ BatchOK(batch[b]) /\ DOMAIN batch = Batch
  BY DEF IInv, BecomesUsable
<1>2. /\ found.live = batch[b].live /\ found.depth = batch[b].depth
      /\ found.amount = batch[b].amount
  BY <1>1 DEF BatchOK
<1> HIDE DEF found
<1>3. \A a \in Batch : /\ batch'[a].live = batch[a].live /\ batch'[a].depth = batch[a].depth
                       /\ batch'[a].amount = batch[a].amount
  BY <1>1, <1>2
<1>4. ASSUME NEW a \in Batch PROVE AmountOK(a)'
  <2>1. AmountOK(a)
    BY DEF AInv
  <2> QED
    BY <1>1, <1>3, <2>1 DEF AmountOK
<1>5. \A c \in Client : ComputedOK(job'[c])
  BY <1>1 DEF AInv
<1> QED
  BY <1>1, <1>4, <1>5 DEF AInv

\* Nothing is owed once the price has moved.
LEMMA PriceAmounts ==
  ASSUME IInv, AInv, NEW p \in Price, PriceMoves(p)
  PROVE  AInv'
<1>1. price' = p /\ due' = [b \in Batch |-> 0] /\ batch' = batch /\ job' = job
  BY DEF PriceMoves
<1>2. p \in Nat /\ BLOCK_TIME \in Nat
  BY StampMathAssumption, StorageAssumption DEF StampMathAssumption, StorageAssumption
<1>3. ASSUME NEW b \in Batch PROVE AmountOK(b)'
  <2>1. AmountOK(b) /\ due'[b] = 0
    BY <1>1 DEF AInv
  <2>2. batch[b].amount \in Nat
    BY <2>1 DEF AmountOK
  <2>3. 0 * p <= batch[b].amount * BLOCK_TIME
    <3>1. ASSUME NEW a \in Nat PROVE 0 * p <= a * BLOCK_TIME
      BY <1>2
    <3> QED
      BY <2>2, <3>1
  <2> QED
    BY <1>1, <2>1, <2>3 DEF AmountOK
<1> QED
  BY <1>1, <1>3 DEF AInv

\* At first no batch is bought, and nothing asked.
LEMMA InitAmounts == Init => AInv
<1> SUFFICES ASSUME Init PROVE AInv
  OBVIOUS
<1>1. price \in Price /\ price \in Nat /\ BLOCK_TIME \in Nat
  BY StampMathAssumption, StorageAssumption DEF Init, StampMathAssumption, StorageAssumption
<1>2. \A b \in Batch : batch[b] = Unbought /\ due[b] = 0
  BY DEF Init
<1>3. ASSUME NEW b \in Batch PROVE AmountOK(b)
  <2>1. 0 * price <= 0 * BLOCK_TIME
    BY <1>1
  <2> QED
    BY <1>2, <2>1 DEF AmountOK, Unbought
<1>4. ASSUME NEW c \in Client PROVE ComputedOK(job[c])
  <2>1. job[c] = Idle
    BY DEF Init
  <2> QED
    BY <2>1 DEF Idle, ComputedOK, Bought
<1>5. due \in [Batch -> {due[b] : b \in Batch}]
  BY DEF Init
<1> QED
  BY <1>1, <1>3, <1>4, <1>5 DEF AInv

\* The amounts are kept by every call of every program, and by the chain.
LEMMA StepAmounts == IInv /\ AInv /\ [Next]_vars => AInv'
<1> SUFFICES ASSUME IInv, AInv, Next \/ UNCHANGED vars PROVE AInv'
  OBVIOUS
<1>1. CASE UNCHANGED vars
  <2>1. batch' = batch /\ job' = job /\ price' = price /\ due' = due
    BY <1>1 DEF vars
  <2> QED
    BY <2>1 DEF AInv, AmountOK
<1>2. Ticks \subseteq Nat /\ Size \subseteq Nat /\ Target \subseteq Nat
  BY StorageAssumption DEF StorageAssumption
<1>3. ASSUME NEW c \in Client, NEW t \in Ticks, NEW s \in Size,
             BuyStorage(c, s, t) \/ StorageCost(c, s, t)
      PROVE  AInv'
  <2>1. t \in Nat /\ s \in Nat
    BY <1>2
  <2> QED
    BY <1>3, <2>1, BuyAmounts
<1>4. ASSUME NEW c \in Client, NEW t \in Ticks, NEW b \in Batch,
             ExtendDuration(c, b, t) \/ DurationCost(c, b, t) \/ Refill(c, b, t)
      PROVE  AInv'
  <2>1. t \in Nat
    BY <1>2
  <2> QED
    BY <1>4, <2>1, 0 \in Nat, ExtendAmounts
<1>5. ASSUME NEW c \in Client, NEW b \in Batch, NEW s \in Nat,
             NEW op \in {"extend_size", "size_cost", "top_up_to"}, OfBatch(c, op, b, s)
      PROVE  AInv'
  BY <1>5, 0 \in Nat, ExtendAmounts
<1>6. ASSUME NEW c \in Client,
             ReadPrice(c) \/ Fails(c) \/ DiluteRefused(c) \/ Poll(c)
      PROVE  AInv'
  BY <1>6, ReadPriceAmounts, ReturnAmounts
<1>7. ASSUME NEW c \in Client, NEW reported \in BOOLEAN, ReadBatch(c, reported)
      PROVE  AInv'
  BY <1>7, ReadBatchAmounts
<1>8. ASSUME NEW c \in Client, NEW arrives \in BOOLEAN,
             (\E b \in Batch : Create(c, b, arrives)) \/ TopUp(c, arrives) \/ Dilute(c, arrives)
      PROVE  AInv'
  BY <1>8, CreateAmounts, TopUpAmounts, DiluteAmounts
<1>9. ASSUME NEW b \in Batch, BecomesUsable(b)
      PROVE  AInv'
  BY <1>9, UsableAmounts
<1>10. ASSUME NEW p \in Price, PriceMoves(p)
       PROVE  AInv'
  BY <1>10, PriceAmounts
<1>11. ASSUME NEW c \in Client, NEW b \in Batch, NEW s \in Size,
              NEW op \in {"extend_size", "size_cost"}, OfBatch(c, op, b, s)
       PROVE  AInv'
  BY <1>2, <1>5, <1>11
<1>12. ASSUME NEW c \in Client, NEW b \in Batch, NEW t \in Target, OfBatch(c, "top_up_to", b, t)
       PROVE  AInv'
  BY <1>2, <1>5, <1>12
<1> QED
  BY <1>1, <1>3, <1>4, <1>6, <1>7, <1>8, <1>9, <1>10, <1>11, <1>12 DEF Next

\* For any table, programs, prices and durations: what is paid covers the seconds that were
\* answered for, and when it comes to the write the node takes what was quoted, whatever
\* other programs and the price did between a read and the write.
THEOREM QuotesAreCharged == Spec => QuotesHold
<1>1. Spec => [](IInv /\ AInv)
  BY InitOK, StepOK, InitAmounts, StepAmounts, PTL DEF Spec
<1>2. IInv /\ AInv => DurationsAddUp /\ RefillsAreClose
  BY QuotesFromAmounts
<1>3. IInv /\ AInv => ChargedAsQuoted
  BY ChargesFromAmounts
<1> QED
  BY <1>1, <1>2, <1>3, PTL DEF QuotesHold

-----------------------------------------------------------------------------
(* Recursion over the first numbers.                                       *)

\* f begins with start and goes on with step.
Iterates(f, n, start, step) ==
  f[0] = start /\ \A i \in 1..n : f[i] = step[<<i, f[i - 1]>>]

\* There is such an f if no step leaves S.
LEMMA IteratesExists ==
  ASSUME NEW n \in Nat, NEW S, NEW start \in S, NEW step,
         \A i \in 1..n, x \in S : step[<<i, x>>] \in S
  PROVE  \E f \in [0..n -> S] : Iterates(f, n, start, step)
<1> DEFINE Has(m) == \E f \in [0..m -> S] : Iterates(f, m, start, step)
           B == {m \in 0..n : ~Has(m)}
<1>0. B = {} => Has(n)
  <2>1. n \in 0..n
    OBVIOUS
  <2> HIDE DEF Has
  <2> QED
    BY <2>1
<1> SUFFICES ASSUME B # {} PROVE FALSE
  <2> HIDE DEF B
  <2> QED
    BY <1>0, Zenon
<1>1. PICK m \in B : \A k \in B : m <= k
  <2>1. B \in SUBSET Nat
    OBVIOUS
  <2> HIDE DEF B
  <2> QED
    BY <2>1, LeastExists
<1>2. m \in 0..n /\ ~Has(m)
  BY <1>1
<1>3. CASE m = 0
  <2>1. [i \in 0..0 |-> start] \in [0..0 -> S] /\ Iterates([i \in 0..0 |-> start], 0, start, step)
    BY DEF Iterates
  <2> QED
    BY <1>2, <1>3, <2>1
<1>4. CASE m > 0
  <2>1. m - 1 \in 0..n /\ Has(m - 1)
    BY <1>1, <1>2, <1>4
  <2>2. PICK f \in [0 .. m - 1 -> S] : Iterates(f, m - 1, start, step)
    BY <2>1
  <2> DEFINE g == [i \in 0..m |-> IF i = m THEN step[<<m, f[m - 1]>>] ELSE f[i]]
  <2>3. step[<<m, f[m - 1]>>] \in S
    BY <1>2, <1>4, <2>2
  <2>4. g \in [0..m -> S]
    BY <1>2, <2>2, <2>3
  <2>5. \A i \in 0 .. m - 1 : g[i] = f[i]
    BY <1>2
  <2>6. g[m] = step[<<m, f[m - 1]>>]
    BY <1>2
  <2> HIDE DEF g
  <2>7. ASSUME NEW i \in 1..m PROVE g[i] = step[<<i, g[i - 1]>>]
    <3>1. CASE i = m
      BY <1>2, <1>4, <2>5, <2>6, <3>1
    <3>2. CASE i # m
      <4>1. i \in 1 .. m - 1 /\ i - 1 \in 0 .. m - 1 /\ i \in 0 .. m - 1
        BY <1>2, <3>2
      <4> QED
        BY <2>2, <2>5, <4>1 DEF Iterates
    <3> QED
      BY <3>1, <3>2
  <2>8. g[0] = start
    BY <1>2, <1>4, <2>2, <2>5 DEF Iterates
  <2> QED
    BY <1>2, <2>4, <2>7, <2>8 DEF Iterates
<1> QED
  BY <1>2, <1>3, <1>4

\* And it is the only one, as far as both go.
LEMMA IteratesOnce ==
  ASSUME NEW n \in Nat, NEW start, NEW step, NEW f, NEW g,
         Iterates(f, n, start, step), Iterates(g, n, start, step), NEW i \in 0..n
  PROVE  f[i] = g[i]
<1> DEFINE B == {k \in 0..n : f[k] # g[k]}
<1> SUFFICES ASSUME B # {} PROVE FALSE
  OBVIOUS
<1>1. PICK m \in B : \A k \in B : m <= k
  <2>1. B \in SUBSET Nat
    OBVIOUS
  <2> HIDE DEF B
  <2> QED
    BY <2>1, LeastExists
<1>2. m \in 0..n /\ f[m] # g[m]
  BY <1>1
<1>3. m # 0
  BY <1>2 DEF Iterates
<1>4. m - 1 \in 0..n /\ f[m - 1] = g[m - 1]
  BY <1>1, <1>2, <1>3
<1>5. m \in 1..n
  BY <1>2, <1>3
<1> QED
  BY <1>2, <1>4, <1>5 DEF Iterates

-----------------------------------------------------------------------------
(* Powers.                                                                 *)

IsPower(b, n, p) == p = [i \in 0..n |-> IF i = 0 THEN 1 ELSE b * p[i - 1]]

PowerStep(b, n) == [x \in (1..n) \X Nat |-> b * x[2]]

\* A power is the last of the numbers of an iteration.
LEMMA PowerIterates ==
  ASSUME NEW b \in Nat, NEW n \in Nat
  PROVE  \E p \in [0..n -> Nat] : Power(b, n) = p[n] /\ Iterates(p, n, 1, PowerStep(b, n))
<1> DEFINE q[i \in 0..n] == IF i = 0 THEN 1 ELSE b * q[i - 1]
<1>1. \A i \in 1..n, x \in Nat : PowerStep(b, n)[<<i, x>>] = b * x /\ b * x \in Nat
  BY DEF PowerStep
<1>2. PICK p \in [0..n -> Nat] : Iterates(p, n, 1, PowerStep(b, n))
  <2> DEFINE step == PowerStep(b, n)
  <2>1. \A i \in 1..n, x \in Nat : step[<<i, x>>] \in Nat
    BY <1>1
  <2> HIDE DEF step
  <2>2. \E p \in [0..n -> Nat] : Iterates(p, n, 1, step)
    BY <2>1, IteratesExists
  <2> QED
    BY <2>2 DEF step
<1>3. IsPower(b, n, p)
  <2>1. \A i \in 0..n : p[i] = IF i = 0 THEN 1 ELSE b * p[i - 1]
    <3> TAKE i \in 0..n
    <3>1. CASE i = 0
      BY <1>2, <3>1 DEF Iterates
    <3>2. CASE i # 0
      <4>1. i \in 1..n /\ i - 1 \in 0..n /\ p[i - 1] \in Nat
        BY <3>2, <1>2
      <4> QED
        BY <1>1, <1>2, <3>2, <4>1 DEF Iterates
    <3> QED
      BY <3>1, <3>2
  <2> QED
    BY <1>2, <2>1 DEF IsPower
<1>4. IsPower(b, n, q)
  BY <1>3 DEF IsPower
<1>5. Power(b, n) = q[n]
  BY DEF Power
<1> HIDE DEF q
<1>6. \A i \in 0..n : q[i] = p[i]
  <2> DEFINE B == {k \in 0..n : q[k] # p[k]}
  <2> SUFFICES ASSUME B # {} PROVE FALSE
    OBVIOUS
  <2>1. PICK m \in B : \A k \in B : m <= k
    <3>1. B \in SUBSET Nat
      OBVIOUS
    <3> HIDE DEF B
    <3> QED
      BY <3>1, LeastExists
  <2>2. m \in 0..n /\ q[m] # p[m]
    BY <2>1
  <2>3. m # 0
    BY <1>3, <1>4, <2>2 DEF IsPower
  <2>4. m - 1 \in 0..n /\ q[m - 1] = p[m - 1]
    BY <2>1, <2>2, <2>3
  <2> QED
    BY <1>3, <1>4, <2>2, <2>3, <2>4 DEF IsPower
<1> QED
  BY <1>2, <1>5, <1>6

\* A set with nought and every successor has all numbers.
LEMMA Induct ==
  ASSUME NEW S, 0 \in S, \A n \in Nat : n \in S => n + 1 \in S
  PROVE  \A n \in Nat : n \in S
<1> DEFINE B == Nat \ S
<1> SUFFICES ASSUME B # {} PROVE FALSE
  OBVIOUS
<1>1. PICK m \in B : \A k \in B : m <= k
  <2>1. B \in SUBSET Nat
    OBVIOUS
  <2> HIDE DEF B
  <2> QED
    BY <2>1, LeastExists
<1>2. m \in Nat /\ m \notin S /\ m # 0
  BY <1>1
<1>3. m - 1 \in Nat /\ m - 1 \in S /\ (m - 1) + 1 = m
  BY <1>1, <1>2
<1> QED
  BY <1>2, <1>3

\* An iteration of more steps is one of fewer.
LEMMA PowerIs ==
  ASSUME NEW b \in Nat
  PROVE  /\ Power(b, 0) = 1
         /\ \A n \in Nat : Power(b, n) \in Nat /\ Power(b, n + 1) = b * Power(b, n)
<1>1. Power(b, 0) = 1
  <2>1. PICK p \in [0..0 -> Nat] : Power(b, 0) = p[0] /\ Iterates(p, 0, 1, PowerStep(b, 0))
    BY PowerIterates
  <2> QED
    BY <2>1 DEF Iterates
<1>2. ASSUME NEW n \in Nat PROVE Power(b, n) \in Nat /\ Power(b, n + 1) = b * Power(b, n)
  <2>1. PICK p \in [0..n -> Nat] : Power(b, n) = p[n] /\ Iterates(p, n, 1, PowerStep(b, n))
    BY PowerIterates
  <2>2. PICK q \in [0 .. n + 1 -> Nat] :
          Power(b, n + 1) = q[n + 1] /\ Iterates(q, n + 1, 1, PowerStep(b, n + 1))
    <3> DEFINE m == n + 1
    <3>1. m \in Nat
      OBVIOUS
    <3> HIDE DEF m
    <3>2. \E q \in [0..m -> Nat] : Power(b, m) = q[m] /\ Iterates(q, m, 1, PowerStep(b, m))
      BY <3>1, PowerIterates
    <3> QED
      BY <3>2 DEF m
  <2>3. \A i \in 1 .. n + 1 : q[i] = b * q[i - 1]
    <3> TAKE i \in 1 .. n + 1
    <3>1. q[i - 1] \in Nat
      BY <2>2
    <3> QED
      BY <2>2, <3>1 DEF Iterates, PowerStep
  <2>4. Iterates(q, n, 1, PowerStep(b, n))
    <3>1. \A i \in 1..n : q[i - 1] \in Nat /\ i \in 1 .. n + 1
      BY <2>2
    <3> QED
      BY <2>2, <2>3, <3>1 DEF Iterates, PowerStep
  <2>5. q[n] = p[n]
    BY <2>1, <2>4, IteratesOnce
  <2>6. q[n + 1] = b * q[(n + 1) - 1] /\ (n + 1) - 1 = n
    BY <2>3
  <2> QED
    BY <2>1, <2>2, <2>5, <2>6
<1> QED
  BY <1>1, <1>2

\* Powers add up, and are none of them nought.
LEMMA PowerSum ==
  ASSUME NEW b \in Nat, NEW m \in Nat, NEW n \in Nat
  PROVE  Power(b, m + n) = Power(b, m) * Power(b, n)
<1> DEFINE S == {k \in Nat : Power(b, m + k) = Power(b, m) * Power(b, k)}
<1>1. 0 \in S
  BY PowerIs
<1>2. ASSUME NEW k \in Nat, k \in S PROVE k + 1 \in S
  <2>1. Power(b, m + k) = Power(b, m) * Power(b, k)
    BY <1>2
  <2>2. m + (k + 1) = (m + k) + 1 /\ m + k \in Nat
    OBVIOUS
  <2>3. Power(b, m + (k + 1)) = b * (Power(b, m) * Power(b, k))
    BY <2>1, <2>2, PowerIs
  <2>4. Power(b, k + 1) = b * Power(b, k) /\ Power(b, m) \in Nat /\ Power(b, k) \in Nat
    BY PowerIs
  <2>5. \A x, y \in Nat : b * (x * y) = x * (b * y)
    OBVIOUS
  <2>6. Power(b, m + (k + 1)) = Power(b, m) * Power(b, k + 1)
    BY <2>3, <2>4, <2>5
  <2> QED
    BY <2>6
<1> HIDE DEF S
<1>3. n \in S
  BY <1>1, <1>2, Induct
<1> QED
  BY <1>3 DEF S

\* A power of a number that is not nought is not nought.
LEMMA PowerPositive ==
  ASSUME NEW b \in Nat \ {0}, NEW n \in Nat
  PROVE  Power(b, n) \in Nat \ {0}
<1> DEFINE S == {k \in Nat : Power(b, k) \in Nat \ {0}}
<1>1. 0 \in S
  BY PowerIs
<1>2. ASSUME NEW k \in Nat, k \in S PROVE k + 1 \in S
  <2>1. Power(b, k) \in Nat \ {0} /\ Power(b, k + 1) = b * Power(b, k)
    BY <1>2, PowerIs
  <2>2. \A x, y \in Nat \ {0} : x * y \in Nat \ {0}
    OBVIOUS
  <2> QED
    BY <2>1, <2>2
<1> HIDE DEF S
<1>3. n \in S
  BY <1>1, <1>2, Induct
<1> QED
  BY <1>3 DEF S

-----------------------------------------------------------------------------
(* Digits.                                                                 *)

IsCount(b, d, v) == v = [i \in 0..Len(d) |-> IF i = 0 THEN 0 ELSE b * v[i - 1] + d[i]]

CountStep(b, d) == [x \in (1..Len(d)) \X Nat |-> b * x[2] + d[x[1]]]

\* A value is the last of the numbers of an iteration.
LEMMA ValueIterates ==
  ASSUME NEW b \in Nat, NEW d \in Seq(Nat)
  PROVE  \E p \in [0..Len(d) -> Nat] :
           ValueOf(b, d) = p[Len(d)] /\ Iterates(p, Len(d), 0, CountStep(b, d))
<1> DEFINE n == Len(d)
           q[i \in 0..n] == IF i = 0 THEN 0 ELSE b * q[i - 1] + d[i]
<1>0. n \in Nat
  OBVIOUS
<1>1. \A i \in 1..n, x \in Nat : CountStep(b, d)[<<i, x>>] = b * x + d[i] /\ b * x + d[i] \in Nat
  <2> TAKE i \in 1..n, x \in Nat
  <2>1. d[i] \in Nat /\ b * x \in Nat
    OBVIOUS
  <2>2. CountStep(b, d)[<<i, x>>] = b * x + d[i]
    BY DEF CountStep
  <2>3. b * x + d[i] \in Nat
    <3> DEFINE y == b * x
               z == d[i]
    <3>1. y \in Nat /\ z \in Nat
      BY <2>1
    <3> HIDE DEF y, z
    <3>2. y + z \in Nat
      BY <3>1
    <3> QED
      BY <3>2 DEF y, z
  <2> QED
    BY <2>2, <2>3
<1>2. PICK p \in [0..n -> Nat] : Iterates(p, n, 0, CountStep(b, d))
  <2> DEFINE step == CountStep(b, d)
  <2>1. \A i \in 1..n, x \in Nat : step[<<i, x>>] \in Nat
    BY <1>1
  <2> HIDE DEF step, n
  <2>2. \E p \in [0..n -> Nat] : Iterates(p, n, 0, step)
    BY <1>0, <2>1, IteratesExists
  <2> QED
    BY <2>2 DEF step
<1>3. IsCount(b, d, p)
  <2>1. \A i \in 0..n : p[i] = IF i = 0 THEN 0 ELSE b * p[i - 1] + d[i]
    <3> TAKE i \in 0..n
    <3>1. CASE i = 0
      BY <1>2, <3>1 DEF Iterates
    <3>2. CASE i # 0
      <4>1. i \in 1..n /\ i - 1 \in 0..n /\ p[i - 1] \in Nat
        BY <1>0, <3>2, <1>2
      <4> QED
        BY <1>1, <1>2, <3>2, <4>1 DEF Iterates
    <3> QED
      BY <3>1, <3>2
  <2> QED
    BY <1>2, <2>1 DEF IsCount
<1>4. IsCount(b, d, q)
  BY <1>3 DEF IsCount
<1>5. ValueOf(b, d) = q[n]
  BY DEF ValueOf
<1> HIDE DEF q
<1>6. \A i \in 0..n : q[i] = p[i]
  <2> DEFINE B == {k \in 0..n : q[k] # p[k]}
  <2> SUFFICES ASSUME B # {} PROVE FALSE
    OBVIOUS
  <2>1. PICK m \in B : \A k \in B : m <= k
    <3>1. B \in SUBSET Nat
      BY <1>0
    <3> HIDE DEF B
    <3> QED
      BY <3>1, LeastExists
  <2>2. m \in 0..n /\ q[m] # p[m]
    BY <2>1
  <2>3. m # 0
    BY <1>0, <1>3, <1>4, <2>2 DEF IsCount
  <2>4. m - 1 \in 0..n /\ q[m - 1] = p[m - 1]
    BY <1>0, <2>1, <2>2, <2>3
  <2> QED
    BY <1>3, <1>4, <2>2, <2>3, <2>4 DEF IsCount
<1> QED
  BY <1>0, <1>2, <1>5, <1>6

\* No digits count nought.
LEMMA ValueEmpty == \A b \in Nat : ValueOf(b, <<>>) = 0
<1> TAKE b \in Nat
<1> DEFINE d == <<>>
<1>1. d \in Seq(Nat) /\ Len(d) = 0
  OBVIOUS
<1> HIDE DEF d
<1>2. PICK p \in [0..Len(d) -> Nat] :
        ValueOf(b, d) = p[Len(d)] /\ Iterates(p, Len(d), 0, CountStep(b, d))
  BY <1>1, ValueIterates
<1>3. ValueOf(b, d) = 0
  BY <1>1, <1>2 DEF Iterates
<1> QED
  BY <1>3 DEF d

\* A value is a number; one digit more puts what was there one place up.
LEMMA ValueAppend ==
  ASSUME NEW b \in Nat, NEW d \in Seq(Nat)
  PROVE  /\ ValueOf(b, d) \in Nat
         /\ \A x \in Nat : ValueOf(b, Append(d, x)) = b * ValueOf(b, d) + x
<1> DEFINE n == Len(d)
<1>0. n \in Nat
  OBVIOUS
<1>1. PICK p \in [0..n -> Nat] : ValueOf(b, d) = p[n] /\ Iterates(p, n, 0, CountStep(b, d))
  BY ValueIterates
<1>2. ASSUME NEW x \in Nat PROVE ValueOf(b, Append(d, x)) = b * ValueOf(b, d) + x
  <2> DEFINE e == Append(d, x)
  <2>1. e \in Seq(Nat) /\ Len(e) = n + 1 /\ e[n + 1] = x /\ \A i \in 1..n : e[i] = d[i]
    BY AppendProperties
  <2> HIDE DEF e
  <2>2. PICK q \in [0..Len(e) -> Nat] :
          ValueOf(b, e) = q[Len(e)] /\ Iterates(q, Len(e), 0, CountStep(b, e))
    BY <2>1, ValueIterates
  <2> HIDE DEF n
  <2>3. \A i \in 1 .. n + 1 : q[i] = b * q[i - 1] + e[i]
    <3> TAKE i \in 1 .. n + 1
    <3>1. q[i - 1] \in Nat
      BY <1>0, <2>1, <2>2
    <3> QED
      BY <2>1, <2>2, <3>1 DEF Iterates, CountStep
  <2>4. Iterates(q, n, 0, CountStep(b, d))
    <3>1. \A i \in 1..n : CountStep(b, d)[<<i, q[i - 1]>>] = b * q[i - 1] + d[i]
      <4> TAKE i \in 1..n
      <4>1. q[i - 1] \in Nat
        BY <1>0, <2>1, <2>2
      <4> QED
        BY <4>1 DEF CountStep, n
    <3>2. \A i \in 1..n : i \in 1 .. n + 1 /\ e[i] = d[i]
      BY <1>0, <2>1
    <3>3. q[0] = 0
      BY <2>2 DEF Iterates
    <3> QED
      BY <2>3, <3>1, <3>2, <3>3 DEF Iterates
  <2>5. q[n] = p[n]
    <3>1. n \in 0..n
      BY <1>0
    <3> QED
      BY <1>0, <1>1, <2>4, <3>1, IteratesOnce
  <2>6. q[n + 1] = b * q[(n + 1) - 1] + e[n + 1] /\ (n + 1) - 1 = n
    BY <1>0, <2>3
  <2>7. ValueOf(b, e) = b * ValueOf(b, d) + x
    BY <1>1, <2>1, <2>2, <2>5, <2>6
  <2> QED
    BY <2>7 DEF e
<1> QED
  BY <1>0, <1>1, <1>2

\* A set with the empty sequence and whatever one of its own is extended to has all.
LEMMA SeqInduct ==
  ASSUME NEW T, NEW P, <<>> \in P, \A s \in Seq(T), x \in T : s \in P => Append(s, x) \in P
  PROVE  \A s \in Seq(T) : s \in P
<1> DEFINE S == {n \in Nat : \A s \in Seq(T) : Len(s) = n => s \in P}
<1>1. 0 \in S
  <2> SUFFICES ASSUME NEW s \in Seq(T), Len(s) = 0 PROVE s \in P
    OBVIOUS
  <2>1. s = <<>>
    BY EmptySeq
  <2> QED
    BY <2>1
<1>2. ASSUME NEW n \in Nat, n \in S PROVE n + 1 \in S
  <2> SUFFICES ASSUME NEW s \in Seq(T), Len(s) = n + 1 PROVE s \in P
    OBVIOUS
  <2> DEFINE f == SubSeq(s, 1, n)
  <2>1. f \in Seq(T) /\ Len(f) = n /\ s[n + 1] \in T /\ \A i \in 1..n : f[i] = s[i]
    OBVIOUS
  <2>2. Append(f, s[n + 1]) = s
    <3> DEFINE e == Append(f, s[n + 1])
    <3>1. /\ e \in Seq(T) /\ Len(e) = n + 1 /\ e[n + 1] = s[n + 1]
          /\ \A i \in 1..n : e[i] = f[i]
      <4> HIDE DEF f
      <4> QED
        BY <2>1, AppendProperties
    <3> HIDE DEF e, f
    <3>2. \A i \in 1 .. Len(s) : e[i] = s[i]
      <4> TAKE i \in 1 .. Len(s)
      <4>1. i \in 1..n \/ i = n + 1
        OBVIOUS
      <4> QED
        BY <2>1, <3>1, <4>1
    <3> QED
      BY <3>1, <3>2, SeqEqual DEF e
  <2>3. f \in P
    BY <1>2, <2>1
  <2> HIDE DEF f
  <2> QED
    BY <2>1, <2>2, <2>3
<1>3. \A n \in Nat : n \in S
  <2> HIDE DEF S
  <2> QED
    BY <1>1, <1>2, Induct
<1> QED
  BY <1>3

\* The digits of one number before those of another.
LEMMA ValueConcat ==
  ASSUME NEW b \in Nat, NEW s \in Seq(Nat), NEW t \in Seq(Nat)
  PROVE  ValueOf(b, s \o t) = ValueOf(b, s) * Power(b, Len(t)) + ValueOf(b, t)
<1> DEFINE P == {u \in Seq(Nat) : ValueOf(b, s \o u) = ValueOf(b, s) * Power(b, Len(u)) + ValueOf(b, u)}
<1>1. <<>> \in P
  <2>1. s \o <<>> = s /\ Len(<<>>) = 0 /\ <<>> \in Seq(Nat)
    OBVIOUS
  <2>2. ValueOf(b, s) \in Nat /\ Power(b, 0) = 1 /\ ValueOf(b, <<>>) = 0
    BY ValueAppend, ValueEmpty, PowerIs
  <2>3. ValueOf(b, s) = ValueOf(b, s) * 1 + 0
    BY <2>2
  <2> QED
    BY <2>1, <2>2, <2>3
<1>2. ASSUME NEW u \in Seq(Nat), NEW x \in Nat, u \in P PROVE Append(u, x) \in P
  <2>1. ValueOf(b, s \o u) = ValueOf(b, s) * Power(b, Len(u)) + ValueOf(b, u)
    BY <1>2
  <2>2. /\ s \o Append(u, x) = Append(s \o u, x) /\ Len(Append(u, x)) = Len(u) + 1
        /\ Append(u, x) \in Seq(Nat) /\ s \o u \in Seq(Nat) /\ Len(u) \in Nat
    OBVIOUS
  <2>3. ValueOf(b, Append(s \o u, x)) = b * ValueOf(b, s \o u) + x
    BY <2>2, ValueAppend
  <2>4. ValueOf(b, Append(u, x)) = b * ValueOf(b, u) + x
    BY ValueAppend
  <2>5. Power(b, Len(u) + 1) = b * Power(b, Len(u))
    BY <2>2, PowerIs
  <2>6. ValueOf(b, s) \in Nat /\ ValueOf(b, u) \in Nat /\ Power(b, Len(u)) \in Nat
    BY <2>2, ValueAppend, PowerIs
  <2>7. \A v, p, w \in Nat : b * (v * p + w) + x = v * (b * p) + (b * w + x)
    OBVIOUS
  <2>8. ValueOf(b, Append(s \o u, x))
          = ValueOf(b, s) * Power(b, Len(u) + 1) + ValueOf(b, Append(u, x))
    BY <2>1, <2>3, <2>4, <2>5, <2>6, <2>7
  <2> QED
    BY <2>2, <2>8
<1> HIDE DEF P
<1>3. t \in P
  BY <1>1, <1>2, SeqInduct
<1> QED
  BY <1>3 DEF P

\* Digits below the base count to less than the power of their number.
LEMMA ValueBound ==
  ASSUME NEW b \in Nat \ {0}, NEW s \in Seq(0 .. b - 1)
  PROVE  ValueOf(b, s) \in 0 .. Power(b, Len(s)) - 1
<1> DEFINE P == {u \in Seq(0 .. b - 1) : ValueOf(b, u) < Power(b, Len(u))}
<1>0. \A u \in Seq(0 .. b - 1) : u \in Seq(Nat)
  OBVIOUS
<1>1. <<>> \in P
  BY ValueEmpty, PowerIs
<1>2. ASSUME NEW u \in Seq(0 .. b - 1), NEW x \in 0 .. b - 1, u \in P PROVE Append(u, x) \in P
  <2>1. ValueOf(b, u) < Power(b, Len(u))
    BY <1>2
  <2>2. Len(Append(u, x)) = Len(u) + 1 /\ Append(u, x) \in Seq(0 .. b - 1) /\ Len(u) \in Nat
    OBVIOUS
  <2>3. ValueOf(b, Append(u, x)) = b * ValueOf(b, u) + x /\ ValueOf(b, u) \in Nat
    <3>1. u \in Seq(Nat) /\ x \in Nat /\ b \in Nat
      BY <1>0
    <3> QED
      BY <3>1, ValueAppend
  <2>4. Power(b, Len(u) + 1) = b * Power(b, Len(u)) /\ Power(b, Len(u)) \in Nat
    BY <2>2, PowerIs
  <2>5. \A v, p \in Nat : v < p => b * v + x < b * p
    <3> TAKE v \in Nat, p \in Nat
    <3> SUFFICES ASSUME v < p PROVE b * v + x < b * p
      OBVIOUS
    <3>1. b * (v + 1) <= b * p
      OBVIOUS
    <3>2. b * (v + 1) = b * v + b /\ b * v \in Nat /\ b * p \in Nat
      OBVIOUS
    <3> DEFINE bv == b * v
               bp == b * p
               bw == b * (v + 1)
    <3>3. bw <= bp /\ bw = bv + b /\ bv \in Nat /\ bp \in Nat /\ bw \in Nat
      BY <3>1, <3>2
    <3> HIDE DEF bv, bp, bw
    <3>4. bv + x < bp
      BY <3>3
    <3> QED
      BY <3>4 DEF bv, bp
  <2>6. ValueOf(b, Append(u, x)) < Power(b, Len(u) + 1)
    BY <2>1, <2>3, <2>4, <2>5
  <2> QED
    BY <2>2, <2>6
<1> HIDE DEF P
<1>3. s \in P
  BY <1>1, <1>2, SeqInduct
<1>4. ValueOf(b, s) \in Nat /\ ValueOf(b, s) < Power(b, Len(s)) /\ Power(b, Len(s)) \in Nat
  BY <1>0, <1>3, ValueAppend, PowerIs DEF P
<1> QED
  BY <1>4

\* A sequence that is not empty is its last element after the others.
LEMMA LastOf ==
  ASSUME NEW T, NEW s \in Seq(T), s # <<>>
  PROVE  \E u \in Seq(T), x \in T : s = Append(u, x) /\ Len(s) = Len(u) + 1
<1> DEFINE P == {v \in Seq(T) : v = <<>> \/ \E u \in Seq(T), x \in T : v = Append(u, x) /\ Len(v) = Len(u) + 1}
<1>1. <<>> \in P
  OBVIOUS
<1>2. ASSUME NEW u \in Seq(T), NEW x \in T PROVE Append(u, x) \in P
  <2>1. Append(u, x) \in Seq(T) /\ Len(Append(u, x)) = Len(u) + 1
    OBVIOUS
  <2> QED
    BY <2>1
<1>3. s \in P
  <2> HIDE DEF P
  <2> QED
    BY <1>1, <1>2, SeqInduct
<1> QED
  BY <1>3

\* Division with a rest has one result.
LEMMA DivideOnce ==
  \A b \in Nat \ {0} : \A m, n \in Nat : \A x, y \in 0 .. b - 1 :
    b * m + x = b * n + y => m = n /\ x = y
OBVIOUS

\* A number tells its last digit, and the number that the others count to.
LEMMA LastDigit ==
  ASSUME NEW b \in Nat \ {0}, NEW u \in Seq(Nat), NEW w \in Seq(Nat),
         NEW x \in 0 .. b - 1, NEW y \in 0 .. b - 1,
         ValueOf(b, Append(u, x)) = ValueOf(b, Append(w, y))
  PROVE  ValueOf(b, u) = ValueOf(b, w) /\ x = y
<1> DEFINE m == ValueOf(b, u)
           n == ValueOf(b, w)
<1>1. x \in Nat /\ y \in Nat /\ b \in Nat
  OBVIOUS
<1>2. b * m + x = b * n + y /\ m \in Nat /\ n \in Nat
  BY <1>1, ValueAppend
<1> HIDE DEF m, n
<1>3. m = n /\ x = y
  BY <1>2, DivideOnce, SMTT(30)
<1> QED
  BY <1>3 DEF m, n

\* So as many digits count to the same number only if they are the same.
LEMMA ValueInjective ==
  ASSUME NEW b \in Nat \ {0}, NEW s \in Seq(0 .. b - 1), NEW t \in Seq(0 .. b - 1),
         Len(s) = Len(t), ValueOf(b, s) = ValueOf(b, t)
  PROVE  s = t
<1> DEFINE D == 0 .. b - 1
           P == {u \in Seq(D) : \A v \in Seq(D) :
                   Len(u) = Len(v) /\ ValueOf(b, u) = ValueOf(b, v) => u = v}
<1>1. <<>> \in P
  BY EmptySeq
<1>2. ASSUME NEW u \in Seq(D), NEW x \in D, u \in P PROVE Append(u, x) \in P
  <2> DEFINE e == Append(u, x)
  <2>1. e \in Seq(D) /\ Len(e) = Len(u) + 1 /\ Len(u) \in Nat
    OBVIOUS
  <2>2. ASSUME NEW v \in Seq(D), Len(e) = Len(v), ValueOf(b, e) = ValueOf(b, v)
        PROVE  e = v
    <3>1. v # <<>>
      <4> HIDE DEF e, D
      <4> QED
        BY <2>1, <2>2, EmptySeq
    <3>2. PICK w \in Seq(D), y \in D : v = Append(w, y) /\ Len(v) = Len(w) + 1
      <4> HIDE DEF D
      <4> QED
        BY <3>1, LastOf
    <3>3. Len(w) = Len(u)
      <4>1. Len(w) \in Nat
        OBVIOUS
      <4> HIDE DEF e
      <4> QED
        BY <2>1, <2>2, <3>2, <4>1
    <3>4. u \in Seq(Nat) /\ w \in Seq(Nat)
      OBVIOUS
    <3>5. ValueOf(b, Append(u, x)) = ValueOf(b, Append(w, y))
      BY <2>2, <3>2
    <3>6. ValueOf(b, u) = ValueOf(b, w) /\ x = y
      BY <3>4, <3>5, LastDigit
    <3>7. u = w
      BY <1>2, <3>3, <3>6
    <3> QED
      BY <3>2, <3>6, <3>7
  <2> QED
    BY <2>1, <2>2
<1>3. s \in P
  <2> HIDE DEF P
  <2> QED
    BY <1>1, <1>2, SeqInduct
<1> QED
  BY <1>3

\* Noughts in front, or nothing else, count for nothing.
LEMMA ValueZeros ==
  ASSUME NEW b \in Nat, NEW z \in Seq({0})
  PROVE  /\ ValueOf(b, z) = 0
         /\ \A s \in Seq(Nat) : ValueOf(b, z \o s) = ValueOf(b, s)
<1> DEFINE P == {u \in Seq({0}) : ValueOf(b, u) = 0}
<1>0. \A u \in Seq({0}) : u \in Seq(Nat)
  OBVIOUS
<1>1. <<>> \in P
  BY ValueEmpty
<1>2. ASSUME NEW u \in Seq({0}), NEW x \in {0}, u \in P PROVE Append(u, x) \in P
  <2>1. u \in Seq(Nat) /\ x \in Nat /\ x = 0 /\ ValueOf(b, u) = 0
    BY <1>0, <1>2
  <2>2. ValueOf(b, Append(u, x)) = b * ValueOf(b, u) + x
    BY <2>1, ValueAppend
  <2>3. ValueOf(b, Append(u, x)) = 0
    BY <2>1, <2>2
  <2> QED
    BY <2>3
<1>3. z \in P
  <2> HIDE DEF P
  <2> QED
    BY <1>1, <1>2, SeqInduct
<1>4. ValueOf(b, z) = 0 /\ z \in Seq(Nat)
  BY <1>0, <1>3
<1>5. ASSUME NEW s \in Seq(Nat) PROVE ValueOf(b, z \o s) = ValueOf(b, s)
  <2>1. ValueOf(b, z \o s) = 0 * Power(b, Len(s)) + ValueOf(b, s)
    BY <1>4, ValueConcat
  <2> DEFINE p == Power(b, Len(s))
             v == ValueOf(b, s)
  <2>2. p \in Nat /\ v \in Nat
    <3>1. Len(s) \in Nat
      OBVIOUS
    <3> QED
      BY <3>1, PowerIs, ValueAppend
  <2> HIDE DEF p, v
  <2>3. 0 * p + v = v
    BY <2>2
  <2> QED
    BY <2>1, <2>3 DEF p, v
<1> QED
  BY <1>4, <1>5

\* Three sequences in a row are joined in either order.
LEMMA Regroup ==
  ASSUME NEW D, NEW a \in Seq(D), NEW b \in Seq(D), NEW c \in Seq(D)
  PROVE  (a \o b) \o c = a \o (b \o c)
BY ConcatAssociative

\* Nor does one that has each number if it has all below it leave out any.
LEMMA StrongInduct ==
  ASSUME NEW S, \A n \in Nat : (\A k \in 0 .. n - 1 : k \in S) => n \in S
  PROVE  \A n \in Nat : n \in S
<1> DEFINE B == Nat \ S
<1> SUFFICES ASSUME B # {} PROVE FALSE
  OBVIOUS
<1>1. PICK m \in B : \A k \in B : m <= k
  <2>1. B \in SUBSET Nat
    OBVIOUS
  <2> HIDE DEF B
  <2> QED
    BY <2>1, LeastExists
<1>2. m \in Nat /\ m \notin S
  BY <1>1
<1>3. \A k \in 0 .. m - 1 : k \in S
  <2> TAKE k \in 0 .. m - 1
  <2>1. k \in Nat /\ ~(m <= k)
    BY <1>2
  <2> QED
    BY <1>1, <2>1
<1> QED
  BY <1>2, <1>3

-----------------------------------------------------------------------------
(* The digits of a number.                                                 *)

IsDigits(f, n) ==
  \A k \in 0..n : f[k] = IF k < 10 THEN <<k>> ELSE Append(f[k \div 10], k % 10)

\* The last digit of a number, and the number without it.
LEMMA Tenth == \A k \in Nat : k >= 10 => k \div 10 \in 0 .. k - 1 /\ k % 10 \in 0..9 /\ k = 10 * (k \div 10) + (k % 10)
OBVIOUS

\* Two tables of digits agree as far as both go.
LEMMA DigitsOnce ==
  ASSUME NEW m \in Nat, NEW n \in Nat, NEW f, NEW g, IsDigits(f, m), IsDigits(g, n)
  PROVE  \A k \in Nat : k <= m /\ k <= n => f[k] = g[k]
<1> DEFINE S == {k \in Nat : k <= m /\ k <= n => f[k] = g[k]}
<1>1. ASSUME NEW k \in Nat, \A j \in 0 .. k - 1 : j \in S PROVE k \in S
  <2> SUFFICES ASSUME k <= m, k <= n PROVE f[k] = g[k]
    OBVIOUS
  <2>1. /\ f[k] = IF k < 10 THEN <<k>> ELSE Append(f[k \div 10], k % 10)
        /\ g[k] = IF k < 10 THEN <<k>> ELSE Append(g[k \div 10], k % 10)
    <3>1. k \in 0..m /\ k \in 0..n
      OBVIOUS
    <3> QED
      BY <3>1 DEF IsDigits
  <2>2. ASSUME k >= 10 PROVE f[k \div 10] = g[k \div 10]
    <3> DEFINE j == k \div 10
    <3>1. j \in 0 .. k - 1 /\ j \in S
      BY <1>1, <2>2, Tenth
    <3>2. j <= m /\ j <= n
      <4> HIDE DEF j
      <4> QED
        BY <3>1
    <3> QED
      BY <3>1, <3>2
  <2> QED
    BY <2>1, <2>2
<1> HIDE DEF S
<1>2. \A k \in Nat : k \in S
  BY <1>1, StrongInduct
<1> QED
  BY <1>2 DEF S

\* There is a table of digits for every number.
LEMMA DigitsExist == \A n \in Nat : \E f : IsDigits(f, n)
<1> DEFINE S == {n \in Nat : \E f : IsDigits(f, n)}
<1>1. 0 \in S
  <2>1. IsDigits([k \in 0..0 |-> <<k>>], 0)
    BY DEF IsDigits
  <2> QED
    BY <2>1
<1>2. ASSUME NEW n \in Nat, n \in S PROVE n + 1 \in S
  <2>1. PICK f : IsDigits(f, n)
    BY <1>2
  <2> DEFINE m == n + 1
             new == IF m < 10 THEN <<m>> ELSE Append(f[m \div 10], m % 10)
             g == [k \in 0..m |-> IF k = m THEN new ELSE f[k]]
  <2>2. \A k \in 0..n : g[k] = f[k]
    OBVIOUS
  <2>3. g[m] = new
    OBVIOUS
  <2>4. ASSUME NEW k \in 0..m
        PROVE  g[k] = IF k < 10 THEN <<k>> ELSE Append(g[k \div 10], k % 10)
    <3>1. k >= 10 => k \div 10 \in 0..n
      <4> DEFINE j == k \div 10
      <4>1. k >= 10 => j \in 0 .. k - 1
        BY Tenth
      <4> HIDE DEF j
      <4>2. k >= 10 => j \in 0..n
        BY <4>1
      <4> QED
        BY <4>2 DEF j
    <3>2. k >= 10 => g[k \div 10] = f[k \div 10]
      BY <2>2, <3>1
    <3> HIDE DEF g
    <3>3. CASE k = m
      BY <2>3, <3>2, <3>3
    <3>4. CASE k # m
      <4>1. k \in 0..n
        BY <3>4
      <4>2. f[k] = IF k < 10 THEN <<k>> ELSE Append(f[k \div 10], k % 10)
        BY <2>1, <4>1 DEF IsDigits
      <4> QED
        BY <2>2, <3>2, <4>1, <4>2
    <3> QED
      BY <3>3, <3>4
  <2> HIDE DEF g
  <2>6. IsDigits(g, m)
    BY <2>4 DEF IsDigits
  <2> QED
    BY <2>6
<1>3. \A n \in Nat : n \in S
  <2> HIDE DEF S
  <2> QED
    BY <1>1, <1>2, Induct
<1> QED
  BY <1>3

\* Digits is what its definition says.
LEMMA DigitsAre ==
  \A n \in Nat : Digits[n] = IF n < 10 THEN <<n>> ELSE Append(Digits[n \div 10], n % 10)
<1> DEFINE Choice(n) == CHOOSE f : IsDigits(f, n)
           F == [n \in Nat |-> Choice(n)[n]]
           Is(g) == g = [n \in Nat |-> IF n < 10 THEN <<n>> ELSE Append(g[n \div 10], n % 10)]
<1>1. \A n \in Nat : IsDigits(Choice(n), n)
  BY DigitsExist
<1>2. ASSUME NEW n \in Nat
      PROVE  F[n] = IF n < 10 THEN <<n>> ELSE Append(F[n \div 10], n % 10)
  <2> HIDE DEF Choice
  <2>1. Choice(n)[n] = IF n < 10 THEN <<n>> ELSE Append(Choice(n)[n \div 10], n % 10)
    BY <1>1 DEF IsDigits
  <2>2. ASSUME n >= 10 PROVE Choice(n)[n \div 10] = F[n \div 10]
    <3> DEFINE j == n \div 10
    <3>1. j \in 0 .. n - 1
      BY <2>2, Tenth
    <3> HIDE DEF j
    <3>2. j \in Nat /\ j <= n /\ j <= j
      BY <3>1
    <3>3. Choice(n)[j] = Choice(j)[j]
      BY <1>1, <3>2, DigitsOnce
    <3> QED
      BY <3>2, <3>3 DEF j
  <2> QED
    BY <2>1, <2>2
<1>3. F = [n \in Nat |-> F[n]]
  OBVIOUS
<1> HIDE DEF F
<1>4. Is(F)
  BY <1>2, <1>3
<1>5. Is(Digits)
  BY <1>4 DEF Digits
<1> QED
  BY <1>5

\* What the recursive definition of Digits gives, for every number.
LEMMA DigitsCases ==
  ASSUME NEW n \in Nat
  PROVE  /\ n < 10 => Digits[n] = <<n>>
         /\ n >= 10 => Digits[n] = Append(Digits[n \div 10], n % 10)
<1>1. Digits[n] = IF n < 10 THEN <<n>> ELSE Append(Digits[n \div 10], n % 10)
  BY DigitsAre
<1>2. n < 10 => Digits[n] = <<n>>
  BY <1>1, Zenon
<1>3. n >= 10 => ~(n < 10)
  OBVIOUS
<1>4. n >= 10 => Digits[n] = Append(Digits[n \div 10], n % 10)
  BY <1>1, <1>3, Zenon
<1> QED
  BY <1>2, <1>4

\* A digit alone.
LEMMA OneDigit == \A k \in Nat : <<k>> = Append(<<>>, k) /\ Len(<<k>>) = 1 /\ (k < 10 => <<k>> \in Seq(0..9))
OBVIOUS

\* The digits of a number count to it, and there are no more than it needs.
LEMMA DigitsCount ==
  ASSUME NEW n \in Nat
  PROVE  /\ Digits[n] \in Seq(0..9) /\ ValueOf(10, Digits[n]) = n
         /\ \A d \in Nat \ {0} : n < Power(10, d) => Len(Digits[n]) <= d
<1> DEFINE S == {k \in Nat : /\ Digits[k] \in Seq(0..9) /\ ValueOf(10, Digits[k]) = k
                             /\ \A d \in Nat \ {0} : k < Power(10, d) => Len(Digits[k]) <= d}
<1>1. ASSUME NEW k \in Nat, \A j \in 0 .. k - 1 : j \in S PROVE k \in S
  <2>1. CASE k < 10
    <3> DEFINE e == <<>>
    <3>1. Digits[k] = <<k>> /\ <<k>> = Append(e, k) /\ e \in Seq(Nat)
      BY <2>1, DigitsCases, OneDigit
    <3>4. ValueOf(10, e) = 0
      BY ValueEmpty
    <3> HIDE DEF e
    <3>2. ValueOf(10, Append(e, k)) = 10 * 0 + k
      BY <3>1, <3>4, ValueAppend
    <3>3. Len(<<k>>) = 1 /\ <<k>> \in Seq(0..9)
      BY <2>1, OneDigit
    <3>5. 10 * 0 + k = k
      OBVIOUS
    <3>6. Digits[k] \in Seq(0..9) /\ ValueOf(10, Digits[k]) = k /\ Len(Digits[k]) = 1
      BY <3>1, <3>2, <3>3, <3>5, Zenon
    <3>7. \A d \in Nat \ {0} : Len(Digits[k]) <= d
      BY <3>6
    <3> QED
      BY <3>6, <3>7, Zenon
  <2>2. CASE k >= 10
    <3> DEFINE j == k \div 10
               x == k % 10
               s == Digits[j]
    <3>1. j \in 0 .. k - 1 /\ x \in 0..9 /\ k = 10 * j + x
      BY <2>2, Tenth
    <3>2. Digits[k] = Append(s, x)
      BY <2>2, DigitsCases
    <3>3. j \in S
      BY <1>1, <3>1
    <3> HIDE DEF j, x
    <3>4. /\ s \in Seq(0..9) /\ ValueOf(10, s) = j
          /\ \A d \in Nat \ {0} : j < Power(10, d) => Len(s) <= d
      BY <3>3
    <3> HIDE DEF s
    <3>5. Append(s, x) \in Seq(0..9) /\ Len(Append(s, x)) = Len(s) + 1 /\ s \in Seq(Nat) /\ x \in Nat
      BY <3>1, <3>4
    <3>6. ValueOf(10, Append(s, x)) = k
      BY <3>1, <3>4, <3>5, ValueAppend
    <3>7. ASSUME NEW d \in Nat \ {0}, k < Power(10, d) PROVE Len(s) + 1 <= d
      <4>1. Power(10, 1) = 10
        <5>1. Power(10, 0 + 1) = 10 * Power(10, 0) /\ Power(10, 0) = 1
          BY PowerIs
        <5> QED
          BY <5>1
      <4>2. d # 1
        BY <2>2, <3>7, <4>1
      <4> DEFINE e == d - 1
      <4>3. e \in Nat \ {0} /\ e + 1 = d
        BY <4>2
      <4> HIDE DEF e
      <4>4. Power(10, e + 1) = 10 * Power(10, e) /\ Power(10, e) \in Nat
        BY <4>3, PowerIs
      <4>5. 10 * j + x < 10 * Power(10, e) /\ j \in Nat /\ x \in Nat
        BY <3>1, <3>7, <4>3, <4>4
      <4>6. j < Power(10, e)
        BY <4>4, <4>5
      <4>7. Len(s) <= e /\ Len(s) \in Nat
        BY <3>4, <4>3, <4>6
      <4> QED
        BY <4>3, <4>7
    <3> QED
      BY <3>2, <3>5, <3>6, <3>7
  <2> QED
    BY <2>1, <2>2
<1> HIDE DEF S
<1>2. n \in S
  BY <1>1, StrongInduct
<1> QED
  BY <1>2 DEF S

DecimalDigit == 0..9

\* Digits are numbers.
LEMMA DigitNumbers == ASSUME NEW s \in Seq(DecimalDigit) PROVE s \in Seq(Nat)
BY DEF DecimalDigit

\* As many noughts as were asked for.
LEMMA ZerosAre ==
  ASSUME NEW n \in Nat
  PROVE  Zeros(n) \in Seq({0}) /\ Zeros(n) \in Seq(DecimalDigit) /\ Len(Zeros(n)) = n /\ (n = 0 => Zeros(n) = <<>>)
<1>1. Zeros(n) \in Seq({0}) /\ Len(Zeros(n)) = n
  BY DEF Zeros
<1>2. Zeros(n) \in Seq(DecimalDigit)
  BY DEF Zeros, DecimalDigit
<1>3. n = 0 => Zeros(n) = <<>>
  BY <1>1, EmptySeq
<1> QED
  BY <1>1, <1>2, <1>3

\* The digits before some place, and those after it.
LEMMA CutAt ==
  ASSUME NEW T, NEW s \in Seq(T), NEW k \in 0..Len(s)
  PROVE  /\ SubSeq(s, 1, k) \in Seq(T) /\ Len(SubSeq(s, 1, k)) = k
         /\ SubSeq(s, k + 1, Len(s)) \in Seq(T) /\ Len(SubSeq(s, k + 1, Len(s))) = Len(s) - k
         /\ s = SubSeq(s, 1, k) \o SubSeq(s, k + 1, Len(s))
<1> DEFINE n == Len(s)
<1>1. n \in Nat /\ n + 1 \in Nat /\ k \in 0..n /\ \A i \in 1..n : s[i] \in T
  OBVIOUS
<1>2. SubSeq(s, 1, n) = s
  BY SubSeqFull
<1>3. 1 \in 1..n + 1 /\ k \in 1 - 1 .. n /\ n \in k..n
  BY <1>1
<1>4. SubSeq(s, 1, k) \o SubSeq(s, k + 1, n) = SubSeq(s, 1, n)
  BY <1>3, ConcatAdjacentSubSeq
<1>5. SubSeq(s, 1, k) \in Seq(T) /\ Len(SubSeq(s, 1, k)) = k
  <2> DEFINE L == Len(SubSeq(s, 1, k))
  <2>1. \A i \in 1..k : s[i] \in T
    BY <1>1
  <2>2. 1 \in Int /\ k \in Int
    BY <1>1
  <2>3. SubSeq(s, 1, k) \in Seq(T) /\ L = IF 1 <= k THEN k - 1 + 1 ELSE 0
    BY <2>1, <2>2, SubSeqProperties
  <2> HIDE DEF L
  <2>4. L = k
    BY <1>1, <2>3
  <2> QED
    BY <2>3, <2>4 DEF L
<1>6. SubSeq(s, k + 1, n) \in Seq(T) /\ Len(SubSeq(s, k + 1, n)) = n - k
  <2> DEFINE L == Len(SubSeq(s, k + 1, n))
  <2>1. \A i \in k + 1 .. n : s[i] \in T
    BY <1>1
  <2>2. k + 1 \in Int /\ n \in Int
    BY <1>1
  <2>3. SubSeq(s, k + 1, n) \in Seq(T) /\ L = IF k + 1 <= n THEN n - (k + 1) + 1 ELSE 0
    BY <2>1, <2>2, SubSeqProperties
  <2> HIDE DEF L
  <2>4. L = n - k
    BY <1>1, <2>3
  <2> QED
    BY <2>3, <2>4 DEF L
<1> QED
  BY <1>2, <1>4, <1>5, <1>6, Zenon

\* What is taken of a fraction is no longer than the precision.
LEMMA TakenAre ==
  ASSUME NEW s \in Seq(DecimalDigit), NEW n \in Nat
  PROVE  /\ Taken(s, n) \in Seq(DecimalDigit)
         /\ Len(Taken(s, n)) = IF Len(s) < n THEN Len(s) ELSE n
         /\ n - Len(Taken(s, n)) \in Nat
         /\ Len(s) = n => Taken(s, n) = s
<1> DEFINE k == IF Len(s) < n THEN Len(s) ELSE n
<1>1. k \in 0..Len(s) /\ n - k \in Nat /\ (Len(s) = n => k = Len(s))
  OBVIOUS
<1>2. Taken(s, n) = SubSeq(s, 1, k)
  BY DEF Taken
<1> HIDE DEF k
<1>3. Taken(s, n) \in Seq(DecimalDigit) /\ Len(Taken(s, n)) = k
  BY <1>1, <1>2, CutAt
<1>4. Len(s) = n => Taken(s, n) = s
  BY <1>1, <1>2, SubSeqFull
<1> QED
  BY <1>1, <1>3, <1>4 DEF k

-----------------------------------------------------------------------------
(* Token amounts.                                                          *)

\* The base units that the digits of a decimal stand for.
Magnitude(s, digits) ==
  LET frac == Taken(s.frac, digits)
  IN  ValueOf(10, s.int \o frac \o Zeros(digits - Len(frac)))

\* decimal_to_base_units gives the magnitude the sign of the decimal.
LEMMA BaseUnits ==
  ASSUME NEW s, NEW digits
  PROVE  DecimalToBaseUnits(s, digits) = IF s.negative THEN -Magnitude(s, digits) ELSE Magnitude(s, digits)
BY DEF DecimalToBaseUnits, Magnitude

\* Cutting leaves the value of the digits that are kept, shifted to the base unit.
LEMMA MagnitudeIs ==
  ASSUME NEW s, s.int \in Seq(DecimalDigit), s.frac \in Seq(DecimalDigit), NEW digits \in Nat
  PROVE  LET frac == Taken(s.frac, digits)
         IN  Magnitude(s, digits) = ValueOf(10, s.int \o frac) * Power(10, digits - Len(frac))
<1> DEFINE frac == Taken(s.frac, digits)
           k == digits - Len(frac)
           z == Zeros(k)
           h == s.int \o frac
<1>1. frac \in Seq(DecimalDigit) /\ k \in Nat
  BY TakenAre
<1>2. h \in Seq(DecimalDigit)
  BY <1>1, ConcatProperties
<1> HIDE DEF frac, k
<1>3. z \in Seq({0}) /\ z \in Seq(DecimalDigit) /\ Len(z) = k
  BY <1>1, ZerosAre
<1>4. h \in Seq(Nat) /\ z \in Seq(Nat) /\ 10 \in Nat
  BY <1>2, <1>3, DigitNumbers
<1>5. ValueOf(10, h \o z) = ValueOf(10, h) * Power(10, Len(z)) + ValueOf(10, z)
  BY <1>4, ValueConcat
<1>6. ValueOf(10, z) = 0 /\ ValueOf(10, h) \in Nat /\ Power(10, k) \in Nat
  BY <1>1, <1>3, <1>4, ValueZeros, ValueAppend, PowerIs
<1>7. Magnitude(s, digits) = ValueOf(10, h \o z)
  BY DEF Magnitude, frac, k
<1> HIDE DEF h, z
<1>8. \A x, y \in Nat : x * y + 0 = x * y
  OBVIOUS
<1> QED
  BY <1>3, <1>5, <1>6, <1>7, <1>8 DEF h, k, frac

\* A number filled up with zeros to as many digits as it may need.
LEMMA Padded ==
  ASSUME NEW n \in Nat, NEW digits \in Nat \ {0}, n < Power(10, digits)
  PROVE  LET p == Zeros(digits - Len(Digits[n])) \o Digits[n]
         IN  p \in Seq(DecimalDigit) /\ Len(p) = digits /\ ValueOf(10, p) = n
<1> DEFINE d == Digits[n]
           k == digits - Len(d)
           z == Zeros(k)
           p == z \o d
<1>1. d \in Seq(DecimalDigit) /\ ValueOf(10, d) = n /\ Len(d) <= digits
  BY DigitsCount DEF DecimalDigit
<1> HIDE DEF d
<1>2. k \in Nat /\ k + Len(d) = digits
  BY <1>1
<1> HIDE DEF k
<1>3. z \in Seq({0}) /\ z \in Seq(DecimalDigit) /\ Len(z) = k
  BY <1>2, ZerosAre
<1>4. ValueOf(10, p) = n
  BY <1>1, <1>3, ValueZeros, DigitNumbers
<1> HIDE DEF z
<1>5. p \in Seq(DecimalDigit) /\ Len(p) = digits
  BY <1>1, <1>2, <1>3, ConcatProperties
<1> QED
  BY <1>4, <1>5 DEF p, z, k, d

\* What div_rem gives: a quotient and a remainder below the divisor.
LEMMA DividedInto ==
  ASSUME NEW a \in Nat, NEW p \in Nat \ {0}
  PROVE  a \div p \in Nat /\ a % p \in Nat /\ a % p < p /\ a = (a \div p) * p + (a % p)
OBVIOUS

\* A number is its magnitude with its sign.
LEMMA AbsIs == \A v \in Int : Abs(v) \in Nat /\ v = (IF v < 0 THEN -Abs(v) ELSE Abs(v)) /\ (v < 0 <=> v # Abs(v))
BY DEF Abs

\* What a rendered amount is.
LEMMA RenderedIs ==
  ASSUME NEW v \in Int, NEW digits \in Nat \ {0}
  PROVE  LET d == BaseUnitsToDecimal(v, digits)
         IN  /\ d.negative = (v < 0) /\ d.int \in Seq(DecimalDigit) /\ d.frac \in Seq(DecimalDigit)
             /\ Len(d.frac) = digits /\ ValueOf(10, d.int \o d.frac) = Abs(v)
<1> DEFINE d == BaseUnitsToDecimal(v, digits)
           P == Power(10, digits)
           a == Abs(v)
           q == a \div P
           r == a % P
<1>1. P \in Nat \ {0} /\ a \in Nat
  <2>1. 10 \in Nat \ {0} /\ digits \in Nat
    OBVIOUS
  <2> QED
    BY <2>1, PowerPositive, AbsIs
<1> HIDE DEF P, a
<1>2. q \in Nat /\ r \in Nat /\ r < P /\ a = q * P + r
  BY <1>1, DividedInto
<1> HIDE DEF q, r
<1>3. d.negative = (v < 0) /\ d.int = Digits[q] /\ d.frac = Zeros(digits - Len(Digits[r])) \o Digits[r]
  BY DEF BaseUnitsToDecimal, q, r, P, a
<1> HIDE DEF d
<1>4. d.frac \in Seq(DecimalDigit) /\ Len(d.frac) = digits /\ ValueOf(10, d.frac) = r
  BY <1>2, <1>3, Padded DEF P
<1>5. d.int \in Seq(DecimalDigit) /\ ValueOf(10, d.int) = q
  BY <1>2, <1>3, DigitsCount DEF DecimalDigit
<1>6. d.int \in Seq(Nat) /\ d.frac \in Seq(Nat) /\ 10 \in Nat
  BY <1>4, <1>5, DigitNumbers
<1>7. ValueOf(10, d.int \o d.frac) = q * P + r
  BY <1>4, <1>5, <1>6, ValueConcat DEF P
<1> QED
  BY <1>2, <1>3, <1>4, <1>5, <1>7 DEF d, a

\* An amount, negative or below one unit of the token too, is what its decimal gives.
LEMMA AmountsReadBack ==
  ASSUME NEW v \in Int
  PROVE  AmountReadsBack(v)
<1> SUFFICES ASSUME NEW digits \in Precision
             PROVE  DecimalToBaseUnits(BaseUnitsToDecimal(v, digits), digits) = v
  BY DEF AmountReadsBack
<1> DEFINE d == BaseUnitsToDecimal(v, digits)
           m == Magnitude(d, digits)
<1>1. digits \in Nat \ {0}
  BY QuantitiesAssumption DEF Precision
<1>2. /\ d.negative = (v < 0) /\ d.int \in Seq(DecimalDigit) /\ d.frac \in Seq(DecimalDigit)
      /\ Len(d.frac) = digits /\ ValueOf(10, d.int \o d.frac) = Abs(v)
  BY <1>1, RenderedIs
<1> HIDE DEF d
<1>3. Taken(d.frac, digits) = d.frac
  BY <1>1, <1>2, TakenAre
<1>4. m = ValueOf(10, d.int \o d.frac) * Power(10, digits - digits)
  BY <1>1, <1>2, <1>3, MagnitudeIs
<1>5. Power(10, digits - digits) = 1
  BY <1>1, PowerIs
<1>6. Abs(v) * 1 = Abs(v)
  BY AbsIs
<1>7. m = Abs(v)
  BY <1>2, <1>4, <1>5, <1>6
<1>8. DecimalToBaseUnits(d, digits) = IF v < 0 THEN -Abs(v) ELSE Abs(v)
  BY <1>2, <1>7, BaseUnits
<1> QED
  BY <1>8, AbsIs DEF d

\* Digits that are followed by others are the value without what the others count.
LEMMA FirstDigits ==
  ASSUME NEW s \in Seq(DecimalDigit), NEW t \in Seq(DecimalDigit), NEW q \in Nat,
         ValueOf(10, s \o t) = q * Power(10, Len(t))
  PROVE  ValueOf(10, s) = q
<1> DEFINE P == Power(10, Len(t))
           x == ValueOf(10, s)
           y == ValueOf(10, t)
<1>1. s \in Seq(Nat) /\ t \in Seq(Nat) /\ 10 \in Nat /\ Len(t) \in Nat /\ 10 \in Nat \ {0}
  BY DigitNumbers
<1>2. P \in Nat \ {0}
  BY <1>1, PowerPositive
<1>3. ValueOf(10, s \o t) = x * P + y
  BY <1>1, ValueConcat
<1>4. y \in 0 .. P - 1
  <2>1. 10 - 1 = 9
    OBVIOUS
  <2>2. t \in Seq(0 .. 10 - 1)
    BY <2>1, Zenon DEF DecimalDigit
  <2> QED
    BY <1>1, <2>2, ValueBound
<1>5. x \in Nat
  BY <1>1, ValueAppend
<1> HIDE DEF P, x, y
<1>6. P * x + y = P * q + 0 /\ 0 \in 0 .. P - 1
  BY <1>2, <1>3, <1>4, <1>5 DEF P
<1> QED
  BY <1>2, <1>4, <1>5, <1>6, DivideOnce DEF x

\* A decimal with more digits than the token has is rendered with those digits gone.
LEMMA DecimalsReadBack ==
  ASSUME NEW s, s.negative \in BOOLEAN, s.int \in Seq(DecimalDigit), s.frac \in Seq(DecimalDigit)
  PROVE  DecimalReadsBack(s)
<1> SUFFICES ASSUME NEW digits \in Precision
             PROVE  LET v    == DecimalToBaseUnits(s, digits)
                        back == BaseUnitsToDecimal(v, digits)
                    IN  /\ Len(back.frac) = digits
                        /\ v # 0 => back.negative = s.negative
                        /\ ValueOf(10, back.int \o Taken(back.frac, Len(s.frac)))
                             = ValueOf(10, s.int \o Taken(s.frac, digits))
  BY DEF DecimalReadsBack
<1> DEFINE v    == DecimalToBaseUnits(s, digits)
           w    == Magnitude(s, digits)
           back == BaseUnitsToDecimal(v, digits)
           kept == Taken(s.frac, digits)
           k    == Len(kept)
           q    == ValueOf(10, s.int \o kept)
<1>1. digits \in Nat \ {0} /\ digits \in Nat /\ Len(s.frac) \in Nat
  BY QuantitiesAssumption DEF Precision
<1>2. kept \in Seq(DecimalDigit) /\ digits - k \in Nat /\ k = IF Len(s.frac) < digits THEN Len(s.frac) ELSE digits
  BY <1>1, TakenAre
<1>3. w = q * Power(10, digits - k)
  BY <1>1, MagnitudeIs
<1> HIDE DEF kept, k
<1>4. q \in Nat /\ Power(10, digits - k) \in Nat /\ 10 \in Nat
  <2>1. s.int \o kept \in Seq(DecimalDigit)
    BY <1>2, ConcatProperties
  <2> QED
    BY <1>2, <2>1, DigitNumbers, ValueAppend, PowerIs
<1> HIDE DEF w, q
<1>5. w \in Nat
  BY <1>3, <1>4
<1>6. v = IF s.negative THEN -w ELSE w
  BY BaseUnits DEF w
<1> HIDE DEF v
<1>7. v \in Int /\ Abs(v) = w /\ (v # 0 => (v < 0) = s.negative)
  BY <1>5, <1>6 DEF Abs
<1>8. /\ back.negative = (v < 0) /\ back.int \in Seq(DecimalDigit) /\ back.frac \in Seq(DecimalDigit)
      /\ Len(back.frac) = digits /\ ValueOf(10, back.int \o back.frac) = w
  BY <1>1, <1>7, RenderedIs
<1> HIDE DEF back
<1> DEFINE first == SubSeq(back.frac, 1, k)
           rest  == SubSeq(back.frac, k + 1, Len(back.frac))
<1>9. k \in 0 .. Len(back.frac)
  BY <1>1, <1>2, <1>8
<1>10. Taken(back.frac, Len(s.frac)) = first
  BY <1>1, <1>2, <1>8 DEF Taken
<1>11. /\ first \in Seq(DecimalDigit) /\ rest \in Seq(DecimalDigit) /\ Len(rest) = digits - k
       /\ back.frac = first \o rest
  BY <1>8, <1>9, CutAt
<1> HIDE DEF first, rest
<1>12. back.int \o back.frac = (back.int \o first) \o rest /\ back.int \o first \in Seq(DecimalDigit)
  <2>1. back.int \o first \in Seq(DecimalDigit)
    BY <1>8, <1>11, ConcatProperties
  <2>2. back.int \o (first \o rest) = (back.int \o first) \o rest
    <3> DEFINE a == back.int
    <3>1. a \in Seq(DecimalDigit)
      BY <1>8
    <3> HIDE DEF a
    <3>2. first \in Seq(DecimalDigit) /\ rest \in Seq(DecimalDigit)
      BY <1>11
    <3>3. (a \o first) \o rest = a \o (first \o rest)
      BY <3>1, <3>2, Regroup
    <3> QED
      BY <3>3 DEF a
  <2> QED
    BY <1>11, <2>1, <2>2, Zenon
<1>13. ValueOf(10, (back.int \o first) \o rest) = q * Power(10, Len(rest))
  BY <1>3, <1>8, <1>11, <1>12
<1>14. ValueOf(10, back.int \o first) = q
  BY <1>4, <1>11, <1>12, <1>13, FirstDigits
<1>15. v # 0 => back.negative = s.negative
  BY <1>7, <1>8, Zenon
<1>16. ValueOf(10, back.int \o Taken(back.frac, Len(s.frac))) = q
  BY <1>10, <1>14
<1> QED
  BY <1>8, <1>15, <1>16 DEF v, back, q, kept

-----------------------------------------------------------------------------
(* Exchanges.                                                              *)

\* The division of a debt is that of its magnitude, negated.
LEMMA QuotIs ==
  ASSUME NEW a \in Int, NEW b \in Nat \ {0}
  PROVE  /\ Quot(a, b) \in Int /\ Abs(Quot(a, b)) = Abs(a) \div b /\ Abs(a) \div b \in Nat
         /\ a <= 0 => Quot(a, b) <= 0
         /\ a >= 0 => Quot(a, b) >= 0
<1> DEFINE q == Abs(a) \div b
<1>1. Abs(a) \in Nat /\ (a >= 0 => Abs(a) = a)
  BY DEF Abs
<1>2. q \in Nat
  BY <1>1, DividedInto
<1>3. Quot(a, b) = IF a < 0 THEN -q ELSE q
  BY <1>1 DEF Quot
<1>4. a = 0 => q = 0
  BY <1>1
<1> HIDE DEF q
<1>5. /\ Quot(a, b) \in Int /\ Abs(Quot(a, b)) = q
      /\ a <= 0 => Quot(a, b) <= 0
      /\ a >= 0 => Quot(a, b) >= 0
  BY <1>2, <1>3, <1>4 DEF Abs
<1> QED
  BY <1>2, <1>5 DEF q

\* A product keeps the sign, and its magnitude is the product of the magnitudes.
LEMMA AbsTimes ==
  ASSUME NEW a \in Int, NEW b \in Nat \ {0}
  PROVE  /\ a * b \in Int /\ Abs(a * b) = Abs(a) * b
         /\ a <= 0 => a * b <= 0
         /\ a >= 0 => a * b >= 0
<1>1. a * b \in Int
  OBVIOUS
<1>2. a <= 0 => a * b <= 0
  OBVIOUS
<1>3. a >= 0 => a * b >= 0
  OBVIOUS
<1>4. (-a) * b = -(a * b)
  OBVIOUS
<1>5. a < 0 => a * b < 0
  OBVIOUS
<1>6. Abs(a * b) = Abs(a) * b
  BY <1>1, <1>3, <1>4, <1>5 DEF Abs
<1> QED
  BY <1>1, <1>2, <1>3, <1>6

\* Of two products with one factor the smaller has the smaller number.
LEMMA TimesMonotone ==
  ASSUME NEW m \in Int, NEW n \in Int, NEW r \in Nat \ {0}, m * r < n * r
  PROVE  m < n
<1>1. m >= n => m * r >= n * r
  OBVIOUS
<1> QED
  BY <1>1

\* Rounded up, a quotient is at least the exact one, by less than one.
LEMMA CeilDivIs ==
  ASSUME NEW a \in Nat, NEW r \in Nat \ {0}
  PROVE  CeilDiv(a, r) \in Nat /\ a <= CeilDiv(a, r) * r /\ CeilDiv(a, r) * r < a + r
<1> DEFINE m == a + r - 1
           q == m \div r
           x == m % r
           y == q * r
<1>1. m \in Nat
  OBVIOUS
<1>2. q \in Nat /\ x \in Nat /\ x < r /\ m = y + x
  BY <1>1, DividedInto
<1>3. CeilDiv(a, r) = q
  BY DEF CeilDiv
<1>4. y \in Nat /\ m = a + r - 1
  BY <1>2
<1> HIDE DEF m, q, x, y
<1>5. a <= y /\ y < a + r
  BY <1>2, <1>4
<1> QED
  BY <1>2, <1>3, <1>5 DEF y

\* What an exchange there and back leaves of a positive amount.
LEMMA ThereAndBack ==
  ASSUME NEW a \in Nat, NEW r \in Nat \ {0}, NEW p \in Nat \ {0},
         NEW x \in Nat, x = (a * r) \div p, NEW b \in Nat, b = (x * p) \div r
  PROVE  b <= a /\ a - b <= CeilDiv(p, r)
<1> DEFINE ar == a * r
           xp == x * p
           br == b * r
           c  == CeilDiv(p, r)
           cr == c * r
<1>1. ar \in Nat /\ xp \in Nat /\ br \in Nat
  OBVIOUS
<1>2. ar - p < xp /\ xp <= ar
  <2>1. ar = (ar \div p) * p + (ar % p) /\ ar % p \in Nat /\ ar % p < p
    BY <1>1, DividedInto
  <2>2. ar = xp + (ar % p)
    BY <2>1
  <2> HIDE DEF ar, xp
  <2> QED
    BY <1>1, <2>1, <2>2
<1>3. xp - r < br /\ br <= xp
  <2>1. xp = (xp \div r) * r + (xp % r) /\ xp % r \in Nat /\ xp % r < r
    BY <1>1, DividedInto
  <2>2. xp = br + (xp % r)
    BY <2>1
  <2> HIDE DEF xp, br
  <2> QED
    BY <1>1, <2>1, <2>2
<1>4. c \in Nat /\ p <= cr
  BY CeilDivIs
<1>5. (a + 1) * r = ar + r /\ (c + b + 1) * r = cr + br + r /\ cr \in Nat
  BY <1>4
<1> HIDE DEF ar, xp, br, cr, c
<1>6. br < ar + r /\ ar < cr + br + r
  BY <1>1, <1>2, <1>3, <1>4, <1>5
<1>7. b * r < (a + 1) * r /\ a * r < (c + b + 1) * r
  BY <1>5, <1>6 DEF ar, br
<1>8. b < a + 1 /\ a < c + b + 1
  <2>1. a + 1 \in Int /\ c + b + 1 \in Int /\ a \in Int /\ b \in Int
    BY <1>4
  <2> DEFINE m == a + 1
             n == c + b + 1
  <2>2. m \in Int /\ n \in Int /\ b * r < m * r /\ a * r < n * r
    BY <1>7, <2>1
  <2> HIDE DEF m, n
  <2>3. b < m /\ a < n
    BY <2>1, <2>2, TimesMonotone
  <2> QED
    BY <2>3 DEF m, n
<1> QED
  BY <1>4, <1>8 DEF c

\* Two numbers on the same side of nought have no negative product.
LEMMA SameSign ==
  ASSUME NEW b \in Int, NEW v \in Int, v <= 0 => b <= 0, v >= 0 => b >= 0
  PROVE  b * v >= 0
<1>1. \A x, y \in Nat : x * y \in Nat
  OBVIOUS
<1>2. CASE v >= 0
  BY <1>1, <1>2
<1>3. CASE v < 0
  <2> DEFINE x == -b
             y == -v
  <2>1. x \in Nat /\ y \in Nat
    BY <1>3
  <2>2. x * y = b * v
    OBVIOUS
  <2>3. x * y \in Nat
    BY <1>1, <2>1
  <2> QED
    BY <2>2, <2>3
<1> QED
  BY <1>2, <1>3

\* to_dai and then to_bzz give no more back, and lose no more than one wei is worth.
LEMMA ExchangesNeverGain ==
  ASSUME NEW v \in Int
  PROVE  ExchangeNeverGains(v)
<1> SUFFICES ASSUME NEW rate \in {r \in Amount : r > 0}
             PROVE  LET back == ExchangeToBzz(ExchangeToDai(v, rate), rate)
                    IN  /\ Abs(back) <= Abs(v)
                        /\ Abs(v) - Abs(back) <= CeilDiv(Power(10, BZZ_DIGITS), rate)
                        /\ back * v >= 0
  BY DEF ExchangeNeverGains
<1> DEFINE p == Power(10, BZZ_DIGITS)
           m == v * rate
           dai == Quot(m, p)
           n == dai * p
           back == Quot(n, rate)
<1>1. rate \in Nat \ {0}
  BY QuantitiesAssumption
<1>2. p \in Nat \ {0}
  <2>1. 10 \in Nat \ {0} /\ BZZ_DIGITS \in Nat
    BY QuantitiesAssumption
  <2> QED
    BY <2>1, PowerPositive
<1>3. ExchangeToBzz(ExchangeToDai(v, rate), rate) = back
  BY DEF ExchangeToBzz, ExchangeToDai
<1> HIDE DEF p
<1>4. m \in Int /\ Abs(m) = Abs(v) * rate /\ (v <= 0 => m <= 0) /\ (v >= 0 => m >= 0)
  BY <1>1, AbsTimes
<1> HIDE DEF m
<1>5. /\ dai \in Int /\ Abs(dai) = Abs(m) \div p /\ Abs(m) \div p \in Nat
      /\ m <= 0 => dai <= 0
      /\ m >= 0 => dai >= 0
  BY <1>2, <1>4, QuotIs
<1> HIDE DEF dai
<1>6. n \in Int /\ Abs(n) = Abs(dai) * p /\ (dai <= 0 => n <= 0) /\ (dai >= 0 => n >= 0)
  BY <1>2, <1>5, AbsTimes
<1> HIDE DEF n
<1>7. /\ back \in Int /\ Abs(back) = Abs(n) \div rate /\ Abs(n) \div rate \in Nat
      /\ n <= 0 => back <= 0
      /\ n >= 0 => back >= 0
  BY <1>1, <1>6, QuotIs
<1> HIDE DEF back
<1>8. back * v >= 0
  BY <1>4, <1>5, <1>6, <1>7, SameSign
<1>9. Abs(back) <= Abs(v) /\ Abs(v) - Abs(back) <= CeilDiv(p, rate)
  <2> DEFINE a == Abs(v)
             x == Abs(dai)
             b == Abs(back)
  <2>1. a \in Nat
    BY AbsIs
  <2>2. x = (a * rate) \div p /\ x \in Nat
    BY <1>4, <1>5
  <2>3. b = (x * p) \div rate /\ b \in Nat
    BY <1>6, <1>7
  <2> HIDE DEF a, x, b
  <2>4. b <= a /\ a - b <= CeilDiv(p, rate)
    BY <1>1, <1>2, <2>1, <2>2, <2>3, ThereAndBack
  <2> QED
    BY <2>4 DEF a, b
<1> QED
  BY <1>3, <1>8, <1>9 DEF p

-----------------------------------------------------------------------------
(* Sums.                                                                   *)

\* The weights of a sum are all one.
LEMMA PowersOfOne == \A n \in Nat : Power(1, n) = 1
<1> DEFINE S == {n \in Nat : Power(1, n) = 1}
<1>1. 0 \in S
  BY PowerIs
<1>2. ASSUME NEW n \in Nat, n \in S PROVE n + 1 \in S
  <2>1. Power(1, n + 1) = 1 * Power(1, n) /\ Power(1, n) = 1
    BY <1>2, PowerIs
  <2> QED
    BY <2>1
<1>3. \A n \in Nat : n \in S
  <2> HIDE DEF S
  <2> QED
    BY <1>1, <1>2, Induct
<1> QED
  BY <1>3

\* Totals add up along a sequence.
LEMMA TotalIs ==
  /\ Total(<<>>) = 0
  /\ \A s \in Seq(Nat) : Total(s) \in Nat
  /\ \A s \in Seq(Nat), x \in Nat : Total(Append(s, x)) = Total(s) + x
  /\ \A s, t \in Seq(Nat) : Total(s \o t) = Total(s) + Total(t)
  /\ \A x \in Nat : Total(<<x>>) = x
<1>1. Total(<<>>) = 0
  BY ValueEmpty DEF Total
<1>2. \A s \in Seq(Nat) : Total(s) \in Nat
  BY ValueAppend DEF Total
<1>3. ASSUME NEW s \in Seq(Nat), NEW x \in Nat PROVE Total(Append(s, x)) = Total(s) + x
  <2>1. ValueOf(1, Append(s, x)) = 1 * ValueOf(1, s) + x /\ ValueOf(1, s) \in Nat
    BY ValueAppend
  <2>2. ValueOf(1, Append(s, x)) = ValueOf(1, s) + x
    BY <2>1
  <2> QED
    BY <2>2 DEF Total
<1>4. ASSUME NEW s \in Seq(Nat), NEW t \in Seq(Nat) PROVE Total(s \o t) = Total(s) + Total(t)
  <2>1. ValueOf(1, s \o t) = ValueOf(1, s) * Power(1, Len(t)) + ValueOf(1, t) /\ ValueOf(1, s) \in Nat
    BY ValueConcat, ValueAppend
  <2>2. Power(1, Len(t)) = 1
    BY PowersOfOne
  <2>3. ValueOf(1, s \o t) = ValueOf(1, s) + ValueOf(1, t)
    BY <2>1, <2>2
  <2> QED
    BY <2>3 DEF Total
<1>5. ASSUME NEW x \in Nat PROVE Total(<<x>>) = x
  <2> DEFINE e == <<>>
  <2>1. e \in Seq(Nat) /\ <<x>> = Append(e, x)
    OBVIOUS
  <2>2. Total(e) = 0
    BY <1>1
  <2> HIDE DEF e
  <2>3. Total(Append(e, x)) = 0 + x
    BY <1>3, <2>1, <2>2
  <2>4. 0 + x = x
    OBVIOUS
  <2> QED
    BY <2>1, <2>3, <2>4
<1> QED
  BY <1>1, <1>2, <1>3, <1>4, <1>5

-----------------------------------------------------------------------------
(* Durations.                                                              *)

Rendered == {"y", "w", "d", "h", "m", "s"}

DurationPart == [n : Nat, unit : Rendered]

\* The units that are rendered are whole seconds, the last is one.
LEMMA RenderedAre ==
  /\ \A k \in 1..6 : RenderedUnits[k] \in Rendered
  /\ RenderedUnits[6] = "s" /\ UnitToSeconds["s"] = 1
  /\ \A u \in Rendered : UnitToSeconds[u] \in Nat \ {0}
<1>1. \A k \in 1..6 : RenderedUnits[k] \in Rendered
  BY DEF RenderedUnits, Rendered
<1>2. RenderedUnits[6] = "s" /\ UnitToSeconds["s"] = 1
  BY DEF RenderedUnits, UnitToSeconds
<1>3. MINUTE \in Nat \ {0} /\ HOUR \in Nat \ {0} /\ DAY \in Nat \ {0}
  BY DEF MINUTE, HOUR, DAY
<1>4. 7 * DAY \in Nat \ {0} /\ 365 * DAY \in Nat \ {0}
  BY <1>3
<1>5. \A u \in Rendered : UnitToSeconds[u] \in Nat \ {0}
  BY <1>3, <1>4 DEF Rendered, UnitToSeconds
<1> QED
  BY <1>1, <1>2, <1>5

\* The units are taken one after the other, the largest first.
Takes(f, seconds) ==
  /\ f[0] = [left |-> seconds, parts |-> <<>>]
  /\ \A k \in 1..6 : f[k] = Take(f[k - 1], RenderedUnits[k])

\* The rendering takes one unit after the other.
LEMMA PartsTaken ==
  ASSUME NEW seconds, seconds # 0
  PROVE  \E f : Takes(f, seconds) /\ DurationParts(seconds) = f[6].parts
<1> DEFINE start == [left |-> seconds, parts |-> <<>>]
           Is(f) == f = [k \in 0..6 |-> IF k = 0 THEN start ELSE Take(f[k - 1], RenderedUnits[k])]
           acc[k \in 0..6] == IF k = 0 THEN start ELSE Take(acc[k - 1], RenderedUnits[k])
           t1 == Take(start, RenderedUnits[1])
           t2 == Take(t1, RenderedUnits[2])
           t3 == Take(t2, RenderedUnits[3])
           t4 == Take(t3, RenderedUnits[4])
           t5 == Take(t4, RenderedUnits[5])
           t6 == Take(t5, RenderedUnits[6])
           f == [k \in 0..6 |-> IF k = 0 THEN start ELSE IF k = 1 THEN t1 ELSE IF k = 2 THEN t2
                                ELSE IF k = 3 THEN t3 ELSE IF k = 4 THEN t4
                                ELSE IF k = 5 THEN t5 ELSE t6]
<1>0. DurationParts(seconds) = acc[6].parts
  BY DEF DurationParts
<1> HIDE DEF start
<1>1. Is(f)
  <2> HIDE DEF t1, t2, t3, t4, t5, t6
  <2>1. /\ f[0] = start /\ f[1] = t1 /\ f[2] = t2 /\ f[3] = t3
        /\ f[4] = t4 /\ f[5] = t5 /\ f[6] = t6 /\ f = [k \in 0..6 |-> f[k]]
    OBVIOUS
  <2> HIDE DEF f
  <2>2. \A k \in 0..6 : f[k] = IF k = 0 THEN start ELSE Take(f[k - 1], RenderedUnits[k])
    <3> TAKE k \in 0..6
    <3>1. CASE k = 0
      BY <2>1, <3>1
    <3>2. CASE k = 1
      BY <2>1, <3>2 DEF t1
    <3>3. CASE k = 2
      BY <2>1, <3>3 DEF t2
    <3>4. CASE k = 3
      BY <2>1, <3>4 DEF t3
    <3>5. CASE k = 4
      BY <2>1, <3>5 DEF t4
    <3>6. CASE k = 5
      BY <2>1, <3>6 DEF t5
    <3>7. CASE k = 6
      BY <2>1, <3>7 DEF t6
    <3> QED
      BY <3>1, <3>2, <3>3, <3>4, <3>5, <3>6, <3>7
  <2> QED
    BY <2>1, <2>2
<1> HIDE DEF f
<1>2. Is(acc)
  BY <1>1
<1> HIDE DEF acc
<1>3. \A k \in 0..6 : acc[k] = IF k = 0 THEN start ELSE Take(acc[k - 1], RenderedUnits[k])
  BY <1>2
<1>4. Takes(acc, seconds)
  <2>1. acc[0] = start
    BY <1>3
  <2>2. \A k \in 1..6 : acc[k] = Take(acc[k - 1], RenderedUnits[k])
    BY <1>3
  <2> QED
    BY <2>1, <2>2 DEF Takes, start
<1> QED
  BY <1>0, <1>4

\* The seconds of every part.
Wholes(parts) == [i \in DOMAIN parts |-> SecondsOf(parts[i])]

\* A rendered part is of whole seconds.
LEMMA WholeIs == \A p \in DurationPart : SecondsOf(p) \in Nat
<1> TAKE p \in DurationPart
<1>1. p.n \in Nat /\ p.unit \in Rendered
  BY DEF DurationPart
<1>2. UnitToSeconds[p.unit] \in Nat
  BY <1>1, RenderedAre
<1>3. \A x, y \in Nat : x * y \in Nat
  OBVIOUS
<1> QED
  BY <1>1, <1>2, <1>3 DEF SecondsOf

\* The seconds of all parts.
LEMMA WholesAre ==
  ASSUME NEW parts \in Seq(DurationPart)
  PROVE  /\ Wholes(parts) \in Seq(Nat) /\ Len(Wholes(parts)) = Len(parts)
         /\ \A i \in 1..Len(parts) : Wholes(parts)[i] = SecondsOf(parts[i])
<1>1. \A i \in 1..Len(parts) : SecondsOf(parts[i]) \in Nat
  BY WholeIs
<1>2. DOMAIN parts = 1..Len(parts) /\ Len(parts) \in Nat
  OBVIOUS
<1> QED
  BY <1>1, <1>2 DEF Wholes

\* The seconds of one part more.
LEMMA WholesAppend ==
  ASSUME NEW parts \in Seq(DurationPart), NEW p \in DurationPart
  PROVE  Wholes(Append(parts, p)) = Append(Wholes(parts), SecondsOf(p))
<1> DEFINE n == Len(parts)
           e == Append(parts, p)
           r == Wholes(parts)
           c == SecondsOf(p)
           f == Append(r, c)
           g == Wholes(e)
<1>1. n \in Nat /\ e \in Seq(DurationPart) /\ Len(e) = n + 1 /\ e[n + 1] = p /\ \A i \in 1..n : e[i] = parts[i]
  BY AppendProperties
<1>2. r \in Seq(Nat) /\ Len(r) = n /\ c \in Nat /\ \A i \in 1..n : r[i] = SecondsOf(parts[i])
  BY WholeIs, WholesAre
<1> HIDE DEF e
<1>3. g \in Seq(Nat) /\ Len(g) = n + 1 /\ \A i \in 1 .. n + 1 : g[i] = SecondsOf(e[i])
  BY <1>1, WholesAre
<1> HIDE DEF n, r, c, g
<1>4. f \in Seq(Nat) /\ Len(f) = n + 1 /\ f[n + 1] = c /\ \A i \in 1..n : f[i] = r[i]
  BY <1>1, <1>2, AppendProperties
<1> HIDE DEF f
<1>5. g[n + 1] = c
  BY <1>1, <1>3 DEF c
<1>6. ASSUME NEW i \in 1 .. n + 1 PROVE g[i] = f[i]
  <2>1. i = n + 1 \/ i \in 1..n
    BY <1>1
  <2> QED
    BY <1>1, <1>2, <1>3, <1>4, <1>5, <2>1
<1>7. Len(g) = Len(f) /\ \A i \in 1..Len(g) : g[i] = f[i]
  BY <1>3, <1>4, <1>6
<1>8. g = f
  BY <1>3, <1>4, <1>7, SeqEqual
<1> QED
  BY <1>8 DEF g, e, f, r, c

\* What is parsed of rendered parts.
LEMMA ParsedIs ==
  ASSUME NEW parts \in Seq(DurationPart)
  PROVE  ParseDuration(parts) = Total(Wholes(parts)) /\ Total(Wholes(parts)) \in Nat
<1>1. ParseDuration(parts) = Total(Wholes(parts))
  BY DEF ParseDuration, Wholes
<1>2. Total(Wholes(parts)) \in Nat
  BY WholesAre, TotalIs
<1> QED
  BY <1>1, <1>2

-----------------------------------------------------------------------------
\* No unit is rendered that a larger one should have taken.
Descending(parts) ==
  \A i, j \in DOMAIN parts : i < j => SecondsOf(parts[j]) < UnitToSeconds[parts[i].unit]

\* So far the parts and what is left make the seconds, and what is left is less than
\* any of the units that were taken.
Rendering(acc, seconds) ==
  /\ acc.left \in Nat /\ acc.parts \in Seq(DurationPart)
  /\ Total(Wholes(acc.parts)) + acc.left = seconds
  /\ \A i \in 1..Len(acc.parts) : acc.left < UnitToSeconds[acc.parts[i].unit]
  /\ Descending(acc.parts)

\* Taking a unit leaves less than one of it, and loses nothing.
LEMMA RenderingTakes ==
  ASSUME NEW seconds \in Nat, NEW acc, Rendering(acc, seconds), NEW unit \in Rendered
  PROVE  /\ Rendering(Take(acc, unit), seconds)
         /\ Take(acc, unit).left < UnitToSeconds[unit]
<1> DEFINE size == UnitToSeconds[unit]
           left == acc.left
           parts == acc.parts
           new == Take(acc, unit)
<1>1. size \in Nat \ {0}
  BY RenderedAre
<1>2. /\ left \in Nat /\ parts \in Seq(DurationPart)
      /\ Total(Wholes(parts)) + left = seconds
      /\ \A i \in 1..Len(parts) : left < UnitToSeconds[parts[i].unit]
      /\ Descending(parts)
  BY DEF Rendering
<1>3. CASE left < size
  <2>1. new = acc
    BY <1>3 DEF Take
  <2> HIDE DEF new
  <2> QED
    BY <1>3, <2>1 DEF new
<1>4. CASE ~(left < size)
  <2> DEFINE q == left \div size
             r == left % size
             x == q * size
             p == [n |-> q, unit |-> unit]
             e == Append(parts, p)
             n == Len(parts)
  <2>1. q \in Nat /\ r \in Nat /\ r < size /\ left = x + r /\ x \in Nat
    <3>1. left \in Nat
      BY <1>2
    <3> HIDE DEF left, size
    <3>2. q \in Nat /\ r \in Nat /\ r < size /\ left = x + r
      BY <1>1, <3>1, DividedInto
    <3> HIDE DEF q
    <3> QED
      BY <1>1, <3>2
  <2>2. new = [left |-> r, parts |-> e]
    BY <1>4 DEF Take
  <2>3. p \in DurationPart /\ UnitToSeconds[p.unit] = size /\ SecondsOf(p) = x
    BY <2>1 DEF DurationPart, SecondsOf
  <2> HIDE DEF q, r, x, p, new, size, left, parts
  <2>4. /\ n \in Nat /\ e \in Seq(DurationPart) /\ Len(e) = n + 1 /\ DOMAIN e = 1 .. n + 1
        /\ e[n + 1] = p /\ \A i \in 1..n : e[i] = parts[i]
    BY <1>2, <2>3, AppendProperties
  <2>5. Total(Wholes(e)) + r = seconds
    <3> DEFINE w == Wholes(parts)
               t == Total(w)
    <3>1. w \in Seq(Nat) /\ Wholes(e) = Append(w, x) /\ t + left = seconds
      BY <1>2, <2>3, WholesAre, WholesAppend
    <3> HIDE DEF w
    <3>2. t \in Nat /\ Total(Append(w, x)) = t + x
      BY <2>1, <3>1, TotalIs
    <3> HIDE DEF t
    <3> QED
      BY <1>2, <2>1, <3>1, <3>2
  <2> HIDE DEF e, n
  <2>6. ASSUME NEW i \in 1 .. n + 1 PROVE r < UnitToSeconds[e[i].unit]
    <3>1. CASE i = n + 1
      BY <2>1, <2>3, <2>4, <3>1
    <3>2. CASE i # n + 1
      <4>1. i \in 1..n /\ e[i] = parts[i] /\ r <= left
        BY <1>2, <2>1, <2>4, <3>2
      <4>2. left < UnitToSeconds[parts[i].unit] /\ parts[i] \in DurationPart
        BY <1>2, <4>1 DEF n
      <4>3. UnitToSeconds[parts[i].unit] \in Nat
        BY <4>2, RenderedAre DEF DurationPart
      <4> QED
        BY <1>2, <2>1, <4>1, <4>2, <4>3
    <3> QED
      BY <3>1, <3>2
  <2>7. ASSUME NEW i \in 1 .. n + 1, NEW j \in 1 .. n + 1, i < j
        PROVE  SecondsOf(e[j]) < UnitToSeconds[e[i].unit]
    <3>1. i \in 1..n /\ e[i] = parts[i] /\ (j \in 1..n \/ j = n + 1)
      BY <2>4, <2>7
    <3>2. CASE j \in 1..n
      <4>1. e[j] = parts[j] /\ i \in DOMAIN parts /\ j \in DOMAIN parts
        BY <1>2, <2>4, <3>1, <3>2 DEF n
      <4> QED
        BY <1>2, <2>7, <3>1, <4>1 DEF Descending
    <3>3. CASE j = n + 1
      <4>1. SecondsOf(e[j]) = x
        BY <2>3, <2>4, <3>3
      <4>2. left < UnitToSeconds[parts[i].unit] /\ parts[i] \in DurationPart
        BY <1>2, <3>1 DEF n
      <4>3. UnitToSeconds[parts[i].unit] \in Nat
        BY <4>2, RenderedAre DEF DurationPart
      <4>4. x <= left
        BY <1>2, <2>1
      <4>5. x < UnitToSeconds[parts[i].unit]
        BY <1>2, <2>1, <4>2, <4>3, <4>4
      <4> QED
        BY <3>1, <4>1, <4>5
    <3> QED
      BY <3>1, <3>2, <3>3
  <2>8. Descending(e)
    BY <2>4, <2>7 DEF Descending
  <2>9. new.left = r /\ new.parts = e
    BY <2>2
  <2>10. Rendering(new, seconds)
    BY <2>1, <2>4, <2>5, <2>6, <2>8, <2>9 DEF Rendering
  <2> QED
    BY <2>1, <2>9, <2>10 DEF new, size
<1> QED
  BY <1>3, <1>4

\* A duration is parsed as what was rendered.
LEMMA DurationsReadBack ==
  ASSUME NEW seconds \in Nat
  PROVE  DurationReadsBack(seconds)
<1> DEFINE parts == DurationParts(seconds)
<1>1. CASE seconds = 0
  <2> DEFINE p == [n |-> 0, unit |-> "s"]
             e == <<>>
  <2>1. parts = <<p>>
    BY <1>1 DEF DurationParts
  <2>2. p \in DurationPart /\ SecondsOf(p) = 0
    <3>1. "s" \in Rendered /\ UnitToSeconds["s"] = 1
      BY RenderedAre DEF Rendered
    <3>2. p.n = 0 /\ p.unit = "s" /\ 0 * 1 = 0
      OBVIOUS
    <3> QED
      BY <3>1, <3>2 DEF SecondsOf, DurationPart
  <2> HIDE DEF parts, p
  <2>3. parts \in Seq(DurationPart) /\ Len(parts) = 1
    BY <2>1, <2>2
  <2>4. Total(Wholes(parts)) = 0
    <3>1. Wholes(parts) \in Seq(Nat) /\ Len(Wholes(parts)) = 1 /\ Wholes(parts)[1] = SecondsOf(parts[1])
      BY <2>3, WholesAre
    <3>2. SecondsOf(parts[1]) = 0
      BY <2>1, <2>2
    <3> DEFINE w == Wholes(parts)
               z == <<0>>
    <3>3. w \in Seq(Nat) /\ Len(w) = 1 /\ w[1] = 0
      BY <3>1, <3>2
    <3>4. z \in Seq(Nat) /\ Len(z) = 1 /\ z[1] = 0
      OBVIOUS
    <3> HIDE DEF w, z
    <3>5. Len(w) = Len(z) /\ \A i \in 1..Len(w) : w[i] = z[i]
      BY <3>3, <3>4
    <3>6. w = z
      BY <3>3, <3>4, <3>5, SeqEqual
    <3> QED
      BY <3>6, TotalIs DEF w, z
  <2>5. ParseDuration(parts) = seconds
    BY <1>1, <2>3, <2>4, ParsedIs
  <2>6. Descending(parts)
    <3>1. DOMAIN parts = {1}
      BY <2>3
    <3> QED
      BY <3>1 DEF Descending
  <2> QED
    BY <2>5, <2>6 DEF DurationReadsBack, Descending, parts
<1>2. CASE seconds # 0
  <2>1. PICK f : Takes(f, seconds) /\ parts = f[6].parts
    BY <1>2, PartsTaken
  <2> HIDE DEF parts
  <2>2. Rendering(f[0], seconds)
    <3> DEFINE e == <<>>
    <3>1. f[0].left = seconds /\ f[0].parts = e
      BY <2>1 DEF Takes
    <3>2. e \in Seq(DurationPart) /\ Len(e) = 0 /\ DOMAIN e = {}
      OBVIOUS
    <3> HIDE DEF e
    <3>3. Wholes(e) \in Seq(Nat) /\ Len(Wholes(e)) = 0
      BY <3>2, WholesAre
    <3>4. Wholes(e) = <<>>
      BY <3>3, EmptySeq
    <3>5. Total(Wholes(e)) = 0
      BY <3>4, TotalIs
    <3>6. Descending(e)
      BY <3>2 DEF Descending
    <3>7. 0 + seconds = seconds /\ \A i \in 1..0 : FALSE
      OBVIOUS
    <3> QED
      BY <3>1, <3>2, <3>5, <3>6, <3>7 DEF Rendering
  <2>3. \A k \in 1..6 : f[k] = Take(f[k - 1], RenderedUnits[k]) /\ RenderedUnits[k] \in Rendered
    BY <2>1, RenderedAre DEF Takes
  <2>4. ASSUME NEW k \in 1..6, Rendering(f[k - 1], seconds)
        PROVE  Rendering(f[k], seconds) /\ f[k].left < UnitToSeconds[RenderedUnits[k]]
    BY <2>3, <2>4, RenderingTakes
  <2>5. Rendering(f[1], seconds)
    BY <2>2, <2>4
  <2>6. Rendering(f[2], seconds)
    BY <2>5, <2>4
  <2>7. Rendering(f[3], seconds)
    BY <2>6, <2>4
  <2>8. Rendering(f[4], seconds)
    BY <2>7, <2>4
  <2>9. Rendering(f[5], seconds)
    BY <2>8, <2>4
  <2>10. Rendering(f[6], seconds) /\ f[6].left < 1
    BY <2>9, <2>4, RenderedAre
  <2>11. parts \in Seq(DurationPart) /\ f[6].left = 0 /\ Total(Wholes(parts)) + 0 = seconds /\ Descending(parts)
    BY <2>1, <2>10 DEF Rendering
  <2>12. ParseDuration(parts) = seconds
    BY <2>11, ParsedIs
  <2> QED
    BY <2>11, <2>12 DEF DurationReadsBack, Descending, parts
<1> QED
  BY <1>1, <1>2

\* What a user types is what is charged, stored and shown again, whatever it is.
LEMMA QuantitiesAreKept == TypedInit => QuantitiesReadBack
<1> SUFFICES ASSUME TypedInit PROVE QuantitiesReadBack
  OBVIOUS
<1>1. ASSUME NEW v \in Amount, typed = [kind |-> "amount", value |-> v] PROVE QuantitiesReadBack
  <2>1. typed.kind = "amount" /\ typed.value = v
    BY <1>1
  <2>2. AmountReadsBack(v) /\ ExchangeNeverGains(v)
    BY QuantitiesAssumption, AmountsReadBack, ExchangesNeverGain
  <2> QED
    BY <2>1, <2>2 DEF QuantitiesReadBack
<1>2. ASSUME NEW s \in Decimal, typed = [kind |-> "decimal", value |-> s] PROVE QuantitiesReadBack
  <2>1. typed.kind = "decimal" /\ typed.value = s
    BY <1>2
  <2>2. s.negative \in BOOLEAN /\ s.int \in Seq(DecimalDigit) /\ s.frac \in Seq(DecimalDigit)
    BY QuantitiesAssumption DEF DecimalText, DecimalDigit
  <2>3. DecimalReadsBack(s)
    BY <2>2, DecimalsReadBack
  <2> QED
    BY <2>1, <2>3 DEF QuantitiesReadBack
<1>3. ASSUME NEW s \in Second, typed = [kind |-> "duration", value |-> s] PROVE QuantitiesReadBack
  <2>1. typed.kind = "duration" /\ typed.value = s
    BY <1>3
  <2>2. DurationReadsBack(s)
    BY QuantitiesAssumption, DurationsReadBack
  <2> QED
    BY <2>1, <2>2 DEF QuantitiesReadBack
<1> QED
  BY <1>1, <1>2, <1>3 DEF TypedInit

\* A quotient and a remainder, as a range.
LEMMA DivMod ==
  ASSUME NEW a \in Nat, NEW p \in Nat \ {0}
  PROVE  a \div p \in Nat /\ a % p \in 0 .. p - 1 /\ a = p * (a \div p) + (a % p)
OBVIOUS

\* What a quotient and a remainder are is told by their sum.
LEMMA DivModOnce ==
  ASSUME NEW p \in Nat \ {0}, NEW m \in Nat, NEW x \in 0 .. p - 1
  PROVE  (p * m + x) \div p = m /\ (p * m + x) % p = x
<1> DEFINE a == p * m + x
<1>1. a \in Nat
  OBVIOUS
<1>2. a \div p \in Nat /\ a % p \in 0 .. p - 1 /\ a = p * (a \div p) + (a % p)
  BY <1>1, DivMod
<1>3. p * (a \div p) + (a % p) = p * m + x
  BY <1>2
<1> HIDE DEF a
<1>4. a \div p = m /\ a % p = x
  BY <1>2, <1>3, DivideOnce
<1> QED
  BY <1>4 DEF a

\* Dividing by a product is dividing twice.
LEMMA DivideTwice ==
  ASSUME NEW n \in Nat, NEW r \in Nat \ {0}, NEW q \in Nat \ {0}
  PROVE  n \div q = r * (n \div (r * q)) + ((n \div q) % r)
<1> DEFINE m == n \div q
           x == n % q
           k == m \div r
           y == m % r
           rq == r * q
<1>1. m \in Nat /\ x \in 0 .. q - 1 /\ n = q * m + x
  BY DivMod
<1> HIDE DEF m, x
<1>2. k \in Nat /\ y \in 0 .. r - 1 /\ m = r * k + y
  BY <1>1, DivMod
<1> HIDE DEF k, y
<1>3. rq \in Nat \ {0}
  OBVIOUS
<1>4. q * (r * k + y) = rq * k + q * y
  BY <1>2
<1>5. q * y + x \in 0 .. rq - 1
  <2>1. q * y <= q * (r - 1)
    BY <1>2
  <2>2. q * (r - 1) = rq - q
    OBVIOUS
  <2>3. q * y \in Nat
    BY <1>2
  <2> DEFINE qy == q * y
  <2> HIDE DEF qy, rq
  <2>4. qy <= rq - q /\ qy \in Nat
    BY <2>1, <2>2, <2>3 DEF qy
  <2>5. qy + x \in 0 .. rq - 1
    BY <1>1, <1>3, <2>4
  <2> QED
    BY <2>5 DEF qy
<1>6. n = rq * k + (q * y + x)
  <2>1. q * y \in Nat /\ rq * k \in Nat /\ x \in Nat
    BY <1>1, <1>2, <1>3
  <2> QED
    BY <1>1, <1>2, <1>4, <2>1
<1> DEFINE z == q * y + x
<1> HIDE DEF rq, z
<1>7. n \div rq = k
  BY <1>2, <1>3, <1>5, <1>6, DivModOnce DEF z
<1> QED
  BY <1>2, <1>7 DEF m, rq, y

-----------------------------------------------------------------------------
(* Numbers of a fixed width.                                               *)

\* The width and the radix are numbers.
LEMMA CodecsNumbers == WORD \in Nat /\ Radix \in Nat \ {0} /\ Radix \in Nat /\ Radix - 1 \in Nat /\ WORD # 0
BY CodecsAssumption

\* The first bytes of a number.
FirstBytes(n, i) == [j \in 1..i |-> (n \div Power(Radix, WORD - j)) % Radix]

\* The first bytes of a number are digits to the radix.
LEMMA FirstBytesAre ==
  ASSUME NEW n \in Nat, NEW i \in 0..WORD
  PROVE  /\ FirstBytes(n, i) \in Seq(0 .. Radix - 1) /\ Len(FirstBytes(n, i)) = i
         /\ \A j \in 1..i : FirstBytes(n, i)[j] = (n \div Power(Radix, WORD - j)) % Radix
<1>1. i \in Nat
  BY CodecsNumbers
<1>2. ASSUME NEW j \in 1..i PROVE (n \div Power(Radix, WORD - j)) % Radix \in 0 .. Radix - 1
  <2> DEFINE k == WORD - j
             p == Power(Radix, k)
             q == n \div p
  <2>1. k \in Nat
    BY CodecsNumbers
  <2> HIDE DEF k
  <2>2. p \in Nat \ {0}
    BY <2>1, CodecsNumbers, PowerPositive
  <2> HIDE DEF p
  <2>3. q \in Nat
    BY <2>2, DivMod
  <2> HIDE DEF q
  <2>4. q % Radix \in 0 .. Radix - 1
    BY <2>3, CodecsNumbers, DivMod
  <2> QED
    BY <2>4 DEF q, p, k
<1> DEFINE e(j) == (n \div Power(Radix, WORD - j)) % Radix
<1> HIDE DEF e
<1>3. \A j \in 1..i : e(j) \in 0 .. Radix - 1
  BY <1>2 DEF e
<1>4. FirstBytes(n, i) = [j \in 1..i |-> e(j)]
  BY DEF FirstBytes, e
<1>5. FirstBytes(n, i) \in Seq(0 .. Radix - 1) /\ Len(FirstBytes(n, i)) = i
  BY <1>1, <1>3, <1>4
<1>6. \A j \in 1..i : FirstBytes(n, i)[j] = e(j)
  BY <1>4
<1> QED
  BY <1>5, <1>6 DEF e

\* Digits to the radix are numbers.
LEMMA BytesNumbers == ASSUME NEW s \in Seq(0 .. Radix - 1) PROVE s \in Seq(Nat)
BY CodecsNumbers

\* One byte more of a number.
LEMMA FirstBytesNext ==
  ASSUME NEW n \in Nat, NEW i \in 0 .. WORD - 1
  PROVE  FirstBytes(n, i + 1) = Append(FirstBytes(n, i), (n \div Power(Radix, WORD - (i + 1))) % Radix)
<1> DEFINE D == 0 .. Radix - 1
           m == i + 1
           f == FirstBytes(n, m)
           g == FirstBytes(n, i)
           c == (n \div Power(Radix, WORD - m)) % Radix
<1>1. i \in 0..WORD /\ m \in 0..WORD /\ m \in 1..m /\ i \in Nat
  BY CodecsNumbers
<1> HIDE DEF m
<1>2. f \in Seq(D) /\ Len(f) = m /\ \A j \in 1..m : f[j] = (n \div Power(Radix, WORD - j)) % Radix
  BY <1>1, FirstBytesAre
<1>3. g \in Seq(D) /\ Len(g) = i /\ \A j \in 1..i : g[j] = (n \div Power(Radix, WORD - j)) % Radix
  BY <1>1, FirstBytesAre
<1>4. f[m] = c
  BY <1>1, <1>2
<1>5. c \in D
  <2>1. f[m] \in D
    <3> HIDE DEF f, D
    <3> QED
      BY <1>1, <1>2
  <2> QED
    BY <1>4, <2>1, Zenon
<1> HIDE DEF f, g, c, D
<1>6. /\ Append(g, c) \in Seq(D) /\ Len(Append(g, c)) = i + 1 /\ Append(g, c)[i + 1] = c
      /\ \A j \in 1..i : Append(g, c)[j] = g[j]
  BY <1>3, <1>5, AppendProperties
<1>7. ASSUME NEW j \in 1..m PROVE f[j] = Append(g, c)[j]
  <2>1. j = m \/ j \in 1..i
    BY <1>1 DEF m
  <2> QED
    BY <1>2, <1>3, <1>4, <1>6, <2>1 DEF m
<1>8. Len(f) = Len(Append(g, c)) /\ \A j \in 1..Len(f) : f[j] = Append(g, c)[j]
  BY <1>2, <1>6, <1>7 DEF m
<1>9. f = Append(g, c)
  BY <1>2, <1>6, <1>8, SeqEqual
<1> QED
  BY <1>9 DEF f, g, c, m

\* The first bytes count what is left of the number without the others.
LEMMA FirstBytesCount ==
  ASSUME NEW n \in Nat, n < Power(Radix, WORD)
  PROVE  \A i \in Nat : i \in 0..WORD =>
           ValueOf(Radix, FirstBytes(n, i)) = n \div Power(Radix, WORD - i)
<1> DEFINE S == {i \in Nat : i \in 0..WORD =>
                   ValueOf(Radix, FirstBytes(n, i)) = n \div Power(Radix, WORD - i)}
<1>1. 0 \in S
  <2> DEFINE f == FirstBytes(n, 0)
             p == Power(Radix, WORD)
  <2>1. 0 \in 0..WORD /\ WORD - 0 = WORD
    BY CodecsNumbers
  <2>2. f \in Seq(0 .. Radix - 1) /\ Len(f) = 0
    BY <2>1, FirstBytesAre
  <2>3. f = <<>>
    BY <2>2, EmptySeq
  <2>4. ValueOf(Radix, f) = 0
    BY <2>3, CodecsNumbers, ValueEmpty
  <2>5. p \in Nat \ {0}
    BY CodecsNumbers, PowerPositive
  <2> HIDE DEF f, p
  <2>6. n \div p = 0
    <3>1. n < p
      BY DEF p
    <3> QED
      BY <2>5, <3>1
  <2> QED
    BY <2>1, <2>4, <2>6 DEF f, p
<1>2. ASSUME NEW i \in Nat, i \in S PROVE i + 1 \in S
  <2> SUFFICES ASSUME i + 1 \in 0..WORD
               PROVE  ValueOf(Radix, FirstBytes(n, i + 1)) = n \div Power(Radix, WORD - (i + 1))
    OBVIOUS
  <2> DEFINE k == WORD - (i + 1)
             q == Power(Radix, k)
             f == FirstBytes(n, i)
             c == (n \div q) % Radix
  <2>1. i \in 0..WORD /\ i \in 0 .. WORD - 1 /\ k \in Nat /\ WORD - i = k + 1
    BY CodecsNumbers
  <2>2. ValueOf(Radix, f) = n \div Power(Radix, k + 1)
    BY <1>2, <2>1
  <2>3. FirstBytes(n, i + 1) = Append(f, c)
    BY <2>1, FirstBytesNext
  <2> HIDE DEF k
  <2>4. q \in Nat \ {0} /\ Power(Radix, k + 1) = Radix * q
    BY <2>1, CodecsNumbers, PowerPositive, PowerIs
  <2> HIDE DEF q
  <2>5. n \div q \in Nat /\ c \in Nat
    <3> DEFINE d == n \div q
    <3>1. d \in Nat
      BY <2>4, DivMod
    <3> HIDE DEF d
    <3>2. d % Radix \in 0 .. Radix - 1
      BY <3>1, CodecsNumbers, DivMod
    <3>3. d % Radix \in Nat
      BY <3>2, CodecsNumbers
    <3> QED
      BY <3>1, <3>3 DEF d
  <2>6. f \in Seq(Nat)
    BY <2>1, FirstBytesAre, BytesNumbers
  <2> HIDE DEF f, c
  <2>7. ValueOf(Radix, Append(f, c)) = Radix * ValueOf(Radix, f) + c
    BY <2>5, <2>6, CodecsNumbers, ValueAppend
  <2>8. n \div q = Radix * (n \div (Radix * q)) + c
    BY <2>4, CodecsNumbers, DivideTwice DEF c
  <2>9. ValueOf(Radix, Append(f, c)) = n \div q
    BY <2>2, <2>4, <2>7, <2>8, Zenon
  <2> QED
    BY <2>3, <2>9 DEF k, q
<1>3. \A i \in Nat : i \in S
  <2> HIDE DEF S
  <2> QED
    BY <1>1, <1>2, Induct
<1> QED
  BY <1>3

\* to_be_bytes writes a number of that width and nothing is lost.
LEMMA BigEndianIs ==
  ASSUME NEW n \in 0 .. Power(Radix, WORD) - 1
  PROVE  /\ BigEndian(n) \in Seq(0 .. Radix - 1) /\ Len(BigEndian(n)) = WORD
         /\ ToNumber(BigEndian(n)) = n
<1>1. BigEndian(n) = FirstBytes(n, WORD)
  BY DEF BigEndian, FirstBytes
<1>2. Power(Radix, WORD) \in Nat
  BY CodecsNumbers, PowerIs
<1>3. n \in Nat /\ n < Power(Radix, WORD) /\ WORD \in 0..WORD
  BY <1>2, CodecsNumbers
<1>4. FirstBytes(n, WORD) \in Seq(0 .. Radix - 1) /\ Len(FirstBytes(n, WORD)) = WORD
  BY <1>3, FirstBytesAre
<1>5. ValueOf(Radix, FirstBytes(n, WORD)) = n \div Power(Radix, WORD - WORD)
  BY <1>3, CodecsNumbers, FirstBytesCount
<1>6. Power(Radix, WORD - WORD) = 1
  BY CodecsNumbers, PowerIs
<1>7. n \div 1 = n
  BY <1>3
<1> QED
  BY <1>1, <1>4, <1>5, <1>6, <1>7 DEF ToNumber

\* Reversing twice changes nothing.
LEMMA ReversedTwice ==
  ASSUME NEW T, NEW s \in Seq(T)
  PROVE  Reverse(Reverse(s)) = s
<1> DEFINE n == Len(s)
           r == Reverse(s)
           t == Reverse(r)
<1>1. n \in Nat /\ \A i \in 1..n : s[i] \in T
  OBVIOUS
<1>2. r \in Seq(T) /\ Len(r) = n /\ \A i \in 1..n : r[i] = s[(n - i) + 1]
  BY <1>1 DEF Reverse
<1> HIDE DEF r
<1>3. t \in Seq(T) /\ Len(t) = n /\ \A i \in 1..n : t[i] = r[(n - i) + 1]
  BY <1>1, <1>2 DEF Reverse
<1> HIDE DEF t
<1>4. ASSUME NEW i \in 1..n PROVE t[i] = s[i]
  <2> DEFINE j == (n - i) + 1
  <2>1. j \in 1..n /\ (n - j) + 1 = i
    BY <1>1
  <2>2. t[i] = r[j]
    BY <1>3
  <2> HIDE DEF j
  <2>3. r[j] = s[(n - j) + 1]
    BY <1>2, <2>1
  <2> QED
    BY <2>1, <2>2, <2>3
<1>5. Len(t) = Len(s) /\ \A i \in 1..Len(t) : t[i] = s[i]
  BY <1>3, <1>4
<1>6. t = s
  BY <1>3, <1>5, SeqEqual
<1> QED
  BY <1>6 DEF t, r

\* All digits the largest make the largest number.
LEMMA LargestValue ==
  \A s \in Seq({Radix - 1}) : ValueOf(Radix, s) + 1 = Power(Radix, Len(s))
<1> DEFINE P == {s \in Seq({Radix - 1}) : ValueOf(Radix, s) + 1 = Power(Radix, Len(s))}
<1>1. <<>> \in P
  <2> DEFINE e == <<>>
  <2>1. e \in Seq({Radix - 1}) /\ Len(e) = 0
    OBVIOUS
  <2>2. ValueOf(Radix, e) = 0 /\ Power(Radix, 0) = 1
    BY CodecsNumbers, ValueEmpty, PowerIs
  <2> HIDE DEF e
  <2>3. e \in P
    BY <2>1, <2>2
  <2> QED
    BY <2>3 DEF e
<1>2. ASSUME NEW s \in Seq({Radix - 1}), NEW x \in {Radix - 1}, s \in P PROVE Append(s, x) \in P
  <2> DEFINE e == Append(s, x)
             v == ValueOf(Radix, s)
             p == Power(Radix, Len(s))
  <2>1. e \in Seq({Radix - 1}) /\ Len(e) = Len(s) + 1 /\ Len(s) \in Nat /\ x = Radix - 1
    OBVIOUS
  <2>2. s \in Seq(Nat) /\ x \in Nat
    BY CodecsNumbers
  <2>3. v \in Nat /\ ValueOf(Radix, e) = Radix * v + x
    BY <2>2, CodecsNumbers, ValueAppend
  <2>4. v + 1 = p /\ Power(Radix, Len(s) + 1) = Radix * p
    BY <1>2, <2>1, CodecsNumbers, PowerIs
  <2> HIDE DEF e, v, p
  <2>5. Radix * v + x + 1 = Radix * p
    <3>1. Radix * (v + 1) = Radix * v + Radix /\ Radix * v \in Nat
      BY <2>3, CodecsNumbers
    <3> QED
      BY <2>1, <2>4, <3>1, CodecsNumbers
  <2>6. e \in P
    BY <2>1, <2>3, <2>4, <2>5
  <2> QED
    BY <2>6 DEF e
<1>3. \A s \in Seq({Radix - 1}) : s \in P
  <2> HIDE DEF P
  <2> QED
    BY <1>1, <1>2, SeqInduct
<1> QED
  BY <1>3

\* The largest index is one below the first power that does not fit.
LEMMA MinusOneIs ==
  /\ MINUS_ONE \in Seq(0 .. Radix - 1) /\ Len(MINUS_ONE) = WORD
  /\ ValueOf(Radix, MINUS_ONE) + 1 = Power(Radix, WORD)
<1>1. MINUS_ONE \in Seq({Radix - 1}) /\ MINUS_ONE \in Seq(0 .. Radix - 1) /\ Len(MINUS_ONE) = WORD
  BY CodecsNumbers DEF MINUS_ONE
<1> QED
  BY <1>1, LargestValue

\* Spans and indices read back, and the successor stays in the width.
LEMMA NumbersReadBack ==
  ASSUME NEW n \in 0 .. Power(Radix, WORD) - 1
  PROVE  NumberReadsBack(n)
<1> DEFINE P == Power(Radix, WORD)
           b == BigEndian(n)
<1>1. P \in Nat \ {0} /\ n \in Nat
  BY CodecsNumbers, PowerPositive
<1>2. b \in Seq(0 .. Radix - 1) /\ Len(b) = WORD /\ ValueOf(Radix, b) = n
  BY BigEndianIs DEF ToNumber
<1>3. Reverse(LittleEndian(n)) = b
  BY <1>2, ReversedTwice DEF LittleEndian
<1> HIDE DEF b
<1>4. ToNumber(NextIndex(b)) = (n + 1) % P
  <2>1. CASE b = MINUS_ONE
    <3>1. n + 1 = P
      BY <1>2, <2>1, MinusOneIs
    <3>2. 0 \in 0 .. P - 1
      BY <1>1
    <3>3. ToNumber(BigEndian(0)) = 0
      BY <3>2, BigEndianIs
    <3> HIDE DEF P
    <3>4. P % P = 0
      BY <1>1
    <3> QED
      BY <2>1, <3>1, <3>3, <3>4 DEF NextIndex
  <2>2. CASE b # MINUS_ONE
    <3>1. n # ValueOf(Radix, MINUS_ONE)
      BY <1>2, <2>2, CodecsNumbers, MinusOneIs, ValueInjective
    <3>2. MINUS_ONE \in Seq(Nat)
      BY MinusOneIs, BytesNumbers
    <3>3. ValueOf(Radix, MINUS_ONE) \in Nat
      BY <3>2, CodecsNumbers, ValueAppend
    <3> DEFINE m == n + 1
    <3>4. m \in 0 .. P - 1
      <4> DEFINE w == ValueOf(Radix, MINUS_ONE)
      <4>1. w + 1 = P /\ w \in Nat /\ n # w
        BY <3>1, <3>3, MinusOneIs
      <4> HIDE DEF w, P
      <4>2. n \in 0 .. P - 1
        BY DEF P
      <4> QED
        BY <1>1, <4>1, <4>2
    <3>5. NextIndex(b) = BigEndian(m)
      BY <1>2, <2>2 DEF NextIndex, ToNumber
    <3> HIDE DEF m
    <3>6. ToNumber(BigEndian(m)) = m
      BY <3>4, BigEndianIs
    <3> HIDE DEF P
    <3>7. m % P = m
      BY <1>1, <3>4
    <3> QED
      BY <3>5, <3>6, <3>7 DEF m
  <2> QED
    BY <2>1, <2>2
<1> QED
  BY <1>2, <1>3, <1>4 DEF NumberReadsBack, ToNumber, b

-----------------------------------------------------------------------------
(* Public keys.                                                            *)

\* A multiple leaves no remainder.
LEMMA MultipleOf ==
  ASSUME NEW p \in Nat \ {0}, NEW k \in Int, NEW m \in Nat, m = p * k
  PROVE  m % p = 0
<1>1. k < 0 => p * k < 0
  OBVIOUS
<1>2. k \in Nat
  BY <1>1
<1>3. 0 \in 0 .. p - 1 /\ p * k + 0 = m
  BY <1>2
<1> QED
  BY <1>2, <1>3, DivModOnce

\* In the field a number is no square of two numbers that are both even or both odd.
LEMMA Smaller ==
  ASSUME NEW y \in Field, NEW z \in Field, z < y,
         (y * y) % CurveOrder = (z * z) % CurveOrder, y % 2 = z % 2
  PROVE  FALSE
<1> DEFINE p == CurveOrder
           a == y - z
           s == y + z
           yy == y * y
           zz == z * z
           k == yy \div p
           m == zz \div p
           c == zz % p
<1>1. p \in Nat \ {0} /\ p % 2 = 1 /\ y \in 0 .. p - 1 /\ z \in 0 .. p - 1
  BY CurveAssumption DEF OddPrime, Field
<1>2. a \in 1 .. p - 1 /\ s \in 1 .. p + p - 1 /\ a \in Nat /\ s \in Nat
  BY <1>1
<1>3. s # p
  <2>1. s % 2 = 0
    BY <1>1
  <2> QED
    BY <1>1, <2>1
<1>4. yy \in Nat /\ zz \in Nat
  BY <1>1
<1>5. a * s = yy - zz
  BY <1>1
<1> HIDE DEF p, yy, zz
<1>6. k \in Nat /\ m \in Nat /\ c \in Nat /\ yy = p * k + c /\ zz = p * m + c
  <2>1. yy % p = c
    BY DEF yy, zz, p
  <2>2. k \in Nat /\ yy = p * k + (yy % p)
    BY <1>1, <1>4, DivMod
  <2>3. m \in Nat /\ zz = p * m + c /\ c \in 0 .. p - 1
    BY <1>1, <1>4, DivMod
  <2> HIDE DEF c, m
  <2> QED
    BY <1>1, <2>1, <2>2, <2>3
<1> HIDE DEF a, s, k, m, c
<1>7. a * s = p * (k - m)
  BY <1>1, <1>5, <1>6
<1>8. CASE s < p
  <2>1. s \in 1 .. p - 1 /\ a * s \in Nat /\ k - m \in Int
    BY <1>1, <1>2, <1>6, <1>8
  <2>2. (a * s) % p = 0
    BY <1>1, <1>7, <2>1, MultipleOf
  <2> QED
    BY <1>2, <2>1, <2>2, CurveAssumption DEF OddPrime, p
<1>9. CASE s > p
  <2> DEFINE b == s - p
  <2>1. b \in 1 .. p - 1 /\ a * b \in Nat /\ k - m - a \in Int
    BY <1>1, <1>2, <1>6, <1>9
  <2>2. a * b = a * s - p * a
    BY <1>1, <1>2
  <2>3. p * (k - m - a) = p * (k - m) - p * a
    BY <1>1, <1>2, <1>6
  <2>4. a * b = p * (k - m - a)
    BY <1>7, <2>2, <2>3
  <2> HIDE DEF b
  <2>5. (a * b) % p = 0
    BY <1>1, <2>1, <2>4, MultipleOf
  <2> QED
    BY <1>2, <2>1, <2>5, CurveAssumption DEF OddPrime, p
<1> QED
  BY <1>1, <1>2, <1>3, <1>8, <1>9

\* Roots of one square that are both even or both odd are the same.
LEMMA SameRoot ==
  ASSUME NEW y \in Field, NEW z \in Field,
         (y * y) % CurveOrder = (z * z) % CurveOrder, y % 2 = z % 2
  PROVE  y = z
<1>1. y \in Int /\ z \in Int
  BY CurveAssumption DEF OddPrime, Field
<1>2. ~(y < z) /\ ~(z < y)
  BY Smaller
<1> QED
  BY <1>1, <1>2

\* The short form of a public key gives back the key.
LEMMA PointsReadBack ==
  ASSUME NEW p \in Field \X Field
  PROVE  PointReadsBack(p)
<1> DEFINE short == Compressed(p)
           points == {q \in {short[2]} \X Field : OnCurve(q) /\ q[2] % 2 = short[1] - 2}
<1>1. CASE ~OnCurve(p)
  BY <1>1 DEF PointReadsBack, Compressed
<1>2. CASE OnCurve(p)
  <2>1. p[1] \in Field /\ p[2] \in Field /\ p = <<p[1], p[2]>>
    OBVIOUS
  <2>2. short = <<2 + (p[2] % 2), p[1]>>
    BY <1>2 DEF Compressed
  <2>3. short[2] = p[1] /\ short[1] - 2 = p[2] % 2
    <3>1. p[2] % 2 \in Nat
      BY <2>1, CurveAssumption DEF OddPrime, Field
    <3> HIDE DEF short
    <3> QED
      BY <2>2, <3>1
  <2> HIDE DEF short
  <2>4. p \in points
    BY <1>2, <2>1, <2>3
  <2>5. ASSUME NEW q \in points PROVE q = p
    <3>1. q[1] = p[1] /\ q[2] \in Field /\ q = <<q[1], q[2]>> /\ OnCurve(q) /\ q[2] % 2 = p[2] % 2
      BY <2>3
    <3>2. (q[2] * q[2]) % CurveOrder = (p[2] * p[2]) % CurveOrder
      BY <1>2, <3>1 DEF OnCurve
    <3>3. q[2] = p[2]
      BY <2>1, <3>1, <3>2, SameRoot
    <3> QED
      BY <2>1, <3>1, <3>3
  <2>6. PublicKey(short) = IF points = {} THEN Refused ELSE CHOOSE q \in points : TRUE
    BY DEF PublicKey
  <2> HIDE DEF points
  <2>7. PublicKey(short) = p
    BY <2>4, <2>5, <2>6
  <2> QED
    BY <1>2, <2>7 DEF PointReadsBack, short
<1> QED
  BY <1>1, <1>2

-----------------------------------------------------------------------------
(* The names of files.                                                     *)

\* The marks of a header differ.
LEMMA MarksDiffer == QUOTE # SEMICOLON /\ QUOTE # TICK /\ SEMICOLON # TICK
BY DEF QUOTE, SEMICOLON, TICK

\* The first place of some is chosen.
LEMMA SmallestOf ==
  ASSUME NEW n \in Nat, NEW at \in SUBSET (1..n), at # {}
  PROVE  LET k == CHOOSE i \in at : \A j \in at : i <= j
         IN  k \in at /\ \A j \in at : k <= j
<1>1. at \in SUBSET Nat
  OBVIOUS
<1>2. \E i \in at : \A j \in at : i <= j
  BY <1>1, LeastExists
<1> QED
  BY <1>2

\* A part of a sequence has only what the sequence has, and is no longer.
LEMMA PartOf ==
  ASSUME NEW T, NEW s \in Seq(T), NEW i \in 1 .. Len(s) + 1, NEW j \in i - 1 .. Len(s)
  PROVE  /\ SubSeq(s, i, j) \in Seq(T) /\ Len(SubSeq(s, i, j)) = j - i + 1
         /\ \A k \in 1 .. j - i + 1 : SubSeq(s, i, j)[k] = s[k + i - 1]
<1> DEFINE L == Len(SubSeq(s, i, j))
<1>1. i \in Int /\ j \in Int /\ \A k \in i..j : s[k] \in T
  OBVIOUS
<1>2. /\ SubSeq(s, i, j) \in Seq(T) /\ L = (IF i <= j THEN j - i + 1 ELSE 0)
      /\ \A k \in 1 .. j - i + 1 : SubSeq(s, i, j)[k] = s[i + k - 1]
  BY <1>1, SubSeqProperties
<1> HIDE DEF L
<1>3. L = j - i + 1
  BY <1>2
<1>4. \A k \in 1 .. j - i + 1 : i + k - 1 = k + i - 1
  BY <1>1
<1> QED
  BY <1>2, <1>3, <1>4 DEF L

\* A quoted name is the name between two marks.
LEMMA QuotedIs ==
  ASSUME NEW T, NEW name \in Seq(T), QUOTE \in T
  PROVE  LET h == Quoted(name)
         IN  /\ h \in Seq(T) /\ Len(h) = Len(name) + 2 /\ h[1] = QUOTE /\ h[Len(name) + 2] = QUOTE
             /\ \A i \in 1..Len(name) : h[i + 1] = name[i]
<1> DEFINE q == <<QUOTE>>
           a == q \o name
           h == a \o q
           n == Len(name)
<1>1. q \in Seq(T) /\ Len(q) = 1 /\ q[1] = QUOTE /\ n \in Nat
  OBVIOUS
<1>2. Quoted(name) = h
  BY DEF Quoted
<1> HIDE DEF q
<1>3. a \in Seq(T) /\ Len(a) = 1 + n /\ \A i \in 1 .. 1 + n : a[i] = IF i <= 1 THEN q[i] ELSE name[i - 1]
  <2>1. a \in Seq(T) /\ Len(a) = Len(q) + n /\ \A i \in 1 .. Len(q) + n : a[i] = IF i <= Len(q) THEN q[i] ELSE name[i - Len(q)]
    BY <1>1, ConcatProperties
  <2> HIDE DEF a
  <2> QED
    BY <1>1, <2>1
<1> HIDE DEF a, n
<1>4. /\ h \in Seq(T) /\ Len(h) = 1 + n + 1
      /\ \A i \in 1 .. 1 + n + 1 : h[i] = IF i <= 1 + n THEN a[i] ELSE q[i - (1 + n)]
  <2>1. h \in Seq(T) /\ Len(h) = Len(a) + Len(q) /\ \A i \in 1 .. Len(a) + Len(q) : h[i] = IF i <= Len(a) THEN a[i] ELSE q[i - Len(a)]
    BY <1>1, <1>3, ConcatProperties
  <2> HIDE DEF h
  <2> QED
    BY <1>1, <1>3, <2>1
<1> HIDE DEF h
<1>5. h[1] = QUOTE
  <2>1. h[1] = a[1] /\ a[1] = q[1]
    BY <1>1, <1>3, <1>4
  <2> QED
    BY <1>1, <2>1
<1>6. h[n + 2] = QUOTE
  <2> DEFINE i == n + 2
  <2>1. i \in 1 .. 1 + n + 1 /\ ~(i <= 1 + n) /\ i - (1 + n) = 1
    BY <1>1
  <2> HIDE DEF i
  <2>2. h[i] = q[i - (1 + n)]
    BY <1>4, <2>1
  <2>3. h[i] = QUOTE
    BY <1>1, <2>1, <2>2
  <2> QED
    BY <2>3 DEF i
<1>7. ASSUME NEW i \in 1..n PROVE h[i + 1] = name[i]
  <2>1. i + 1 \in 1 .. 1 + n /\ i + 1 \in 1 .. 1 + n + 1 /\ i + 1 <= 1 + n /\ ~(i + 1 <= 1) /\ i + 1 - 1 = i
    BY <1>1
  <2>2. h[i + 1] = a[i + 1]
    BY <1>4, <2>1
  <2>3. a[i + 1] = name[i + 1 - 1]
    BY <1>3, <2>1
  <2> QED
    BY <2>1, <2>2, <2>3
<1>8. Len(h) = n + 2
  BY <1>1, <1>4
<1> QED
  BY <1>2, <1>4, <1>5, <1>6, <1>7, <1>8 DEF n

\* What is before a mark has it nowhere; without the mark it is the whole.
LEMMA BeforeIs ==
  ASSUME NEW T, NEW s \in Seq(T), NEW c
  PROVE  /\ Before(s, c) \in Seq(T)
         /\ \A i \in 1..Len(Before(s, c)) : Before(s, c)[i] # c
         /\ (\A i \in 1..Len(s) : s[i] # c) => Before(s, c) = s
<1> DEFINE n == Len(s)
           at == {i \in DOMAIN s : s[i] = c}
<1>1. n \in Nat /\ DOMAIN s = 1..n
  OBVIOUS
<1>2. CASE at = {}
  <2>1. Before(s, c) = s
    BY <1>2 DEF Before
  <2>2. \A i \in 1..n : s[i] # c
    BY <1>1, <1>2
  <2> QED
    BY <2>1, <2>2
<1>3. CASE at # {}
  <2> DEFINE k == CHOOSE i \in at : \A j \in at : i <= j
             b == SubSeq(s, 1, k - 1)
  <2>1. Before(s, c) = b
    BY <1>3 DEF Before
  <2>2. at \in SUBSET (1..n)
    BY <1>1
  <2>3. k \in at /\ \A j \in at : k <= j
    <3> HIDE DEF at, n
    <3> QED
      BY <1>1, <1>3, <2>2, SmallestOf
  <2>4. k \in 1..n /\ s[k] = c /\ \A j \in 1..n : s[j] = c => k <= j
    BY <1>1, <2>3
  <2> HIDE DEF k, at
  <2>5. b \in Seq(T) /\ Len(b) = k - 1 /\ \A i \in 1 .. k - 1 : b[i] = s[i]
    <3> DEFINE m == k - 1
    <3>1. 1 \in 1 .. n + 1 /\ m \in 1 - 1 .. n /\ m - 1 + 1 = m /\ \A i \in 1..m : i + 1 - 1 = i
      BY <1>1, <2>4
    <3> HIDE DEF m
    <3>2. /\ SubSeq(s, 1, m) \in Seq(T) /\ Len(SubSeq(s, 1, m)) = m - 1 + 1
          /\ \A i \in 1 .. m - 1 + 1 : SubSeq(s, 1, m)[i] = s[i + 1 - 1]
      BY <3>1, PartOf
    <3>3. SubSeq(s, 1, m) \in Seq(T) /\ Len(SubSeq(s, 1, m)) = m /\ \A i \in 1..m : SubSeq(s, 1, m)[i] = s[i]
      BY <3>1, <3>2
    <3> QED
      BY <3>3 DEF m
  <2> HIDE DEF b
  <2>6. ASSUME NEW i \in 1..Len(b) PROVE b[i] # c
    <3>1. i \in 1 .. k - 1 /\ i \in 1..n /\ ~(k <= i)
      BY <1>1, <2>4, <2>5
    <3> QED
      BY <2>4, <2>5, <3>1
  <2>7. ~\A i \in 1..n : s[i] # c
    BY <2>4
  <2> QED
    BY <2>1, <2>5, <2>6, <2>7
<1> QED
  BY <1>2, <1>3

TwoTicksAt(s, i) == s[i] = TICK /\ s[i + 1] = TICK

\* What follows two ticks is some part; it is shorter by more than two if there are
\* any and the first mark is another.
LEMMA AfterTicksIs ==
  ASSUME NEW T, NEW s \in Seq(T)
  PROVE  /\ \E k \in 0..Len(s) : /\ AfterTicks(s) \in Seq(T) /\ Len(AfterTicks(s)) = Len(s) - k
                                 /\ \A i \in 1 .. Len(s) - k : AfterTicks(s)[i] = s[i + k]
         /\ (\A i \in 1 .. Len(s) - 1 : ~TwoTicksAt(s, i)) => AfterTicks(s) = s
         /\ s[1] # TICK /\ (\E i \in 1 .. Len(s) - 1 : TwoTicksAt(s, i)) => Len(AfterTicks(s)) < Len(s) - 2
<1> DEFINE n == Len(s)
           at == {i \in 1 .. n - 1 : s[i] = TICK /\ s[i + 1] = TICK}
           v == AfterTicks(s)
<1>1. n \in Nat
  OBVIOUS
<1>2. CASE at = {}
  <2>1. v = s
    BY <1>2 DEF AfterTicks
  <2>2. \A i \in 1 .. n - 1 : ~TwoTicksAt(s, i)
    BY <1>2 DEF TwoTicksAt
  <2> HIDE DEF v
  <2>3. 0 \in 0..n /\ n - 0 = n /\ \A i \in 1 .. n - 0 : i + 0 = i
    BY <1>1
  <2>4. v \in Seq(T) /\ Len(v) = n - 0 /\ \A i \in 1 .. n - 0 : v[i] = s[i + 0]
    BY <2>1, <2>3
  <2> HIDE DEF n
  <2>5. \E k \in 0..n : v \in Seq(T) /\ Len(v) = n - k /\ \A i \in 1 .. n - k : v[i] = s[i + k]
    BY <2>3, <2>4
  <2> QED
    BY <2>1, <2>2, <2>5 DEF n, v
<1>3. CASE at # {}
  <2> DEFINE k == CHOOSE i \in at : \A j \in at : i <= j
             m == k + 1
             b == SubSeq(s, k + 2, n)
  <2>1. v = b
    BY <1>3 DEF AfterTicks
  <2>2. at \in SUBSET (1..n)
    BY <1>1
  <2>3. k \in at
    <3> HIDE DEF at, n
    <3> QED
      BY <1>1, <1>3, <2>2, SmallestOf
  <2>4. k \in 1 .. n - 1 /\ s[k] = TICK /\ TwoTicksAt(s, k)
    BY <2>3 DEF TwoTicksAt
  <2> HIDE DEF k, at, v
  <2>5. m \in 0..n /\ k + 2 = m + 1
    BY <1>1, <2>4
  <2> HIDE DEF m, b
  <2>6. b \in Seq(T) /\ Len(b) = n - m /\ \A i \in 1 .. n - m : b[i] = s[i + m]
    <3> DEFINE i0 == m + 1
    <3>1. i0 \in 1 .. n + 1 /\ n \in i0 - 1 .. n /\ n - i0 + 1 = n - m /\ \A i \in 1 .. n - m : i + i0 - 1 = i + m
      BY <1>1, <2>5
    <3> HIDE DEF i0
    <3>2. /\ SubSeq(s, i0, n) \in Seq(T) /\ Len(SubSeq(s, i0, n)) = n - i0 + 1
          /\ \A i \in 1 .. n - i0 + 1 : SubSeq(s, i0, n)[i] = s[i + i0 - 1]
      BY <3>1, PartOf
    <3>3. b = SubSeq(s, i0, n)
      BY <2>5 DEF b, i0
    <3> HIDE DEF n
    <3> QED
      BY <3>1, <3>2, <3>3
  <2> HIDE DEF n
  <2>7. \E x \in 0..n : v \in Seq(T) /\ Len(v) = n - x /\ \A i \in 1 .. n - x : v[i] = s[i + x]
    BY <2>1, <2>5, <2>6
  <2>8. ~\A i \in 1 .. n - 1 : ~TwoTicksAt(s, i)
    BY <2>4
  <2>9. s[1] # TICK => Len(v) < n - 2
    <3> SUFFICES ASSUME s[1] # TICK PROVE Len(v) < n - 2
      OBVIOUS
    <3>1. k # 1
      BY <2>4
    <3> QED
      BY <1>1, <2>1, <2>4, <2>6, <3>1 DEF m
  <2> QED
    BY <2>7, <2>8, <2>9 DEF n, v
<1> QED
  BY <1>2, <1>3

\* The quotes are taken off, and no more; what is left is in what was there.
Unquoted(value) ==
  IF Len(value) >= 2 /\ value[1] = QUOTE /\ Last(value) = QUOTE
  THEN SubSeq(value, 2, Len(value) - 1) ELSE value

\* What is read has no mark that the value has not.
LEMMA UnquotedIs ==
  ASSUME NEW T, NEW v \in Seq(T)
  PROVE  /\ Unquoted(v) \in Seq(T) /\ Len(Unquoted(v)) \in Nat /\ Len(Unquoted(v)) <= Len(v)
         /\ \A i \in 1..Len(Unquoted(v)) : \E j \in 1..Len(v) : Unquoted(v)[i] = v[j]
<1> DEFINE n == Len(v)
           u == Unquoted(v)
           m == n - 1
           b == SubSeq(v, 2, m)
<1>1. n \in Nat
  OBVIOUS
<1>2. CASE u = v
  BY <1>2
<1>3. CASE u = b /\ n >= 2
  <2> HIDE DEF u, n
  <2>1. 2 \in 1 .. n + 1 /\ m \in 2 - 1 .. n /\ m - 2 + 1 = n - 2
    BY <1>1, <1>3
  <2> HIDE DEF m
  <2>2. /\ SubSeq(v, 2, m) \in Seq(T) /\ Len(SubSeq(v, 2, m)) = m - 2 + 1
        /\ \A i \in 1 .. m - 2 + 1 : SubSeq(v, 2, m)[i] = v[i + 2 - 1]
    BY <2>1, PartOf DEF n
  <2>3. u \in Seq(T) /\ Len(u) = n - 2 /\ \A i \in 1 .. n - 2 : u[i] = v[i + 2 - 1]
    BY <1>3, <2>1, <2>2
  <2>4. \A i \in 1 .. n - 2 : i + 2 - 1 \in 1..n
    BY <1>1, <1>3
  <2>5. \A i \in 1..Len(u) : \E j \in 1..n : u[i] = v[j]
    BY <2>3, <2>4
  <2>6. Len(u) \in Nat /\ Len(u) <= n
    BY <1>1, <1>3, <2>3
  <2> QED
    BY <2>3, <2>5, <2>6 DEF u, n
<1> QED
  BY <1>2, <1>3 DEF Unquoted

\* A file name without the marks of headers reads back, and only such a one.
LEMMA NamesReadBack ==
  ASSUME NEW name \in FileName
  PROVE  NameReadsBack(name)
<1> DEFINE T == Range(name) \cup {QUOTE}
           n == Len(name)
           h == Quoted(name)
           b == Before(h, SEMICOLON)
           v == AfterTicks(b)
           u == Unquoted(v)
           Marked == \E i \in DOMAIN name : \/ name[i] = SEMICOLON
                                            \/ name[i] = TICK /\ i < n /\ name[i + 1] = TICK
<1>1. name \in Seq(T) /\ QUOTE \in T
  <2>1. name \in Seq(Range(name))
    BY CodecsAssumption
  <2> DEFINE R == Range(name)
  <2> HIDE DEF R
  <2>2. name \in Seq(R \cup {QUOTE})
    BY <2>1 DEF R
  <2> QED
    BY <2>2 DEF R
<1> HIDE DEF T
<1>2. n \in Nat /\ DOMAIN name = 1..n
  BY <1>1
<1>3. ParseFileName(h) = u
  BY DEF ParseFileName, Unquoted
<1>4. /\ h \in Seq(T) /\ Len(h) = n + 2 /\ h[1] = QUOTE /\ h[n + 2] = QUOTE
      /\ \A i \in 1..n : h[i + 1] = name[i]
  BY <1>1, QuotedIs
<1> HIDE DEF h
<1>5. /\ b \in Seq(T)
      /\ \A i \in 1..Len(b) : b[i] # SEMICOLON
      /\ (\A i \in 1..Len(h) : h[i] # SEMICOLON) => b = h
  BY <1>4, BeforeIs
<1> HIDE DEF b
<1>6. /\ \E k \in 0..Len(b) : v \in Seq(T) /\ Len(v) = Len(b) - k /\ \A i \in 1 .. Len(b) - k : v[i] = b[i + k]
      /\ (\A i \in 1 .. Len(b) - 1 : ~TwoTicksAt(b, i)) => v = b
      /\ b[1] # TICK /\ (\E i \in 1 .. Len(b) - 1 : TwoTicksAt(b, i)) => Len(v) < Len(b) - 2
  BY <1>5, AfterTicksIs
<1> HIDE DEF v
<1>7. /\ u \in Seq(T) /\ Len(u) \in Nat /\ Len(u) <= Len(v)
      /\ \A i \in 1..Len(u) : \E j \in 1..Len(v) : u[i] = v[j]
  BY <1>6, UnquotedIs
<1>8. CASE \E i \in 1..n : name[i] = SEMICOLON
  <2>1. PICK i \in 1..n : name[i] = SEMICOLON
    BY <1>8
  <2>2. Marked
    BY <1>2, <2>1
  <2>3. ASSUME u = name PROVE FALSE
    <3>1. PICK j \in 1..Len(v) : u[i] = v[j]
      BY <1>7, <2>1, <2>3
    <3>2. PICK k \in 0..Len(b) : Len(v) = Len(b) - k /\ \A x \in 1 .. Len(b) - k : v[x] = b[x + k]
      BY <1>6
    <3>3. j \in 1 .. Len(b) - k /\ j + k \in 1..Len(b)
      BY <1>5, <3>1, <3>2
    <3> QED
      BY <1>5, <2>1, <2>3, <3>1, <3>2, <3>3
  <2> QED
    BY <1>3, <2>2, <2>3 DEF NameReadsBack, h
<1>9. CASE \A i \in 1..n : name[i] # SEMICOLON
  <2>1. b = h
    <3>1. ASSUME NEW i \in 1 .. n + 2 PROVE h[i] # SEMICOLON
      <4>1. CASE i = 1 \/ i = n + 2
        BY <1>4, <4>1, MarksDiffer
      <4>2. CASE ~(i = 1 \/ i = n + 2)
        <5>1. i - 1 \in 1..n /\ i - 1 + 1 = i
          BY <1>2, <4>2
        <5>2. h[i] = name[i - 1]
          <6> DEFINE j == i - 1
          <6>1. h[j + 1] = name[j]
            <7>1. j \in 1..n
              BY <5>1
            <7> HIDE DEF j
            <7> QED
              BY <1>4, <7>1
          <6> QED
            BY <5>1, <6>1
        <5> QED
          BY <1>9, <5>1, <5>2
      <4> QED
        BY <4>1, <4>2
    <3> QED
      BY <1>4, <1>5, <3>1
  <2>2. CASE \E i \in 1 .. n - 1 : TwoTicksAt(name, i)
    <3>1. PICK i \in 1 .. n - 1 : TwoTicksAt(name, i)
      BY <2>2
    <3>2. i \in 1..n /\ i < n /\ i + 1 \in 1..n /\ i + 1 \in 1 .. n + 2 - 1
      BY <1>2, <3>1
    <3>3. Marked
      BY <1>2, <3>1, <3>2 DEF TwoTicksAt
    <3>4. h[i + 1] = name[i] /\ h[i + 1 + 1] = name[i + 1]
      BY <1>4, <3>2
    <3>5. TwoTicksAt(b, i + 1) /\ b[1] # TICK
      BY <1>4, <2>1, <3>1, <3>4, MarksDiffer DEF TwoTicksAt
    <3>6. Len(v) < n + 2 - 2
      BY <1>4, <1>6, <2>1, <3>2, <3>5
    <3>7. u # name
      <4>1. Len(u) # n
        <5>1. Len(v) \in Nat
          BY <1>6
        <5> QED
          BY <1>2, <1>7, <3>6, <5>1
      <4> QED
        BY <4>1
    <3> QED
      BY <1>3, <3>3, <3>7 DEF NameReadsBack, h
  <2>3. CASE \A i \in 1 .. n - 1 : ~TwoTicksAt(name, i)
    <3>1. ASSUME NEW i \in 1 .. n + 2 - 1 PROVE ~TwoTicksAt(h, i)
      <4>1. CASE i = 1 \/ i = n + 1
        <5>1. h[1] # TICK /\ h[n + 1 + 1] # TICK
          BY <1>2, <1>4, MarksDiffer
        <5> QED
          BY <4>1, <5>1 DEF TwoTicksAt
      <4>2. CASE ~(i = 1 \/ i = n + 1)
        <5> DEFINE j == i - 1
        <5>1. j \in 1 .. n - 1 /\ j \in 1..n /\ j + 1 \in 1..n /\ i = j + 1
          BY <1>2, <4>2
        <5> HIDE DEF j
        <5>2. h[j + 1] = name[j] /\ h[j + 1 + 1] = name[j + 1]
          BY <1>4, <5>1
        <5> QED
          BY <2>3, <5>1, <5>2 DEF TwoTicksAt
      <4> QED
        BY <4>1, <4>2
    <3>2. v = h
      BY <1>4, <1>6, <2>1, <3>1
    <3>3. u = SubSeq(h, 2, n + 1)
      <4>1. Last(h) = QUOTE /\ n + 2 >= 2 /\ n + 2 - 1 = n + 1
        BY <1>2, <1>4 DEF Last
      <4> QED
        BY <1>4, <3>2, <4>1 DEF Unquoted
    <3>4. u = name
      <4> DEFINE m == n + 1
      <4>1. 2 \in 1 .. Len(h) + 1 /\ m \in 2 - 1 .. Len(h) /\ m - 2 + 1 = n /\ \A i \in 1..n : i + 2 - 1 = i + 1
        BY <1>2, <1>4
      <4> HIDE DEF m
      <4>2. /\ SubSeq(h, 2, m) \in Seq(T) /\ Len(SubSeq(h, 2, m)) = m - 2 + 1
            /\ \A i \in 1 .. m - 2 + 1 : SubSeq(h, 2, m)[i] = h[i + 2 - 1]
        BY <1>4, <4>1, PartOf
      <4>3. u = SubSeq(h, 2, m)
        BY <3>3 DEF m
      <4> HIDE DEF u, n
      <4>4. u \in Seq(T) /\ Len(u) = n /\ \A i \in 1..n : u[i] = h[i + 1]
        BY <4>1, <4>2, <4>3
      <4>5. Len(u) = Len(name) /\ \A i \in 1..Len(u) : u[i] = name[i]
        BY <1>4, <4>4 DEF n
      <4> QED
        BY <1>1, <4>4, <4>5, SeqEqual
    <3>5. ~Marked
      <4> SUFFICES ASSUME NEW i \in 1..n, name[i] = TICK, i < n, name[i + 1] = TICK PROVE FALSE
        BY <1>2, <1>9
      <4>1. i \in 1 .. n - 1
        BY <1>2
      <4> QED
        BY <2>3, <4>1 DEF TwoTicksAt
    <3> QED
      BY <1>3, <3>4, <3>5 DEF NameReadsBack, h
  <2> QED
    BY <2>2, <2>3
<1> QED
  BY <1>8, <1>9

-----------------------------------------------------------------------------
(* Hex.                                                                    *)

Letter == 0..15 \cup 60..65

\* Capitals and small letters have one value, and the prefix is no digit.
LEMMA CapitalIs ==
  /\ \A c \in 0..15 : Capital(c) \in Letter /\ Digit(Capital(c)) = c /\ c \in Letter /\ Digit(c) = c
  /\ X \notin Letter
BY DEF Capital, Digit, UPPER, X, Letter

Byte == 0..255

\* Bytes are numbers.
LEMMA ByteNumbers == ASSUME NEW s \in Seq(Byte) PROVE s \in Seq(Nat)
<1>1. \A b \in Byte : b \in Nat
  BY DEF Byte
<1>2. \A T : s \in Seq(T) /\ (\A x \in T : x \in Nat) => s \in Seq(Nat)
  OBVIOUS
<1> QED
  BY <1>1, <1>2, Zenon

\* A prefix written twice.
LEMMA TwoTwice == \A a, b : <<a, b>> \o <<a, b>> = <<a, b, a, b>>
<1> TAKE a, b
<1> DEFINE p == <<a, b>>
           q == <<a, b, a, b>>
           c == p \o p
           T == {a, b}
<1>1. p \in Seq(T) /\ Len(p) = 2 /\ p[1] = a /\ p[2] = b
  OBVIOUS
<1>2. q \in Seq(T) /\ Len(q) = 4 /\ q[1] = a /\ q[2] = b /\ q[3] = a /\ q[4] = b
  OBVIOUS
<1> HIDE DEF p, q, T
<1>3. c \in Seq(T) /\ Len(c) = 4 /\ \A i \in 1..4 : c[i] = IF i <= 2 THEN p[i] ELSE p[i - 2]
  <2>1. c \in Seq(T) /\ Len(c) = Len(p) + Len(p) /\ \A i \in 1 .. Len(p) + Len(p) : c[i] = IF i <= Len(p) THEN p[i] ELSE p[i - Len(p)]
    BY <1>1, ConcatProperties
  <2> HIDE DEF c
  <2> QED
    BY <1>1, <2>1
<1> HIDE DEF c
<1>4. c[1] = a /\ c[2] = b /\ c[3] = a /\ c[4] = b
  BY <1>1, <1>3
<1>5. Len(c) = Len(q) /\ \A i \in 1..Len(c) : c[i] = q[i]
  <2>1. \A i \in 1..4 : i = 1 \/ i = 2 \/ i = 3 \/ i = 4
    OBVIOUS
  <2> QED
    BY <1>2, <1>3, <1>4, <2>1
<1>6. c = q
  BY <1>2, <1>3, <1>5, SeqEqual
<1> QED
  BY <1>6 DEF c, p, q

\* A byte has two nibbles.
LEMMA NibblesOf == \A b \in Byte : b \div 16 \in 0..15 /\ b % 16 \in 0..15 /\ 16 * (b \div 16) + (b % 16) = b
BY DEF Byte

\* The places of the two digits of a byte.
LEMMA HalfOf ==
  /\ \A n \in Nat : \A i \in 1..n : /\ 2 * i - 1 \in 1 .. 2 * n /\ 2 * i \in 1 .. 2 * n
                                    /\ (2 * i - 1) % 2 = 1 /\ (2 * i) % 2 = 0
                                    /\ (2 * i - 1 + 1) \div 2 = i /\ (2 * i) \div 2 = i
  /\ \A n \in Nat : \A i \in 1 .. 2 * n : /\ i % 2 = 1 => (i + 1) \div 2 \in 1..n
                                          /\ i % 2 # 1 => i \div 2 \in 1..n
  /\ \A n \in Nat : 2 * n \in Nat /\ (2 * n) % 2 # 1 /\ (2 * n) \div 2 = n
OBVIOUS

\* Two digits for every byte.
LEMMA EncodeHexIs ==
  ASSUME NEW bytes \in Seq(Byte)
  PROVE  LET text == EncodeHex(bytes)
             n    == Len(bytes)
         IN  /\ n \in Nat /\ text \in Seq(0..15) /\ Len(text) = 2 * n
             /\ \A i \in 1..n : text[2 * i - 1] = bytes[i] \div 16 /\ text[2 * i] = bytes[i] % 16
<1> DEFINE text == EncodeHex(bytes)
           n    == Len(bytes)
           e(i) == IF i % 2 = 1 THEN bytes[(i + 1) \div 2] \div 16 ELSE bytes[i \div 2] % 16
<1>1. n \in Nat /\ 2 * n \in Nat /\ \A i \in 1..n : bytes[i] \in Byte
  <2>1. n \in Nat /\ \A i \in 1..n : bytes[i] \in Byte
    OBVIOUS
  <2> HIDE DEF n
  <2> QED
    BY <2>1
<1>2. text = [i \in 1 .. 2 * n |-> e(i)]
  BY DEF EncodeHex
<1>3. ASSUME NEW i \in 1 .. 2 * n PROVE e(i) \in 0..15
  <2> HIDE DEF n
  <2>1. CASE i % 2 = 1
    <3>1. (i + 1) \div 2 \in 1..n
      BY <1>1, <2>1, HalfOf
    <3> QED
      BY <1>1, <2>1, <3>1, NibblesOf
  <2>2. CASE i % 2 # 1
    <3>1. i \div 2 \in 1..n
      BY <1>1, <2>2, HalfOf
    <3> QED
      BY <1>1, <2>2, <3>1, NibblesOf
  <2> QED
    BY <2>1, <2>2
<1>4. ASSUME NEW i \in 1..n PROVE e(2 * i - 1) = bytes[i] \div 16 /\ e(2 * i) = bytes[i] % 16
  <2> HIDE DEF n
  <2>1. (2 * i - 1) % 2 = 1 /\ (2 * i) % 2 = 0 /\ (2 * i - 1 + 1) \div 2 = i /\ (2 * i) \div 2 = i
    BY <1>1, HalfOf
  <2> QED
    BY <2>1
<1> HIDE DEF e, n, text
<1>5. text \in Seq(0..15) /\ Len(text) = 2 * n /\ \A i \in 1 .. 2 * n : text[i] = e(i)
  BY <1>1, <1>2, <1>3
<1>6. ASSUME NEW i \in 1..n PROVE text[2 * i - 1] = bytes[i] \div 16 /\ text[2 * i] = bytes[i] % 16
  <2>1. 2 * i - 1 \in 1 .. 2 * n /\ 2 * i \in 1 .. 2 * n
    BY <1>1, HalfOf
  <2>2. text[2 * i - 1] = e(2 * i - 1) /\ text[2 * i] = e(2 * i)
    BY <1>5, <2>1
  <2> QED
    BY <1>4, <2>2
<1> QED
  BY <1>1, <1>5, <1>6 DEF text, n

\* What is decoded once a prefix is gone.
Stripped(s) ==
  IF Len(s) % 2 = 1 \/ X \in Range(s) THEN Refused
  ELSE [i \in 1..(Len(s) \div 2) |-> 16 * Digit(s[2 * i - 1]) + Digit(s[2 * i])]

\* One prefix is stripped before the digits are read.
LEMMA DecodeIs ==
  \A text : DecodeHex(text) =
    IF IsPrefix(<<0, X>>, text) THEN Stripped(SubSeq(text, 3, Len(text))) ELSE Stripped(text)
BY DEF DecodeHex, Stripped

\* What follows a prefix is read alone.
LEMMA PrefixGone ==
  ASSUME NEW T, NEW s \in Seq(T), 0 \in T, X \in T
  PROVE  /\ DecodeHex(<<0, X>> \o s) = Stripped(s)
         /\ <<0, X>> \o s \in Seq(T) /\ Len(<<0, X>> \o s) = Len(s) + 2 /\ (<<0, X>> \o s)[2] = X
<1> DEFINE p == <<0, X>>
           t == p \o s
           n == Len(s)
           m == n + 2
           r == SubSeq(t, 3, m)
<1>1. p \in Seq(T) /\ Len(p) = 2 /\ p[2] = X /\ n \in Nat
  OBVIOUS
<1> HIDE DEF p
<1>2. t \in Seq(T) /\ Len(t) = m /\ \A i \in 1..m : t[i] = IF i <= 2 THEN p[i] ELSE s[i - 2]
  <2>1. t \in Seq(T) /\ Len(t) = Len(p) + n /\ \A i \in 1 .. Len(p) + n : t[i] = IF i <= Len(p) THEN p[i] ELSE s[i - Len(p)]
    BY <1>1, ConcatProperties
  <2> HIDE DEF t, n
  <2> QED
    BY <1>1, <2>1
<1>3. SubSeq(t, 1, 2) = SubSeq(p, 1, 2)
  <2>1. 1 \in 1..Len(p) /\ 2 \in 1..Len(p)
    BY <1>1
  <2> QED
    BY <1>1, <2>1, SubSeqOfConcat1
<1> HIDE DEF t, n
<1>4. IsPrefix(p, t)
  BY <1>1, <1>2, <1>3 DEF IsPrefix
<1>5. r = s
  <2>1. 3 \in 1 .. m + 1 /\ m \in 3 - 1 .. m /\ m - 3 + 1 = n /\ \A i \in 1..n : i + 3 - 1 = i + 2 /\ i + 2 \in 1..m /\ ~(i + 2 <= 2) /\ i + 2 - 2 = i
    BY <1>1
  <2> HIDE DEF m
  <2>2. /\ SubSeq(t, 3, m) \in Seq(T) /\ Len(SubSeq(t, 3, m)) = m - 3 + 1
        /\ \A i \in 1 .. m - 3 + 1 : SubSeq(t, 3, m)[i] = t[i + 3 - 1]
    BY <1>2, <2>1, PartOf
  <2> HIDE DEF r
  <2>3. r \in Seq(T) /\ Len(r) = n /\ \A i \in 1..n : r[i] = t[i + 2]
    BY <2>1, <2>2 DEF r
  <2>4. \A i \in 1..n : t[i + 2] = s[i]
    BY <1>2, <2>1
  <2>5. Len(r) = Len(s) /\ \A i \in 1..Len(r) : r[i] = s[i]
    BY <2>3, <2>4 DEF n
  <2> QED
    BY <2>3, <2>5, SeqEqual
<1>6. t[2] = X
  <2>1. 2 \in 1..m
    BY <1>1
  <2> QED
    BY <1>1, <1>2, <2>1
<1>7. DecodeHex(t) = Stripped(SubSeq(t, 3, Len(t)))
  BY <1>4, DecodeIs DEF p
<1> QED
  BY <1>2, <1>5, <1>6, <1>7 DEF t, p, n

\* Letters whose values are the nibbles of the bytes.
Writes(form, bytes) ==
  /\ form \in Seq(Letter) /\ Len(form) = 2 * Len(bytes)
  /\ \A i \in 1..Len(bytes) : /\ Digit(form[2 * i - 1]) = bytes[i] \div 16
                              /\ Digit(form[2 * i]) = bytes[i] % 16

\* Any text that writes the bytes is read as them, with a prefix or without.
LEMMA FormDecodes ==
  ASSUME NEW bytes \in Seq(Byte), NEW form, Writes(form, bytes)
  PROVE  DecodeHex(form) = bytes /\ DecodeHex(<<0, X>> \o form) = bytes
<1> DEFINE n == Len(bytes)
           T == Letter \cup {X}
           r == [i \in 1..n |-> 16 * Digit(form[2 * i - 1]) + Digit(form[2 * i])]
<1>1. n \in Nat /\ 2 * n \in Nat /\ \A i \in 1..n : bytes[i] \in Byte
  <2>1. n \in Nat /\ \A i \in 1..n : bytes[i] \in Byte
    OBVIOUS
  <2> HIDE DEF n
  <2> QED
    BY <2>1
<1>2. /\ form \in Seq(Letter) /\ Len(form) = 2 * n
      /\ \A i \in 1..n : Digit(form[2 * i - 1]) = bytes[i] \div 16 /\ Digit(form[2 * i]) = bytes[i] % 16
  BY DEF Writes
<1>3. \A i \in 1 .. 2 * n : form[i] \in Letter /\ form[i] # X
  <2>1. \A i \in 1 .. 2 * n : form[i] \in Letter
    BY <1>2
  <2> QED
    BY <2>1, CapitalIs
<1>4. X \notin Range(form)
  <2>1. DOMAIN form = 1 .. 2 * n
    BY <1>2
  <2> QED
    BY <1>3, <2>1 DEF Range
<1>5. Len(form) % 2 # 1 /\ Len(form) \div 2 = n
  <2> HIDE DEF n
  <2> QED
    BY <1>1, <1>2, HalfOf
<1>6. Stripped(form) = r
  BY <1>4, <1>5 DEF Stripped
<1>7. r = bytes
  <2> DEFINE e(i) == 16 * Digit(form[2 * i - 1]) + Digit(form[2 * i])
  <2>1. ASSUME NEW i \in 1..n PROVE e(i) = bytes[i] /\ e(i) \in Byte
    <3>1. bytes[i] \in Byte /\ e(i) = 16 * (bytes[i] \div 16) + (bytes[i] % 16)
      BY <1>1, <1>2
    <3> QED
      BY <3>1, NibblesOf
  <2>2. r = [i \in 1..n |-> e(i)]
    OBVIOUS
  <2> HIDE DEF e, r, n
  <2>3. r \in Seq(Byte) /\ Len(r) = n /\ \A i \in 1..n : r[i] = bytes[i]
    BY <1>1, <2>1, <2>2
  <2>4. Len(r) = Len(bytes) /\ \A i \in 1..Len(r) : r[i] = bytes[i]
    BY <2>3 DEF n
  <2> QED
    BY <2>3, <2>4, SeqEqual
<1>8. ~IsPrefix(<<0, X>>, form)
  <2> DEFINE p == <<0, X>>
  <2> SUFFICES ASSUME IsPrefix(p, form) PROVE FALSE
    OBVIOUS
  <2>1. Len(p) = 2 /\ p[2] = X /\ p \in Seq(T) /\ form \in Seq(T)
    BY <1>2 DEF Letter
  <2> HIDE DEF p, T
  <2>2. 2 <= Len(form) /\ SubSeq(p, 1, 2) = SubSeq(form, 1, 2)
    BY <2>1 DEF IsPrefix
  <2>3. 1 \in 1 .. Len(p) + 1 /\ 2 \in 1 - 1 .. Len(p) /\ 1 \in 1 .. Len(form) + 1 /\ 2 \in 1 - 1 .. Len(form)
    BY <1>1, <1>2, <2>1, <2>2
  <2>4. \A k \in 1 .. 2 - 1 + 1 : SubSeq(p, 1, 2)[k] = p[k + 1 - 1]
    BY <2>1, <2>3, PartOf
  <2>5. \A k \in 1 .. 2 - 1 + 1 : SubSeq(form, 1, 2)[k] = form[k + 1 - 1]
    BY <2>1, <2>3, PartOf
  <2>6. form[2] = X
    <3>1. 2 \in 1 .. 2 - 1 + 1 /\ 2 + 1 - 1 = 2
      OBVIOUS
    <3> QED
      BY <2>1, <2>2, <2>4, <2>5, <3>1
  <2>7. 2 \in 1 .. 2 * n
    BY <1>1, <1>2, <2>2
  <2> QED
    BY <1>3, <2>6, <2>7
<1>9. DecodeHex(form) = bytes
  BY <1>6, <1>7, <1>8, DecodeIs
<1>10. form \in Seq(T) /\ 0 \in T /\ X \in T
  BY <1>2 DEF Letter
<1>11. DecodeHex(<<0, X>> \o form) = Stripped(form)
  <2> HIDE DEF T
  <2> QED
    BY <1>10, PrefixGone
<1> QED
  BY <1>6, <1>7, <1>9, <1>11

\* Any of the letters may be a capital.
LEMMA CapitalsWrite ==
  ASSUME NEW bytes \in Seq(Byte), NEW large
  PROVE  LET text == EncodeHex(bytes)
         IN  Writes([i \in DOMAIN text |-> IF i \in large THEN Capital(text[i]) ELSE text[i]], bytes)
<1> DEFINE text == EncodeHex(bytes)
           n    == Len(bytes)
           e(i) == IF i \in large THEN Capital(text[i]) ELSE text[i]
           form == [i \in DOMAIN text |-> e(i)]
<1>1. /\ n \in Nat /\ text \in Seq(0..15) /\ Len(text) = 2 * n
      /\ \A i \in 1..n : text[2 * i - 1] = bytes[i] \div 16 /\ text[2 * i] = bytes[i] % 16
  BY EncodeHexIs
<1> HIDE DEF text
<1>2. \A i \in 1 .. 2 * n : text[i] \in 0..15 /\ DOMAIN text = 1 .. 2 * n
  BY <1>1
<1>3. \A i \in 1 .. 2 * n : e(i) \in Letter /\ Digit(e(i)) = text[i]
  BY <1>2, CapitalIs
<1>4. DOMAIN text = 1 .. 2 * n /\ 2 * n \in Nat
  BY <1>1
<1> HIDE DEF e, n
<1>5. form \in Seq(Letter) /\ Len(form) = 2 * n /\ \A i \in 1 .. 2 * n : form[i] = e(i)
  BY <1>3, <1>4
<1> HIDE DEF form
<1>6. ASSUME NEW i \in 1..n
      PROVE  Digit(form[2 * i - 1]) = bytes[i] \div 16 /\ Digit(form[2 * i]) = bytes[i] % 16
  <2>1. 2 * i - 1 \in 1 .. 2 * n /\ 2 * i \in 1 .. 2 * n
    BY <1>1, HalfOf
  <2>2. Digit(form[2 * i - 1]) = text[2 * i - 1] /\ Digit(form[2 * i]) = text[2 * i]
    BY <1>3, <1>5, <2>1
  <2> QED
    BY <1>1, <2>2
<1>7. Writes(form, bytes)
  BY <1>5, <1>6 DEF Writes, n
<1> QED
  BY <1>7 DEF form, e, text

\* Hex reads back in all its forms, into the type of its length only.
LEMMA HexReadBack ==
  ASSUME NEW bytes \in Seq(Byte)
  PROVE  HexReadsBack(bytes)
<1> DEFINE text == EncodeHex(bytes)
           Form(large) == [i \in DOMAIN text |-> IF i \in large THEN Capital(text[i]) ELSE text[i]]
           p == <<0, X>>
<1>1. \A large : DecodeHex(Form(large)) = bytes /\ DecodeHex(p \o Form(large)) = bytes
  <2> TAKE large
  <2>1. Writes(Form(large), bytes)
    BY CapitalsWrite
  <2> HIDE DEF Form
  <2> QED
    BY <2>1, FormDecodes
<1>2. text \in Seq(0..15) /\ DOMAIN text = 1..Len(text)
  BY EncodeHexIs
<1>3. Form({}) = text
  <2>1. text = [i \in DOMAIN text |-> text[i]]
    BY <1>2
  <2> HIDE DEF text
  <2> QED
    BY <2>1
<1>4. Form(DOMAIN text) = [i \in DOMAIN text |-> Capital(text[i])]
  OBVIOUS
<1>5. \A large : ToChecksum(bytes, large) = p \o Form(large)
  BY DEF ToChecksum
<1>6. bytes # Refused
  <2>1. bytes \in Seq(Nat)
    BY ByteNumbers
  <2> QED
    BY <2>1, CodecsAssumption
<1>7. DecodeHex(<<0, X, 0, X>> \o text) = Refused
  <2> DEFINE T == 0..15 \cup {X}
             s == p \o text
             q == p \o p
  <2>1. text \in Seq(T) /\ 0 \in T /\ X \in T /\ p \in Seq(T)
    BY <1>2
  <2> HIDE DEF T, text
  <2>2. s \in Seq(T) /\ Len(s) = Len(text) + 2 /\ s[2] = X
    BY <2>1, PrefixGone
  <2>3. DecodeHex(p \o s) = Stripped(s)
    <3> HIDE DEF s
    <3> QED
      BY <2>1, <2>2, PrefixGone
  <2>4. X \in Range(s)
    <3>1. 2 \in DOMAIN s
      <4> HIDE DEF s
      <4>1. Len(text) \in Nat
        BY <2>1
      <4> QED
        BY <2>2, <4>1
    <3> QED
      BY <2>2, <3>1 DEF Range
  <2>5. p \o s = q \o text
    <3> HIDE DEF p
    <3> QED
      BY <2>1, ConcatAssociative
  <2>6. q = <<0, X, 0, X>>
    BY TwoTwice
  <2> HIDE DEF s, q, p
  <2>7. Stripped(s) = Refused
    BY <2>4 DEF Stripped
  <2> QED
    BY <2>3, <2>5, <2>6, <2>7
<1> HIDE DEF text, Form, p
<1>8. ASSUME NEW form \in {text, p \o text, [i \in DOMAIN text |-> Capital(text[i])]}
                            \cup {ToChecksum(bytes, large) : large \in SUBSET DOMAIN text}
      PROVE  DecodeHex(form) = bytes
  BY <1>1, <1>3, <1>4, <1>5
<1>9. Typed({REFERENCE_LENGTH}, bytes) # Refused <=> Len(bytes) = REFERENCE_LENGTH
  BY <1>6 DEF Typed
<1>10. ASSUME NEW form \in {text, p \o text, [i \in DOMAIN text |-> Capital(text[i])]}
                             \cup {ToChecksum(bytes, large) : large \in SUBSET DOMAIN text}
       PROVE  /\ DecodeHex(form) = bytes
              /\ Typed({REFERENCE_LENGTH}, DecodeHex(form)) # Refused <=> Len(bytes) = REFERENCE_LENGTH
  <2>1. DecodeHex(form) = bytes
    BY <1>8
  <2> QED
    BY <1>9, <2>1
<1> QED
  BY <1>7, <1>10, Zenon DEF HexReadsBack, text, p

-----------------------------------------------------------------------------
(* Base 32.                                                                *)

Char == 0..31

\* The characters of base 32 are numbers.
LEMMA CharNumbers == ASSUME NEW s \in Seq(Char) PROVE s \in Seq(Nat)
<1>1. \A b \in Char : b \in Nat
  BY DEF Char
<1>2. \A T : s \in Seq(T) /\ (\A x \in T : x \in Nat) => s \in Seq(Nat)
  OBVIOUS
<1> QED
  BY <1>1, <1>2, Zenon

\* The powers of two that groups and bytes need.
LEMMA PowersOfTwo ==
  /\ Power(2, 0) = 1 /\ Power(2, 5) = 32 /\ Power(2, 8) = 256 /\ Power(2, 10) = 1024
  /\ \A n \in Nat : Power(2, n) \in Nat \ {0}
  /\ \A m, n \in Nat : Power(2, m + n) = Power(2, m) * Power(2, n)
<1>0. 2 \in Nat \ {0} /\ 2 \in Nat
  OBVIOUS
<1>1. Power(2, 0) = 1 /\ \A n \in Nat : Power(2, n + 1) = 2 * Power(2, n)
  BY <1>0, PowerIs
<1>2. \A n \in Nat : Power(2, n) \in Nat \ {0}
  BY <1>0, PowerPositive
<1>3. \A m, n \in Nat : Power(2, m + n) = Power(2, m) * Power(2, n)
  BY <1>0, PowerSum
<1>4. 0 + 1 = 1 /\ 1 + 1 = 2 /\ 2 + 1 = 3 /\ 3 + 1 = 4 /\ 4 + 1 = 5 /\ 5 + 3 = 8 /\ 5 + 5 = 10
  OBVIOUS
<1>5. Power(2, 1) = 2 /\ Power(2, 2) = 4 /\ Power(2, 3) = 8
  BY <1>1, <1>4
<1>6. Power(2, 4) = 16 /\ Power(2, 5) = 32
  BY <1>1, <1>4, <1>5
<1>7. Power(2, 5 + 3) = 32 * 8 /\ Power(2, 5 + 5) = 32 * 32
  BY <1>3, <1>5, <1>6
<1>8. 32 * 8 = 256 /\ 32 * 32 = 1024
  OBVIOUS
<1> QED
  BY <1>1, <1>2, <1>3, <1>4, <1>6, <1>7, <1>8

\* An element of a sequence.
LEMMA ElementOf == ASSUME NEW T, NEW s \in Seq(T), NEW i \in 1..Len(s) PROVE s[i] \in T
OBVIOUS

\* What two sequences count together, of one and of two digits the second.
LEMMA OneMore ==
  ASSUME NEW b \in Nat \ {0}, NEW s \in Seq(Nat), NEW t \in Seq(Nat), Len(t) = 1
  PROVE  ValueOf(b, s \o t) = b * ValueOf(b, s) + t[1] /\ Len(s \o t) = Len(s) + 1
<1> DEFINE x == t[1]
           e == <<>>
<1>1. x \in Nat /\ b \in Nat
  <2>1. 1 \in 1..Len(t)
    OBVIOUS
  <2>2. t[1] \in Nat
    BY <2>1, ElementOf
  <2> QED
    BY <2>2
<1>2. t = Append(e, x) /\ e \in Seq(Nat)
  <2> DEFINE u == <<x>>
  <2>1. u \in Seq(Nat) /\ Len(u) = 1 /\ u[1] = x /\ e \in Seq(Nat)
    BY <1>1
  <2>2. Append(e, x) = u
    OBVIOUS
  <2> HIDE DEF u, e
  <2>3. Len(t) = Len(u) /\ \A i \in 1..Len(t) : t[i] = u[i]
    BY <2>1
  <2>4. t = u
    BY <2>1, <2>3, SeqEqual
  <2> QED
    BY <2>1, <2>2, <2>4
<1>3. ValueOf(b, e) = 0
  BY <1>1, ValueEmpty
<1> HIDE DEF x, e
<1>4. ValueOf(b, Append(e, x)) = b * 0 + x
  BY <1>1, <1>2, <1>3, ValueAppend
<1>5. ValueOf(b, s \o t) = ValueOf(b, s) * Power(b, 1) + ValueOf(b, t) /\ ValueOf(b, s) \in Nat
  <2>1. ValueOf(b, s \o t) = ValueOf(b, s) * Power(b, Len(t)) + ValueOf(b, t)
    BY <1>1, ValueConcat
  <2>2. ValueOf(b, s) \in Nat
    BY <1>1, ValueAppend
  <2> QED
    BY <2>1, <2>2
<1>6. Power(b, 0 + 1) = b * Power(b, 0) /\ Power(b, 0) = 1
  BY <1>1, PowerIs
<1>7. Power(b, 1) = b
  <2>1. 0 + 1 = 1 /\ b * 1 = b
    BY <1>1
  <2> QED
    BY <1>6, <2>1
<1>8. ValueOf(b, t) = x
  <2>1. b * 0 + x = x
    BY <1>1
  <2> QED
    BY <1>2, <1>4, <2>1
<1>9. ValueOf(b, s \o t) = b * ValueOf(b, s) + x
  <2>1. ValueOf(b, s) * b = b * ValueOf(b, s)
    BY <1>1, <1>5
  <2> QED
    BY <1>5, <1>7, <1>8, <2>1
<1>10. Len(s \o t) = Len(s) + Len(t)
  BY ConcatProperties
<1> QED
  BY <1>9, <1>10 DEF x

\* What a sequence and two digits more count.
LEMMA TwoMore ==
  ASSUME NEW b \in Nat \ {0}, NEW s \in Seq(Nat), NEW t \in Seq(Nat), Len(t) = 2
  PROVE  ValueOf(b, s \o t) = b * (b * ValueOf(b, s) + t[1]) + t[2] /\ Len(s \o t) = Len(s) + 2
<1> DEFINE x == <<t[1]>>
           y == <<t[2]>>
<1>1. x \in Seq(Nat) /\ Len(x) = 1 /\ x[1] = t[1] /\ y \in Seq(Nat) /\ Len(y) = 1 /\ y[1] = t[2]
  <2>1. 1 \in 1..Len(t) /\ 2 \in 1..Len(t)
    OBVIOUS
  <2>2. t[1] \in Nat /\ t[2] \in Nat
    BY <2>1, ElementOf
  <2>3. \A z \in Nat : <<z>> \in Seq(Nat) /\ Len(<<z>>) = 1 /\ <<z>>[1] = z
    OBVIOUS
  <2> QED
    BY <2>2, <2>3
<1> HIDE DEF x, y
<1>2. t = x \o y
  <2> DEFINE c == x \o y
  <2>1. c \in Seq(Nat) /\ Len(c) = Len(x) + Len(y) /\ \A i \in 1 .. Len(x) + Len(y) : c[i] = IF i <= Len(x) THEN x[i] ELSE y[i - Len(x)]
    BY <1>1, ConcatProperties
  <2> HIDE DEF c
  <2>2. Len(c) = 2 /\ c[1] = t[1] /\ c[2] = t[2]
    BY <1>1, <2>1
  <2>3. \A i \in 1..2 : i = 1 \/ i = 2
    OBVIOUS
  <2>4. Len(t) = Len(c) /\ \A i \in 1..Len(t) : t[i] = c[i]
    BY <2>2, <2>3
  <2>5. t = c
    BY <2>1, <2>4, SeqEqual
  <2> QED
    BY <2>5 DEF c
<1>3. s \o x \in Seq(Nat)
  BY <1>1, ConcatProperties
<1>4. s \o (x \o y) = (s \o x) \o y
  <2>1. x \in Seq(Nat) /\ y \in Seq(Nat)
    BY <1>1
  <2>2. (s \o x) \o y = s \o (x \o y)
    BY <2>1, Regroup, SMTT(30)
  <2> QED
    BY <2>2
<1>5. ValueOf(b, s \o x) = b * ValueOf(b, s) + t[1] /\ Len(s \o x) = Len(s) + 1
  BY <1>1, OneMore
<1>6. ValueOf(b, (s \o x) \o y) = b * ValueOf(b, s \o x) + t[2] /\ Len((s \o x) \o y) = Len(s \o x) + 1
  <2> DEFINE sx == s \o x
  <2>1. sx \in Seq(Nat) /\ y \in Seq(Nat) /\ Len(y) = 1 /\ y[1] = t[2]
    BY <1>1, <1>3
  <2> HIDE DEF sx
  <2>2. ValueOf(b, sx \o y) = b * ValueOf(b, sx) + y[1] /\ Len(sx \o y) = Len(sx) + 1
    BY <2>1, OneMore
  <2> QED
    BY <2>1, <2>2 DEF sx
<1>7. Len(s) \in Nat
  OBVIOUS
<1>8. Len((s \o x) \o y) = Len(s) + 2
  BY <1>5, <1>6, <1>7
<1> QED
  BY <1>2, <1>4, <1>5, <1>6, <1>8, Zenon

-----------------------------------------------------------------------------
(* One byte in.                                                            *)

\* A group taken off a number, and what stays.
TakenOff(n, m, c, v) ==
  /\ n \div m \in 0 .. c - 1 /\ (n \div m) % c = n \div m /\ n % m \in Nat /\ n % m < m
  /\ (c * v + (n \div m)) * m + (n % m) = (c * m) * v + n

\* A group taken off the buffer leaves what is counted unchanged.
LEMMA GroupOff ==
  ASSUME NEW n \in Nat, NEW m \in Nat \ {0}, NEW c \in Nat \ {0}, NEW v \in Nat, n < c * m
  PROVE  TakenOff(n, m, c, v)
<1> DEFINE q == n \div m
           r == n % m
<1>1. q \in Nat /\ r \in 0 .. m - 1 /\ n = m * q + r
  BY DivMod
<1> HIDE DEF q, r
<1>2. q < c
  <2>1. q >= c => m * q >= m * c
    BY <1>1
  <2>2. m * c = c * m /\ m * q \in Nat /\ c * m \in Nat
    BY <1>1
  <2>3. m * q < c * m
    <3> DEFINE mq == m * q
               cm == c * m
    <3>1. mq \in Nat /\ cm \in Nat /\ n = mq + r /\ n < cm
      BY <1>1, <2>2
    <3> HIDE DEF mq, cm
    <3>2. mq < cm
      BY <1>1, <3>1
    <3> QED
      BY <3>2 DEF mq, cm
  <2>4. ~(q >= c)
    <3> DEFINE mq == m * q
               cm == c * m
    <3>1. mq \in Nat /\ cm \in Nat /\ mq < cm /\ (q >= c => mq >= cm)
      BY <2>1, <2>2, <2>3
    <3> HIDE DEF mq, cm
    <3> QED
      BY <3>1
  <2> QED
    BY <1>1, <2>4
<1>3. q \in 0 .. c - 1 /\ q % c = q
  BY <1>1, <1>2
<1>4. (c * v + q) * m + r = (c * m) * v + n
  <2>1. (c * v + q) * m = (c * m) * v + m * q
    BY <1>1
  <2>2. (c * m) * v \in Nat /\ m * q \in Nat
    BY <1>1
  <2> QED
    BY <1>1, <2>1, <2>2
<1>5. r \in Nat /\ r < m
  BY <1>1
<1> QED
  BY <1>3, <1>4, <1>5 DEF TakenOff, q, r

\* What went in is what the groups count with the bits that are left.
Group ==
  {acc \in [bits : 0..4, buffer : Nat, out : Seq(Char)] : acc.buffer < Power(2, acc.bits)}

Counted(acc, b) == ValueOf(b, acc.out) * Power(2, acc.bits) + acc.buffer

\* The buffer holds what was left and what came in.
LEMMA FillBuffer ==
  ASSUME NEW p \in Nat \ {0}, NEW u \in Nat, u < p, NEW c \in Nat \ {0}, NEW b \in 0 .. c - 1
  PROVE  u * c + b \in Nat /\ u * c + b < p * c
<1>1. u + 1 <= p
  OBVIOUS
<1>2. (u + 1) * c <= p * c
  BY <1>1
<1>3. (u + 1) * c = u * c + c /\ u * c \in Nat
  OBVIOUS
<1> DEFINE uc == u * c
           pc == p * c
<1>4. uc + c <= pc /\ uc \in Nat /\ pc \in Nat
  BY <1>2, <1>3
<1> HIDE DEF uc, pc
<1>5. uc + b \in Nat /\ uc + b < pc
  BY <1>4
<1> QED
  BY <1>5 DEF uc, pc

\* A byte taken is counted, and so are its bits.
LEMMA ByteTaken ==
  ASSUME NEW acc \in Group, NEW b \in Byte
  PROVE  LET new == TakeByte(acc, b)
         IN  /\ new \in Group
             /\ Counted(new, 32) = 256 * Counted(acc, 32) + b
             /\ 5 * Len(new.out) + new.bits = 5 * Len(acc.out) + acc.bits + 8
<1> DEFINE new  == TakeByte(acc, b)
           bits == acc.bits + 8
           n    == acc.buffer * 256 + b
           r    == bits % 5
           g    == bits \div 5
           p    == Power(2, acc.bits)
           m    == Power(2, r)
           v    == ValueOf(32, acc.out)
           t    == [k \in 1..g |-> Low(High(n, bits - 5 * k), 5)]
           out  == acc.out \o t
           done == /\ out \in Seq(Char) /\ n % m \in Nat /\ n % m < m /\ Len(out) = Len(acc.out) + g
                   /\ ValueOf(32, out) * m + (n % m) = (p * 256) * v + n
<1>1. acc.bits \in 0..4 /\ acc.buffer \in Nat /\ acc.out \in Seq(Char) /\ acc.buffer < p
  BY DEF Group
<1>2. bits \in Nat /\ r \in 0..4 /\ r \in Nat /\ (g = 1 \/ g = 2) /\ bits = 5 * g + r /\ acc.bits \in Nat
  <2>1. bits \in 8..12 /\ acc.bits \in Nat
    BY <1>1
  <2> HIDE DEF bits
  <2>2. r \in 0..4 /\ g \in 1..2 /\ bits = 5 * g + r
    BY <2>1
  <2> HIDE DEF r, g
  <2> QED
    BY <2>1, <2>2
<1>3. new = [bits |-> r, buffer |-> Low(n, r), out |-> out]
  BY DEF TakeByte
<1>4. Power(2, bits) = p * 256 /\ p \in Nat \ {0}
  <2> DEFINE c == acc.bits
  <2>1. c \in Nat /\ 8 \in Nat
    BY <1>2
  <2> HIDE DEF c
  <2>2. Power(2, c + 8) = Power(2, c) * Power(2, 8)
    BY <2>1, PowersOfTwo
  <2>3. Power(2, 8) = 256 /\ Power(2, c) \in Nat \ {0}
    BY <2>1, PowersOfTwo
  <2> QED
    BY <2>2, <2>3 DEF c
<1> HIDE DEF r, g, new
<1>5. m \in Nat \ {0}
  BY <1>2, PowersOfTwo
<1>6. n \in Nat /\ n < p * 256
  <2> DEFINE u == acc.buffer
             c == 256
  <2>1. c \in Nat \ {0} /\ b \in 0 .. c - 1
    BY DEF Byte
  <2>2. u \in Nat /\ u < p /\ p \in Nat \ {0}
    BY <1>1, <1>4
  <2> HIDE DEF p, u, c
  <2>3. u * c + b \in Nat /\ u * c + b < p * c
    BY <2>1, <2>2, FillBuffer
  <2> QED
    BY <2>3 DEF u, c
<1>7. acc.out \in Seq(Nat) /\ v \in Nat /\ 32 \in Nat \ {0} /\ Len(acc.out) \in Nat
  <2>1. acc.out \in Seq(Nat)
    BY <1>1, CharNumbers
  <2>2. v \in Nat
    BY <2>1, ValueAppend
  <2> QED
    BY <2>1, <2>2
<1>8. Low(n, r) = n % m
  BY DEF Low
<1>9. Counted(acc, 32) = v * p + acc.buffer
  BY DEF Counted
<1>10. 256 * (v * p + acc.buffer) + b = (p * 256) * v + n
  <2> DEFINE u == acc.buffer
  <2>1. u \in Nat /\ b \in Nat
    BY <1>1 DEF Byte
  <2> HIDE DEF u, p, v
  <2>2. 256 * (v * p + u) + b = (p * 256) * v + (u * 256 + b)
    BY <1>4, <1>7, <2>1
  <2> QED
    BY <2>2 DEF u
<1> HIDE DEF n, p, m, v
<1>11. ASSUME g = 1 PROVE done
  <2>1. bits = r + 5 /\ bits - 5 * 1 = r
    BY <1>2, <1>11
  <2>2. Power(2, r + 5) = m * 32
    BY <1>2, PowersOfTwo DEF m
  <2>3. p * 256 = 32 * m
    <3>1. m * 32 = 32 * m
      BY <1>5
    <3> HIDE DEF bits
    <3> QED
      BY <1>4, <2>1, <2>2, <3>1
  <2> HIDE DEF bits
  <2> DEFINE x == (n \div m) % 32
  <2>4. t \in Seq(Char) /\ Len(t) = 1 /\ t[1] = x
    <3> DEFINE e(k) == Low(High(n, bits - 5 * k), 5)
    <3>1. e(1) = x
      BY <2>1, PowersOfTwo DEF Low, High, m
    <3>2. x \in Char
      <4>1. n \div m \in Nat
        BY <1>5, <1>6, DivMod
      <4> QED
        BY <4>1 DEF Char
    <3>3. t = [k \in 1..1 |-> e(k)]
      BY <1>11
    <3> HIDE DEF e, x, t
    <3>4. \A k \in 1..1 : e(k) \in Char
      BY <3>1, <3>2
    <3> QED
      BY <3>1, <3>3, <3>4
  <2> HIDE DEF t, x
  <2>5. out \in Seq(Char) /\ t \in Seq(Nat)
    BY <1>1, <2>4, ConcatProperties, CharNumbers
  <2>6. ValueOf(32, out) = 32 * v + x /\ Len(out) = Len(acc.out) + 1
    BY <1>7, <2>4, <2>5, OneMore DEF v
  <2> HIDE DEF out
  <2>7. /\ n \div m \in 0 .. 32 - 1 /\ (n \div m) % 32 = n \div m /\ n % m \in Nat /\ n % m < m
        /\ (32 * v + (n \div m)) * m + (n % m) = (32 * m) * v + n
    <3>1. n < 32 * m
      BY <1>6, <2>3
    <3>2. TakenOff(n, m, 32, v)
      BY <1>5, <1>6, <1>7, <3>1, GroupOff
    <3> QED
      BY <3>2 DEF TakenOff
  <2>8. ValueOf(32, out) * m + (n % m) = (p * 256) * v + n
    BY <2>3, <2>6, <2>7 DEF x
  <2>9. Len(out) = Len(acc.out) + g
    BY <1>11, <2>6
  <2> QED
    BY <2>5, <2>7, <2>8, <2>9, Zenon
<1>12. ASSUME g = 2 PROVE done
  <2> DEFINE h == 32 * m
  <2>1. bits = r + 10 /\ bits - 5 * 1 = r + 5 /\ bits - 5 * 2 = r
    BY <1>2, <1>12
  <2>2. Power(2, r + 10) = m * 1024 /\ Power(2, r + 5) = m * 32
    BY <1>2, PowersOfTwo DEF m
  <2>3. p * 256 = 1024 * m /\ h = Power(2, r + 5) /\ h \in Nat \ {0} /\ 1024 * m = 32 * h
    <3>1. m * 32 = 32 * m /\ m * 1024 = 1024 * m /\ 1024 * m = 32 * (32 * m) /\ 32 * m \in Nat \ {0}
      BY <1>5
    <3> HIDE DEF bits
    <3> QED
      BY <1>4, <2>1, <2>2, <3>1
  <2> HIDE DEF bits, h
  <2> DEFINE x == (n \div h) % 32
             y == (n \div m) % 32
  <2>4. t \in Seq(Char) /\ Len(t) = 2 /\ t[1] = x /\ t[2] = y
    <3> DEFINE e(k) == Low(High(n, bits - 5 * k), 5)
    <3>1. e(1) = x /\ e(2) = y
      BY <2>1, <2>3, PowersOfTwo DEF Low, High, m
    <3>2. x \in Char /\ y \in Char
      <4>1. n \div m \in Nat /\ n \div h \in Nat
        BY <1>5, <1>6, <2>3, DivMod, ZenonT(40)
      <4> QED
        BY <4>1 DEF Char
    <3>3. t = [k \in 1..2 |-> e(k)]
      BY <1>12
    <3> HIDE DEF e, x, y, t
    <3>4. \A k \in 1..2 : e(k) \in Char
      <4>1. \A k \in 1..2 : k = 1 \/ k = 2
        OBVIOUS
      <4> QED
        BY <3>1, <3>2, <4>1
    <3> QED
      BY <3>1, <3>3, <3>4
  <2> HIDE DEF t, x, y
  <2>5. out \in Seq(Char) /\ t \in Seq(Nat)
    BY <1>1, <2>4, ConcatProperties, CharNumbers
  <2>6. ValueOf(32, out) = 32 * (32 * v + x) + y /\ Len(out) = Len(acc.out) + 2
    BY <1>7, <2>4, <2>5, TwoMore DEF v
  <2> HIDE DEF out
  <2>7. n \div m = 32 * (n \div h) + y
    BY <1>5, <1>6, <1>7, DivideTwice DEF y, h
  <2>8. n \div h \in 0 .. 32 - 1 /\ (n \div h) % 32 = n \div h
    <3>1. n < 32 * h
      BY <1>6, <2>3
    <3>2. TakenOff(n, h, 32, v)
      BY <1>6, <1>7, <2>3, <3>1, GroupOff
    <3> QED
      BY <3>2 DEF TakenOff
  <2>9. /\ n % m \in Nat /\ n % m < m
        /\ (1024 * v + (n \div m)) * m + (n % m) = (1024 * m) * v + n
    <3>1. n < 1024 * m /\ 1024 \in Nat \ {0}
      BY <1>6, <2>3
    <3>2. TakenOff(n, m, 1024, v)
      BY <1>5, <1>6, <1>7, <3>1, GroupOff
    <3> QED
      BY <3>2 DEF TakenOff
  <2>10. ValueOf(32, out) = 1024 * v + (n \div m)
    <3> DEFINE a == n \div h
    <3>1. a \in Nat /\ x = a /\ n \div m = 32 * a + y
      BY <2>7, <2>8 DEF x
    <3>2. y \in Nat
      <4> DEFINE d == n \div m
      <4>1. d \in Nat
        BY <1>5, <1>6, DivMod
      <4> HIDE DEF d
      <4>2. d % 32 \in Nat
        BY <4>1
      <4> QED
        BY <4>2 DEF y, d
    <3> HIDE DEF a
    <3> QED
      BY <1>7, <2>6, <3>1, <3>2
  <2>11. ValueOf(32, out) * m + (n % m) = (p * 256) * v + n
    BY <2>3, <2>9, <2>10
  <2>12. Len(out) = Len(acc.out) + g
    BY <1>12, <2>6
  <2> QED
    BY <2>5, <2>9, <2>11, <2>12, ZenonT(30)
<1>13. done
  <2>1. g = 1 \/ g = 2
    BY <1>2
  <2> QED
    BY <1>11, <1>12, <2>1, Zenon
<1> HIDE DEF out
<1>14. /\ out \in Seq(Char) /\ n % m \in Nat /\ n % m < m /\ Len(out) = Len(acc.out) + g
       /\ ValueOf(32, out) * m + (n % m) = (p * 256) * v + n
  BY <1>13
<1>15. new.bits = r /\ new.buffer = n % m /\ new.out = out /\ new = [bits |-> r, buffer |-> n % m, out |-> out]
  BY <1>3, <1>8
<1>16. new \in Group
  BY <1>2, <1>14, <1>15 DEF Group, m
<1>17. Counted(new, 32) = ValueOf(32, out) * m + (n % m)
  BY <1>15 DEF Counted, m
<1>18. Counted(new, 32) = 256 * Counted(acc, 32) + b
  BY <1>9, <1>10, <1>14, <1>17
<1>19. 5 * Len(new.out) + new.bits = 5 * Len(acc.out) + acc.bits + 8
  <2> DEFINE a == Len(acc.out)
             c == acc.bits
  <2>1. a \in Nat /\ c \in Nat /\ c + 8 = 5 * g + r /\ Len(new.out) = a + g /\ new.bits = r
    BY <1>2, <1>7, <1>14, <1>15
  <2>2. g \in Nat /\ r \in Nat
    BY <1>2
  <2> HIDE DEF a, c, bits
  <2>3. 5 * (a + g) + r = 5 * a + (5 * g + r)
    BY <2>1, <2>2
  <2>4. 5 * a + (c + 8) = 5 * a + c + 8
    BY <2>1
  <2>5. 5 * Len(new.out) + new.bits = 5 * (a + g) + r
    BY <2>1
  <2>6. 5 * Len(new.out) + new.bits = 5 * a + c + 8
    BY <2>1, <2>3, <2>4, <2>5
  <2> QED
    BY <2>6 DEF a, c
<1> QED
  BY <1>16, <1>18, <1>19 DEF new

-----------------------------------------------------------------------------
(* One character in.                                                       *)

ByteGroup ==
  {acc \in [bits : 0..7, buffer : Nat, out : Seq(Byte)] : acc.buffer < Power(2, acc.bits)}

\* Two fields replaced leave the third.
LEMMA TwoChanged ==
  ASSUME NEW a \in ByteGroup, NEW y, NEW z
  PROVE  [a EXCEPT !.bits = y, !.buffer = z] = [bits |-> y, buffer |-> z, out |-> a.out]
<1> DEFINE o == a.out
           b == [a EXCEPT !.bits = y, !.buffer = z]
           c == [bits |-> y, buffer |-> z, out |-> o]
           D == {"bits", "buffer", "out"}
<1>0. a \in [bits : 0..7, buffer : Nat, out : Seq(Byte)]
  BY DEF ByteGroup
<1>1. DOMAIN b = D
  BY <1>0
<1>2. b.bits = y /\ b.buffer = z /\ b.out = a.out
  BY <1>0
<1>3. b = [i \in D |-> b[i]]
  BY <1>1
<1>4. c.bits = y /\ c.buffer = z /\ c.out = o
  BY DEF o
<1> HIDE DEF o
<1>5. c = [i \in D |-> c[i]]
  OBVIOUS
<1>6. \A i \in D : b[i] = c[i]
  BY <1>2, <1>4 DEF o
<1> HIDE DEF b, c, D
<1>7. [i \in D |-> b[i]] = [i \in D |-> c[i]]
  BY <1>6
<1> QED
  BY <1>3, <1>5, <1>7, Zenon DEF b, c, o

\* A character taken is counted, and so are its bits.
LEMMA CharTaken ==
  ASSUME NEW acc \in ByteGroup, NEW x \in Char
  PROVE  LET new == TakeChar(acc, x)
         IN  /\ new \in ByteGroup
             /\ Counted(new, 256) = 32 * Counted(acc, 256) + x
             /\ 8 * Len(new.out) + new.bits = 8 * Len(acc.out) + acc.bits + 5
<1> DEFINE new  == TakeChar(acc, x)
           bits == acc.bits + 5
           n    == acc.buffer * 32 + x
           p    == Power(2, acc.bits)
           v    == ValueOf(256, acc.out)
<1>1. acc.bits \in 0..7 /\ acc.buffer \in Nat /\ acc.out \in Seq(Byte) /\ acc.buffer < p
      /\ acc = [bits |-> acc.bits, buffer |-> acc.buffer, out |-> acc.out]
  BY DEF ByteGroup
<1>2. bits \in 5..12 /\ acc.bits \in Nat /\ bits \in Nat
  BY <1>1
<1>3. new = IF bits < 8 THEN [bits |-> bits, buffer |-> n, out |-> acc.out]
            ELSE [bits |-> bits - 8, buffer |-> Low(n, bits - 8), out |-> Append(acc.out, High(n, bits - 8))]
  <2> HIDE DEF bits, n
  <2>3. [acc EXCEPT !.bits = bits, !.buffer = n] = [bits |-> bits, buffer |-> n, out |-> acc.out]
    BY TwoChanged, Zenon
  <2>4. new = IF bits < 8 THEN [acc EXCEPT !.bits = bits, !.buffer = n]
              ELSE [bits |-> bits - 8, buffer |-> Low(n, bits - 8), out |-> Append(acc.out, High(n, bits - 8))]
    BY DEF TakeChar, bits, n
  <2> HIDE DEF new
  <2> QED
    BY <2>3, <2>4, Zenon
<1>4. Power(2, bits) = p * 32 /\ p \in Nat \ {0}
  <2> DEFINE c == acc.bits
  <2>1. c \in Nat /\ 5 \in Nat
    BY <1>2
  <2> HIDE DEF c
  <2>2. Power(2, c + 5) = Power(2, c) * Power(2, 5)
    BY <2>1, PowersOfTwo
  <2>3. Power(2, 5) = 32 /\ Power(2, c) \in Nat \ {0}
    BY <2>1, PowersOfTwo
  <2> QED
    BY <2>2, <2>3 DEF c
<1>5. n \in Nat /\ n < p * 32
  <2> DEFINE u == acc.buffer
             c == 32
  <2>1. c \in Nat \ {0} /\ x \in 0 .. c - 1
    BY DEF Char
  <2>2. u \in Nat /\ u < p /\ p \in Nat \ {0}
    BY <1>1, <1>4
  <2> HIDE DEF p, u, c
  <2>3. u * c + x \in Nat /\ u * c + x < p * c
    BY <2>1, <2>2, FillBuffer
  <2> QED
    BY <2>3 DEF u, c
<1>6. acc.out \in Seq(Nat) /\ v \in Nat /\ 256 \in Nat \ {0} /\ Len(acc.out) \in Nat
  <2>1. acc.out \in Seq(Nat)
    BY <1>1, ByteNumbers
  <2>2. 256 \in Nat \ {0} /\ 256 \in Nat
    OBVIOUS
  <2> DEFINE s == acc.out
  <2>3. s \in Seq(Nat)
    BY <2>1
  <2> HIDE DEF s
  <2>4. ValueOf(256, s) \in Nat
    BY <2>2, <2>3, ValueAppend
  <2>5. Len(s) \in Nat
    BY <2>3
  <2> QED
    BY <2>1, <2>2, <2>4, <2>5 DEF s
<1>7. Counted(acc, 256) = v * p + acc.buffer
  BY DEF Counted
<1>8. 32 * (v * p + acc.buffer) + x = (p * 32) * v + n
  <2> DEFINE u == acc.buffer
  <2>1. u \in Nat /\ x \in Nat
    <3>1. x \in Nat
      BY DEF Char
    <3>2. u \in Nat
      BY <1>1
    <3> QED
      BY <3>1, <3>2
  <2> HIDE DEF u, p, v
  <2>2. 32 * (v * p + u) + x = (p * 32) * v + (u * 32 + x)
    BY <1>4, <1>6, <2>1
  <2> QED
    BY <2>2 DEF u
<1>9. bits = acc.bits + 5
  OBVIOUS
<1> HIDE DEF new, bits, n, p, v
<1>10. CASE bits < 8
  <2>1. new = [bits |-> bits, buffer |-> n, out |-> acc.out]
    BY <1>3, <1>10
  <2>2. new.bits = bits /\ new.buffer = n /\ new.out = acc.out /\ bits \in 0..7
    BY <1>2, <1>10, <2>1
  <2>3. new \in ByteGroup
    BY <1>1, <1>4, <1>5, <2>1, <2>2 DEF ByteGroup
  <2>4. Counted(new, 256) = v * (p * 32) + n
    BY <1>4, <2>2 DEF Counted, v
  <2>5. v * (p * 32) = (p * 32) * v
    BY <1>4, <1>6
  <2>6. 8 * Len(new.out) + new.bits = 8 * Len(acc.out) + acc.bits + 5
    BY <1>1, <1>6, <1>9, <2>2
  <2> QED
    BY <1>7, <1>8, <2>3, <2>4, <2>5, <2>6 DEF new
<1>11. CASE ~(bits < 8)
  <2> DEFINE r == bits - 8
             m == Power(2, r)
             b == n \div m
             out == Append(acc.out, b)
  <2>1. r \in 0..4 /\ r \in Nat /\ bits = r + 8 /\ r \in 0..7
    BY <1>2, <1>11
  <2> HIDE DEF r
  <2>2. m \in Nat \ {0} /\ Power(2, r + 8) = m * 256
    <3>1. 8 \in Nat
      OBVIOUS
    <3>2. m \in Nat \ {0}
      BY <2>1, PowersOfTwo
    <3>3. Power(2, r + 8) = Power(2, r) * Power(2, 8)
      BY <2>1, <3>1, PowersOfTwo
    <3>4. Power(2, 8) = 256
      BY PowersOfTwo
    <3> QED
      BY <3>2, <3>3, <3>4
  <2>3. new = [bits |-> r, buffer |-> n % m, out |-> out]
    BY <1>3, <1>11 DEF Low, High, r
  <2> HIDE DEF m
  <2>4. p * 32 = 256 * m
    <3>1. m * 256 = 256 * m
      BY <2>2
    <3> QED
      BY <1>4, <2>1, <2>2, <3>1
  <2>5. /\ b \in 0 .. 256 - 1 /\ n % m \in Nat /\ n % m < m
        /\ (256 * v + b) * m + (n % m) = (256 * m) * v + n
    <3>1. n < 256 * m
      BY <1>5, <2>4
    <3>2. TakenOff(n, m, 256, v)
      BY <1>5, <1>6, <2>2, <3>1, GroupOff
    <3> QED
      BY <3>2 DEF TakenOff
  <2> HIDE DEF b
  <2>6. b \in Byte /\ b \in Nat
    BY <2>5 DEF Byte
  <2>7. out \in Seq(Byte) /\ Len(out) = Len(acc.out) + 1
    BY <1>1, <2>6, AppendProperties
  <2>8. ValueOf(256, out) = 256 * v + b
    BY <1>6, <2>6, ValueAppend DEF v
  <2> HIDE DEF out
  <2>9. new.bits = r /\ new.buffer = n % m /\ new.out = out
    BY <2>3
  <2>10. new \in ByteGroup
    BY <2>1, <2>3, <2>5, <2>7 DEF ByteGroup, m
  <2>11. Counted(new, 256) = (256 * v + b) * m + (n % m)
    BY <2>8, <2>9 DEF Counted, m
  <2>12. Counted(new, 256) = 32 * Counted(acc, 256) + x
    BY <1>7, <1>8, <2>4, <2>5, <2>11
  <2>13. 8 * Len(new.out) + new.bits = 8 * Len(acc.out) + acc.bits + 5
    <3> DEFINE a == Len(acc.out)
               c == acc.bits
    <3>1. a \in Nat /\ c \in Nat /\ c + 5 = r + 8 /\ Len(new.out) = a + 1 /\ new.bits = r
      BY <1>2, <1>6, <1>9, <2>1, <2>7, <2>9
    <3> HIDE DEF a, c
    <3>2. 8 * (a + 1) + r = 8 * a + c + 5
      BY <2>1, <3>1
    <3> QED
      BY <3>1, <3>2 DEF a, c
  <2> QED
    BY <2>10, <2>12, <2>13 DEF new
<1> QED
  BY <1>10, <1>11

-----------------------------------------------------------------------------
(* All bytes, and all characters.                                          *)

\* At the start nothing is counted.
LEMMA StartIs ==
  /\ Start \in Group /\ Start \in ByteGroup /\ Counted(Start, 32) = 0 /\ Counted(Start, 256) = 0
  /\ Len(Start.out) = 0 /\ Start.bits = 0
<1> DEFINE e == <<>>
<1>1. e \in Seq(Char) /\ e \in Seq(Byte) /\ Len(e) = 0
  OBVIOUS
<1>2. Start.bits = 0 /\ Start.buffer = 0 /\ Start.out = e /\ Start = [bits |-> 0, buffer |-> 0, out |-> e]
  BY DEF Start
<1>3. ValueOf(32, e) = 0 /\ ValueOf(256, e) = 0
  BY ValueEmpty
<1> HIDE DEF e
<1>4. Power(2, 0) = 1
  BY PowersOfTwo
<1>5. Start \in Group /\ Start \in ByteGroup
  BY <1>1, <1>2, <1>4 DEF Group, ByteGroup
<1>6. Counted(Start, 32) = 0 /\ Counted(Start, 256) = 0
  BY <1>2, <1>3, <1>4 DEF Counted
<1> QED
  BY <1>1, <1>2, <1>5, <1>6

\* The states of the encoder, byte by byte.
Grouping(f, bytes) ==
  f[0] = Start /\ \A i \in 1..Len(bytes) : f[i] = TakeByte(f[i - 1], bytes[i])

ByteStep(bytes) == [x \in (1..Len(bytes)) \X Group |-> TakeByte(x[2], bytes[x[1]])]

\* The encoder takes one byte after the other.
LEMMA GroupedIs ==
  ASSUME NEW bytes \in Seq(Byte)
  PROVE  \E f : Grouping(f, bytes) /\ Grouped(bytes) = f[Len(bytes)]
<1> DEFINE n == Len(bytes)
           acc[i \in 0..n] == IF i = 0 THEN Start ELSE TakeByte(acc[i - 1], bytes[i])
           Is(f) == f = [i \in 0..n |-> IF i = 0 THEN Start ELSE TakeByte(f[i - 1], bytes[i])]
           step == ByteStep(bytes)
<1>0. n \in Nat
  OBVIOUS
<1>1. \A i \in 1..n, s \in Group : step[<<i, s>>] = TakeByte(s, bytes[i]) /\ step[<<i, s>>] \in Group
  <2> TAKE i \in 1..n, s \in Group
  <2>1. step[<<i, s>>] = TakeByte(s, bytes[i])
    BY DEF ByteStep
  <2>2. bytes[i] \in Byte
    OBVIOUS
  <2>3. TakeByte(s, bytes[i]) \in Group
    BY <2>2, ByteTaken
  <2> QED
    BY <2>1, <2>3
<1>2. PICK p \in [0..n -> Group] : Iterates(p, n, Start, step)
  <2>1. \A i \in 1..n, s \in Group : step[<<i, s>>] \in Group
    BY <1>1
  <2>2. Start \in Group
    BY StartIs
  <2> HIDE DEF step, n
  <2> QED
    BY <1>0, <2>1, <2>2, IteratesExists
<1> HIDE DEF step
<1>3. Is(p)
  <2>1. \A i \in 0..n : p[i] = IF i = 0 THEN Start ELSE TakeByte(p[i - 1], bytes[i])
    <3> TAKE i \in 0..n
    <3>1. CASE i = 0
      BY <1>2, <3>1 DEF Iterates
    <3>2. CASE i # 0
      <4>1. i \in 1..n /\ i - 1 \in 0..n /\ p[i - 1] \in Group
        BY <1>0, <3>2, <1>2
      <4> QED
        BY <1>1, <1>2, <3>2, <4>1 DEF Iterates
    <3> QED
      BY <3>1, <3>2
  <2> QED
    BY <1>2, <2>1
<1>4. Is(acc)
  BY <1>3
<1>5. Grouped(bytes) = acc[n]
  BY DEF Grouped
<1> HIDE DEF acc
<1>6. \A i \in 0..n : acc[i] = IF i = 0 THEN Start ELSE TakeByte(acc[i - 1], bytes[i])
  BY <1>4
<1>7. Grouping(acc, bytes)
  <2>1. acc[0] = Start
    BY <1>0, <1>6
  <2>2. \A i \in 1..n : acc[i] = TakeByte(acc[i - 1], bytes[i])
    BY <1>0, <1>6
  <2> QED
    BY <2>1, <2>2 DEF Grouping
<1> QED
  BY <1>5, <1>7

\* The groups and the bits that are left count what the bytes do.
LEMMA GroupedCounts ==
  ASSUME NEW bytes \in Seq(Byte)
  PROVE  LET end == Grouped(bytes)
         IN  /\ end \in Group /\ Counted(end, 32) = ValueOf(256, bytes)
             /\ 5 * Len(end.out) + end.bits = 8 * Len(bytes)
<1> DEFINE n == Len(bytes)
<1>0. n \in Nat /\ bytes \in Seq(Nat) /\ \A i \in 1..n : bytes[i] \in Byte
  BY ByteNumbers
<1>1. PICK f : Grouping(f, bytes) /\ Grouped(bytes) = f[n]
  BY GroupedIs
<1>2. PICK p \in [0..n -> Nat] : ValueOf(256, bytes) = p[n] /\ Iterates(p, n, 0, CountStep(256, bytes))
  BY <1>0, ValueIterates
<1>3. p[0] = 0 /\ \A i \in 1..n : p[i] = 256 * p[i - 1] + bytes[i]
  <2>1. p[0] = 0
    BY <1>2 DEF Iterates
  <2>2. ASSUME NEW i \in 1..n PROVE p[i] = 256 * p[i - 1] + bytes[i]
    <3>1. i - 1 \in 0..n
      BY <1>0
    <3>2. p[i - 1] \in Nat
      BY <1>2, <3>1
    <3>3. p[i] = CountStep(256, bytes)[<<i, p[i - 1]>>]
      BY <1>2 DEF Iterates
    <3> QED
      BY <3>2, <3>3 DEF CountStep
  <2> QED
    BY <2>1, <2>2
<1>4. f[0] = Start /\ \A i \in 1..n : f[i] = TakeByte(f[i - 1], bytes[i])
  BY <1>1 DEF Grouping
<1> HIDE DEF n
<1> DEFINE S == {i \in Nat : i \in 0..n =>
                   f[i] \in Group /\ Counted(f[i], 32) = p[i] /\ 5 * Len(f[i].out) + f[i].bits = 8 * i}
<1>5. 0 \in S
  <2>1. 5 * 0 + 0 = 8 * 0
    OBVIOUS
  <2>2. Counted(f[0], 32) = p[0]
    BY <1>3, <1>4, StartIs
  <2>3. 5 * Len(f[0].out) + f[0].bits = 8 * 0
    BY <1>4, <2>1, StartIs
  <2> QED
    BY <1>4, <2>2, <2>3, StartIs
<1>6. ASSUME NEW i \in Nat, i \in S PROVE i + 1 \in S
  <2> SUFFICES ASSUME i + 1 \in 0..n
               PROVE  /\ f[i + 1] \in Group /\ Counted(f[i + 1], 32) = p[i + 1]
                      /\ 5 * Len(f[i + 1].out) + f[i + 1].bits = 8 * (i + 1)
    OBVIOUS
  <2> DEFINE j == i + 1
             s == f[i]
             t == f[j]
  <2>1. i \in 0..n /\ j \in 1..n /\ j - 1 = i
    BY <1>0
  <2>2. s \in Group /\ Counted(s, 32) = p[i] /\ 5 * Len(s.out) + s.bits = 8 * i
    BY <1>6, <2>1
  <2> HIDE DEF j
  <2>3. t = TakeByte(s, bytes[j]) /\ bytes[j] \in Byte /\ p[j] = 256 * p[i] + bytes[j]
    BY <1>0, <1>3, <1>4, <2>1
  <2> HIDE DEF s, t
  <2>4. /\ t \in Group
        /\ Counted(t, 32) = 256 * Counted(s, 32) + bytes[j]
        /\ 5 * Len(t.out) + t.bits = 5 * Len(s.out) + s.bits + 8
    BY <2>2, <2>3, ByteTaken, ZenonT(40)
  <2>5. Counted(t, 32) = p[j]
    BY <2>2, <2>3, <2>4
  <2>6. 5 * Len(t.out) + t.bits = 8 * j
    <3>1. 8 * i + 8 = 8 * j
      BY DEF j
    <3> QED
      BY <2>2, <2>4, <3>1
  <2> QED
    BY <2>4, <2>5, <2>6 DEF t, j
<1> HIDE DEF S
<1>7. \A i \in Nat : i \in S
  BY <1>5, <1>6, Induct
<1>8. n \in 0..n /\ n \in S
  BY <1>0, <1>7
<1>9. f[n] \in Group /\ Counted(f[n], 32) = p[n] /\ 5 * Len(f[n].out) + f[n].bits = 8 * n
  BY <1>8 DEF S
<1> QED
  BY <1>1, <1>2, <1>9 DEF n

\* What is written, up to some bits nought at the end.
Encodes(text, bytes, pad) ==
  /\ text \in Seq(Char) /\ 5 * Len(text) = 8 * Len(bytes) + pad
  /\ ValueOf(32, text) = Power(2, pad) * ValueOf(256, bytes)

\* What the encoder writes is what the bytes count, filled up with noughts.
LEMMA EncodeIs ==
  ASSUME NEW bytes \in Seq(Byte)
  PROVE  \E pad \in 0..4 : Encodes(B32Encode(bytes), bytes, pad)
<1> DEFINE end == Grouped(bytes)
           text == B32Encode(bytes)
           w == ValueOf(256, bytes)
           v == ValueOf(32, end.out)
<1>1. end \in Group /\ v * Power(2, end.bits) + end.buffer = w /\ 5 * Len(end.out) + end.bits = 8 * Len(bytes)
  BY GroupedCounts DEF Counted
<1>2. end.bits \in 0..4 /\ end.buffer \in Nat /\ end.out \in Seq(Char) /\ end.buffer < Power(2, end.bits)
  BY <1>1 DEF Group
<1>3. text = IF end.bits = 0 THEN end.out ELSE Append(end.out, end.buffer * Power(2, 5 - end.bits))
  BY DEF B32Encode
<1>4. v \in Nat /\ end.out \in Seq(Nat) /\ Len(end.out) \in Nat /\ Len(bytes) \in Nat /\ w \in Nat
  <2>0. 256 \in Nat \ {0} /\ 256 \in Nat /\ 32 \in Nat \ {0} /\ 32 \in Nat
    OBVIOUS
  <2> DEFINE s == end.out
  <2>1. s \in Seq(Char)
    BY <1>2
  <2> HIDE DEF s
  <2>2. s \in Seq(Nat) /\ Len(s) \in Nat
    BY <2>1, CharNumbers
  <2>3. ValueOf(32, s) \in Nat
    BY <2>0, <2>2, ValueAppend
  <2>4. bytes \in Seq(Nat) /\ Len(bytes) \in Nat
    BY ByteNumbers
  <2>5. ValueOf(256, bytes) \in Nat
    BY <2>0, <2>4, ValueAppend
  <2> QED
    BY <2>2, <2>3, <2>4, <2>5 DEF s
<1> HIDE DEF end, text, v, w
<1>5. CASE end.bits = 0
  <2>0. Power(2, 0) = 1
    BY PowersOfTwo
  <2>1. text = end.out /\ Power(2, 0) = 1 /\ end.buffer = 0
    <3>1. text = end.out
      BY <1>3, <1>5
    <3>2. end.buffer \in Nat /\ end.buffer < Power(2, 0)
      BY <1>2, <1>5
    <3>3. end.buffer = 0
      BY <2>0, <3>2
    <3> QED
      BY <2>0, <3>1, <3>3
  <2>2. v = w
    BY <1>1, <1>4, <1>5, <2>1
  <2>3. ValueOf(32, text) = Power(2, 0) * w
    BY <1>4, <2>1, <2>2 DEF v
  <2>4. 5 * Len(text) = 8 * Len(bytes) + 0
    BY <1>1, <1>4, <1>5, <2>1
  <2>5. Encodes(text, bytes, 0)
    BY <1>2, <2>1, <2>3, <2>4 DEF Encodes, w
  <2> QED
    BY <2>5 DEF text
<1>6. CASE end.bits # 0
  <2> DEFINE k == end.bits
             pad == 5 - k
             m == Power(2, k)
             q == Power(2, pad)
             u == end.buffer
             x == u * q
  <2>1. k \in Nat /\ pad \in 0..4 /\ pad \in Nat /\ pad + k = 5
    BY <1>2, <1>6
  <2>2. v * m + u = w /\ 5 * Len(end.out) + k = 8 * Len(bytes) /\ u \in Nat /\ u < m
    BY <1>1, <1>2
  <2>3. text = Append(end.out, x)
    BY <1>3, <1>6
  <2> HIDE DEF k, pad, u
  <2>4. m \in Nat \ {0} /\ q \in Nat \ {0} /\ Power(2, pad + k) = q * m /\ Power(2, 5) = 32
    <3>1. m \in Nat \ {0}
      BY <2>1, PowersOfTwo, ZenonT(40)
    <3>2. q \in Nat \ {0}
      BY <2>1, PowersOfTwo, ZenonT(40)
    <3>3. Power(2, pad + k) = Power(2, pad) * Power(2, k)
      BY <2>1, PowersOfTwo
    <3>4. Power(2, 5) = 32
      BY PowersOfTwo
    <3> QED
      BY <3>1, <3>2, <3>3, <3>4
  <2> HIDE DEF m, q
  <2>5. q * m = 32
    BY <2>1, <2>4
  <2>6. x \in 0..31 /\ x \in Nat
    <3>1. u + 1 <= m /\ u * q \in Nat
      BY <2>2, <2>4
    <3>2. (u + 1) * q <= m * q
      BY <2>2, <2>4, <3>1
    <3>3. (u + 1) * q = x + q /\ m * q = 32
      BY <2>2, <2>4, <2>5
    <3> HIDE DEF x
    <3>4. x + q <= 32
      BY <3>2, <3>3
    <3>5. x \in Nat
      BY <3>1 DEF x
    <3> QED
      BY <2>4, <3>4, <3>5
  <2>7. q * w = 32 * v + x
    <3>1. q * (v * m + u) = (q * m) * v + u * q
      BY <1>4, <2>2, <2>4
    <3> QED
      BY <2>2, <2>5, <3>1
  <2> HIDE DEF x
  <2>8. text \in Seq(Char) /\ Len(text) = Len(end.out) + 1
    BY <1>2, <2>3, <2>6, AppendProperties DEF Char
  <2>9. ValueOf(32, text) = 32 * v + x
    BY <1>4, <2>3, <2>6, ValueAppend DEF v
  <2>10. 5 * Len(text) = 8 * Len(bytes) + pad
    <3> DEFINE a == Len(end.out)
               c == Len(bytes)
    <3>1. a \in Nat /\ c \in Nat /\ 5 * a + k = 8 * c /\ Len(text) = a + 1
      BY <1>4, <2>2, <2>8
    <3> HIDE DEF a, c
    <3>2. 5 * (a + 1) = 8 * c + pad
      BY <2>1, <3>1
    <3> QED
      BY <3>1, <3>2 DEF c
  <2>11. Encodes(text, bytes, pad)
    BY <2>7, <2>8, <2>9, <2>10 DEF Encodes, q, w
  <2> QED
    BY <2>1, <2>11 DEF text
<1> QED
  BY <1>5, <1>6

Ungrouped(text) ==
  LET acc[i \in 0..Len(text)] == IF i = 0 THEN Start ELSE TakeChar(acc[i - 1], text[i])
  IN  acc[Len(text)]

\* The decoder drops what fills no byte.
LEMMA DecodedIs == \A text : B32Decode(text) = Ungrouped(text).out
BY DEF B32Decode, Ungrouped

\* The states of the decoder, character by character.
Ungrouping(f, text) ==
  f[0] = Start /\ \A i \in 1..Len(text) : f[i] = TakeChar(f[i - 1], text[i])

CharStep(text) == [x \in (1..Len(text)) \X ByteGroup |-> TakeChar(x[2], text[x[1]])]

\* The decoder takes one character after the other.
LEMMA UngroupedIs ==
  ASSUME NEW text \in Seq(Char)
  PROVE  \E f : Ungrouping(f, text) /\ Ungrouped(text) = f[Len(text)]
<1> DEFINE n == Len(text)
           acc[i \in 0..n] == IF i = 0 THEN Start ELSE TakeChar(acc[i - 1], text[i])
           Is(f) == f = [i \in 0..n |-> IF i = 0 THEN Start ELSE TakeChar(f[i - 1], text[i])]
           step == CharStep(text)
<1>0. n \in Nat
  OBVIOUS
<1>1. \A i \in 1..n, s \in ByteGroup : step[<<i, s>>] = TakeChar(s, text[i]) /\ step[<<i, s>>] \in ByteGroup
  <2> TAKE i \in 1..n, s \in ByteGroup
  <2>1. step[<<i, s>>] = TakeChar(s, text[i])
    BY DEF CharStep
  <2>2. text[i] \in Char
    OBVIOUS
  <2>3. TakeChar(s, text[i]) \in ByteGroup
    BY <2>2, CharTaken
  <2> QED
    BY <2>1, <2>3
<1>2. PICK p \in [0..n -> ByteGroup] : Iterates(p, n, Start, step)
  <2>1. \A i \in 1..n, s \in ByteGroup : step[<<i, s>>] \in ByteGroup
    BY <1>1
  <2>2. Start \in ByteGroup
    BY StartIs
  <2> HIDE DEF step, n
  <2> QED
    BY <1>0, <2>1, <2>2, IteratesExists
<1> HIDE DEF step
<1>3. Is(p)
  <2>1. \A i \in 0..n : p[i] = IF i = 0 THEN Start ELSE TakeChar(p[i - 1], text[i])
    <3> TAKE i \in 0..n
    <3>1. CASE i = 0
      BY <1>2, <3>1 DEF Iterates
    <3>2. CASE i # 0
      <4>1. i \in 1..n /\ i - 1 \in 0..n /\ p[i - 1] \in ByteGroup
        BY <1>0, <3>2, <1>2
      <4> QED
        BY <1>1, <1>2, <3>2, <4>1 DEF Iterates
    <3> QED
      BY <3>1, <3>2
  <2> QED
    BY <1>2, <2>1
<1>4. Is(acc)
  BY <1>3
<1>5. Ungrouped(text) = acc[n]
  BY DEF Ungrouped
<1> HIDE DEF acc
<1>6. \A i \in 0..n : acc[i] = IF i = 0 THEN Start ELSE TakeChar(acc[i - 1], text[i])
  BY <1>4
<1>7. Ungrouping(acc, text)
  <2>1. acc[0] = Start
    BY <1>0, <1>6
  <2>2. \A i \in 1..n : acc[i] = TakeChar(acc[i - 1], text[i])
    BY <1>0, <1>6
  <2> QED
    BY <2>1, <2>2 DEF Ungrouping
<1> QED
  BY <1>5, <1>7

\* The bytes and the bits that are left count what the characters do.
LEMMA UngroupedCounts ==
  ASSUME NEW text \in Seq(Char)
  PROVE  LET end == Ungrouped(text)
         IN  /\ end \in ByteGroup /\ Counted(end, 256) = ValueOf(32, text)
             /\ 8 * Len(end.out) + end.bits = 5 * Len(text)
<1> DEFINE n == Len(text)
<1>0. n \in Nat /\ text \in Seq(Nat) /\ \A i \in 1..n : text[i] \in Char
  BY CharNumbers
<1>1. PICK f : Ungrouping(f, text) /\ Ungrouped(text) = f[n]
  BY UngroupedIs
<1>2. PICK p \in [0..n -> Nat] : ValueOf(32, text) = p[n] /\ Iterates(p, n, 0, CountStep(32, text))
  BY <1>0, ValueIterates
<1>3. p[0] = 0 /\ \A i \in 1..n : p[i] = 32 * p[i - 1] + text[i]
  <2>1. p[0] = 0
    BY <1>2 DEF Iterates
  <2>2. ASSUME NEW i \in 1..n PROVE p[i] = 32 * p[i - 1] + text[i]
    <3>1. i - 1 \in 0..n
      BY <1>0
    <3>2. p[i - 1] \in Nat
      BY <1>2, <3>1
    <3>3. p[i] = CountStep(32, text)[<<i, p[i - 1]>>]
      BY <1>2 DEF Iterates
    <3> QED
      BY <3>2, <3>3 DEF CountStep
  <2> QED
    BY <2>1, <2>2
<1>4. f[0] = Start /\ \A i \in 1..n : f[i] = TakeChar(f[i - 1], text[i])
  BY <1>1 DEF Ungrouping
<1> HIDE DEF n
<1> DEFINE S == {i \in Nat : i \in 0..n =>
                   f[i] \in ByteGroup /\ Counted(f[i], 256) = p[i] /\ 8 * Len(f[i].out) + f[i].bits = 5 * i}
<1>5. 0 \in S
  <2>1. 8 * 0 + 0 = 5 * 0
    OBVIOUS
  <2>2. Counted(f[0], 256) = p[0]
    BY <1>3, <1>4, StartIs
  <2>3. 8 * Len(f[0].out) + f[0].bits = 5 * 0
    BY <1>4, <2>1, StartIs
  <2> QED
    BY <1>4, <2>2, <2>3, StartIs
<1>6. ASSUME NEW i \in Nat, i \in S PROVE i + 1 \in S
  <2> SUFFICES ASSUME i + 1 \in 0..n
               PROVE  /\ f[i + 1] \in ByteGroup /\ Counted(f[i + 1], 256) = p[i + 1]
                      /\ 8 * Len(f[i + 1].out) + f[i + 1].bits = 5 * (i + 1)
    OBVIOUS
  <2> DEFINE j == i + 1
             s == f[i]
             t == f[j]
  <2>1. i \in 0..n /\ j \in 1..n /\ j - 1 = i
    BY <1>0
  <2>2. s \in ByteGroup /\ Counted(s, 256) = p[i] /\ 8 * Len(s.out) + s.bits = 5 * i
    BY <1>6, <2>1
  <2> HIDE DEF j
  <2>3. t = TakeChar(s, text[j]) /\ text[j] \in Char /\ p[j] = 32 * p[i] + text[j]
    BY <1>0, <1>3, <1>4, <2>1
  <2> HIDE DEF s, t
  <2>4. /\ t \in ByteGroup
        /\ Counted(t, 256) = 32 * Counted(s, 256) + text[j]
        /\ 8 * Len(t.out) + t.bits = 8 * Len(s.out) + s.bits + 5
    BY <2>2, <2>3, CharTaken, ZenonT(40)
  <2>5. Counted(t, 256) = p[j]
    BY <2>2, <2>3, <2>4
  <2>6. 8 * Len(t.out) + t.bits = 5 * j
    <3>1. 5 * i + 5 = 5 * j
      BY DEF j
    <3> QED
      BY <2>2, <2>4, <3>1
  <2> QED
    BY <2>4, <2>5, <2>6 DEF t, j
<1> HIDE DEF S
<1>7. \A i \in Nat : i \in S
  BY <1>5, <1>6, Induct
<1>8. n \in 0..n /\ n \in S
  BY <1>0, <1>7
<1>9. f[n] \in ByteGroup /\ Counted(f[n], 256) = p[n] /\ 8 * Len(f[n].out) + f[n].bits = 5 * n
  BY <1>8 DEF S
<1> QED
  BY <1>1, <1>2, <1>9 DEF n

\* What is read of what was written.
LEMMA DecodesBack ==
  ASSUME NEW text, NEW bytes \in Seq(Byte), NEW pad \in 0..4, Encodes(text, bytes, pad)
  PROVE  B32Decode(text) = bytes
<1> DEFINE end == Ungrouped(text)
           out == end.out
           k   == end.bits
           u   == end.buffer
           a   == ValueOf(256, out)
           c   == ValueOf(256, bytes)
<1>1. text \in Seq(Char) /\ 5 * Len(text) = 8 * Len(bytes) + pad /\ ValueOf(32, text) = Power(2, pad) * c
  BY DEF Encodes
<1>2. end \in ByteGroup /\ a * Power(2, k) + u = ValueOf(32, text) /\ 8 * Len(out) + k = 5 * Len(text)
  BY <1>1, UngroupedCounts DEF Counted
<1>3. k \in 0..7 /\ u \in Nat /\ out \in Seq(Byte) /\ u < Power(2, k)
  BY <1>2 DEF ByteGroup
<1>4. B32Decode(text) = out
  BY DecodedIs
<1> HIDE DEF end, out, k, u
<1>5. a \in Nat /\ c \in Nat /\ Len(out) \in Nat /\ Len(bytes) \in Nat
  <2>1. 256 \in Nat
    OBVIOUS
  <2>2. out \in Seq(Nat) /\ bytes \in Seq(Nat)
    BY <1>3, ByteNumbers
  <2>3. a \in Nat
    BY <2>1, <2>2, ValueAppend
  <2>4. c \in Nat
    BY <2>1, <2>2, ValueAppend
  <2>5. Len(out) \in Nat
    BY <2>2
  <2>6. Len(bytes) \in Nat
    BY <2>2
  <2> QED
    BY <2>3, <2>4, <2>5, <2>6
<1> HIDE DEF a, c
<1>6. Len(out) = Len(bytes) /\ k = pad
  <2> DEFINE x == Len(out)
             y == Len(bytes)
  <2>1. x \in Nat /\ y \in Nat /\ 8 * x + k = 8 * y + pad
    BY <1>1, <1>2, <1>5
  <2> HIDE DEF x, y
  <2>2. x = y /\ k = pad
    BY <1>3, <2>1
  <2> QED
    BY <2>2 DEF x, y
<1>7. a = c
  <2> DEFINE m == Power(2, pad)
  <2>1. pad \in Nat
    OBVIOUS
  <2>2. m \in Nat \ {0}
    BY <2>1, PowersOfTwo
  <2>3. a * m + u = m * c /\ u < m
    BY <1>1, <1>2, <1>3, <1>6
  <2> HIDE DEF m
  <2>4. m * a + u = m * c + 0 /\ u \in 0 .. m - 1 /\ 0 \in 0 .. m - 1
    BY <1>3, <1>5, <2>2, <2>3
  <2> QED
    BY <1>5, <2>2, <2>4, DivideOnce
<1>8. out = bytes
  <2> DEFINE b == 256
  <2>1. b \in Nat \ {0} /\ b - 1 = 255
    OBVIOUS
  <2>2. out \in Seq(0 .. b - 1) /\ bytes \in Seq(0 .. b - 1)
    BY <1>3, <2>1 DEF Byte
  <2>3. ValueOf(b, out) = ValueOf(b, bytes)
    BY <1>7 DEF a, c
  <2> HIDE DEF b
  <2> QED
    BY <1>6, <2>1, <2>2, <2>3, ValueInjective
<1> QED
  BY <1>4, <1>8

\* A power of a power is one of a product.
LEMMA PowerPower ==
  ASSUME NEW b \in Nat, NEW k \in Nat
  PROVE  \A n \in Nat : Power(Power(b, k), n) = Power(b, k * n)
<1> DEFINE p == Power(b, k)
           S == {n \in Nat : Power(p, n) = Power(b, k * n)}
<1>1. p \in Nat
  BY PowerIs
<1>2. 0 \in S
  <2>1. k * 0 = 0
    OBVIOUS
  <2> HIDE DEF p
  <2>2. Power(p, 0) = 1 /\ Power(b, 0) = 1
    BY <1>1, PowerIs
  <2> QED
    BY <2>1, <2>2
<1>3. ASSUME NEW n \in Nat, n \in S PROVE n + 1 \in S
  <2> DEFINE i == k * n
  <2>1. i \in Nat /\ k * (n + 1) = i + k
    OBVIOUS
  <2>2. Power(p, n) = Power(b, i)
    BY <1>3
  <2> HIDE DEF i
  <2>3. Power(b, i + k) = Power(b, i) * Power(b, k)
    BY <2>1, PowerSum
  <2>4. Power(b, i) \in Nat
    BY <2>1, PowerIs
  <2>5. Power(p, n + 1) = p * Power(p, n)
    <3> HIDE DEF p
    <3> QED
      BY <1>1, PowerIs
  <2>6. Power(p, n + 1) = Power(b, i + k)
    <3> DEFINE x == Power(b, i)
    <3>1. Power(p, n + 1) = p * x /\ Power(b, i + k) = x * p
      BY <2>2, <2>3, <2>5
    <3>2. x \in Nat
      BY <2>4
    <3> HIDE DEF x, p
    <3>3. p * x = x * p
      BY <1>1, <3>2
    <3> QED
      BY <3>1, <3>3
  <2> QED
    BY <2>1, <2>6
<1> HIDE DEF S
<1>4. \A n \in Nat : n \in S
  BY <1>2, <1>3, Induct
<1> QED
  BY <1>4 DEF S

\* A group is worth five powers of two, a byte eight.
LEMMA PowersOfGroups == \A n \in Nat : Power(32, n) = Power(2, 5 * n) /\ Power(256, n) = Power(2, 8 * n)
<1> TAKE n \in Nat
<1>1. 2 \in Nat /\ 5 \in Nat /\ 8 \in Nat
  OBVIOUS
<1>2. Power(Power(2, 5), n) = Power(2, 5 * n)
  BY <1>1, PowerPower
<1>3. Power(Power(2, 8), n) = Power(2, 8 * n)
  BY <1>1, PowerPower
<1>4. Power(2, 5) = 32 /\ Power(2, 8) = 256
  BY PowersOfTwo
<1> QED
  BY <1>2, <1>3, <1>4

\* What fills its last group may be followed by more.
LEMMA EncodesMore ==
  ASSUME NEW head, NEW h \in Seq(Byte), NEW text, NEW bytes \in Seq(Byte), NEW pad \in 0..4,
         Encodes(head, h, 0), Encodes(text, bytes, pad)
  PROVE  Encodes(head \o text, h \o bytes, pad)
<1> DEFINE a == ValueOf(32, head)
           c == ValueOf(32, text)
           x == ValueOf(256, h)
           y == ValueOf(256, bytes)
           i == Len(text)
           j == Len(bytes)
           q == Power(2, pad)
           p == Power(256, j)
<1>0. 32 \in Nat /\ 256 \in Nat /\ 256 \in Nat \ {0} /\ pad \in Nat
  OBVIOUS
<1>1. head \in Seq(Char) /\ text \in Seq(Char)
  BY DEF Encodes
<1>2. head \in Seq(Nat) /\ text \in Seq(Nat) /\ h \in Seq(Nat) /\ bytes \in Seq(Nat)
  BY <1>1, ByteNumbers, CharNumbers
<1>3. i \in Nat /\ j \in Nat /\ Len(head) \in Nat /\ Len(h) \in Nat
  BY <1>2
<1>4. 5 * Len(head) = 8 * Len(h) /\ a = x
  <2>1. 5 * Len(head) = 8 * Len(h) + 0 /\ a = Power(2, 0) * x
    BY DEF Encodes
  <2>2. x \in Nat
    BY <1>0, <1>2, ValueAppend
  <2>3. Power(2, 0) = 1
    BY PowersOfTwo
  <2> HIDE DEF a, x
  <2> QED
    BY <1>3, <2>1, <2>2, <2>3
<1>5. 5 * i = 8 * j + pad /\ c = q * y
  BY DEF Encodes
<1>6. head \o text \in Seq(Char) /\ Len(head \o text) = Len(head) + i /\ Len(h \o bytes) = Len(h) + j
  <2>1. head \o text \in Seq(Char) /\ Len(head \o text) = Len(head) + Len(text)
    BY <1>1, ConcatProperties
  <2>2. Len(h \o bytes) = Len(h) + Len(bytes)
    BY ConcatProperties
  <2> QED
    BY <2>1, <2>2
<1>7. 5 * Len(head \o text) = 8 * Len(h \o bytes) + pad
  <2> DEFINE v == Len(head)
             w == Len(h)
  <2>1. v \in Nat /\ w \in Nat /\ 5 * v = 8 * w
    BY <1>3, <1>4
  <2> HIDE DEF v, w, i, j
  <2>2. 5 * (v + i) = 8 * (w + j) + pad
    BY <1>3, <1>5, <2>1
  <2> QED
    BY <1>6, <2>2 DEF v, w
<1>8. ValueOf(32, head \o text) = a * Power(32, i) + c
  BY <1>0, <1>2, ValueConcat
<1>9. ValueOf(256, h \o bytes) = x * p + y
  BY <1>0, <1>2, ValueConcat
<1>10. x \in Nat
  BY <1>0, <1>2, ValueAppend
<1>11. y \in Nat
  BY <1>0, <1>2, ValueAppend
<1>12. p \in Nat
  BY <1>0, <1>3, PowerIs
<1>13. q \in Nat \ {0}
  BY <1>0, PowersOfTwo
<1> HIDE DEF a, c, x, y, i, j, p, q
<1>14. Power(32, i) = p * q
  <2>1. Power(32, i) = Power(2, 5 * i) /\ Power(256, j) = Power(2, 8 * j)
    BY <1>3, PowersOfGroups
  <2> DEFINE k == 8 * j
  <2>2. k \in Nat /\ 5 * i = k + pad
    BY <1>3, <1>5
  <2> HIDE DEF k
  <2>3. Power(2, k + pad) = Power(2, k) * Power(2, pad)
    BY <1>0, <2>2, PowersOfTwo
  <2>4. Power(2, k) = p
    BY <2>1 DEF k, p
  <2> QED
    BY <2>1, <2>2, <2>3, <2>4 DEF q
<1>15. x * (p * q) + q * y = q * (x * p + y)
  BY <1>10, <1>11, <1>12, <1>13
<1>16. ValueOf(32, head \o text) = q * ValueOf(256, h \o bytes)
  BY <1>4, <1>5, <1>8, <1>9, <1>14, <1>15
<1> QED
  BY <1>6, <1>7, <1>16 DEF Encodes, q

\* Five bytes are eight characters: the reference starts a group.
Header(kind) == <<1, Codec[kind], 1, 27, 32>>

\* The header of a CID is five bytes, and fills its groups.
LEMMA HeaderIs ==
  ASSUME NEW kind \in DOMAIN Codec
  PROVE  /\ Header(kind) \in Seq(Byte) /\ Len(Header(kind)) = 5 /\ Header(kind)[2] = Codec[kind]
         /\ Encodes(B32Encode(Header(kind)), Header(kind), 0)
<1> DEFINE h == Header(kind)
           c == Codec[kind]
<1>1. c \in Byte
  BY DEF Codec, Byte
<1>2. 1 \in Byte /\ 27 \in Byte /\ 32 \in Byte
  BY DEF Byte
<1> HIDE DEF c
<1>3. h \in Seq(Byte) /\ Len(h) = 5 /\ h[2] = c
  BY <1>1, <1>2 DEF Header, c
<1> HIDE DEF h
<1>4. PICK pad \in 0..4 : Encodes(B32Encode(h), h, pad)
  BY <1>3, EncodeIs
<1> DEFINE i == Len(B32Encode(h))
<1>5. i \in Nat
  BY <1>4 DEF Encodes
<1>6. 5 * i = 40 + pad
  BY <1>3, <1>4 DEF Encodes
<1> HIDE DEF i
<1>7. pad = 0
  BY <1>5, <1>6
<1>8. Encodes(B32Encode(h), h, 0)
  BY <1>4, <1>7
<1> QED
  BY <1>3, <1>8 DEF h, c

\* The codec tells the kind.
LEMMA CodecOnce ==
  ASSUME NEW kind \in DOMAIN Codec
  PROVE  (CHOOSE k \in DOMAIN Codec : Codec[k] = Codec[kind]) = kind
<1>1. \A k \in DOMAIN Codec : Codec[k] = Codec[kind] => k = kind
  BY DEF Codec
<1> QED
  BY <1>1

\* What was appended is found at the end.
LEMMA LastPart ==
  ASSUME NEW T, NEW h \in Seq(T), NEW s \in Seq(T)
  PROVE  SubSeq(h \o s, Len(h) + 1, Len(h \o s)) = s
<1>1. Len(h \o s) = Len(h) + Len(s) /\ Len(h) \in Nat /\ Len(s) \in Nat /\ h \o s \in Seq(T)
  BY ConcatProperties
<1>2. \A i \in 1..Len(s) : (h \o s)[Len(h) + i] = s[i]
  BY ConcatProperties
<1> QED
  BY <1>1, <1>2, PartOf

\* What was appended changes nothing before it.
LEMMA FirstPart ==
  ASSUME NEW T, NEW h \in Seq(T), NEW s \in Seq(T)
  PROVE  \A i \in 1..Len(h) : (h \o s)[i] = h[i]
<1>1. \A i \in 1 .. Len(h) + Len(s) : (h \o s)[i] = IF i <= Len(h) THEN h[i] ELSE s[i - Len(h)]
  BY ConcatProperties
<1>2. Len(h) \in Nat /\ Len(s) \in Nat
  OBVIOUS
<1> QED
  BY <1>1, <1>2

\* A CID gives back the reference and its kind.
LEMMA CidsReadBack ==
  ASSUME NEW bytes \in Seq(Byte)
  PROVE  CidReadsBack(bytes)
<1> DEFINE R == REFERENCE_LENGTH
           n == Len(bytes)
<1>0. R \in Nat \ {0} /\ n \in Nat /\ Refused \notin Seq(Nat)
  BY CodecsAssumption
<1> SUFFICES ASSUME Typed(ReferenceLengths, bytes) # Refused, NEW kind \in DOMAIN Codec
             PROVE  LET cid == ReferenceToCid(bytes, kind)
                    IN  IF cid = Refused THEN Len(bytes) > REFERENCE_LENGTH
                        ELSE CidToReference(cid) = <<kind, bytes>>
  BY DEF CidReadsBack
<1>1. n = R \/ n = 2 * R
  BY DEF Typed, ReferenceLengths
<1> DEFINE cid == ReferenceToCid(bytes, kind)
<1>2. CASE n # R
  <2>1. cid = Refused /\ n = 2 * R
    BY <1>1, <1>2 DEF ReferenceToCid
  <2>2. n > R
    BY <1>0, <2>1
  <2> QED
    BY <2>1, <2>2
<1>3. CASE n = R
  <2> DEFINE h    == Header(kind)
             head == B32Encode(h)
             text == B32Encode(bytes)
             all  == h \o bytes
  <2>1. cid = head \o text
    BY <1>3 DEF ReferenceToCid, Header
  <2>2. h \in Seq(Byte) /\ Len(h) = 5 /\ h[2] = Codec[kind] /\ Encodes(head, h, 0)
    BY HeaderIs
  <2>3. PICK pad \in 0..4 : Encodes(text, bytes, pad)
    BY EncodeIs
  <2> HIDE DEF h, head, text, cid
  <2>4. Encodes(cid, all, pad)
    BY <2>1, <2>2, <2>3, EncodesMore
  <2>5. all \in Seq(Byte) /\ Len(all) = 5 + R /\ all[2] = Codec[kind]
    <3>1. all \in Seq(Byte) /\ Len(all) = Len(h) + Len(bytes)
      BY <2>2, ConcatProperties
    <3>2. \A i \in 1..Len(h) : all[i] = h[i]
      BY <2>2, FirstPart
    <3>3. 2 \in 1..Len(h)
      BY <2>2
    <3> HIDE DEF all
    <3>4. all[2] = Codec[kind]
      BY <2>2, <3>2, <3>3
    <3> QED
      BY <1>3, <2>2, <3>1, <3>4
  <2>6. SubSeq(all, Len(h) + 1, Len(all)) = bytes
    BY <2>2, LastPart
  <2> HIDE DEF all
  <2>7. B32Decode(cid) = all
    BY <2>4, <2>5, DecodesBack
  <2>8. cid # Refused
    <3>1. cid \in Seq(Char)
      BY <2>4 DEF Encodes
    <3>2. cid \in Seq(Nat)
      BY <3>1, CharNumbers
    <3> QED
      BY <1>0, <3>2
  <2>9. ~(Len(all) < R) /\ Len(all) - R + 1 = Len(h) + 1
    BY <1>0, <2>2, <2>5
  <2>10. \E k \in DOMAIN Codec : Codec[k] = all[2]
    BY <2>5
  <2>11. (CHOOSE k \in DOMAIN Codec : Codec[k] = all[2]) = kind
    BY <2>5, CodecOnce
  <2>12. CidToReference(cid) = <<CHOOSE k \in DOMAIN Codec : Codec[k] = all[2],
                                SubSeq(all, Len(all) - R + 1, Len(all))>>
    BY <2>7, <2>9, <2>10 DEF CidToReference
  <2>13. CidToReference(cid) = <<kind, bytes>>
    BY <2>6, <2>9, <2>11, <2>12
  <2> QED
    BY <2>8, <2>13 DEF cid
<1> QED
  BY <1>2, <1>3

\* What the client encodes it decodes, whatever it is.
LEMMA EncodingsAreKept == CodedInit => EncodingsReadBack
<1> SUFFICES ASSUME CodedInit PROVE EncodingsReadBack
  OBVIOUS
<1>1. ASSUME NEW b \in ByteString, coded = [kind |-> "bytes", value |-> b] PROVE EncodingsReadBack
  <2>1. coded.kind = "bytes" /\ coded.value = b
    BY <1>1
  <2>2. b \in Seq(Byte)
    BY CodecsAssumption DEF Byte
  <2>3. HexReadsBack(b) /\ CidReadsBack(b)
    BY <2>2, HexReadBack, CidsReadBack
  <2> QED
    BY <2>1, <2>3 DEF EncodingsReadBack
<1>2. ASSUME NEW n \in 0 .. Power(Radix, WORD) - 1, coded = [kind |-> "number", value |-> n]
      PROVE  EncodingsReadBack
  <2>1. coded.kind = "number" /\ coded.value = n
    BY <1>2
  <2>2. NumberReadsBack(n)
    BY NumbersReadBack
  <2> QED
    BY <2>1, <2>2 DEF EncodingsReadBack
<1>3. ASSUME NEW p \in Field \X Field, coded = [kind |-> "point", value |-> p] PROVE EncodingsReadBack
  <2>1. coded.kind = "point" /\ coded.value = p
    BY <1>3
  <2>2. PointReadsBack(p)
    BY PointsReadBack
  <2> QED
    BY <2>1, <2>2 DEF EncodingsReadBack
<1>4. ASSUME NEW name \in FileName, coded = [kind |-> "name", value |-> name] PROVE EncodingsReadBack
  <2>1. coded.kind = "name" /\ coded.value = name
    BY <1>4
  <2>2. NameReadsBack(name)
    BY NamesReadBack
  <2> QED
    BY <2>1, <2>2 DEF EncodingsReadBack
<1> QED
  BY <1>1, <1>2, <1>3, <1>4 DEF CodedInit
-----------------------------------------------------------------------------
\* What the client writes it reads back, whatever it is: an amount or a decimal of
\* tokens.rs, a duration in whole seconds of duration.rs; bytes, numbers, keys and
\* names of bytes.rs, typed_bytes.rs, cid.rs, keys.rs and result.rs.
THEOREM WhatIsWrittenReadsBack == ConversionsSpec => []ReadBack
<1>1. ConversionsInit => ReadBack
  <2>1. ASSUME TypedInit, coded = Uncoded PROVE ReadBack
    <3>1. EncodingsReadBack
      BY <2>1 DEF EncodingsReadBack
    <3> QED
      BY <2>1, <3>1, QuantitiesAreKept DEF ReadBack
  <2>2. ASSUME CodedInit, typed = Untyped PROVE ReadBack
    <3>1. QuantitiesReadBack
      BY <2>2 DEF QuantitiesReadBack
    <3> QED
      BY <2>2, <3>1, EncodingsAreKept DEF ReadBack
  <2> QED
    BY <2>1, <2>2 DEF ConversionsInit
<1>2. ReadBack /\ [UNCHANGED <<typed, coded>>]_<<typed, coded>> => ReadBack'
  <2> SUFFICES ASSUME ReadBack, typed' = typed, coded' = coded PROVE ReadBack'
    OBVIOUS
  <2>1. QuantitiesReadBack'
    BY DEF ReadBack, QuantitiesReadBack, AmountReadsBack, DecimalReadsBack, ExchangeNeverGains,
           DurationReadsBack
  <2>2. EncodingsReadBack'
    BY DEF ReadBack, EncodingsReadBack, HexReadsBack, CidReadsBack, NumberReadsBack, PointReadsBack,
           NameReadsBack
  <2> QED
    BY <2>1, <2>2 DEF ReadBack
<1> QED
  BY <1>1, <1>2, PTL DEF ConversionsSpec
=============================================================================
