------------------------------ MODULE Storage ------------------------------
(***************************************************************************)
(* Buying and extending storage (storage.rs, postage/endpoints.rs).  Every *)
(* helper reads the price or the batch from the node, computes, and then   *)
(* writes: one step per call, so that other programs, and the price, move  *)
(* between a read and the write computed from it.  The node and its chain  *)
(* are external; a call may fail, and its answer may be lost after it was  *)
(* carried out.                                                            *)
(*                                                                         *)
(* promised and due are history: what the helpers' Ok answers assure.      *)
(***************************************************************************)
EXTENDS StampMath

CONSTANTS
  Client,    \* programs that use one node
  Batch,     \* batch identifiers
  NoBatch,   \* none of them
  Size,      \* sizes asked for
  Ticks,     \* durations asked for, in ticks
  TICKS,     \* ticks of a second: a duration is finer than a second
  Target,    \* targets given to calculate_top_up_for_bzz
  Price,     \* prices of a chunk and block
  MaxCalls,  \* bound: helper calls of all programs together
  MaxMoves   \* bound: changes of the price

ASSUME StorageAssumption ==
  /\ Size \subseteq Nat /\ Ticks \subseteq Nat /\ Target \subseteq Nat
  /\ TICKS \in Nat \ {0} /\ Price \subseteq Nat \ {0} /\ Price # {}
  /\ MaxCalls \in Nat /\ MaxMoves \in Nat /\ NoBatch \notin Batch

VARIABLES
  price,     \* current_price of the chain state
  batch,     \* the batches on the chain
  job,       \* the helper each program is in, or was in last
  calls,     \* calls so far
  moves,     \* changes of the price so far
  promised,  \* the sizes each batch was said to cover
  due        \* seconds it was said to last since the price or its depth moved

vars == <<price, batch, job, calls, moves, promised, due>>

Unbought == [live |-> FALSE, depth |-> 0, amount |-> 0, usable |-> FALSE]

\* pc is the call to be made next; price, depth and amount are what was read.
Idle == [op |-> "none", pc |-> "ok", b |-> NoBatch, arg |-> 0, ticks |-> 0,
         price |-> 0, depth |-> 0, amount |-> 0, value |-> 0]

Returned(j) == j.pc \in {"ok", "err"}

\* duration.as_secs(): what is finer than a second is cut off.
Seconds(ticks) == ticks \div TICKS

AmountFor(p, ticks) == p * SecondsToBlocks(Seconds(ticks))

RefillAmount(p, ticks) == p * WholeBlocks(Seconds(ticks))

\* Mutant: the cost of all levels, not of those added.
SizeCostWhole(depth, amount, target) == 2^target * amount

SizeCost(depth, amount, target) == (2^target - 2^depth) * amount

Goto(c, j) == job' = [job EXCEPT ![c] = j]

Ok(j, v) == [j EXCEPT !.pc = "ok", !.value = v]
Err(j)   == [j EXCEPT !.pc = "err"]

-----------------------------------------------------------------------------
Init ==
  /\ price \in Price
  /\ batch = [b \in Batch |-> Unbought]
  /\ job = [c \in Client |-> Idle]
  /\ calls = 0 /\ moves = 0
  /\ promised = [b \in Batch |-> {}]
  /\ due = [b \in Batch |-> 0]

Call(c, j) ==
  /\ Returned(job[c]) /\ calls < MaxCalls
  /\ calls' = calls + 1
  /\ Goto(c, j)
  /\ UNCHANGED <<price, batch, moves, promised, due>>

\* Of the options only the network and the label are handed on: opts.immutable is not.
BuyStorage(c, size, ticks) ==
  Call(c, [Idle EXCEPT !.op = "buy", !.pc = "price", !.arg = size, !.ticks = ticks])

\* get_storage_cost, as the cost previews make it.
StorageCost(c, size, ticks) ==
  Call(c, [Idle EXCEPT !.op = "storage_cost", !.pc = "price", !.arg = size,
                       !.ticks = ticks])

\* The projection of swarm-cost-monitor, for one of the batches it lists.
Refill(c, b, ticks) ==
  Call(c, [Idle EXCEPT !.op = "refill", !.pc = "price", !.b = b, !.ticks = ticks])

ExtendDuration(c, b, ticks) ==
  Call(c, [Idle EXCEPT !.op = "extend_duration", !.pc = "price", !.b = b,
                       !.ticks = ticks])

\* extend_storage_size, get_size_extension_cost: the size; calculate_top_up_for_bzz
\* and the top_up_batch that is for: the target.
OfBatch(c, op, b, arg) ==
  Call(c, [Idle EXCEPT !.op = op, !.pc = "batch", !.b = b, !.arg = arg])

DurationCost(c, b, ticks) ==
  Call(c, [Idle EXCEPT !.op = "duration_cost", !.pc = "batch", !.b = b,
                       !.ticks = ticks])

\* GET /chainstate: with the price the amount and the depth of a purchase are known;
\* the cost of an extension uses the depth read before.
ReadPrice(c) ==
  LET j == [job[c] EXCEPT !.price = price, !.amount = AmountFor(price, job[c].ticks)]
  IN  /\ job[c].pc = "price"
      /\ Goto(c, CASE j.op = "buy" -> [j EXCEPT !.pc = "write", !.depth = DepthForSize(j.arg)]
                   [] j.op = "extend_duration" -> [j EXCEPT !.pc = "write"]
                   [] j.op = "storage_cost" ->
                        Ok(j, StampCost(DepthForSize(j.arg), j.amount))
                   [] j.op = "refill" -> [j EXCEPT !.pc = "batch"]
                   [] OTHER -> Ok(j, StampCost(j.depth, j.amount)))
      /\ UNCHANGED <<price, batch, calls, moves, promised, due>>

\* Mutant: a batch that is too small is taken for deep enough.
EnoughReversed(j, depth) == DepthForSize(j.arg) >= depth

DeepEnough(j, depth) == DepthForSize(j.arg) <= depth

\* The target is compared with the amount per chunk; no price is read.
Missing(target, amount) == IF target <= amount THEN 0 ELSE target - amount

\* GET /stamps/{id}.  The amount of the answer is optional.
ReadBatch(c, reported) ==
  LET found == batch[job[c].b]
      j     == [job[c] EXCEPT !.depth = found.depth, !.amount = found.amount]
  IN  /\ job[c].pc = "batch" /\ found.live
      /\ Goto(c,
           CASE j.op = "duration_cost" -> [j EXCEPT !.pc = "price"]
             [] j.op = "refill" ->
                  Ok(j, StampCost(j.depth, RefillAmount(j.price, j.ticks)))
             [] j.op = "extend_size" ->
                  IF DeepEnough(j, j.depth) THEN Ok(j, 0) ELSE [j EXCEPT !.pc = "write"]
             [] j.op = "size_cost" ->
                  IF DeepEnough(j, j.depth) THEN Ok(j, 0)
                  ELSE IF ~reported THEN Err(j)
                  ELSE Ok(j, SizeCost(j.depth, j.amount, DepthForSize(j.arg)))
             [] OTHER ->
                  IF ~reported THEN Err(j)
                  ELSE [j EXCEPT !.pc = "write", !.value = Missing(j.arg, j.amount)])
      \* extend_storage_size returns here when the batch is deep enough already.
      /\ promised' = IF j.op = "extend_size" /\ DeepEnough(j, j.depth)
                     THEN [promised EXCEPT ![j.b] = @ \cup {j.arg}] ELSE promised
      /\ UNCHANGED <<price, batch, calls, moves, due>>

\* A read fails, or a write before it has any effect.
Fails(c) ==
  /\ job[c].pc \in {"price", "batch", "write"}
  /\ Goto(c, Err(job[c]))
  /\ UNCHANGED <<price, batch, calls, moves, promised, due>>

-----------------------------------------------------------------------------
(* The writes.  The node carries them out; the answer arrives or is lost.  *)

Answer(c, arrives) ==
  Goto(c, IF arrives THEN [job[c] EXCEPT !.pc = "ok"] ELSE Err(job[c]))

Owed(b, p, ticks, arrives) ==
  due' = IF arrives /\ p = price THEN [due EXCEPT ![b] = @ + Seconds(ticks)] ELSE due

\* POST /stamps/{amount}/{depth}: a batch that is usable some blocks later.
Create(c, b, arrives) ==
  LET j == job[c]
  IN  /\ j.pc = "write" /\ j.op = "buy" /\ ~batch[b].live
      /\ batch' = [batch EXCEPT ![b] = [live |-> TRUE, depth |-> j.depth,
                                        amount |-> j.amount, usable |-> FALSE]]
      /\ Goto(c, IF arrives THEN [j EXCEPT !.pc = "poll", !.b = b] ELSE Err(j))
      /\ promised' = IF arrives THEN [promised EXCEPT ![b] = @ \cup {j.arg}] ELSE promised
      /\ Owed(b, j.price, j.ticks, arrives)
      /\ UNCHANGED <<price, calls, moves>>

\* PATCH /stamps/topup/{id}/{amount}: by the price times the blocks, or by what is
\* missing to the target.
TopUp(c, arrives) ==
  LET j  == job[c]
      by == IF j.op = "extend_duration" THEN j.amount ELSE j.value
  IN  /\ j.pc = "write" /\ j.op \in {"extend_duration", "top_up_to"}
      /\ batch[j.b].live
      /\ batch' = [batch EXCEPT ![j.b].amount = @ + by]
      /\ Answer(c, arrives)
      /\ Owed(j.b, j.price, j.ticks, arrives /\ j.op = "extend_duration")
      /\ UNCHANGED <<price, calls, moves, promised>>

\* PATCH /stamps/dilute/{id}/{depth}: refused unless it is deeper; what each chunk
\* has left is spread over twice as many for every level.
Dilute(c, arrives) ==
  LET j      == job[c]
      target == DepthForSize(j.arg)
      b      == batch[j.b]
  IN  /\ j.pc = "write" /\ j.op = "extend_size" /\ target > b.depth
      /\ batch' = [batch EXCEPT ![j.b].depth = target,
                                ![j.b].amount = @ \div 2^(target - b.depth)]
      /\ Answer(c, arrives)
      /\ promised' = IF arrives THEN [promised EXCEPT ![j.b] = @ \cup {j.arg}] ELSE promised
      /\ due' = [due EXCEPT ![j.b] = 0]
      /\ UNCHANGED <<price, calls, moves>>

\* Another program diluted meanwhile: the node refuses.
DiluteRefused(c) ==
  /\ job[c].pc = "write" /\ job[c].op = "extend_size"
  /\ DepthForSize(job[c].arg) <= batch[job[c].b].depth
  /\ Goto(c, Err(job[c]))
  /\ UNCHANGED <<price, batch, calls, moves, promised, due>>

\* Mutant: the poll ends at the first failed answer.
PollGivesUp(c) ==
  /\ job[c].pc = "poll"
  /\ \/ batch[job[c].b].usable /\ Goto(c, [job[c] EXCEPT !.pc = "ok"])
     \/ Goto(c, Err(job[c]))
  /\ UNCHANGED <<price, batch, calls, moves, promised, due>>

\* The buyer polls the batch until it is usable, whatever a single answer says.
Poll(c) ==
  /\ job[c].pc = "poll"
  /\ batch[job[c].b].usable
  /\ Goto(c, [job[c] EXCEPT !.pc = "ok"])
  /\ UNCHANGED <<price, batch, calls, moves, promised, due>>

BecomesUsable(b) ==
  /\ batch[b].live /\ ~batch[b].usable
  /\ batch' = [batch EXCEPT ![b].usable = TRUE]
  /\ UNCHANGED <<price, job, calls, moves, promised, due>>

PriceMoves(p) ==
  /\ moves < MaxMoves /\ p # price
  /\ price' = p /\ moves' = moves + 1
  /\ due' = [b \in Batch |-> 0]
  /\ UNCHANGED <<batch, job, calls, promised>>

Next ==
  \/ \E c \in Client :
       \/ \E t \in Ticks :
            \/ \E s \in Size : BuyStorage(c, s, t) \/ StorageCost(c, s, t)
            \/ \E b \in Batch :
                 ExtendDuration(c, b, t) \/ DurationCost(c, b, t) \/ Refill(c, b, t)
       \/ \E b \in Batch :
            \/ \E s \in Size, op \in {"extend_size", "size_cost"} : OfBatch(c, op, b, s)
            \/ \E t \in Target : OfBatch(c, "top_up_to", b, t)
       \/ ReadPrice(c) \/ Fails(c) \/ DiluteRefused(c) \/ Poll(c)
       \/ \E reported \in BOOLEAN : ReadBatch(c, reported)
       \/ \E arrives \in BOOLEAN :
            (\E b \in Batch : Create(c, b, arrives)) \/ TopUp(c, arrives) \/ Dilute(c, arrives)
  \/ \E b \in Batch : BecomesUsable(b)
  \/ \E p \in Price : PriceMoves(p)

\* A purchase is mined, and a poll repeated for ever is answered.
Fairness == /\ \A b \in Batch : WF_vars(BecomesUsable(b))
            /\ \A c \in Client : WF_vars(Poll(c))

Spec == Init /\ [][Next]_vars /\ Fairness

-----------------------------------------------------------------------------
(* Correctness.                                                            *)

\* buy_storage and extend_storage_size: once Ok was answered the batch covers the
\* size for good, whoever dilutes it between the read and the write or afterwards.
\* A size above the table is no such promise: it gets the depth of the fallback.
SizesCovered ==
  \A b \in Batch : \A s \in promised[b] :
    Covered(s) => s <= EffectiveBytes(batch[b].depth)

\* While neither the price nor the depth moves, the purchase and the extensions add
\* up, also those of two programs at once: the batch pays for all the seconds.
DurationsAddUp ==
  \A b \in Batch : due[b] * price <= batch[b].amount * BLOCK_TIME

\* The costs that were answered to calls of op, and what they were computed from.
Answered(op) == {job[c] : c \in {d \in Client : job[d].op = op /\ job[d].pc = "ok"}}

\* What the cost monitor projects is never more than the extension takes, nor short of it
\* by a block or more.
RefillsAreClose ==
  \A j \in Answered("refill") :
    LET short == StampCost(j.depth, AmountFor(j.price, j.ticks)) - j.value
    IN  0 <= short /\ short <= StampCost(j.depth, j.price)

\* What the node takes for the step of one program is what another was told before:
\* for a batch, the preview of that size and duration at that price;
CreateAsQuoted(c, b) ==
  \A j \in Answered("storage_cost") :
    j.price = job[c].price /\ j.arg = job[c].arg /\ j.ticks = job[c].ticks
      => j.value = StampCost(batch'[b].depth, batch'[b].amount)

\* for an extension, the quote at that price and the depth the batch has;
ExtendAsQuoted(c, b) ==
  \A j \in Answered("duration_cost") :
    job[c].op = "extend_duration" /\ j.b = b /\ j.depth = batch[b].depth
      /\ j.price = job[c].price /\ j.ticks = job[c].ticks
      => j.value = StampCost(batch[b].depth, batch'[b].amount - batch[b].amount)

\* for a dilution, which leaves each chunk less, the quote is what gives them back what
\* they had, but for less than one PLUR of each.
DiluteAsQuoted(c, b) ==
  \A j \in Answered("size_cost") :
    j.b = b /\ j.arg = job[c].arg /\ j.depth = batch[b].depth /\ j.amount = batch[b].amount
      => LET lost == StampCost(batch'[b].depth, batch[b].amount - batch'[b].amount)
         IN  j.value <= lost /\ lost - j.value < StampCost(batch'[b].depth, 1)

ChargedAsQuoted ==
  \A c \in {d \in Client : job[d].pc = "write"}, arrives \in BOOLEAN :
    /\ \A b \in Batch : Create(c, b, arrives) => CreateAsQuoted(c, b)
    /\ TopUp(c, arrives) => ExtendAsQuoted(c, job[c].b)
    /\ Dilute(c, arrives) => DiluteAsQuoted(c, job[c].b)

\* The quotes of storage.rs hold when it comes to the write, whatever other programs and
\* the price did since, and the durations paid for add up.
QuotesHold ==
  /\ [](DurationsAddUp /\ RefillsAreClose)
  /\ [][ChargedAsQuoted]_vars

\* Violated by the code.  calculate_top_up_for_bzz: "Top-up amount (PLUR) needed for the
\* batch to reach `target_bzz` total spend": once all its chunks together are worth the
\* target, nothing is needed.
TopUpIsNeeded ==
  \A c \in Client :
    LET j == job[c]
    IN  j.op = "top_up_to" /\ j.pc = "write" /\ StampCost(j.depth, j.amount) >= j.arg
          => j.value = 0

\* Whoever bought a batch gets to see it usable, after failed answers too.
BuyersSeeTheirBatch ==
  \A c \in Client : job[c].pc = "poll" ~> job[c].op = "buy" /\ job[c].pc = "ok"
=============================================================================
