---------------------------- MODULE FileChunker ----------------------------
(***************************************************************************)
(* The streaming chunker of swarm/file_chunker.rs: bytes go in through     *)
(* write, full leaves and full levels are sealed into content-addressed    *)
(* chunks, and finalize collapses what is left into one root.              *)
(*                                                                         *)
(* The steps are cut where the code calls out: each sealing step is one    *)
(* call of the on_chunk callback, which may refuse the chunk.              *)
(***************************************************************************)
EXTENDS ChunkTree

CONSTANTS
  MaxBytes,   \* bound: bytes offered to write over a chunker's life
  MaxWrite,   \* bound: bytes offered to one write
  MaxFails    \* bound: chunks the callback refuses

ASSUME ChunkerAssumption ==
  MaxBytes \in Nat /\ MaxWrite \in Nat /\ MaxFails \in Nat

VARIABLES
  leaf_buf,   \* the trailing partial leaf
  levels,     \* levels[1] holds leaf refs, levels[i + 1] the parents of levels[i]
  pc,         \* where the running call is, "idle" between calls
  data,       \* bytes of the running write not yet consumed
  level,      \* the level being collapsed
  scan,       \* finalize's loop variable
  finalizing, \* the running call is finalize
  consumed,   \* history: bytes moved into leaf_buf so far
  offered,    \* history: bytes handed to write so far
  sealed,     \* history: the chunks the callback accepted, in order
  fails,      \* history: chunks the callback refused
  outcome     \* what finalize returned

chunkerVars == <<leaf_buf, levels>>
callVars    == <<pc, data, level, scan, finalizing>>
histVars    == <<consumed, offered, sealed, fails, outcome>>
vars == <<leaf_buf, levels, pc, data, level, scan, finalizing,
          consumed, offered, sealed, fails, outcome>>

-----------------------------------------------------------------------------
(* What finalize returns.                                                  *)

Pending  == [kind |-> "pending"]
NoInput  == [kind |-> "no_input"]
Refused  == [kind |-> "callback_error"]
Panicked == [kind |-> "panic"]
Root(c)  == [kind |-> "root", address |-> c, span |-> c.span]

-----------------------------------------------------------------------------
Init ==
  /\ leaf_buf = <<>> /\ levels = <<>>
  /\ pc = "idle" /\ data = 0 /\ level = 0 /\ scan = 0 /\ finalizing = FALSE
  /\ consumed = 0 /\ offered = 0 /\ sealed = <<>> /\ fails = 0
  /\ outcome = Pending

\* write(data): enter the loop with n bytes to consume.
Write(n) ==
  /\ pc = "idle"
  /\ n \in 1..MaxWrite
  /\ offered + n <= MaxBytes
  /\ pc' = "write" /\ data' = n /\ offered' = offered + n
  /\ UNCHANGED <<chunkerVars, level, scan, finalizing,
                 consumed, sealed, fails, outcome>>

\* One turn of write's loop: fill the leaf, and flush it once it is full.
WriteLoop ==
  LET take == Lesser(data, CHUNK_SIZE - Len(leaf_buf))
  IN  /\ pc = "write" /\ data > 0
      /\ leaf_buf' = leaf_buf \o [i \in 1..take |-> consumed + i]
      /\ data' = data - take
      /\ consumed' = consumed + take
      /\ pc' = IF Len(leaf_buf') = CHUNK_SIZE THEN "flush" ELSE "write"
      /\ UNCHANGED <<levels, level, scan, finalizing,
                     offered, sealed, fails, outcome>>

\* write returns once everything is consumed.
WriteReturn ==
  /\ pc = "write" /\ data = 0
  /\ pc' = "idle"
  /\ UNCHANGED <<chunkerVars, data, level, scan, finalizing, histVars>>

\* finalize: reject an empty chunker, flush a partial leaf, start the scan.
Finalize ==
  /\ pc = "idle"
  /\ IF levels = <<>> /\ leaf_buf = <<>>
       THEN pc' = "done" /\ outcome' = NoInput
            /\ UNCHANGED <<scan, finalizing>>
       ELSE /\ pc' = IF leaf_buf = <<>> THEN "scan" ELSE "flush"
            /\ finalizing' = TRUE /\ scan' = 1
            /\ UNCHANGED outcome
  /\ UNCHANGED <<chunkerVars, data, level, consumed, offered, sealed, fails>>

\* The call goes on where the sealing step was called from.
Resume == IF finalizing THEN "scan" ELSE "write"

\* The callback refuses: the error leaves the running call at once, with what
\* was taken out of the chunker gone; finalize has consumed the chunker.
Abort ==
  /\ fails < MaxFails
  /\ fails' = fails + 1
  /\ data' = 0
  /\ IF finalizing THEN pc' = "done" /\ outcome' = Refused
                   ELSE pc' = "idle" /\ UNCHANGED outcome
  /\ UNCHANGED <<level, sealed>>

Full(refs) == Len(refs) = MAX_BRANCHES

\* The reference lands on level l, which is collapsed next when it is full.
PushRef(ls, l, ref) ==
  LET grown == IF l > Len(ls) THEN Append(ls, <<>>) ELSE ls
  IN  [grown EXCEPT ![l] = Append(@, ref)]

Accept(ls, l, chunk) ==
  /\ sealed' = Append(sealed, chunk)
  /\ levels' = PushRef(ls, l, chunk)
  /\ IF Full(levels'[l])
       THEN pc' = "collapse" /\ level' = l
       ELSE pc' = Resume /\ UNCHANGED level
  /\ UNCHANGED <<data, fails, outcome>>

\* Mutant: the reference is kept of a chunk the callback refused.
FlushLeafKeepingRef ==
  /\ pc = "flush"
  /\ leaf_buf' = <<>>
  /\ \/ Accept(levels, 1, Leaf(leaf_buf))
     \/ Abort /\ levels' = PushRef(levels, 1, Leaf(leaf_buf))
  /\ UNCHANGED <<scan, finalizing, consumed, offered>>

\* flush_leaf: take the leaf buffer and seal it.
FlushLeaf ==
  /\ pc = "flush"
  /\ leaf_buf' = <<>>
  /\ \/ Accept(levels, 1, Leaf(leaf_buf))
     \/ Abort /\ UNCHANGED levels
  /\ UNCHANGED <<scan, finalizing, consumed, offered>>

\* collapse_level: take a level's references and seal their parent.
CollapseLevel ==
  LET refs  == levels[level]
      taken == [levels EXCEPT ![level] = <<>>]
  IN  /\ pc = "collapse"
      /\ \/ Accept(taken, level + 1, Parent(refs, TotalSpan(refs)))
         \/ Abort /\ levels' = taken
      /\ UNCHANGED <<leaf_buf, scan, finalizing, consumed, offered>>

\* Mutant: a single reference on any level.
AtRootAnyLevel == scan <= Len(levels) /\ Len(levels[scan]) = 1

\* finalize's loop breaks at a single reference on the top level.
AtRoot == scan = Len(levels) /\ Len(levels[scan]) = 1

\* Mutant: an empty level does not advance the loop.
ScanLevelStuck ==
  /\ pc = "scan" /\ scan <= Len(levels) /\ ~AtRoot
  /\ IF levels[scan] = <<>>
       THEN UNCHANGED <<pc, level, scan>>
       ELSE pc' = "collapse" /\ level' = scan /\ scan' = scan + 1
  /\ UNCHANGED <<chunkerVars, data, finalizing, histVars>>

\* One turn of finalize's loop over the levels.
ScanLevel ==
  /\ pc = "scan" /\ scan <= Len(levels) /\ ~AtRoot
  /\ scan' = scan + 1
  /\ IF levels[scan] = <<>>
       THEN UNCHANGED <<pc, level>>
       ELSE pc' = "collapse" /\ level' = scan
  /\ UNCHANGED <<chunkerVars, data, finalizing, histVars>>

\* The loop ends: the first reference of the top level is the root.  Indexing
\* an empty top level panics.
TakeRoot ==
  /\ pc = "scan" /\ (scan > Len(levels) \/ AtRoot)
  /\ pc' = "done"
  /\ outcome' = IF levels[Len(levels)] = <<>>
                  THEN Panicked ELSE Root(levels[Len(levels)][1])
  /\ UNCHANGED <<chunkerVars, data, level, scan, finalizing,
                 consumed, offered, sealed, fails>>

\* The chunker was consumed by finalize: nothing is left to do.
Finished == pc = "done" /\ UNCHANGED vars

Step == WriteLoop \/ WriteReturn \/ FlushLeaf \/ CollapseLevel \/ ScanLevel \/ TakeRoot

Next ==
  \/ \E n \in 1..MaxWrite : Write(n)
  \/ Finalize
  \/ Step
  \/ Finished

Spec == Init /\ [][Next]_vars

\* A call that was entered runs: the chunker is synchronous code.
FairSpec == Spec /\ WF_vars(Step)

-----------------------------------------------------------------------------
(* Correctness.                                                            *)

\* The bytes written so far, in order.
Input == [i \in 1..consumed |-> i]

\* However the input was split over calls of write, a chunker whose callback
\* never failed returns the root of the reference tree over the whole input, so
\* every byte is covered, once and in order.
RootIsCanonical ==
  outcome.kind = "root" /\ fails = 0 => outcome.address = RefRoot(Input)

\* The progress total that stream.rs computes from the length alone is the
\* number of chunks the chunker seals, and the chunk that stream.rs takes for
\* the file's root, the last one sealed, is the root.
UploadSeesTheTree ==
  outcome.kind = "root" /\ fails = 0 =>
    /\ Len(sealed) = TotalChunksFor(consumed)
    /\ sealed[Len(sealed)] = outcome.address

\* A chunk is handed to the callback only after all of its children were
\* accepted, refusals included, so that an uploader never sees a dangling parent;
\* leaves are sealed in input order and no byte is sealed twice, also when the
\* callback refused a chunk and the caller went on writing.
SealedInOrder ==
  /\ \A i \in DOMAIN sealed : \A k \in DOMAIN sealed[i].kids :
       \E j \in 1..(i - 1) : sealed[j] = sealed[i].kids[k]
  /\ \A i, j \in DOMAIN sealed :
       i < j /\ sealed[i].kids = <<>> /\ sealed[j].kids = <<>> =>
         sealed[i].bytes[Len(sealed[i].bytes)] < sealed[j].bytes[1]

\* Violated by the code.  finalize(self) -> Result: "return the root chunk's address + span", or an
\* error; indexing an empty top level is neither.
FinalizeReturns == outcome.kind # "panic"

\* Every call returns although the scan of finalize runs over a level stack
\* that collapse_level grows under it.
CallsReturn == (pc \notin {"idle", "done"}) ~> (pc \in {"idle", "done"})
=============================================================================
