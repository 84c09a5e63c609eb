----------------------------- MODULE ChunkTree -----------------------------
(***************************************************************************)
(* Content-addressed chunks and the tree they form: what the chunker of    *)
(* swarm/file_chunker.rs and the upload of file/stream.rs share.           *)
(*                                                                         *)
(* A byte is its position in the input; the address of a chunk is the      *)
(* chunk itself, so two chunks have one address exactly when they have one *)
(* content (the hash of swarm/bmt.rs taken as injective).                  *)
(***************************************************************************)
EXTENDS Naturals, Sequences

CONSTANTS
  CHUNK_SIZE,    \* bytes per leaf (4096)
  MAX_BRANCHES   \* addresses per intermediate chunk (128)

ASSUME ChunkTreeAssumption ==
  /\ CHUNK_SIZE \in Nat \ {0}
  /\ MAX_BRANCHES \in Nat \ {0, 1}

Lesser(a, b)  == IF a < b THEN a ELSE b
DivCeil(a, b) == (a + b - 1) \div b

\* A leaf carries bytes, an intermediate chunk the addresses of its children.
Leaf(bytes)       == [bytes |-> bytes, kids |-> <<>>, span |-> Len(bytes)]
Parent(kids, sum) == [bytes |-> <<>>, kids |-> kids, span |-> sum]

\* The span of an intermediate chunk: the sum over its references.
TotalSpan(refs) ==
  LET sum[n \in 0..Len(refs)] ==
        IF n = 0 THEN 0 ELSE sum[n - 1] + refs[n].span
  IN  sum[Len(refs)]

\* Mutant: a partial trailing leaf is not counted.
TotalChunksForFloor(len) ==
  LET above[n \in 0..len] ==
        IF n <= 1 THEN 0
        ELSE LET parents == DivCeil(n, MAX_BRANCHES) IN parents + above[parents]
      leaves == len \div CHUNK_SIZE
  IN  IF len = 0 THEN 0 ELSE leaves + above[leaves]

\* total_chunks_for(len): leaves, then ever fewer parents down to one root.
TotalChunksFor(len) ==
  LET above[n \in 0..len] ==
        IF n <= 1 THEN 0
        ELSE LET parents == DivCeil(n, MAX_BRANCHES) IN parents + above[parents]
      leaves == DivCeil(len, CHUNK_SIZE)
  IN  IF len = 0 THEN 0 ELSE leaves + above[leaves]

-----------------------------------------------------------------------------
(* The reference definition of the tree: cut the input into leaves, then   *)
(* group every level into runs of MAX_BRANCHES until one chunk is left.    *)

Cut(seq, size) ==
  [i \in 1..DivCeil(Len(seq), size) |->
     SubSeq(seq, (i - 1) * size + 1, Lesser(i * size, Len(seq)))]

RefLeaves(input) ==
  LET parts == Cut(input, CHUNK_SIZE)
  IN  [i \in DOMAIN parts |-> Leaf(parts[i])]

RefParents(refs) ==
  LET groups == Cut(refs, MAX_BRANCHES)
  IN  [i \in DOMAIN groups |-> Parent(groups[i], TotalSpan(groups[i]))]

RefRoot(input) ==
  LET lvl[k \in 0..Len(input)] ==
        IF k = 0 THEN RefLeaves(input)
        ELSE LET below == lvl[k - 1]
             IN  IF Len(below) = 1 THEN below ELSE RefParents(below)
  IN  lvl[Len(input)][1]
=============================================================================
