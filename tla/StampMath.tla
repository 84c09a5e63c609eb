----------------------------- MODULE StampMath -----------------------------
(***************************************************************************)
(* The arithmetic of postage batches: postage/stamp_math.rs and            *)
(* swarm/network.rs.  Amounts are the integers of BigInt; the breakpoint   *)
(* table is a constant, in whatever unit of bytes the instance takes.      *)
(***************************************************************************)
EXTENDS Naturals

CONSTANTS
  Breakpoint,      \* EFFECTIVE_SIZE_BREAKPOINTS: effective bytes by depth
  FALLBACK_DEPTH,  \* the depth of every larger size (35)
  MAX_DEPTH,       \* the largest depth there is (255)
  CHUNK,           \* bytes of a chunk (4096)
  BLOCK_TIME       \* seconds of a block (5 on Gnosis, 15 on mainnet)

Table == DOMAIN Breakpoint

TheoreticalBytes(depth) == CHUNK * 2^depth

\* 0.9 of the theoretical capacity beyond the table, nothing before it.
EffectiveBytes(depth) ==
  IF depth \in Table THEN Breakpoint[depth]
  ELSE IF \E d \in Table : depth < d THEN 0
  ELSE (TheoreticalBytes(depth) * 9) \div 10

Covered(size) == \E d \in Table : size <= Breakpoint[d]

DepthForSize(size) ==
  IF Covered(size)
  THEN CHOOSE d \in Table : /\ size <= Breakpoint[d]
                            /\ \A e \in Table : size <= Breakpoint[e] => d <= e
  ELSE FALLBACK_DEPTH

StampCost(depth, amount) == 2^depth * amount

\* The refill projection counts whole blocks alone.
WholeBlocks(seconds) == seconds \div BLOCK_TIME

SecondsToBlocks(seconds) == (seconds + BLOCK_TIME - 1) \div BLOCK_TIME

BlocksToSeconds(blocks) == blocks * BLOCK_TIME

\* The table has no gap, it is increasing, and what lies beyond it holds more.
ASSUME StampMathAssumption ==
  /\ FALLBACK_DEPTH \in Nat /\ MAX_DEPTH \in Nat /\ FALLBACK_DEPTH <= MAX_DEPTH
  /\ BLOCK_TIME \in Nat \ {0} /\ CHUNK \in Nat
  /\ Table \subseteq 0 .. FALLBACK_DEPTH - 1
  /\ \A d \in Table : Breakpoint[d] \in Nat /\ d .. FALLBACK_DEPTH - 1 \subseteq Table
  /\ \A d, e \in Table : d <= e => Breakpoint[d] <= Breakpoint[e]
  /\ \A d \in Table, e \in FALLBACK_DEPTH .. MAX_DEPTH :
       Breakpoint[d] <= EffectiveBytes(e)
=============================================================================
