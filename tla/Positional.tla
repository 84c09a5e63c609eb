------------------------------ MODULE Positional ------------------------------
(***************************************************************************)
(* Numbers in digits to a base, the most significant first: what the       *)
(* conversions of amounts (swarm/tokens.rs), of fixed width numbers        *)
(* (swarm/typed_bytes.rs) and of groups of bits (swarm/cid.rs) count with. *)
(***************************************************************************)
EXTENDS Naturals, Sequences

Power(b, n) ==
  LET p[i \in 0..n] == IF i = 0 THEN 1 ELSE b * p[i - 1]
  IN  p[n]

ValueOf(b, digits) ==
  LET v[i \in 0..Len(digits)] == IF i = 0 THEN 0 ELSE b * v[i - 1] + digits[i]
  IN  v[Len(digits)]

\* Without weights the digits are added up.
Total(numbers) == ValueOf(1, numbers)
=============================================================================
