----------------------------- MODULE Conversions -----------------------------
(***************************************************************************)
(* What the client writes down and reads: a quantity of Quantities, or     *)
(* something that Codecs encodes, of any kind and value.                   *)
(***************************************************************************)
EXTENDS Quantities, Codecs

ConversionsInit ==
  \/ TypedInit /\ coded = Uncoded
  \/ typed = Untyped /\ CodedInit

\* Converting has no other effect.
ConversionsSpec == ConversionsInit /\ [][UNCHANGED <<typed, coded>>]_<<typed, coded>>

\* What is written is read back as it was meant: amounts and durations in
\* their texts, and bytes, numbers, keys and names in their encodings.
ReadBack == QuantitiesReadBack /\ EncodingsReadBack
=============================================================================
