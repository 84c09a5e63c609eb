----------------------------- MODULE MCStorage -----------------------------
(* A table of three depths; sizes at a breakpoint, one above it, and beyond *)
(* the table; durations that are cut, and that do not fill their last block.*)
(* Beside it, the conversions of Quantities with short fractions, for every *)
(* amount around nought, decimals with too many digits, and durations about *)
(* the bounds of the units.  And those of Codecs, with references of two    *)
(* bytes, words of three digits to the base 4, and a curve over eleven      *)
(* numbers.                                                                 *)
EXTENDS Storage, Conversions, TLC

Breakpoints == 2 :> 1 @@ 3 :> 6 @@ 4 :> 14

Amounts == -120 .. 120

DigitStrings == UNION {[1..n -> {0, 1, 9}] : n \in 0..3}
Decimals == [negative : BOOLEAN, int : DigitStrings \ {<<>>}, frac : DigitStrings]

Durations == UNION {k - 1 .. k + 1 : k \in
  {1, MINUTE, HOUR, DAY, 7 * DAY, 30 * DAY, 365 * DAY, 365 * DAY + 29 * DAY + HOUR}}

ByteStrings == UNION {[1..n -> {0, 1, 171, 255}] : n \in 0..4}
FileNames   == UNION {[1..n -> {"a", TICK, SEMICOLON}] : n \in 0..3}

\* Either the programs run, or one value is converted or encoded.
MCInit ==
  /\ Init
  /\ \/ typed = Untyped /\ coded = Uncoded
     \/ ConversionsInit

MCNext == typed = Untyped /\ coded = Uncoded /\ Next /\ UNCHANGED <<typed, coded>>

MCSpec == MCInit /\ [][MCNext]_<<vars, typed, coded>> /\ Fairness
=============================================================================
