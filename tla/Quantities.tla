----------------------------- MODULE Quantities -----------------------------
(***************************************************************************)
(* Token amounts and durations in their texts: swarm/tokens.rs and         *)
(* swarm/duration.rs.  A decimal is a sign, the digits before and the      *)
(* digits after the point; a duration is a sequence of parts, a number and *)
(* a unit.  Amounts are big integers.  Durations are parsed in floats,     *)
(* which are exact for the whole numbers below EXACT that a duration is    *)
(* rendered with; fractions, milliseconds and sizes, which are rounded in  *)
(* binary, are left out.                                                   *)
(***************************************************************************)
EXTENDS Integers, SequencesExt, Positional

CONSTANTS
  BZZ_DIGITS, DAI_DIGITS, \* fractional digits of the tokens (16 and 18)
  EXACT,                  \* bound: whole seconds of a float are exact below (2^53)
  Amount,                 \* base units to convert, negative ones included
  Decimal,                \* decimals to parse
  Second,                 \* durations to render, in seconds
  Untyped                 \* nothing was typed

VARIABLE typed            \* what a user typed, or a program has to render

DecimalText == [negative : BOOLEAN, int : Seq(0..9), frac : Seq(0..9)]

ASSUME QuantitiesAssumption ==
  /\ {BZZ_DIGITS, DAI_DIGITS, EXACT} \subseteq Nat \ {0}
  /\ Amount \subseteq Int /\ Second \subseteq 0 .. EXACT - 1
  /\ Decimal \subseteq DecimalText

Abs(n) == IF n < 0 THEN -n ELSE n

\* BigInt division cuts towards zero.
Quot(a, b) == IF a < 0 THEN -(Abs(a) \div b) ELSE a \div b

CeilDiv(a, b) == (a + b - 1) \div b

Zeros(n) == [i \in 1..n |-> 0]

Digits[n \in Nat] ==
  IF n < 10 THEN <<n>> ELSE Append(Digits[n \div 10], n % 10)

-----------------------------------------------------------------------------
(* Token amounts.                                                          *)

Taken(s, n) == SubSeq(s, 1, IF Len(s) < n THEN Len(s) ELSE n)

\* decimal_to_base_units: digits beyond the precision are cut off.
DecimalToBaseUnits(s, digits) ==
  LET frac == Taken(s.frac, digits)
      v    == ValueOf(10, s.int \o frac \o Zeros(digits - Len(frac)))
  IN  IF s.negative THEN -v ELSE v

BaseUnitsToDecimal(v, digits) ==
  LET denom == Power(10, digits)
      frac  == Digits[Abs(v) % denom]
  IN  [negative |-> v < 0, int |-> Digits[Abs(v) \div denom],
       frac |-> Zeros(digits - Len(frac)) \o frac]

\* The rate is DAI for one BZZ, in wei.
ExchangeToDai(plur, rate) == Quot(plur * rate, Power(10, BZZ_DIGITS))
ExchangeToBzz(wei, rate)  == Quot(wei * Power(10, BZZ_DIGITS), rate)

-----------------------------------------------------------------------------
(* Durations.                                                              *)

MINUTE == 60
HOUR   == 60 * MINUTE
DAY    == 24 * HOUR

UnitToSeconds ==
  [s |-> 1, m |-> MINUTE, h |-> HOUR, d |-> DAY, w |-> 7 * DAY,
   month |-> 30 * DAY, y |-> 365 * DAY]

SecondsOf(part) == part.n * UnitToSeconds[part.unit]

\* Duration::from_str, of whole parts of less than EXACT seconds together.
ParseDuration(parts) == Total([i \in DOMAIN parts |-> SecondsOf(parts[i])])

RenderedUnits == <<"y", "w", "d", "h", "m", "s">>

\* Of a unit as many as fit, and what is left.
Take(acc, unit) ==
  LET size == UnitToSeconds[unit]
  IN  IF acc.left < size THEN acc
      ELSE [left  |-> acc.left % size,
            parts |-> Append(acc.parts, [n |-> acc.left \div size, unit |-> unit])]

\* The rendering "1y 4w 2d 3h 5m 30s".
DurationParts(seconds) ==
  LET acc[k \in 0..6] == IF k = 0 THEN [left |-> seconds, parts |-> <<>>]
                         ELSE Take(acc[k - 1], RenderedUnits[k])
  IN  IF seconds = 0 THEN <<[n |-> 0, unit |-> "s"]>> ELSE acc[6].parts

-----------------------------------------------------------------------------
\* One thing is typed, or rendered.
TypedInit ==
  \/ \E v \in Amount   : typed = [kind |-> "amount", value |-> v]
  \/ \E s \in Decimal  : typed = [kind |-> "decimal", value |-> s]
  \/ \E s \in Second   : typed = [kind |-> "duration", value |-> s]

-----------------------------------------------------------------------------
(* Correctness.                                                            *)

Precision == {BZZ_DIGITS, DAI_DIGITS}

\* An amount, negative or below one unit of the token too, is what its decimal gives.
AmountReadsBack(v) ==
  \A digits \in Precision :
    DecimalToBaseUnits(BaseUnitsToDecimal(v, digits), digits) = v

\* A decimal with more digits than the token has is rendered as itself with those
\* digits gone, never rounded up.
DecimalReadsBack(s) ==
  \A digits \in Precision :
    LET v    == DecimalToBaseUnits(s, digits)
        back == BaseUnitsToDecimal(v, digits)
    IN  /\ Len(back.frac) = digits
        /\ v # 0 => back.negative = s.negative
        /\ ValueOf(10, back.int \o Taken(back.frac, Len(s.frac)))
             = ValueOf(10, s.int \o Taken(s.frac, digits))

\* Nobody gains by exchanging an amount and back, and what is lost is no more than
\* the plur that one wei is worth; for a debt too.
ExchangeNeverGains(v) ==
  \A rate \in {r \in Amount : r > 0} :
    LET back == ExchangeToBzz(ExchangeToDai(v, rate), rate)
    IN  /\ Abs(back) <= Abs(v)
        /\ Abs(v) - Abs(back) <= CeilDiv(Power(10, BZZ_DIGITS), rate)
        /\ back * v >= 0

\* A duration rendered and parsed is the same one, and no unit is rendered that a
\* larger one should have taken.
DurationReadsBack(s) ==
  LET parts == DurationParts(s)
  IN  /\ ParseDuration(parts) = s
      /\ \A i, j \in DOMAIN parts : i < j =>
           SecondsOf(parts[j]) < UnitToSeconds[parts[i].unit]

\* What a user types is what is charged, stored and shown again (tokens.rs and
\* duration.rs): every amount, decimal and whole duration converts there and back, and
\* what does not fit is cut on the side the code documents.
QuantitiesReadBack ==
  typed # Untyped =>
    CASE typed.kind = "amount"   -> AmountReadsBack(typed.value) /\ ExchangeNeverGains(typed.value)
      [] typed.kind = "decimal"  -> DecimalReadsBack(typed.value)
      [] typed.kind = "duration" -> DurationReadsBack(typed.value)
=============================================================================
