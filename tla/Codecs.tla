------------------------------- MODULE Codecs -------------------------------
(***************************************************************************)
(* How bytes are written and read: hex (swarm/bytes.rs and the types of    *)
(* swarm/typed_bytes.rs), the checksummed form of an address, the fixed    *)
(* width numbers, CIDs in base 32 (swarm/cid.rs), the short form of a      *)
(* public key (swarm/keys.rs), and the name of a file in a header          *)
(* (api/result.rs).  A text is a sequence of character codes: in hex the   *)
(* value of the digit, with UPPER added for a capital, or X.               *)
(***************************************************************************)
EXTENDS Naturals, Sequences, FiniteSets, SequencesExt, Positional

CONSTANTS
  ByteString,        \* byte strings to encode
  REFERENCE_LENGTH,  \* bytes of a plain reference (32)
  WORD,              \* bytes of a span and of an index (8)
  Radix,             \* values of one of their bytes (256)
  CurveOrder,        \* the prime of the curve y^2 = x^3 + 7
  FileName,          \* names of files
  Uncoded,           \* nothing was encoded
  Refused            \* an error

VARIABLE coded       \* what is encoded: its kind and value

ASSUME CodecsAssumption ==
  /\ REFERENCE_LENGTH \in Nat \ {0} /\ WORD \in Nat \ {0} /\ Radix \in Nat \ {0, 1}
  /\ ByteString \subseteq Seq(0..255) /\ Refused \notin Seq(Nat)
  /\ \A name \in FileName : name \in Seq(Range(name))

\* A prime divides no product of smaller numbers.
OddPrime(p) == p \in Nat /\ p % 2 = 1 /\ \A a, b \in 1 .. p - 1 : (a * b) % p # 0

ASSUME CurveAssumption == OddPrime(CurveOrder)

-----------------------------------------------------------------------------
(* Hex.                                                                    *)

X     == 100
UPPER == 50
Capital(c) == IF c \in 10..15 THEN c + UPPER ELSE c
Digit(c)   == IF c > 15 THEN c - UPPER ELSE c

EncodeHex(bytes) ==
  [i \in 1 .. 2 * Len(bytes) |->
     IF i % 2 = 1 THEN bytes[(i + 1) \div 2] \div 16 ELSE bytes[i \div 2] % 16]

\* One prefix is stripped; capitals are as good as small letters.
DecodeHex(text) ==
  LET s == IF IsPrefix(<<0, X>>, text) THEN SubSeq(text, 3, Len(text)) ELSE text
  IN  IF Len(s) % 2 = 1 \/ X \in Range(s) THEN Refused
      ELSE [i \in 1..(Len(s) \div 2) |-> 16 * Digit(s[2 * i - 1]) + Digit(s[2 * i])]

\* A type of fixed length; a reference has either of two.
Typed(lengths, bytes) == IF bytes # Refused /\ Len(bytes) \in lengths THEN bytes ELSE Refused

ReferenceLengths == {REFERENCE_LENGTH, 2 * REFERENCE_LENGTH}

\* to_checksum: the digits for which the hash has a large nibble become capitals.
ToChecksum(bytes, large) ==
  LET lower == EncodeHex(bytes)
  IN  <<0, X>> \o [i \in DOMAIN lower |-> IF i \in large THEN Capital(lower[i]) ELSE lower[i]]

-----------------------------------------------------------------------------
(* Numbers of a fixed width.                                               *)

BigEndian(n)    == [i \in 1..WORD |-> (n \div Power(Radix, WORD - i)) % Radix]
LittleEndian(n) == Reverse(BigEndian(n))
ToNumber(bytes) == ValueOf(Radix, bytes)

MINUS_ONE == [i \in 1..WORD |-> Radix - 1]

NextIndex(index) == IF index = MINUS_ONE THEN BigEndian(0) ELSE BigEndian(ToNumber(index) + 1)

-----------------------------------------------------------------------------
(* CIDs.                                                                   *)

Codec == [manifest |-> 250, feed |-> 251]

Low(n, bits)  == n % Power(2, bits)
High(n, bits) == n \div Power(2, bits)

\* Eight bits in, and out as many groups of five as there are.
TakeByte(acc, b) ==
  LET bits   == acc.bits + 8
      buffer == acc.buffer * 256 + b
  IN  [bits   |-> bits % 5,
       buffer |-> Low(buffer, bits % 5),
       out    |-> acc.out \o [k \in 1..(bits \div 5) |-> Low(High(buffer, bits - 5 * k), 5)]]

Start == [bits |-> 0, buffer |-> 0, out |-> <<>>]

Grouped(bytes) ==
  LET acc[i \in 0..Len(bytes)] == IF i = 0 THEN Start ELSE TakeByte(acc[i - 1], bytes[i])
  IN  acc[Len(bytes)]

\* Mutant: what is left of the last byte is not written.
B32Unfinished(bytes) == Grouped(bytes).out

B32Encode(bytes) ==
  LET end == Grouped(bytes)
  IN  IF end.bits = 0 THEN end.out ELSE Append(end.out, end.buffer * Power(2, 5 - end.bits))

TakeChar(acc, v) ==
  LET bits   == acc.bits + 5
      buffer == acc.buffer * 32 + v
  IN  IF bits < 8 THEN [acc EXCEPT !.bits = bits, !.buffer = buffer]
      ELSE [bits |-> bits - 8, buffer |-> Low(buffer, bits - 8),
            out  |-> Append(acc.out, High(buffer, bits - 8))]

\* Bits that fill no byte are dropped, whatever they are.
B32Decode(text) ==
  LET acc[i \in 0..Len(text)] == IF i = 0 THEN Start ELSE TakeChar(acc[i - 1], text[i])
  IN  acc[Len(text)].out

\* The header and the reference are encoded one after the other.
ReferenceToCid(reference, kind) ==
  IF Len(reference) # REFERENCE_LENGTH THEN Refused
  ELSE B32Encode(<<1, Codec[kind], 1, 27, 32>>) \o B32Encode(reference)

\* The codec is the second byte, the reference the last ones.
CidToReference(cid) ==
  LET bytes == B32Decode(cid)
  IN  IF Len(bytes) < REFERENCE_LENGTH \/ ~(\E kind \in DOMAIN Codec : Codec[kind] = bytes[2])
      THEN Refused
      ELSE <<CHOOSE kind \in DOMAIN Codec : Codec[kind] = bytes[2],
             SubSeq(bytes, Len(bytes) - REFERENCE_LENGTH + 1, Len(bytes))>>

-----------------------------------------------------------------------------
(* Public keys.  The long form is taken as it is, the short one must give a *)
(* point of the curve.                                                     *)

Field == 0 .. CurveOrder - 1

OnCurve(p) == (p[2] * p[2]) % CurveOrder = (p[1] * p[1] * p[1] + 7) % CurveOrder

Compressed(p) == IF OnCurve(p) THEN <<2 + (p[2] % 2), p[1]>> ELSE Refused

PublicKey(short) ==
  LET points == {p \in {short[2]} \X Field : OnCurve(p) /\ p[2] % 2 = short[1] - 2}
  IN  IF points = {} THEN Refused ELSE CHOOSE p \in points : TRUE

-----------------------------------------------------------------------------
(* The name of a file, quoted in a Content-Disposition header.             *)

QUOTE == "quote"
SEMICOLON == "semicolon"
TICK == "tick"

Quoted(name) == <<QUOTE>> \o name \o <<QUOTE>>

Before(text, c) ==
  LET at == {i \in DOMAIN text : text[i] = c}
  IN  IF at = {} THEN text
      ELSE SubSeq(text, 1, (CHOOSE i \in at : \A j \in at : i <= j) - 1)

\* What follows the first two ticks, or everything.
AfterTicks(text) ==
  LET at == {i \in 1 .. Len(text) - 1 : text[i] = TICK /\ text[i + 1] = TICK}
  IN  IF at = {} THEN text
      ELSE SubSeq(text, (CHOOSE i \in at : \A j \in at : i <= j) + 2, Len(text))

\* parse_content_disposition_filename, of the header's value of filename=.
ParseFileName(header) ==
  LET value == AfterTicks(Before(header, SEMICOLON))
  IN  IF Len(value) >= 2 /\ value[1] = QUOTE /\ Last(value) = QUOTE
      THEN SubSeq(value, 2, Len(value) - 1) ELSE value

-----------------------------------------------------------------------------
\* One thing is encoded.
CodedInit ==
  \/ \E b \in ByteString : coded = [kind |-> "bytes", value |-> b]
  \/ \E n \in 0 .. Power(Radix, WORD) - 1 : coded = [kind |-> "number", value |-> n]
  \/ \E p \in Field \X Field : coded = [kind |-> "point", value |-> p]
  \/ \E name \in FileName : coded = [kind |-> "name", value |-> name]

-----------------------------------------------------------------------------
(* Correctness.                                                            *)

\* Small letters, capitals, any checksum, and with a prefix or without: all of them
\* read as the bytes, and only a type of that length takes them.
HexReadsBack(bytes) ==
  LET text == EncodeHex(bytes)
  IN  /\ \A form \in {text, <<0, X>> \o text, [i \in DOMAIN text |-> Capital(text[i])]}
                      \cup {ToChecksum(bytes, large) : large \in SUBSET DOMAIN text} :
           /\ DecodeHex(form) = bytes
           /\ Typed({REFERENCE_LENGTH}, DecodeHex(form)) # Refused
                <=> Len(bytes) = REFERENCE_LENGTH
      /\ DecodeHex(<<0, X, 0, X>> \o text) = Refused

\* The CID of a reference gives it back with its kind; an encrypted one has none.
CidReadsBack(bytes) ==
  Typed(ReferenceLengths, bytes) # Refused =>
    \A kind \in DOMAIN Codec :
      LET cid == ReferenceToCid(bytes, kind)
      IN  IF cid = Refused THEN Len(bytes) > REFERENCE_LENGTH
          ELSE CidToReference(cid) = <<kind, bytes>>

\* Both orders of bytes give the number back, and the index after the last is the
\* first: the successor never leaves the width.
NumberReadsBack(n) ==
  /\ ToNumber(BigEndian(n)) = n /\ ToNumber(Reverse(LittleEndian(n))) = n
  /\ ToNumber(NextIndex(BigEndian(n))) = (n + 1) % Power(Radix, WORD)

\* The short form gives the key back; what is no point of the curve has none.
PointReadsBack(p) ==
  LET short == Compressed(p)
  IN  IF OnCurve(p) THEN PublicKey(short) = p ELSE short = Refused

\* A quoted name is read as it is exactly when it has no semicolon and no two ticks.
NameReadsBack(name) ==
  ParseFileName(Quoted(name)) = name <=>
    ~\E i \in DOMAIN name : \/ name[i] = SEMICOLON
                            \/ name[i] = TICK /\ i < Len(name) /\ name[i + 1] = TICK

\* What the client writes it reads back, over the borders of digits, bytes and
\* groups of bits: hex, checksums, CIDs, numbers at the ends of their width, keys,
\* and the names of files with the marks that headers give a meaning.
EncodingsReadBack ==
  coded # Uncoded =>
    CASE coded.kind = "bytes"  -> HexReadsBack(coded.value) /\ CidReadsBack(coded.value)
      [] coded.kind = "number" -> NumberReadsBack(coded.value)
      [] coded.kind = "point"  -> PointReadsBack(coded.value)
      [] coded.kind = "name"   -> NameReadsBack(coded.value)
=============================================================================
