-------------------------------- MODULE Soc ---------------------------------
(***************************************************************************)
(* Single-owner chunks: made and signed (swarm/soc.rs, swarm/keys.rs),     *)
(* uploaded and read back (file/soc.rs).  A chunk lies at the hash of its  *)
(* identifier and owner; what binds its contents to that address is the    *)
(* signature, which the reader verifies whatever the node delivers.        *)
(*                                                                         *)
(* Cryptography is symbolic: a hash is the tuple of what was hashed, and a *)
(* signature names its key and digest.  A segment of the Merkle tree is    *)
(* one byte.                                                               *)
(***************************************************************************)
EXTENDS Naturals, Sequences, FiniteSets

CONSTANTS
  PrivateKey,  \* numbers; 0 is none
  Identifier,
  Byte,        \* the bytes of payloads, among them 0
  LEVELS,      \* the levels of the Merkle tree
  Body,        \* the payloads that are written
  MaxMade      \* bound: chunks that are made

CHUNK_SIZE == 2 ^ LEVELS

ASSUME SocAssumption ==
  /\ PrivateKey \subseteq Nat \ {0} /\ LEVELS \in Nat /\ MaxMade \in Nat
  /\ 0 \in Byte /\ Body \subseteq Seq(Byte)

VARIABLES
  made,     \* the chunks that were made and signed
  posting,  \* those whose request is on its way
  kept,     \* what the node has at the address of an identifier and owner
  reading   \* the latest download: what was asked for and what it returned

socVars == <<made, posting, kept, reading>>

-----------------------------------------------------------------------------
(* Hashes and signatures.                                                  *)

Keccak(x) == <<"keccak256", x>>
EthSignedMessageDigest(data) == Keccak(<<"Ethereum Signed Message", Keccak(data)>>)

Point(key)   == <<"point", key>>
Address(key) == Keccak(Point(key))

\* The recovery id is some bit of the signature, and travels in V.
RecoveryId(key) == key % 2

Sign(key, data) ==
  [by |-> key, digest |-> EthSignedMessageDigest(data), v |-> RecoveryId(key) + 27]

\* The key a signature is by; over other data it is that of nobody: 0.
RecoverPublicKey(sig, data) ==
  IF /\ RecoveryId(sig.by) = IF sig.v >= 27 THEN sig.v - 27 ELSE sig.v
     /\ sig.digest = EthSignedMessageDigest(data)
  THEN sig.by ELSE 0

-----------------------------------------------------------------------------
(* Chunks.                                                                 *)

Padded(payload) ==
  [i \in 1..CHUNK_SIZE |-> IF i <= Len(payload) THEN payload[i] ELSE 0]

BmtRoot(segments) ==
  LET Level[k \in 0..LEVELS] ==
        IF k = 0 THEN segments
        ELSE [i \in 1..(2 ^ (LEVELS - k)) |->
                Keccak(<<Level[k - 1][2 * i - 1], Level[k - 1][2 * i]>>)]
  IN  Level[LEVELS][1]

ChunkAddress(span, payload) == Keccak(<<span, BmtRoot(Padded(payload))>>)

SocAddress(identifier, owner) == Keccak(<<identifier, owner>>)

\* What the owner signs.
Signed(soc) == <<soc.identifier, ChunkAddress(soc.span, soc.payload)>>

Fits(payload) == Len(payload) <= CHUNK_SIZE

MakeSingleOwnerChunk(identifier, payload, signer) ==
  LET soc == [identifier |-> identifier, span |-> Len(payload), payload |-> payload]
  IN  [identifier |-> identifier, span |-> Len(payload), payload |-> payload,
       signature |-> Sign(signer, Signed(soc)), owner |-> Address(signer)]

\* The wire form has everything but the owner.
Wire(soc) == [soc EXCEPT !.owner = Address(0)]

Signer(wire) == RecoverPublicKey(wire.signature, Signed(wire))

\* Mutant: any signature that recovers will do.
UnmarshalsUnaddressed(wire, expected) == Fits(wire.payload) /\ Signer(wire) # 0

\* Whether the bytes parse as the chunk of this address.
Unmarshals(wire, expected) ==
  /\ Fits(wire.payload)
  /\ SocAddress(wire.identifier, Address(Signer(wire))) = expected

-----------------------------------------------------------------------------
(* Writers.                                                                *)

NotRead == [asked |-> <<>>, ok |-> FALSE, intact |-> FALSE, wire |-> <<>>]

SocInit ==
  /\ made = {} /\ posting = {} /\ kept = <<>> /\ reading = NotRead

Keep(soc) ==
  LET address == SocAddress(soc.identifier, soc.owner)
  IN  kept' = [a \in DOMAIN kept \cup {address} |-> IF a = address THEN soc ELSE kept[a]]

Posted(soc) == posting' = posting \cup {soc}

\* SocWriter::upload and GsocApi::send.  A payload that is too large, or a key
\* that is none, is refused before anything is sent.
SocUpload(signer, identifier, payload) ==
  /\ Fits(payload) /\ Cardinality(made) < MaxMade
  /\ LET soc == MakeSingleOwnerChunk(identifier, payload, signer)
     IN  made' = made \cup {soc} /\ Posted(soc)
  /\ UNCHANGED <<kept, reading>>

\* The node stores a chunk, in whatever order the requests arrive.
SocStored(soc) ==
  /\ soc \in posting
  /\ posting' = posting \ {soc} /\ Keep(soc)
  /\ UNCHANGED <<made, reading>>

SocLost(soc) ==
  /\ soc \in posting
  /\ posting' = posting \ {soc}
  /\ UNCHANGED <<made, kept, reading>>

-----------------------------------------------------------------------------
(* Readers.                                                                *)

\* What a node may deliver: parts of the chunks that were made, put together
\* anyhow, the recovery id in any of its forms.
Deliverable ==
  {[identifier |-> i, owner |-> Address(0), span |-> n, payload |-> p,
    signature |-> [s.signature EXCEPT !.v = v]] :
      i \in Identifier, n \in 0..CHUNK_SIZE, s \in made, v \in {0, 1, 26, 27, 28},
      p \in UNION {[1..k -> Byte] : k \in 0..(CHUNK_SIZE + 1)}}

\* SocReader::download; bytes too short to parse fail like any other.  A download
\* leaves nothing behind for the next: one is looked at (a bound).
SocDownload(owner, identifier, wire) ==
  LET address == SocAddress(identifier, owner)
      ok == Unmarshals(wire, address)
  IN  /\ reading = NotRead
      /\ reading' = [asked |-> <<identifier, owner>>, ok |-> ok,
                     intact |-> address \in DOMAIN kept /\ wire = Wire(kept[address]),
                     wire |-> IF ok THEN wire ELSE <<>>]
      /\ UNCHANGED <<made, posting, kept>>

-----------------------------------------------------------------------------
SocNext ==
  \/ \E key \in PrivateKey, i \in Identifier, p \in Body : SocUpload(key, i, p)
  \/ \E soc \in posting : SocStored(soc) \/ SocLost(soc)
  \/ \E key \in PrivateKey, i \in Identifier, wire \in Deliverable :
        SocDownload(Address(key), i, wire)

SocSpec == SocInit /\ [][SocNext]_socVars

-----------------------------------------------------------------------------
(* Correctness.                                                            *)

SameUpToZeros(p, q) == Padded(p) = Padded(q)

\* Whatever the node delivers, a download that succeeds returns a chunk that the
\* owner asked for has signed under the identifier asked for, with its span and
\* its payload (of which zeros at the end may be missing, or have been added: the
\* signature does not tell them from padding).  And whatever was uploaded in the
\* meantime, a chunk delivered as it is kept is read.
DownloadIsTheOwners ==
  /\ reading.ok => \E soc \in made :
       /\ reading.asked = <<soc.identifier, soc.owner>>
       /\ reading.wire.identifier = soc.identifier /\ reading.wire.span = soc.span
       /\ SameUpToZeros(reading.wire.payload, soc.payload)
  /\ reading.intact => reading.ok
=============================================================================
