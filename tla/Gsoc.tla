-------------------------------- MODULE Gsoc --------------------------------
(***************************************************************************)
(* Mining a key for a neighbourhood (swarm/gsoc.rs), and publishing under  *)
(* it (examples/gsoc-mined-pubsub.rs).  Keys are numbers tried one after   *)
(* the other; where their chunks of the one identifier lie is any          *)
(* function, for it is a hash.                                             *)
(*                                                                         *)
(* All messages of the example go to one address, so the node keeps only   *)
(* the last; it tells the subscriber of what it has when it gets to it,    *)
(* perhaps again when the chunk reaches it another way.                    *)
(***************************************************************************)
EXTENDS Naturals, Sequences, FiniteSets

CONSTANTS
  GSOC_MINE_START, \* the first key tried
  TRIES,           \* the length of the search window
  ADDRESS_BYTES,
  BYTE_BITS,
  MESSAGES         \* what the example sends: 1..MESSAGES

ASSUME GsocAssumption ==
  /\ GSOC_MINE_START \in Nat /\ TRIES \in Nat /\ MESSAGES \in Nat \ {0}
  /\ ADDRESS_BYTES \in Nat \ {0} /\ BYTE_BITS \in Nat \ {0}

VARIABLES
  lies,   \* where the chunks of each key lie
  search, \* what is searched for: an overlay and a proximity to it
  phase,  \* of the example: "mining", "no key", "open", "all", "mismatch" or "ended"
  mined,  \* the key found
  stored, \* the message the node has at the key's address; 0 is none
  told,   \* the notifications it has sent to the subscriber
  queue,  \* messages the subscriber has been sent and has not taken
  sender, \* messages the sender has sent
  taken   \* messages the receiver has taken

pubsub   == <<stored, told, queue, sender, taken>>
gsocVars == <<lies, search, phase, mined, pubsub>>

Overlay == [1..ADDRESS_BYTES -> [1..BYTE_BITS -> {0, 1}]]

\* The range of the loop ends before TRIES, the last number of the documented one.
Window == GSOC_MINE_START .. GSOC_MINE_START + TRIES - 1

\* Where the chunks lie, and what is searched for, is the instance's to say.
GsocInit ==
  /\ phase = "mining" /\ mined = 0
  /\ stored = 0 /\ told = <<>> /\ queue = <<>> /\ sender = 0 /\ taken = 0

-----------------------------------------------------------------------------

Least(S) == CHOOSE n \in S : \A m \in S : n <= m

\* Mutant: the bits after the first difference count, too.
CommonBits(a, b) == Cardinality({j \in DOMAIN a : a[j] = b[j]})

LeadingBits(a, b) ==
  LET differ == {j \in DOMAIN a : a[j] # b[j]}
  IN  IF differ = {} THEN Len(a) ELSE Least(differ) - 1

\* Byte by byte, and bit by bit in the first byte that differs.
Proximity(a, b) ==
  LET differ == {i \in DOMAIN a : a[i] # b[i]}
  IN  IF Len(a) # Len(b) THEN 0
      ELSE IF differ = {} THEN BYTE_BITS * Len(a)
      ELSE LET i == Least(differ) IN BYTE_BITS * (i - 1) + LeadingBits(a[i], b[i])

Near(key) == Proximity(lies[key], search.overlay) >= search.proximity

\* gsoc_mine.
GsocMine ==
  /\ phase = "mining"
  /\ LET near == {key \in Window : Near(key)}
     IN  IF near = {} THEN phase' = "no key" /\ UNCHANGED mined
         ELSE phase' = "open" /\ mined' = Least(near)
  /\ UNCHANGED <<lies, search, pubsub>>

-----------------------------------------------------------------------------
(* The node and the program's two tasks.                                   *)

Quiet == UNCHANGED <<lies, search, mined>>

GsocSend ==
  /\ phase = "open" /\ sender < MESSAGES
  /\ sender' = sender + 1 /\ stored' = sender + 1
  /\ UNCHANGED <<phase, told, queue, taken>> /\ Quiet

\* One notification more than there are messages (a bound).
GsocNotify ==
  /\ phase = "open" /\ stored # 0 /\ Len(told) <= MESSAGES
  /\ told' = Append(told, stored) /\ queue' = Append(queue, stored)
  /\ UNCHANGED <<phase, stored, sender, taken>> /\ Quiet

\* Mutant: any message will do for the next.
GsocTakeAny ==
  /\ phase = "open" /\ queue # <<>>
  /\ queue' = Tail(queue) /\ taken' = taken + 1
  /\ phase' = IF taken + 1 = MESSAGES THEN "all" ELSE "open"
  /\ UNCHANGED <<stored, told, sender>> /\ Quiet

\* The next message must be the next that is expected.
GsocTake ==
  /\ phase = "open" /\ queue # <<>>
  /\ queue' = Tail(queue)
  /\ IF Head(queue) = taken + 1
     THEN taken' = taken + 1 /\ phase' = IF taken + 1 = MESSAGES THEN "all" ELSE "open"
     ELSE phase' = "mismatch" /\ UNCHANGED taken
  /\ UNCHANGED <<stored, told, sender>> /\ Quiet

\* A send that fails ends the sender, and the receiver waits in vain; or nothing
\* comes within 15 seconds, or the subscription closes.
GsocGivesUp ==
  /\ phase = "open"
  /\ phase' = "ended"
  /\ UNCHANGED pubsub /\ Quiet

GsocNext == GsocMine \/ GsocSend \/ GsocNotify \/ GsocTake \/ GsocGivesUp

GsocSpec == GsocInit /\ [][GsocNext]_gsocVars

-----------------------------------------------------------------------------
(* Correctness.                                                            *)

Bit(address, n) == address[(n - 1) \div BYTE_BITS + 1][((n - 1) % BYTE_BITS) + 1]

Agree(key) ==
  /\ search.proximity <= ADDRESS_BYTES * BYTE_BITS
  /\ \A n \in 1..search.proximity : Bit(lies[key], n) = Bit(search.overlay, n)

\* A key that was mined is the first whose chunks share as many leading bits with
\* the overlay as was asked for, counted over the byte borders; and no key is
\* reported missing when one before the end of the window has them.
MinedIsNear ==
  CASE phase = "mining" -> TRUE
    [] phase = "no key" ->
         \A key \in Window : ~Agree(key)
    [] OTHER -> Agree(mined) /\ \A key \in GSOC_MINE_START .. mined - 1 : ~Agree(key)

\* The example ends well only when the node notified the subscriber of each message
\* before the next replaced it, in their order and of none twice until then; and it
\* takes exception only when a notification was left out or repeated.
AllWereHeard ==
  LET InOrder == \A i \in DOMAIN told : i <= MESSAGES => told[i] = i
  IN  /\ phase = "all" => InOrder /\ Len(told) >= MESSAGES
      /\ phase = "mismatch" => ~InOrder
=============================================================================
