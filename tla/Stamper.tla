------------------------------ MODULE Stamper ------------------------------
(***************************************************************************)
(* Client-side postage stampers (postage/stamper.rs).  A stamper owns one  *)
(* counter per bucket and gives every chunk of that bucket the next slot.  *)
(* A program keeps stampers in several handles: it starts them blank,      *)
(* resumes them from persisted counters (after a crash, or at another      *)
(* depth), clones and drops them.  All of them sign for one batch.         *)
(*                                                                         *)
(* A chunk address is the bucket its first two bytes name.  The lineage of *)
(* a stamper is the stampers it was cloned or resumed from, up to then;    *)
(* past and burnt are its history: the slots issued, and those lost.       *)
(***************************************************************************)
EXTENDS Integers, Sequences

CONSTANTS
  Handle,     \* where a program keeps its stampers
  Bucket,     \* the buckets of a batch (2^16)
  MIN_DEPTH,  \* bucket depth (16)
  Width,      \* bits of max_slot and of a counter (32)
  MaxCounter, \* largest counter value (u32::MAX)
  MaxDepth    \* largest depth a caller asks for (at most 255)

VARIABLES
  stamper,  \* what each handle holds
  saved     \* the counters last persisted

stamperVars == <<stamper, saved>>

None  == [live |-> FALSE]
Index == Bucket \X Nat

\* max_slot: 1u32 << (depth - 16), where a release build takes the distance of
\* the shift modulo the width (a debug build panics: no stamper comes of it).
MaxSlot(depth) == 2^((depth - MIN_DEPTH) % Width)

Depth == (MIN_DEPTH + 1) .. MaxDepth

\* One bit of the width is left for height + 1.
ASSUME StamperAssumption ==
  /\ MIN_DEPTH \in Nat /\ Width \in Nat \ {0}
  /\ MaxCounter \in Nat /\ MaxDepth \in Nat
  /\ \A d \in Depth : MaxSlot(d) \in 0..MaxCounter

\* What the counters stand for: they are all that state() persists.
Counters(s) == [live |-> TRUE, buckets |-> s.buckets,
                past |-> s.past, burnt |-> s.burnt]

Blank == [live |-> TRUE, buckets |-> [b \in Bucket |-> 0],
          past |-> <<>>, burnt |-> {}]

FromState(c, depth) ==
  [live |-> TRUE, buckets |-> c.buckets, past |-> c.past, burnt |-> c.burnt,
   depth |-> depth, max_slot |-> MaxSlot(depth)]

-----------------------------------------------------------------------------
StamperInit ==
  /\ stamper = [h \in Handle |-> None]
  /\ saved = None

\* from_state: a depth at or below the floor is refused.
Construct(h, c, depth) ==
  /\ ~stamper[h].live
  /\ depth > MIN_DEPTH
  /\ stamper' = [stamper EXCEPT ![h] = FromState(c, depth)]
  /\ UNCHANGED saved

FromBlank(h, depth) == Construct(h, Blank, depth)

\* Mutant: the counters are not taken over.
FromSavedBlank(h, depth) ==
  saved.live /\ Construct(h, [saved EXCEPT !.buckets = Blank.buckets], depth)

FromSaved(h, depth) == saved.live /\ Construct(h, saved, depth)

\* Mutant: a full bucket is not noticed.
RoomUnchecked(s, b) == s.live /\ b \in Bucket

Room(s, b) == s.buckets[b] < s.max_slot

Bumped(s, b) == [s EXCEPT !.buckets[b] = @ + 1]

\* Mutant: the height is read after the counter moved.
DoStampAfterBump(h, b) ==
  LET s == Bumped(stamper[h], b)
  IN  /\ stamper[h].live /\ Room(stamper[h], b)
      /\ stamper' = [stamper EXCEPT ![h] =
           [s EXCEPT !.past = Append(@, <<b, s.buckets[b]>>)]]
      /\ UNCHANGED saved

\* stamp(addr): the counter moves before the signature is made.
DoStamp(h, b) ==
  LET s == stamper[h]
  IN  /\ s.live /\ Room(s, b)
      /\ stamper' = [stamper EXCEPT ![h] =
           [Bumped(s, b) EXCEPT !.past = Append(@, <<b, s.buckets[b]>>)]]
      /\ UNCHANGED saved

\* The signature fails: the slot is gone, and no envelope carries it.
SignFails(h, b) ==
  LET s == stamper[h]
  IN  /\ s.live /\ Room(s, b)
      /\ stamper' = [stamper EXCEPT ![h] =
           [Bumped(s, b) EXCEPT !.burnt = @ \cup {<<b, s.buckets[b]>>}]]
      /\ UNCHANGED saved

\* The caller persists state().
Save(h) ==
  /\ stamper[h].live
  /\ saved' = Counters(stamper[h])
  /\ UNCHANGED stamper

\* Clone: the copy counts on by itself.
Clone(h, k) ==
  /\ stamper[h].live /\ ~stamper[k].live
  /\ stamper' = [stamper EXCEPT ![k] = stamper[h]]
  /\ UNCHANGED saved

\* The stamper is dropped, or its process crashes.
Drop(h) ==
  /\ stamper[h].live
  /\ stamper' = [stamper EXCEPT ![h] = None]
  /\ UNCHANGED saved

StamperNext ==
  \E h \in Handle :
    \/ \E d \in 0..MaxDepth : FromBlank(h, d) \/ FromSaved(h, d)
    \/ \E b \in Bucket : DoStamp(h, b) \/ SignFails(h, b)
    \/ \E k \in Handle : Clone(h, k)
    \/ Save(h)
    \/ Drop(h)

StamperSpec == StamperInit /\ [][StamperNext]_stamperVars

-----------------------------------------------------------------------------
(* Correctness.                                                            *)

Counter == 0 .. MaxCounter

CountersRecord ==
  [live : {TRUE}, buckets : [Bucket -> Counter],
   past : Seq(Index), burnt : SUBSET Index]

StamperRecord ==
  [live : {TRUE}, buckets : [Bucket -> Counter],
   past : Seq(Index), burnt : SUBSET Index,
   depth : Depth, max_slot : {MaxSlot(d) : d \in Depth}]

Issued(c) == {c.past[i] : i \in DOMAIN c.past}

\* The lines of counters there are: those of live stampers and the persisted one.
Lines ==
  {stamper[h] : h \in {k \in Handle : stamper[k].live}}
    \cup (IF saved.live THEN {saved} ELSE {})

\* The shapes of a stamper; every counter fits its u32, so height + 1 never
\* overflows, at the depths where the shift wraps too.
TypeOK ==
  /\ stamper \in [Handle -> StamperRecord \cup {None}]
  /\ saved \in CountersRecord \cup {None}

\* Along a line of stampers no slot is issued twice: not by a stamper, and not by
\* one resumed from its counters at whatever depth or cloned from it.
NoSlotTwice ==
  \A c \in Lines : \A i, j \in DOMAIN c.past : i # j => c.past[i] # c.past[j]

\* The counters account for exactly the slots issued or burnt by a failed
\* signature: none is skipped, none lies at or above its counter.
Accounted(c) ==
  /\ \A i \in Issued(c) \cup c.burnt : i[2] < c.buckets[i[1]]
  /\ \A b \in Bucket : \A n \in 0 .. c.buckets[b] - 1 :
       <<b, n>> \in Issued(c) \cup c.burnt

SlotsAccounted == \A c \in Lines : Accounted(c) /\ Issued(c) \cap c.burnt = {}
=============================================================================
