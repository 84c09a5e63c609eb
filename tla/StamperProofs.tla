--------------------------- MODULE StamperProofs ---------------------------
(***************************************************************************)
(* TypeOK, NoSlotTwice and SlotsAccounted for every set of handles and     *)
(* buckets and every depth.  NoSlotTwice alone is not inductive: that the  *)
(* next slot is new follows from every issued slot lying below its         *)
(* counter, which Accounted says.                                          *)
(***************************************************************************)
EXTENDS Stamper, TLAPS

\* What a line of counters satisfies.
LineOK(c) ==
  /\ \A i, j \in DOMAIN c.past : i # j => c.past[i] # c.past[j]
  /\ Accounted(c)
  /\ Issued(c) \cap c.burnt = {}

LinesOK ==
  /\ \A h \in Handle : stamper[h].live => LineOK(stamper[h])
  /\ saved.live => LineOK(saved)

IInv == TypeOK /\ LinesOK

-----------------------------------------------------------------------------
\* What a stamper and a set of counters record, field by field.
LEMMA StamperFields ==
  ASSUME NEW s \in StamperRecord \cup {None}, s.live
  PROVE  /\ s \in StamperRecord
         /\ s.buckets \in [Bucket -> Counter]
         /\ s.past \in Seq(Index)
         /\ s.burnt \in SUBSET Index
         /\ s.max_slot \in {MaxSlot(d) : d \in Depth}
         /\ s.depth \in Depth
<1>1. s # None
  BY DEF None
<1>2. s \in StamperRecord
  BY <1>1
<1>3. QED
  BY <1>2 DEF StamperRecord

\* Counters that were saved have the fields of a state.
LEMMA SavedFields ==
  ASSUME NEW c \in CountersRecord \cup {None}, c.live
  PROVE  /\ c \in CountersRecord
         /\ c.buckets \in [Bucket -> Counter]
         /\ c.past \in Seq(Index)
         /\ c.burnt \in SUBSET Index
<1>1. c # None
  BY DEF None
<1>2. c \in CountersRecord
  BY <1>1
<1>3. QED
  BY <1>2 DEF CountersRecord

\* Resuming keeps the line.
LEMMA FromStateOK ==
  ASSUME NEW c \in CountersRecord, LineOK(c), NEW d \in Depth
  PROVE  FromState(c, d) \in StamperRecord /\ FromState(c, d).live /\ LineOK(FromState(c, d))
<1>1. c.buckets \in [Bucket -> Counter] /\ c.past \in Seq(Index) /\ c.burnt \in SUBSET Index
  BY DEF CountersRecord
<1>2. FromState(c, d) \in StamperRecord
  BY <1>1 DEF FromState, StamperRecord
<1>3. LineOK(FromState(c, d))
  BY <1>1 DEF FromState, LineOK, Accounted, Issued
<1>4. QED
  BY <1>2, <1>3 DEF FromState

\* Persisting keeps the line.
LEMMA CountersOK ==
  ASSUME NEW s \in StamperRecord, LineOK(s)
  PROVE  Counters(s) \in CountersRecord /\ LineOK(Counters(s))
<1>1. s.buckets \in [Bucket -> Counter] /\ s.past \in Seq(Index) /\ s.burnt \in SUBSET Index
  BY DEF StamperRecord
<1>2. Counters(s) \in CountersRecord
  BY <1>1 DEF Counters, CountersRecord
<1>3. LineOK(Counters(s))
  BY <1>1 DEF Counters, LineOK, Accounted, Issued
<1>4. QED
  BY <1>2, <1>3

\* The blank counters account for the empty line.
LEMMA BlankOK == Blank \in CountersRecord /\ LineOK(Blank)
<1>1. 0 \in Counter
  BY StamperAssumption DEF Counter
<1>2. Blank \in CountersRecord
  BY <1>1 DEF Blank, CountersRecord
<1>3. LineOK(Blank)
  BY DEF Blank, LineOK, Accounted, Issued
<1>4. QED
  BY <1>2, <1>3

\* A counter below max_slot has room for its successor.
LEMMA RoomFits ==
  ASSUME NEW s \in StamperRecord, NEW b \in Bucket, Room(s, b)
  PROVE  s.buckets[b] \in Nat /\ s.buckets[b] + 1 \in Counter
<1>1. PICK d \in Depth : s.max_slot = MaxSlot(d)
  BY DEF StamperRecord
<1>2. s.max_slot \in 0..MaxCounter
  BY <1>1, StamperAssumption
<1>3. s.buckets[b] \in Counter
  BY DEF StamperRecord
<1>4. QED
  BY <1>2, <1>3, StamperAssumption DEF Room, Counter

\* Moving a counter past the slot it gave out keeps the account.
LEMMA BumpAccounted ==
  ASSUME NEW s \in StamperRecord, Accounted(s), NEW b \in Bucket, Room(s, b),
         NEW t, t.buckets = [s.buckets EXCEPT ![b] = @ + 1],
         Issued(t) \cup t.burnt = Issued(s) \cup s.burnt \cup {<<b, s.buckets[b]>>}
  PROVE  Accounted(t) /\ <<b, s.buckets[b]>> \notin Issued(s) \cup s.burnt
<1> DEFINE slot == <<b, s.buckets[b]>>
<1>1. s.buckets \in [Bucket -> Counter] /\ s.past \in Seq(Index) /\ s.burnt \in SUBSET Index
  BY DEF StamperRecord
<1>2. s.buckets[b] \in Nat /\ s.buckets[b] + 1 \in Counter
  BY RoomFits
<1>3. slot \notin Issued(s) \cup s.burnt
  BY <1>2 DEF Accounted
<1>4. Issued(s) \cup s.burnt \subseteq Index
  BY <1>1 DEF Issued
<1>5. ASSUME NEW i \in Issued(t) \cup t.burnt
      PROVE  i[2] < t.buckets[i[1]]
  <2>1. CASE i = slot
    BY <1>1, <1>2, <2>1
  <2>2. CASE i \in Issued(s) \cup s.burnt
    <3>1. i[2] < s.buckets[i[1]]
      BY <2>2 DEF Accounted
    <3>2. i[1] \in Bucket /\ i[2] \in Nat
      BY <1>4, <2>2 DEF Index
    <3>3. QED
      BY <1>1, <1>2, <3>1, <3>2 DEF Counter
  <2>3. QED
    BY <2>1, <2>2
<1>6. ASSUME NEW a \in Bucket, NEW n \in 0 .. t.buckets[a] - 1
      PROVE  <<a, n>> \in Issued(t) \cup t.burnt
  <2>1. CASE a # b
    <3>1. t.buckets[a] = s.buckets[a]
      BY <1>1, <2>1
    <3>2. QED
      BY <3>1 DEF Accounted
  <2>2. CASE a = b
    <3>1. n = s.buckets[b] \/ n \in 0 .. s.buckets[b] - 1
      BY <1>1, <1>2, <2>2
    <3>2. QED
      BY <2>2, <3>1 DEF Accounted
  <2>3. QED
    BY <2>1, <2>2
<1>7. QED
  BY <1>3, <1>5, <1>6 DEF Accounted

\* A stamper with other counters, past and burnt slots is a stamper.
LEMMA StamperRebuilt ==
  ASSUME NEW s \in StamperRecord, NEW B \in [Bucket -> Counter],
         NEW P \in Seq(Index), NEW X \in SUBSET Index
  PROVE  [live |-> TRUE, buckets |-> B, past |-> P, burnt |-> X,
          depth |-> s.depth, max_slot |-> s.max_slot] \in StamperRecord
<1> DEFINE M == {MaxSlot(d) : d \in Depth}
<1>1. s.depth \in Depth /\ s.max_slot \in M
  BY DEF StamperRecord
<1>2. StamperRecord = [live : {TRUE}, buckets : [Bucket -> Counter],
                       past : Seq(Index), burnt : SUBSET Index,
                       depth : Depth, max_slot : M]
  BY DEF StamperRecord
<1> HIDE DEF M
<1>3. QED
  BY <1>1, <1>2

\* Changing one field of a record changes no other.
LEMMA OneField ==
  ASSUME NEW L, NEW B, NEW P, NEW X, NEW D, NEW M, NEW v,
         NEW s \in [live : L, buckets : B, past : P, burnt : X, depth : D, max_slot : M]
  PROVE  /\ [s EXCEPT !.buckets = v] =
              [live |-> s.live, buckets |-> v, past |-> s.past, burnt |-> s.burnt,
               depth |-> s.depth, max_slot |-> s.max_slot]
         /\ [s EXCEPT !.past = v] =
              [live |-> s.live, buckets |-> s.buckets, past |-> v, burnt |-> s.burnt,
               depth |-> s.depth, max_slot |-> s.max_slot]
         /\ [s EXCEPT !.burnt = v] =
              [live |-> s.live, buckets |-> s.buckets, past |-> s.past, burnt |-> v,
               depth |-> s.depth, max_slot |-> s.max_slot]
  OBVIOUS

\* Moving a counter with room gives a stamper, the same but for that counter.
LEMMA BumpedOK ==
  ASSUME NEW s \in StamperRecord, NEW b \in Bucket, Room(s, b)
  PROVE  /\ Bumped(s, b) \in StamperRecord
         /\ Bumped(s, b) = [live |-> TRUE, buckets |-> [s.buckets EXCEPT ![b] = @ + 1],
                            past |-> s.past, burnt |-> s.burnt,
                            depth |-> s.depth, max_slot |-> s.max_slot]
<1> DEFINE B == [s.buckets EXCEPT ![b] = @ + 1]
<1>1. /\ s.buckets \in [Bucket -> Counter] /\ s.past \in Seq(Index)
      /\ s.burnt \in SUBSET Index /\ s.live = TRUE
  BY DEF StamperRecord
<1>2. B \in [Bucket -> Counter]
  BY <1>1, RoomFits
<1>3. Bumped(s, b) = [s EXCEPT !.buckets = B]
  BY DEF Bumped, StamperRecord
<1> HIDE DEF B
<1>4. Bumped(s, b) = [live |-> s.live, buckets |-> B, past |-> s.past, burnt |-> s.burnt,
                      depth |-> s.depth, max_slot |-> s.max_slot]
  BY <1>3, OneField, Zenon DEF StamperRecord
<1>5. [live |-> TRUE, buckets |-> B, past |-> s.past, burnt |-> s.burnt,
       depth |-> s.depth, max_slot |-> s.max_slot] \in StamperRecord
  BY <1>1, <1>2, StamperRebuilt
<1>6. QED
  BY <1>1, <1>4, <1>5, Zenon DEF B

\* Issuing the next slot of a bucket with room keeps the line.
LEMMA StampOK ==
  ASSUME NEW s \in StamperRecord, LineOK(s), NEW b \in Bucket, Room(s, b)
  PROVE  LET t == [Bumped(s, b) EXCEPT !.past = Append(@, <<b, s.buckets[b]>>)]
         IN  t \in StamperRecord /\ LineOK(t)
<1> DEFINE slot == <<b, s.buckets[b]>>
           t == [Bumped(s, b) EXCEPT !.past = Append(@, slot)]
<1>1. /\ s.buckets \in [Bucket -> Counter] /\ s.past \in Seq(Index)
      /\ s.burnt \in SUBSET Index
  BY DEF StamperRecord
<1>2. s.buckets[b] \in Nat /\ s.buckets[b] + 1 \in Counter
  BY RoomFits
<1>3. slot \in Index
  BY <1>2 DEF Index
<1>4. t = [live |-> TRUE, buckets |-> [s.buckets EXCEPT ![b] = @ + 1],
           past |-> Append(s.past, slot), burnt |-> s.burnt,
           depth |-> s.depth, max_slot |-> s.max_slot]
  <2> DEFINE u == Bumped(s, b)
             v == Append(s.past, slot)
  <2>1. u \in StamperRecord /\ u.live = TRUE /\ u.depth = s.depth /\ u.max_slot = s.max_slot
        /\ u.buckets = [s.buckets EXCEPT ![b] = @ + 1] /\ u.past = s.past /\ u.burnt = s.burnt
    BY BumpedOK
  <2>2. t = [u EXCEPT !.past = v]
    BY <2>1 DEF StamperRecord
  <2> HIDE DEF u, v, t
  <2>3. t = [live |-> u.live, buckets |-> u.buckets, past |-> v, burnt |-> u.burnt,
             depth |-> u.depth, max_slot |-> u.max_slot]
    BY <2>1, <2>2, OneField, Zenon DEF StamperRecord
  <2>4. QED
    BY <2>1, <2>3, Zenon DEF v
<1>5. Append(s.past, slot) \in Seq(Index) /\ [s.buckets EXCEPT ![b] = @ + 1] \in [Bucket -> Counter]
  BY <1>1, <1>2, <1>3
<1>6. t \in StamperRecord
  <2>1. [live |-> TRUE, buckets |-> [s.buckets EXCEPT ![b] = @ + 1],
         past |-> Append(s.past, slot), burnt |-> s.burnt,
         depth |-> s.depth, max_slot |-> s.max_slot] \in StamperRecord
    BY <1>1, <1>5, StamperRebuilt
  <2>2. QED
    BY <1>4, <2>1, Zenon
<1>7. /\ t.past = Append(s.past, slot) /\ t.burnt = s.burnt
      /\ t.buckets = [s.buckets EXCEPT ![b] = @ + 1]
  BY <1>4
<1> HIDE DEF t
<1>8. /\ DOMAIN t.past = 1 .. Len(s.past) + 1
      /\ DOMAIN s.past = 1 .. Len(s.past) /\ Len(s.past) \in Nat
      /\ \A i \in 1 .. Len(s.past) : t.past[i] = s.past[i]
      /\ t.past[Len(s.past) + 1] = slot
  BY <1>1, <1>3, <1>7
<1>9. Issued(t) = Issued(s) \cup {slot}
  <2>1. ASSUME NEW x \in Issued(t) PROVE x \in Issued(s) \cup {slot}
    <3>1. PICK i \in DOMAIN t.past : x = t.past[i]
      BY DEF Issued
    <3>2. i \in 1 .. Len(s.past) \/ i = Len(s.past) + 1
      BY <1>8
    <3>3. QED
      BY <1>8, <3>1, <3>2 DEF Issued
  <2>2. Issued(s) \subseteq Issued(t) /\ slot \in Issued(t)
    BY <1>8 DEF Issued
  <2>3. QED
    BY <2>1, <2>2
<1>10. Accounted(t) /\ slot \notin Issued(s) \cup s.burnt
  <2>1. Issued(t) \cup t.burnt = Issued(s) \cup s.burnt \cup {slot}
    BY <1>7, <1>9
  <2>2. QED
    BY <1>7, <2>1, BumpAccounted DEF LineOK
<1>11. \A i, j \in DOMAIN t.past : i # j => t.past[i] # t.past[j]
  <2>1. \A i \in 1 .. Len(s.past) : s.past[i] # slot
    BY <1>8, <1>10 DEF Issued
  <2>2. \A i, j \in 1 .. Len(s.past) : i # j => s.past[i] # s.past[j]
    BY <1>8 DEF LineOK
  <2>3. SUFFICES ASSUME NEW i \in 1 .. Len(s.past) + 1, NEW j \in 1 .. Len(s.past) + 1,
                        i # j
                 PROVE  t.past[i] # t.past[j]
    BY <1>8
  <2>4. CASE i \in 1 .. Len(s.past) /\ j \in 1 .. Len(s.past)
    BY <1>8, <2>2, <2>3, <2>4
  <2>5. CASE i = Len(s.past) + 1 /\ j \in 1 .. Len(s.past)
    BY <1>8, <2>1, <2>5
  <2>6. CASE j = Len(s.past) + 1 /\ i \in 1 .. Len(s.past)
    BY <1>8, <2>1, <2>6
  <2>7. QED
    BY <1>8, <2>3, <2>4, <2>5, <2>6
<1>12. Issued(t) \cap t.burnt = {}
  BY <1>7, <1>9, <1>10 DEF LineOK
<1>13. LineOK(t)
  BY <1>10, <1>11, <1>12 DEF LineOK
<1>14. QED
  BY <1>6, <1>13 DEF t

\* So does losing it to a failed signature.
LEMMA BurnOK ==
  ASSUME NEW s \in StamperRecord, LineOK(s), NEW b \in Bucket, Room(s, b)
  PROVE  LET t == [Bumped(s, b) EXCEPT !.burnt = @ \cup {<<b, s.buckets[b]>>}]
         IN  t \in StamperRecord /\ LineOK(t)
<1> DEFINE slot == <<b, s.buckets[b]>>
           t == [Bumped(s, b) EXCEPT !.burnt = @ \cup {slot}]
<1>1. /\ s.buckets \in [Bucket -> Counter] /\ s.past \in Seq(Index)
      /\ s.burnt \in SUBSET Index
  BY DEF StamperRecord
<1>2. s.buckets[b] \in Nat /\ s.buckets[b] + 1 \in Counter
  BY RoomFits
<1>3. slot \in Index
  BY <1>2 DEF Index
<1>4. t = [live |-> TRUE, buckets |-> [s.buckets EXCEPT ![b] = @ + 1],
           past |-> s.past, burnt |-> s.burnt \cup {slot},
           depth |-> s.depth, max_slot |-> s.max_slot]
  <2> DEFINE u == Bumped(s, b)
             v == s.burnt \cup {slot}
  <2>1. u \in StamperRecord /\ u.live = TRUE /\ u.depth = s.depth /\ u.max_slot = s.max_slot
        /\ u.buckets = [s.buckets EXCEPT ![b] = @ + 1] /\ u.past = s.past /\ u.burnt = s.burnt
    BY BumpedOK
  <2>2. t = [u EXCEPT !.burnt = v]
    BY <2>1 DEF StamperRecord
  <2> HIDE DEF u, v, t
  <2>3. t = [live |-> u.live, buckets |-> u.buckets, past |-> u.past, burnt |-> v,
             depth |-> u.depth, max_slot |-> u.max_slot]
    BY <2>1, <2>2, OneField, Zenon DEF StamperRecord
  <2>4. QED
    BY <2>1, <2>3, Zenon DEF v
<1>5. s.burnt \cup {slot} \in SUBSET Index /\ [s.buckets EXCEPT ![b] = @ + 1] \in [Bucket -> Counter]
  BY <1>1, <1>2, <1>3
<1>6. t \in StamperRecord
  <2>1. [live |-> TRUE, buckets |-> [s.buckets EXCEPT ![b] = @ + 1],
         past |-> s.past, burnt |-> s.burnt \cup {slot},
         depth |-> s.depth, max_slot |-> s.max_slot] \in StamperRecord
    BY <1>1, <1>5, StamperRebuilt
  <2>2. QED
    BY <1>4, <2>1, Zenon
<1>7. /\ t.past = s.past /\ t.burnt = s.burnt \cup {slot}
      /\ t.buckets = [s.buckets EXCEPT ![b] = @ + 1]
  BY <1>4
<1> HIDE DEF t
<1>8. Issued(t) = Issued(s)
  BY <1>7 DEF Issued
<1>9. Accounted(t) /\ slot \notin Issued(s) \cup s.burnt
  <2>1. Issued(t) \cup t.burnt = Issued(s) \cup s.burnt \cup {slot}
    BY <1>7, <1>8
  <2>2. QED
    BY <1>7, <2>1, BumpAccounted DEF LineOK
<1>10. LineOK(t)
  BY <1>7, <1>8, <1>9 DEF LineOK
<1>11. QED
  BY <1>6, <1>10 DEF t

-----------------------------------------------------------------------------
\* No stamper, and nothing saved.
LEMMA InitIInv == StamperInit => IInv
<1> SUFFICES ASSUME StamperInit PROVE IInv
  OBVIOUS
<1>1. ~None.live
  BY DEF None
<1>2. QED
  BY <1>1 DEF StamperInit, IInv, TypeOK, LinesOK

\* A handle that is given a stamper whose line is in order keeps the invariant.
LEMMA Update ==
  ASSUME IInv, NEW h \in Handle, NEW t \in StamperRecord \cup {None}, t.live => LineOK(t),
         stamper' = [stamper EXCEPT ![h] = t], UNCHANGED saved
  PROVE  IInv'
<1>1. TypeOK'
  BY DEF IInv, TypeOK
<1>2. \A k \in Handle : stamper'[k] = IF k = h THEN t ELSE stamper[k]
  BY DEF IInv, TypeOK
<1>3. LinesOK'
  <2>1. ASSUME NEW k \in Handle, stamper'[k].live PROVE LineOK(stamper'[k])
    <3>1. CASE k = h
      BY <1>2, <2>1, <3>1
    <3>2. CASE k # h
      BY <1>2, <2>1, <3>2 DEF IInv, LinesOK
    <3>3. QED
      BY <3>1, <3>2
  <2>2. saved'.live => LineOK(saved')
    BY DEF IInv, LinesOK
  <2>3. QED
    BY <2>1, <2>2 DEF LinesOK, LineOK, Accounted, Issued
<1>4. QED
  BY <1>1, <1>3 DEF IInv

\* Every call keeps every line.
LEMMA NextIInv == IInv /\ [StamperNext]_stamperVars => IInv'
<1> SUFFICES ASSUME IInv, [StamperNext]_stamperVars PROVE IInv'
  OBVIOUS
<1>1. ASSUME NEW h \in Handle, NEW c \in CountersRecord, LineOK(c), NEW d \in 0..MaxDepth,
             Construct(h, c, d)
      PROVE  IInv'
  <2>1. d \in Depth
    BY <1>1, StamperAssumption DEF Construct, Depth
  <2>2. QED
    BY <1>1, <2>1, FromStateOK, Update DEF Construct
<1>2. ASSUME NEW h \in Handle, NEW d \in 0..MaxDepth, FromBlank(h, d) PROVE IInv'
  BY <1>1, <1>2, BlankOK DEF FromBlank
<1>3. ASSUME NEW h \in Handle, NEW d \in 0..MaxDepth, FromSaved(h, d) PROVE IInv'
  BY <1>1, <1>3, SavedFields DEF FromSaved, IInv, TypeOK, LinesOK
<1>4. ASSUME NEW h \in Handle, NEW b \in Bucket, DoStamp(h, b) PROVE IInv'
  <2>1. stamper[h] \in StamperRecord /\ LineOK(stamper[h]) /\ Room(stamper[h], b)
    BY <1>4, StamperFields DEF DoStamp, IInv, TypeOK, LinesOK
  <2>2. QED
    BY <1>4, <2>1, StampOK, Update DEF DoStamp
<1>5. ASSUME NEW h \in Handle, NEW b \in Bucket, SignFails(h, b) PROVE IInv'
  <2>1. stamper[h] \in StamperRecord /\ LineOK(stamper[h]) /\ Room(stamper[h], b)
    BY <1>5, StamperFields DEF SignFails, IInv, TypeOK, LinesOK
  <2>2. QED
    BY <1>5, <2>1, BurnOK, Update DEF SignFails
<1>6. ASSUME NEW h \in Handle, NEW k \in Handle, Clone(h, k) PROVE IInv'
  <2>1. stamper[h] \in StamperRecord /\ LineOK(stamper[h])
    BY <1>6, StamperFields DEF Clone, IInv, TypeOK, LinesOK
  <2>2. QED
    BY <1>6, <2>1, Update DEF Clone
<1>7. ASSUME NEW h \in Handle, Save(h) PROVE IInv'
  <2>1. stamper[h] \in StamperRecord /\ LineOK(stamper[h])
    BY <1>7, StamperFields DEF Save, IInv, TypeOK, LinesOK
  <2>2. saved' \in CountersRecord /\ LineOK(saved') /\ UNCHANGED stamper
    BY <1>7, <2>1, CountersOK DEF Save
  <2>3. TypeOK'
    BY <2>2 DEF IInv, TypeOK
  <2>4. QED
    BY <2>2, <2>3 DEF IInv, LinesOK
<1>8. ASSUME NEW h \in Handle, Drop(h) PROVE IInv'
  <2>1. ~None.live
    BY DEF None
  <2>2. QED
    BY <1>8, <2>1, Update DEF Drop
<1>9. CASE UNCHANGED stamperVars
  <2>1. TypeOK'
    BY <1>9 DEF stamperVars, IInv, TypeOK
  <2>2. QED
    BY <1>9, <2>1 DEF stamperVars, IInv, LinesOK
<1>10. QED
  BY <1>2, <1>3, <1>4, <1>5, <1>6, <1>7, <1>8, <1>9 DEF StamperNext

\* Every line of stampers is in order in every state that is reached.
THEOREM InductiveInvariant == StamperSpec => []IInv
<1>1. QED
  BY InitIInv, NextIInv, PTL DEF StamperSpec

\* Type correctness; in particular no counter ever exceeds its u32.
THEOREM TypeCorrect == StamperSpec => []TypeOK
<1>1. IInv => TypeOK
  BY DEF IInv
<1>2. QED
  BY <1>1, InductiveInvariant, PTL

\* No line of stampers issues a slot twice, whatever is cloned, persisted, resumed
\* or lost in between.
THEOREM SlotsUnique == StamperSpec => []NoSlotTwice
<1>1. IInv => NoSlotTwice
  BY DEF IInv, LinesOK, LineOK, NoSlotTwice, Lines
<1>2. QED
  BY <1>1, InductiveInvariant, PTL

\* The counters account for exactly the slots issued or burnt.
THEOREM CountersAccount == StamperSpec => []SlotsAccounted
<1>1. IInv => SlotsAccounted
  BY DEF IInv, LinesOK, LineOK, SlotsAccounted, Lines
<1>2. QED
  BY <1>1, InductiveInvariant, PTL
=============================================================================
