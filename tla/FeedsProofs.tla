---------------------------- MODULE FeedsProofs -----------------------------
(***************************************************************************)
(* Proofs about Feeds, for any writers and bounds: an index that was       *)
(* looked up extends the feed and replaces nothing the lookup could see,   *)
(* a feed found retrievable has been stored, and undisturbed each writer's *)
(* acknowledged updates rise.  And about single-owner chunks: whatever a   *)
(* node delivers, what a download returns is what the owner has signed.    *)
(***************************************************************************)
EXTENDS Feeds, Soc, Integers, FiniteSetTheorems, FunctionTheorems, WellFoundedInduction, TLAPS

\* What holds of an update in the log also holds of one that is on its way
\* there, and the check has seen a stored chunk at every index it has passed.
UpdateOK(u) == /\ u \in Update /\ u.seen <= Len(log)
               /\ ExtendsFeed(u) /\ ReplacesUnseen(u)

LogOK    == log \in Seq(Update) /\ \A k \in DOMAIN log : UpdateOK(log[k])
LateOK   == \A u \in late : UpdateOK(u)
WriterOK == /\ writer \in [Writers -> [step : Steps, update : Update]]
            /\ \A p \in Writers : UpdateOK(writer[p].update)
CheckOK  == /\ check \in [next : Nat, upto : Nat, verdict : Verdicts]
            /\ check.verdict = "checking" => \A i \in Nat : i < check.next => i \in Stored
            /\ check.verdict = "true" => \A i \in Nat : i <= check.upto => i \in Stored
FrameOK  == hidden \subseteq Nat /\ calls \in Nat

IInv == LogOK /\ LateOK /\ WriterOK /\ CheckOK /\ FrameOK

\* What the update of a call is before its lookup is answered.
LEMMA FreshOK ==
  ASSUME LogOK, NEW n \in Nat, NEW i \in Nat
  PROVE  UpdateOK(Fresh(n, i))
<1>1. Fresh(n, i) \in Update
  BY DEF Fresh, Update, Hows
<1>2. Fresh(n, i).seen = 0 /\ Fresh(n, i).how = "given"
  BY DEF Fresh
<1>3. Len(log) \in Nat
  BY DEF LogOK
<1> QED
  BY <1>1, <1>2, <1>3 DEF UpdateOK, ExtendsFeed, ReplacesUnseen

\* The log only grows, and nothing said of an update depends on what comes later.
LEMMA AppendKeeps ==
  ASSUME LogOK, NEW v \in Update, log' = Append(log, v)
  PROVE  /\ Len(log') = Len(log) + 1 /\ Len(log) \in Nat
         /\ \A m \in Nat : m <= Len(log) => StoredBy(m)' = StoredBy(m)
         /\ Stored \subseteq Stored'
         /\ \A u : UpdateOK(u) => UpdateOK(u)'
<1>1. /\ Len(log') = Len(log) + 1 /\ Len(log) \in Nat
      /\ \A k \in 1..Len(log) : log'[k] = log[k]
  BY DEF LogOK
<1>2. \A m \in Nat : m <= Len(log) => StoredBy(m)' = StoredBy(m)
  BY <1>1 DEF StoredBy
<1>3. Stored \subseteq Stored'
  BY <1>1 DEF Stored, StoredBy
<1>4. ASSUME NEW u, UpdateOK(u) PROVE UpdateOK(u)'
  <2>1. u.seen \in Nat
    BY <1>4 DEF UpdateOK, Update
  <2>2. StoredBy(u.seen)' = StoredBy(u.seen)
    BY <1>2, <1>4, <2>1 DEF UpdateOK
  <2> QED
    BY <1>1, <1>4, <2>1, <2>2 DEF UpdateOK, ExtendsFeed, ReplacesUnseen
<1> QED
  BY <1>1, <1>2, <1>3, <1>4

\* Storing an update that is OK keeps the whole invariant but for the writers,
\* whose updates stay OK.
LEMMA StoreKeeps ==
  ASSUME IInv, NEW v, UpdateOK(v), log' = Append(log, v), check' = check
  PROVE  /\ LogOK' /\ CheckOK'
         /\ \A u : UpdateOK(u) => UpdateOK(u)'
<1>1. v \in Update
  BY DEF UpdateOK
<1>2. /\ Len(log') = Len(log) + 1 /\ Len(log) \in Nat
      /\ Stored \subseteq Stored'
      /\ \A u : UpdateOK(u) => UpdateOK(u)'
  BY <1>1, AppendKeeps DEF IInv
<1>3. log' \in Seq(Update) /\ DOMAIN log = 1..Len(log) /\ DOMAIN log' = 1..Len(log')
  BY <1>1 DEF IInv, LogOK
<1>4. ASSUME NEW k \in DOMAIN log' PROVE UpdateOK(log[k])'
  <2>1. CASE k \in 1..Len(log)
    <3>1. log'[k] = log[k]
      BY <2>1, <1>1 DEF IInv, LogOK
    <3>2. UpdateOK(log[k])
      BY <2>1, <1>3 DEF IInv, LogOK
    <3>3. ASSUME NEW u, u = log[k] PROVE UpdateOK(u)'
      BY <3>2, <3>3, <1>2
    <3> QED
      BY <3>1, <3>3
  <2>2. CASE k = Len(log) + 1
    <3>1. log'[k] = v
      BY <2>2, <1>1 DEF IInv, LogOK
    <3>2. ASSUME NEW u, u = v PROVE UpdateOK(u)'
      BY <1>2, <3>2
    <3> QED
      BY <3>1, <3>2
  <2> QED
    BY <1>2, <1>3, <2>1, <2>2
<1>5. LogOK'
  BY <1>3, <1>4 DEF LogOK
<1>6. CheckOK'
  BY <1>2 DEF IInv, CheckOK
<1> QED
  BY <1>2, <1>5, <1>6

\* While nothing is stored, every update that was OK stays so.
LEMMA SameLog ==
  ASSUME LogOK, UNCHANGED log
  PROVE  /\ LogOK' /\ Stored' = Stored
         /\ \A u : UpdateOK(u) => UpdateOK(u)'
BY DEF LogOK, UpdateOK, ExtendsFeed, ReplacesUnseen, Stored, StoredBy

\* One writer moves to a step with an update that is OK; the others' stay OK.
LEMMA WriterMoves ==
  ASSUME WriterOK, NEW p \in Writers, NEW step \in Steps, NEW u, UpdateOK(u)',
         \A v : UpdateOK(v) => UpdateOK(v)',
         Doing(p, step, u)
  PROVE  WriterOK'
<1>1. u \in Update
  BY DEF UpdateOK
<1>2. writer' \in [Writers -> [step : Steps, update : Update]]
  BY <1>1 DEF WriterOK, Doing
<1>3. ASSUME NEW q \in Writers PROVE UpdateOK(writer[q].update)'
  <2>1. CASE q = p
    <3>1. writer'[q].update = u
      BY <2>1 DEF WriterOK, Doing
    <3> QED
      BY <3>1
  <2>2. CASE q # p
    <3>1. writer'[q].update = writer[q].update
      BY <2>2 DEF WriterOK, Doing
    <3>2. UpdateOK(writer[q].update)
      BY DEF WriterOK
    <3>3. ASSUME NEW v, v = writer[q].update PROVE UpdateOK(v)'
      BY <3>2, <3>3
    <3> QED
      BY <3>1, <3>3
  <2> QED
    BY <2>1, <2>2
<1> QED
  BY <1>2, <1>3 DEF WriterOK

\* The same for a step of a writer that stores nothing.
LEMMA WriterKeeps ==
  ASSUME IInv, NEW p \in Writers, NEW step \in Steps, NEW u, UpdateOK(u),
         Doing(p, step, u), UNCHANGED <<log, hidden, check>>,
         \A v \in late' : UpdateOK(v), calls' \in Nat
  PROVE  IInv'
<1>1. LogOK' /\ Stored' = Stored /\ \A v : UpdateOK(v) => UpdateOK(v)'
  BY SameLog DEF IInv
<1>2. LateOK'
  BY <1>1 DEF LateOK
<1>3. WriterOK'
  BY <1>1, WriterMoves DEF IInv
<1>4. CheckOK' /\ FrameOK'
  BY <1>1 DEF IInv, CheckOK, FrameOK
<1> QED
  BY <1>1, <1>2, <1>3, <1>4 DEF IInv

-----------------------------------------------------------------------------

\* The invariant holds at first: nothing is stored and nothing on its way.
LEMMA Initially == Init => IInv
<1> SUFFICES ASSUME Init PROVE IInv
  OBVIOUS
<1>1. log = <<>> /\ LogOK
  BY DEF Init, LogOK
<1>2. UpdateOK(Fresh(0, 0)) /\ Fresh(0, 0) \in Update
  BY <1>1, FreshOK DEF UpdateOK
<1>3. WriterOK
  BY <1>2 DEF Init, WriterOK, Steps
<1>4. CheckOK
  BY DEF Init, CheckOK, Verdicts
<1>5. LateOK /\ FrameOK
  BY DEF Init, LateOK, FrameOK
<1> QED
  BY <1>1, <1>3, <1>4, <1>5 DEF IInv

\* The index that a lookup gives to an update extends what the node has and is
\* none the node could see.
LEMMA LookupOK ==
  ASSUME IInv, NEW p \in Writers, NEW i \in Nat, NEW how \in Hows,
         FoundIndex(p, i, how),
         how = "next" => i > 0 /\ i - 1 \in Stored,
         how \in {"next", "empty"} => i \notin Visible
  PROVE  IInv'
<1> DEFINE u == [n |-> writer[p].update.n, at |-> i, how |-> how,
                 seen |-> Len(log), missing |-> hidden]
<1>1. Len(log) \in Nat /\ writer[p].update.n \in Nat /\ hidden \in SUBSET Nat
  BY DEF IInv, LogOK, WriterOK, FrameOK, Update
<1>2. u \in Update
  BY <1>1 DEF Update
<1>3. u.seen = Len(log) /\ u.at = i /\ u.how = how /\ u.missing = hidden
  OBVIOUS
<1>4. ExtendsFeed(u) /\ ReplacesUnseen(u)
  BY <1>3 DEF ExtendsFeed, ReplacesUnseen, Stored, Visible
<1>5. UpdateOK(u)
  BY <1>1, <1>2, <1>3, <1>4 DEF UpdateOK
<1>6. /\ Doing(p, "ready", u) /\ UNCHANGED <<log, hidden, check, late, calls>>
      /\ "ready" \in Steps
  BY DEF FoundIndex, Steps
<1>7. (\A v \in late' : UpdateOK(v)) /\ calls' \in Nat
  BY <1>6 DEF IInv, LateOK, FrameOK
<1> QED
  BY <1>5, <1>6, <1>7, WriterKeeps

\* Everything a writer does keeps the invariant.
LEMMA WriterStepKeeps ==
  ASSUME IInv, NEW p \in Writers, WriterStep(p)
  PROVE  IInv'
<1>1. UpdateOK(writer[p].update)
  BY DEF IInv, WriterOK
<1>2. calls \in Nat /\ \A v \in late : UpdateOK(v)
  BY DEF IInv, FrameOK, LateOK
<1>3. \A n, i \in Nat : UpdateOK(Fresh(n, i))
  BY FreshOK DEF IInv
<1>4. Stored \subseteq Nat
  BY DEF IInv, LogOK, UpdateOK, Update, Stored, StoredBy
<1>a. CASE UpdateFeed(p)
  <2>1. UpdateOK(Fresh(calls + 1, 0))
    BY <1>2, <1>3
  <2> QED
    BY <1>a, <1>2, <2>1, WriterKeeps DEF UpdateFeed, Steps
<1>b. CASE \E i \in 0..MaxIndex : UpdateFeedWithIndex(p, i)
  <2>1. PICK i \in 0..MaxIndex : UpdateFeedWithIndex(p, i)
    BY <1>b
  <2>2. UpdateOK(Fresh(calls + 1, i))
    BY <1>2, <1>3, FeedsAssumption
  <2> QED
    BY <1>2, <2>1, <2>2, WriterKeeps DEF UpdateFeedWithIndex, Steps
<1>c. CASE LookupFound(p)
  <2>1. PICK i \in Visible : Latest(i) /\ FoundIndex(p, i + 1, "next")
    BY <1>c DEF LookupFound
  <2>2. i \in Nat /\ i \in Stored /\ i + 1 \notin Visible
    BY <2>1, <1>4 DEF Latest, Visible
  <2> QED
    BY <2>1, <2>2, LookupOK DEF Hows
<1>d. CASE LookupNone(p)
  <2>1. CASE 0 \in Visible
    BY <1>d, <2>1, LookupOK DEF LookupNone, Hows
  <2>2. CASE 0 \notin Visible
    BY <1>d, <2>2, LookupOK DEF LookupNone, Hows
  <2> QED
    BY <2>1, <2>2
<1>e. CASE LookupFails(p)
  BY <1>e, <1>2, <1>3, WriterKeeps DEF LookupFails, Idle, Steps
<1>f. CASE Post(p)
  BY <1>f, <1>1, <1>2, WriterKeeps DEF Post, Steps
<1>g. CASE NotPosted(p)
  BY <1>g, <1>2, <1>3, WriterKeeps DEF NotPosted, Idle, Steps
<1>h. CASE Store(p)
  <2>1. /\ LogOK' /\ CheckOK' /\ \A v : UpdateOK(v) => UpdateOK(v)'
    BY <1>h, <1>1, StoreKeeps DEF Store
  <2>2. PICK u : u = writer[p].update
    OBVIOUS
  <2>3. UpdateOK(u)'
    BY <1>1, <2>1, <2>2
  <2>4. /\ Doing(p, "stored", u) /\ "stored" \in Steps
        /\ UNCHANGED <<hidden, late, calls>>
    BY <1>h, <2>2 DEF Store, Steps
  <2>5. WriterOK'
    BY <2>1, <2>3, <2>4, WriterMoves DEF IInv
  <2>6. LateOK' /\ FrameOK'
    BY <2>1, <2>4 DEF IInv, LateOK, FrameOK
  <2> QED
    BY <2>1, <2>5, <2>6 DEF IInv
<1>i. CASE PostReturns(p)
  BY <1>i, <1>2, <1>3, WriterKeeps DEF PostReturns, Idle, Steps
<1>j. CASE PostFails(p)
  <2>1. /\ Doing(p, "idle", Fresh(0, 0)) /\ UNCHANGED <<log, hidden, check, calls>>
        /\ late' \subseteq late \cup {writer[p].update} /\ "idle" \in Steps
    BY <1>j DEF PostFails, Idle, Steps
  <2>2. \A v \in late' : UpdateOK(v)
    BY <1>1, <1>2, <2>1
  <2> QED
    BY <1>2, <1>3, <2>1, <2>2, WriterKeeps
<1> QED
  BY <1>a, <1>b, <1>c, <1>d, <1>e, <1>f, <1>g, <1>h, <1>i, <1>j DEF WriterStep

\* The node and the network: a late request is stored or lost, a chunk goes out
\* of reach or comes back.
LEMMA NodeKeeps ==
  ASSUME IInv, Node
  PROVE  IInv'
<1>1. ASSUME NEW u \in late, StoreLate(u) PROVE IInv'
  <2>1. UpdateOK(u) /\ UNCHANGED <<hidden, calls, writer, check>> /\ late' \subseteq late
    BY <1>1 DEF IInv, LateOK, StoreLate
  <2>2. /\ LogOK' /\ CheckOK' /\ \A v : UpdateOK(v) => UpdateOK(v)'
    BY <1>1, <2>1, StoreKeeps DEF StoreLate
  <2>3. LateOK' /\ FrameOK'
    BY <2>1, <2>2 DEF IInv, LateOK, FrameOK
  <2>4. ASSUME NEW p \in Writers PROVE UpdateOK(writer[p].update)'
    <3>1. PICK v : v = writer[p].update
      OBVIOUS
    <3>2. UpdateOK(v)'
      BY <2>2, <3>1 DEF IInv, WriterOK
    <3> QED
      BY <2>1, <3>1, <3>2
  <2>5. WriterOK'
    BY <2>1, <2>4 DEF IInv, WriterOK
  <2> QED
    BY <2>2, <2>3, <2>5 DEF IInv
<1>2. ASSUME UNCHANGED <<log, calls, writer, check>>, late' \subseteq late, hidden' \subseteq Nat
      PROVE  IInv'
  <2>1. LogOK' /\ Stored' = Stored /\ \A v : UpdateOK(v) => UpdateOK(v)'
    BY <1>2, SameLog DEF IInv
  <2>2. LateOK' /\ CheckOK' /\ FrameOK'
    BY <1>2, <2>1 DEF IInv, LateOK, CheckOK, FrameOK
  <2>3. WriterOK'
    BY <1>2, <2>1 DEF IInv, WriterOK, UpdateOK, ExtendsFeed, ReplacesUnseen, StoredBy
  <2> QED
    BY <2>1, <2>2, <2>3 DEF IInv
<1>3. ASSUME NEW u \in late, LoseLate(u) PROVE IInv'
  BY <1>2, <1>3 DEF LoseLate, IInv, FrameOK
<1>4. ASSUME NEW i \in Visible, Hide(i) PROVE IInv'
  <2>1. i \in Nat
    BY DEF IInv, LogOK, UpdateOK, Update, Visible, Stored, StoredBy
  <2> QED
    BY <1>2, <1>4, <2>1 DEF Hide, IInv, FrameOK
<1>5. ASSUME NEW i \in hidden, Reappear(i) PROVE IInv'
  BY <1>2, <1>5 DEF Reappear, IInv, FrameOK
<1> QED
  BY <1>1, <1>3, <1>4, <1>5 DEF Node

\* The check sees a stored chunk at every index it passes.
LEMMA CheckKeeps ==
  ASSUME IInv, Check
  PROVE  IInv'
<1>1. UNCHANGED <<log, hidden, late, calls, writer>>
  BY DEF Check, StartCheck, ChunkFound, ChunkMissing, CheckFails, Verdict
<1>2. LogOK' /\ Stored' = Stored /\ \A v : UpdateOK(v) => UpdateOK(v)'
  BY <1>1, SameLog DEF IInv
<1>3. LateOK' /\ FrameOK'
  BY <1>1, <1>2 DEF IInv, LateOK, FrameOK
<1>4. WriterOK'
  BY <1>1, <1>2 DEF IInv, WriterOK, UpdateOK, ExtendsFeed, ReplacesUnseen, StoredBy
<1>5. CheckOK'
  <2>1. CASE \E i \in 0..MaxIndex : StartCheck(i)
    BY <2>1, FeedsAssumption DEF StartCheck, CheckOK, Verdicts
  <2>2. CASE ChunkFound
    <3>1. /\ check.verdict = "checking" /\ check.next \in Stored
          /\ check.next \in Nat /\ check.upto \in Nat
          /\ \A i \in Nat : i < check.next => i \in Stored
      BY <2>2 DEF ChunkFound, Visible, IInv, CheckOK
    <3>2. CASE check.next = check.upto
      <4>1. check' = [check EXCEPT !.verdict = "true"]
        BY <2>2, <3>2 DEF ChunkFound
      <4> QED
        BY <1>2, <3>1, <3>2, <4>1 DEF IInv, CheckOK, Verdicts
    <3>3. CASE check.next # check.upto
      <4>1. check' = [check EXCEPT !.next = @ + 1]
        BY <2>2, <3>3 DEF ChunkFound
      <4> QED
        BY <1>2, <3>1, <3>3, <4>1 DEF IInv, CheckOK, Verdicts
    <3> QED
      BY <3>2, <3>3
  <2>3. CASE ChunkMissing \/ CheckFails
    BY <2>3 DEF ChunkMissing, CheckFails, Verdict, IInv, CheckOK, Verdicts
  <2> QED
    BY <2>1, <2>2, <2>3 DEF Check
<1> QED
  BY <1>2, <1>3, <1>4, <1>5 DEF IInv

\* The inductive invariant holds in every state.
THEOREM InductiveInvariant == Spec => []IInv
<1>1. IInv /\ [Next]_vars => IInv'
  <2> SUFFICES ASSUME IInv, [Next]_vars PROVE IInv'
    OBVIOUS
  <2>1. CASE UNCHANGED vars
    BY <2>1 DEF vars, IInv, LogOK, LateOK, WriterOK, CheckOK, FrameOK, UpdateOK,
                ExtendsFeed, ReplacesUnseen, Stored, StoredBy
  <2>2. CASE \E p \in Writers : WriterStep(p)
    BY <2>2, WriterStepKeeps
  <2>3. CASE Node
    BY <2>3, NodeKeeps
  <2>4. CASE Check
    BY <2>4, CheckKeeps
  <2> QED
    BY <2>1, <2>2, <2>3, <2>4 DEF Next
<1> QED
  BY Initially, <1>1, PTL DEF Spec

\* Whatever the writers do and however late requests arrive, an index that was
\* looked up directly follows an update stored before the lookup was answered.
THEOREM FoundIndexesExtend == Spec => []FoundIndexExtends
<1>1. IInv => FoundIndexExtends
  BY DEF IInv, LogOK, UpdateOK, FoundIndexExtends
<1> QED
  BY <1>1, InductiveInvariant, PTL

\* An update whose index was looked up never replaces one the lookup could see:
\* updates are lost to races, unreachable chunks, misread 500s and indexes that
\* are given, and to nothing else.
THEOREM OnlyRacesReplace == Spec => []ReplacesOnlyUnseen
<1>1. IInv => ReplacesOnlyUnseen
  BY DEF IInv, LogOK, UpdateOK, ReplacesOnlyUnseen
<1> QED
  BY <1>1, InductiveInvariant, PTL

\* A feed that was found retrievable up to an index has every update up to it.
THEOREM VerdictIsTrue == Spec => []RetrievableMeansStored
<1>1. IInv => RetrievableMeansStored
  <2> SUFFICES ASSUME IInv, check.verdict = "true", NEW i \in 0..check.upto
               PROVE  i \in Stored
    BY DEF RetrievableMeansStored
  <2>1. check.upto \in Nat
    BY DEF IInv, CheckOK
  <2> QED
    BY <2>1 DEF IInv, CheckOK
<1> QED
  BY <1>1, InductiveInvariant, PTL

-----------------------------------------------------------------------------
(* The order in which a writer's updates are acknowledged.                 *)

\* The stored indexes have no gap.
Closed == \A i \in Stored : \A j \in Nat : j < i => j \in Stored

\* What a writer was told is stored, rises, and lies below what it found next.
AckedStored == \A p \in Writers : \A i \in 1..Len(acked[p]) : acked[p][i] \in Stored
Rising == \A p \in Writers : \A i, j \in 1..Len(acked[p]) : i < j => acked[p][i] < acked[p][j]
Ahead ==
  \A p \in Writers :
    LET u == writer[p].update
    IN  /\ writer[p].step \in {"ready", "waiting", "stored"}
        /\ u.how \in {"next", "empty"} /\ u.missing = {}
        => \A i \in 1..Len(acked[p]) : acked[p][i] < u.at

\* An empty feed gives index 0.
EmptyOK(u) == u.how = "empty" => u.at = 0

TrackOK ==
  /\ acked \in [Writers -> Seq(Nat)]
  /\ \A p \in Writers : EmptyOK(writer[p].update)
  /\ \A u \in late : EmptyOK(u)
  /\ \A p \in Writers :
       writer[p].step = "stored" => \E k \in DOMAIN log : log[k] = writer[p].update

AInv == TrackOK /\ (Undisturbed => Closed /\ AckedStored /\ Rising /\ Ahead)

\* While nothing is stored all this stays.
LEMMA QuietLog ==
  ASSUME log' = log
  PROVE  Stored' = Stored /\ Undisturbed' = Undisturbed /\ Closed' = Closed
  BY DEF Stored, StoredBy, Undisturbed, Closed

\* An update whose index was found fills the place behind the last.
LEMMA LogGrows ==
  ASSUME IInv, NEW v, UpdateOK(v), EmptyOK(v), log' = Append(log, v)
  PROVE  /\ Stored' = Stored \cup {v.at}
         /\ Undisturbed' => Undisturbed /\ (Closed => Closed')
         /\ \A k \in DOMAIN log : k \in DOMAIN log' /\ log'[k] = log[k]
         /\ \E k \in DOMAIN log' : log'[k] = v
<1>1. /\ v \in Update /\ log \in Seq(Update) /\ Len(log) \in Nat
      /\ v.at \in Nat /\ v.seen \in Nat /\ v.seen <= Len(log)
  BY DEF IInv, LogOK, UpdateOK, Update
<1>2. /\ Len(log') = Len(log) + 1 /\ log'[Len(log) + 1] = v
      /\ \A k \in 1..Len(log) : log'[k] = log[k]
      /\ DOMAIN log = 1..Len(log) /\ DOMAIN log' = 1..(Len(log) + 1)
  BY <1>1
<1>3. Stored' = Stored \cup {v.at}
  <2>1. Stored = {log[k].at : k \in 1..Len(log)}
    BY DEF Stored, StoredBy
  <2>2. Stored' = {log'[k].at : k \in 1..(Len(log) + 1)}
    BY <1>2 DEF Stored, StoredBy
  <2>3. \A k : k \in 1..(Len(log) + 1) <=> k \in 1..Len(log) \/ k = Len(log) + 1
    BY <1>1
  <2> QED
    BY <1>2, <2>1, <2>2, <2>3
<1>4. Undisturbed' => Undisturbed /\ v.how \in {"next", "empty"}
  <2> SUFFICES ASSUME Undisturbed' PROVE Undisturbed /\ v.how \in {"next", "empty"}
    OBVIOUS
  <2>1. \A k \in 1..(Len(log) + 1) : log'[k].how \in {"next", "empty"} /\ log'[k].missing = {}
    BY <1>2 DEF Undisturbed
  <2>2. \A k \in 1..Len(log) : k \in 1..(Len(log) + 1)
    BY <1>1
  <2>3. Len(log) + 1 \in 1..(Len(log) + 1)
    BY <1>1
  <2> QED
    BY <1>2, <2>1, <2>2, <2>3 DEF Undisturbed
<1>5. ASSUME Undisturbed', Closed PROVE Closed'
  <2>1. \A j \in Nat : j < v.at => j \in Stored
    <3>1. CASE v.how = "empty"
      BY <3>1 DEF EmptyOK
    <3>2. CASE v.how = "next"
      <4>1. v.at > 0 /\ v.at - 1 \in StoredBy(v.seen)
        BY <3>2 DEF UpdateOK, ExtendsFeed
      <4>2. v.at - 1 \in Stored
        BY <1>1, <4>1 DEF Stored, StoredBy
      <4>3. \A j \in Nat : j < v.at => j < v.at - 1 \/ j = v.at - 1
        BY <1>1
      <4> QED
        BY <1>5, <4>2, <4>3 DEF Closed
    <3> QED
      BY <1>4, <1>5, <3>1, <3>2
  <2> QED
    BY <1>3, <1>5, <2>1 DEF Closed
<1> QED
  BY <1>2, <1>3, <1>4, <1>5, <1>1

\* A step of a writer that stores nothing, finds nothing and is told nothing.
LEMMA QuietKeeps ==
  ASSUME IInv, AInv, NEW p \in Writers, NEW step \in Steps, NEW u, Doing(p, step, u),
         log' = log, acked' = acked, step # "stored",
         \/ u.how = "given"
         \/ u = writer[p].update /\ writer[p].step = "ready",
         late' \subseteq late \cup {writer[p].update}
  PROVE  AInv'
<1>1. /\ writer'[p].step = step /\ writer'[p].update = u
      /\ \A q \in Writers : q # p => writer'[q] = writer[q]
  BY DEF Doing, IInv, WriterOK
<1>2. EmptyOK(u) /\ EmptyOK(writer[p].update)
  BY DEF AInv, TrackOK, EmptyOK
<1>3. TrackOK'
  <2>1. \A q \in Writers : EmptyOK(writer'[q].update)
    BY <1>1, <1>2 DEF AInv, TrackOK
  <2>2. \A v \in late' : EmptyOK(v)
    BY <1>2 DEF AInv, TrackOK
  <2>3. \A q \in Writers :
          writer'[q].step = "stored" => \E k \in DOMAIN log' : log'[k] = writer'[q].update
    BY <1>1 DEF AInv, TrackOK
  <2> QED
    BY <2>1, <2>2, <2>3 DEF AInv, TrackOK
<1>4. ASSUME Undisturbed' PROVE Closed' /\ AckedStored' /\ Rising' /\ Ahead'
  <2>1. Closed' /\ AckedStored /\ Rising /\ Ahead /\ Stored' = Stored
    BY <1>4, QuietLog DEF AInv
  <2>2. AckedStored' /\ Rising'
    BY <2>1 DEF AckedStored, Rising
  <2>3. Ahead'
    <3> SUFFICES ASSUME NEW q \in Writers,
                        writer'[q].step \in {"ready", "waiting", "stored"},
                        writer'[q].update.how \in {"next", "empty"},
                        writer'[q].update.missing = {},
                        NEW i \in 1..Len(acked[q])
                 PROVE  acked[q][i] < writer'[q].update.at
      BY DEF Ahead
    <3>1. /\ writer'[q].update = writer[q].update
          /\ writer[q].step \in {"ready", "waiting", "stored"}
      BY <1>1
    <3> QED
      BY <2>1, <3>1 DEF Ahead
  <2> QED
    BY <2>1, <2>2, <2>3
<1> QED
  BY <1>3, <1>4 DEF AInv

\* A lookup finds an index above all that the writer was told before.
LEMMA FoundAhead ==
  ASSUME IInv, AInv, NEW p \in Writers, NEW i \in Nat, NEW how, FoundIndex(p, i, how),
         how = "empty" => i = 0 /\ 0 \notin Visible,
         how = "next" => i \notin Visible
  PROVE  AInv'
<1>1. /\ writer'[p].step = "ready"
      /\ writer'[p].update.at = i /\ writer'[p].update.how = how
      /\ writer'[p].update.missing = hidden
      /\ \A q \in Writers : q # p => writer'[q] = writer[q]
      /\ log' = log /\ late' = late /\ acked' = acked
  BY DEF FoundIndex, Doing, IInv, WriterOK
<1>2. TrackOK'
  <2>1. \A q \in Writers : EmptyOK(writer'[q].update)
    BY <1>1 DEF AInv, TrackOK, EmptyOK
  <2>2. \A q \in Writers :
          writer'[q].step = "stored" => \E k \in DOMAIN log' : log'[k] = writer'[q].update
    BY <1>1 DEF AInv, TrackOK
  <2> QED
    BY <1>1, <2>1, <2>2 DEF AInv, TrackOK
<1>3. ASSUME Undisturbed' PROVE Closed' /\ AckedStored' /\ Rising' /\ Ahead'
  <2>1. Closed /\ Closed' /\ AckedStored /\ Rising /\ Ahead /\ Stored' = Stored
    BY <1>1, <1>3, QuietLog DEF AInv
  <2>2. AckedStored' /\ Rising'
    BY <1>1, <2>1 DEF AckedStored, Rising
  <2>3. Ahead'
    <3> SUFFICES ASSUME NEW q \in Writers,
                        writer'[q].step \in {"ready", "waiting", "stored"},
                        writer'[q].update.how \in {"next", "empty"},
                        writer'[q].update.missing = {},
                        NEW k \in 1..Len(acked[q])
                 PROVE  acked[q][k] < writer'[q].update.at
      BY <1>1 DEF Ahead
    <3>1. CASE q # p
      BY <1>1, <2>1, <3>1 DEF Ahead
    <3>2. CASE q = p
      <4>1. hidden = {} /\ how \in {"next", "empty"} /\ writer'[q].update.at = i
        BY <1>1, <3>2
      <4>2. i \notin Stored
        BY <4>1 DEF Visible
      <4>3. acked[q][k] \in Stored /\ acked[q][k] \in Nat
        BY <2>1 DEF AckedStored, AInv, TrackOK
      <4>4. ~(i < acked[q][k]) /\ i # acked[q][k]
        BY <2>1, <4>2, <4>3 DEF Closed
      <4> QED
        BY <4>1, <4>3, <4>4
    <3> QED
      BY <3>1, <3>2
  <2> QED
    BY <2>1, <2>2, <2>3
<1> QED
  BY <1>2, <1>3 DEF AInv

\* An update is stored, by its writer or late; it keeps its place in the log.
LEMMA StoredKeeps ==
  ASSUME IInv, AInv, NEW v, UpdateOK(v), EmptyOK(v), log' = Append(log, v), acked' = acked,
         late' \subseteq late,
         \A q \in Writers :
           /\ writer'[q].update = writer[q].update
           /\ \/ writer'[q].step = writer[q].step
              \/ /\ writer[q].step = "waiting" /\ writer'[q].step = "stored"
                 /\ v = writer[q].update
  PROVE  AInv'
<1>1. /\ Stored' = Stored \cup {v.at}
      /\ Undisturbed' => Undisturbed /\ (Closed => Closed')
      /\ \A k \in DOMAIN log : k \in DOMAIN log' /\ log'[k] = log[k]
      /\ \E k \in DOMAIN log' : log'[k] = v
  BY LogGrows
<1>2. TrackOK'
  <2>1. ASSUME NEW q \in Writers, writer'[q].step = "stored"
        PROVE  \E k \in DOMAIN log' : log'[k] = writer'[q].update
    <3>1. CASE writer[q].step = "stored"
      <4>1. PICK k \in DOMAIN log : log[k] = writer[q].update
        BY <3>1 DEF AInv, TrackOK
      <4> QED
        BY <1>1, <4>1
    <3>2. CASE writer[q].step # "stored"
      BY <1>1, <2>1, <3>2
    <3> QED
      BY <3>1, <3>2
  <2> QED
    BY <2>1 DEF AInv, TrackOK
<1>3. ASSUME Undisturbed' PROVE Closed' /\ AckedStored' /\ Rising' /\ Ahead'
  <2>1. Closed' /\ AckedStored /\ Rising /\ Ahead
    BY <1>1, <1>3 DEF AInv
  <2>2. AckedStored' /\ Rising'
    BY <1>1, <2>1 DEF AckedStored, Rising
  <2>3. \A q \in Writers : writer'[q].step \in {"ready", "waiting", "stored"} =>
                             writer[q].step \in {"ready", "waiting", "stored"}
    OBVIOUS
  <2>4. Ahead'
    BY <2>1, <2>3 DEF Ahead
  <2> QED
    BY <2>1, <2>2, <2>4
<1> QED
  BY <1>2, <1>3 DEF AInv

\* A writer is told that its update is stored: its index is above the others.
LEMMA ReturnKeeps ==
  ASSUME IInv, AInv, NEW p \in Writers, PostReturns(p)
  PROVE  AInv'
<1> DEFINE u == writer[p].update
<1>1. /\ writer[p].step = "stored" /\ acked' = [acked EXCEPT ![p] = Append(@, u.at)]
      /\ writer'[p].step = "idle" /\ writer'[p].update = Fresh(0, 0)
      /\ \A q \in Writers : q # p => writer'[q] = writer[q]
      /\ log' = log /\ late' = late
  BY DEF PostReturns, Idle, Doing, IInv, WriterOK
<1>2. PICK k \in DOMAIN log : log[k] = u
  BY <1>1 DEF AInv, TrackOK
<1>3. /\ acked \in [Writers -> Seq(Nat)] /\ u.at \in Nat /\ u.at \in Stored
  <2>1. u \in Update /\ DOMAIN log = 1..Len(log)
    BY DEF IInv, WriterOK, LogOK
  <2> QED
    BY <1>2, <2>1 DEF AInv, TrackOK, Update, Stored, StoredBy
<1>4. /\ acked' \in [Writers -> Seq(Nat)] /\ acked'[p] = Append(acked[p], u.at)
      /\ \A q \in Writers : q # p => acked'[q] = acked[q]
  BY <1>1, <1>3
<1>5. TrackOK'
  <2>1. \A q \in Writers : EmptyOK(writer'[q].update)
    <3>1. EmptyOK(Fresh(0, 0))
      BY DEF EmptyOK, Fresh
    <3>2. \A q \in Writers : EmptyOK(writer[q].update)
      BY DEF AInv, TrackOK
    <3>3. ASSUME NEW q \in Writers PROVE EmptyOK(writer'[q].update)
      <4>1. CASE q = p
        BY <1>1, <3>1, <4>1
      <4>2. CASE q # p
        BY <1>1, <3>2, <4>2
      <4> QED
        BY <4>1, <4>2
    <3> QED
      BY <3>3
  <2>2. \A q \in Writers :
          writer'[q].step = "stored" => \E n \in DOMAIN log' : log'[n] = writer'[q].update
    BY <1>1 DEF AInv, TrackOK
  <2> QED
    BY <1>1, <1>4, <2>1, <2>2 DEF AInv, TrackOK
<1>6. ASSUME Undisturbed' PROVE Closed' /\ AckedStored' /\ Rising' /\ Ahead'
  <2>1. Undisturbed /\ Closed' /\ AckedStored /\ Rising /\ Ahead /\ Stored' = Stored
    BY <1>1, <1>6, QuietLog DEF AInv
  <2>2. \A i \in 1..Len(acked[p]) : acked[p][i] < u.at
    <3>1. u.how \in {"next", "empty"} /\ u.missing = {}
      BY <1>2, <2>1 DEF Undisturbed
    <3> QED
      BY <1>1, <2>1, <3>1 DEF Ahead
  <2>3. /\ Len(acked[p]) \in Nat /\ Len(acked'[p]) = Len(acked[p]) + 1
        /\ acked'[p][Len(acked[p]) + 1] = u.at
        /\ \A i \in 1..Len(acked[p]) : acked'[p][i] = acked[p][i]
    <3>1. acked[p] \in Seq(Nat)
      BY <1>3
    <3> QED
      BY <1>3, <1>4, <3>1
  <2>4. \A i \in 1..Len(acked'[p]) : i \in 1..Len(acked[p]) \/ i = Len(acked[p]) + 1
    BY <2>3
  <2>5. AckedStored'
    BY <1>3, <1>4, <2>1, <2>3, <2>4 DEF AckedStored
  <2>6. Rising'
    <3> SUFFICES ASSUME NEW q \in Writers, NEW i \in 1..Len(acked'[q]),
                        NEW j \in 1..Len(acked'[q]), i < j
                 PROVE  acked'[q][i] < acked'[q][j]
      BY DEF Rising
    <3>1. CASE q # p
      BY <1>4, <2>1, <3>1 DEF Rising
    <3>2. CASE q = p
      <4>1. i \in 1..Len(acked[p])
        BY <2>3, <3>2
      <4>2. CASE j \in 1..Len(acked[p])
        BY <2>1, <2>3, <3>2, <4>1, <4>2 DEF Rising
      <4>3. CASE j = Len(acked[p]) + 1
        BY <2>2, <2>3, <3>2, <4>1, <4>3
      <4> QED
        BY <2>4, <3>2, <4>2, <4>3
    <3> QED
      BY <3>1, <3>2
  <2>7. Ahead'
    <3>1. writer'[p].step \notin {"ready", "waiting", "stored"}
      BY <1>1
    <3> QED
      BY <1>1, <1>4, <2>1, <3>1 DEF Ahead
  <2> QED
    BY <2>1, <2>5, <2>6, <2>7
<1> QED
  BY <1>5, <1>6 DEF AInv

\* A step that leaves log, writers and acknowledgements alone.
LEMMA AsideKeeps ==
  ASSUME AInv, UNCHANGED <<log, writer, acked>>, late' \subseteq late
  PROVE  AInv'
<1>1. Stored' = Stored /\ Undisturbed' = Undisturbed /\ Closed' = Closed
  BY QuietLog
<1> QED
  BY <1>1 DEF AInv, TrackOK, AckedStored, Rising, Ahead, EmptyOK

\* Every step keeps the order.
LEMMA OrderKept == IInv /\ AInv /\ [Next]_vars => AInv'
<1> SUFFICES ASSUME IInv, AInv, [Next]_vars PROVE AInv'
  OBVIOUS
<1>1. ASSUME NEW p \in Writers, WriterStep(p) PROVE AInv'
  <2>1. \A n, i : Fresh(n, i).how = "given"
    BY DEF Fresh
  <2>2. UpdateOK(writer[p].update) /\ EmptyOK(writer[p].update)
    BY DEF IInv, WriterOK, AInv, TrackOK
  <2>3. CASE UpdateFeed(p) \/ \E i \in 0..MaxIndex : UpdateFeedWithIndex(p, i)
    BY <2>1, <2>3, QuietKeeps DEF UpdateFeed, UpdateFeedWithIndex, Steps
  <2>4. CASE LookupFails(p) \/ NotPosted(p)
    BY <2>1, <2>4, QuietKeeps DEF LookupFails, NotPosted, Idle, Steps
  <2>5. CASE Post(p)
    BY <2>5, QuietKeeps DEF Post, Steps
  <2>6. CASE PostFails(p)
    <3>1. late' \subseteq late \cup {writer[p].update}
      BY <2>6 DEF PostFails
    <3> QED
      BY <2>1, <2>6, <3>1, QuietKeeps DEF PostFails, Idle, Steps
  <2>7. CASE LookupFound(p)
    <3>1. PICK i \in Visible : Latest(i) /\ FoundIndex(p, i + 1, "next")
      BY <2>7 DEF LookupFound
    <3>2. i + 1 \in Nat /\ i + 1 \notin Visible
      BY <3>1 DEF Latest, Visible, IInv, LogOK, UpdateOK, Update, Stored, StoredBy
    <3> QED
      BY <3>1, <3>2, FoundAhead
  <2>8. CASE LookupNone(p)
    <3>1. CASE 0 \in Visible
      BY <2>8, <3>1, FoundAhead DEF LookupNone
    <3>2. CASE 0 \notin Visible
      BY <2>8, <3>2, FoundAhead DEF LookupNone
    <3> QED
      BY <3>1, <3>2
  <2>9. CASE Store(p)
    <3>1. \A q \in Writers :
            /\ writer'[q].update = writer[q].update
            /\ \/ writer'[q].step = writer[q].step
               \/ /\ writer[q].step = "waiting" /\ writer'[q].step = "stored"
                  /\ writer[p].update = writer[q].update
      BY <2>9 DEF Store, Doing, IInv, WriterOK
    <3> QED
      BY <2>2, <2>9, <3>1, StoredKeeps DEF Store
  <2>10. CASE PostReturns(p)
    BY <2>10, ReturnKeeps
  <2> QED
    BY <1>1, <2>3, <2>4, <2>5, <2>6, <2>7, <2>8, <2>9, <2>10 DEF WriterStep
<1>2. CASE Node
  <2>1. CASE \E u \in late : StoreLate(u)
    <3>1. PICK u \in late : StoreLate(u)
      BY <2>1
    <3>2. UpdateOK(u) /\ EmptyOK(u) /\ late' \subseteq late /\ writer' = writer
          /\ log' = Append(log, u) /\ acked' = acked
      BY <3>1 DEF IInv, LateOK, AInv, TrackOK, StoreLate
    <3> QED
      BY <3>2, StoredKeeps
  <2>2. CASE ~ \E u \in late : StoreLate(u)
    BY <1>2, <2>2, AsideKeeps DEF Node, LoseLate, Hide, Reappear
  <2> QED
    BY <2>1, <2>2
<1>3. CASE Check
  BY <1>3, AsideKeeps DEF Check, StartCheck, ChunkFound, ChunkMissing, CheckFails, Verdict
<1>4. CASE UNCHANGED vars
  BY <1>4, AsideKeeps DEF vars
<1> QED
  BY <1>1, <1>2, <1>3, <1>4 DEF Next

\* At first nothing is acknowledged.
LEMMA OrderInitially == Init => AInv
<1> SUFFICES ASSUME Init PROVE AInv
  OBVIOUS
<1>1. TrackOK
  BY DEF Init, TrackOK, EmptyOK, Fresh
<1>2. Stored = {}
  BY DEF Init, Stored, StoredBy
<1>3. Closed /\ AckedStored /\ Rising /\ Ahead
  BY <1>2 DEF Init, Closed, AckedStored, Rising, Ahead
<1> QED
  BY <1>1, <1>3 DEF AInv

\* However many writers race and however late abandoned requests arrive: while no index was
\* given, no chunk out of reach and no 500 misread, each writer's acknowledged updates have
\* rising indexes.
THEOREM WritersReadInOrder == Spec => []AckedInOrder
<1>1. Spec => []AInv
  BY InductiveInvariant, OrderInitially, OrderKept, PTL DEF Spec
<1>2. AInv => AckedInOrder
  <2>1. TrackOK => \A p \in Writers : DOMAIN acked[p] = 1..Len(acked[p])
    <3> SUFFICES ASSUME TrackOK, NEW p \in Writers PROVE DOMAIN acked[p] = 1..Len(acked[p])
      OBVIOUS
    <3>1. acked[p] \in Seq(Nat)
      BY DEF TrackOK
    <3> QED
      BY <3>1
  <2> QED
    BY <2>1 DEF AInv, AckedInOrder, Rising
<1> QED
  BY <1>1, <1>2, PTL

-----------------------------------------------------------------------------
(* Powers of two, by which the levels of a Merkle tree grow.                *)

\* A set of numbers that is not empty has a least one.
LEMMA LeastExists ==
  ASSUME NEW S \in SUBSET Nat, S # {}
  PROVE  \E n \in S : \A m \in S : n <= m
<1> DEFINE Less == OpToRel(<, Nat)
<1>1. IsWellFoundedOn(Less, Nat)
  BY NatLessThanWellFounded
<1>2. \A x, y \in Nat : <<x, y>> \in Less <=> x < y
  BY DEF OpToRel
<1> HIDE DEF Less
<1>3. PICK n \in S : \A m \in S : ~ (<<m, n>> \in Less)
  BY <1>1, WFMin
<1>4. \A m \in S : m \in Nat /\ n \in Nat /\ ~ (m < n)
  BY <1>2, <1>3
<1> QED
  BY <1>4

\* A power of two counts the subsets, of which there is at least one.
LEMMA PowerCounts ==
  ASSUME NEW n \in Nat
  PROVE  /\ IsFiniteSet(SUBSET (1..n)) /\ Cardinality(SUBSET (1..n)) = 2^n
         /\ 2^n \in Nat /\ 2^n > 0
<1>1. IsFiniteSet(1..n) /\ Cardinality(1..n) = n
  BY FS_Interval
<1>2. IsFiniteSet(SUBSET (1..n)) /\ Cardinality(SUBSET (1..n)) = 2^n
  BY <1>1, FS_SUBSET
<1>3. Cardinality(SUBSET (1..n)) \in Nat /\ Cardinality(SUBSET (1..n)) # 0
  <2>1. {} \in SUBSET (1..n)
    OBVIOUS
  <2> QED
    BY <1>2, <2>1, FS_CardinalityType, FS_EmptySet
<1> QED
  BY <1>2, <1>3

\* One more element makes twice as many subsets: those without it and those with it.
LEMMA PowerDoubles ==
  ASSUME NEW n \in Nat
  PROVE  2^(n + 1) = 2 * 2^n
<1> DEFINE without == SUBSET (1..n)
           added   == [s \in without |-> s \cup {n + 1}]
           with    == {s \cup {n + 1} : s \in without}
<1>1. n + 1 \in Nat
  OBVIOUS
<1>2. IsFiniteSet(without) /\ Cardinality(without) = 2^n /\ 2^n \in Nat
  BY PowerCounts
<1>3. Cardinality(SUBSET (1..(n + 1))) = 2^(n + 1)
  BY <1>1, PowerCounts
<1>4. n + 1 \notin 1..n /\ 1..(n + 1) = (1..n) \cup {n + 1}
  OBVIOUS
<1>5. added \in Bijection(without, with)
  <2>1. \A s, t \in without : added[s] = added[t] => s = t
    BY <1>4
  <2>2. added \in [without -> with] /\ \A t \in with : \E s \in without : added[s] = t
    OBVIOUS
  <2> HIDE DEF added, with, without
  <2> QED
    BY <2>1, <2>2 DEF Bijection, Injection, Surjection, IsInjective
<1>6. ExistsBijection(without, with)
  BY <1>5 DEF ExistsBijection
<1>7. IsFiniteSet(with) /\ Cardinality(with) = Cardinality(without)
  <2> HIDE DEF without, with
  <2> QED
    BY <1>2, <1>5, <1>6, FS_Bijection
<1>8. SUBSET (1..(n + 1)) = without \cup with
  <2>1. ASSUME NEW s \in SUBSET (1..(n + 1)) PROVE s \in without \cup with
    <3>1. CASE n + 1 \in s
      <4>1. s \ {n + 1} \in without /\ s = (s \ {n + 1}) \cup {n + 1}
        BY <1>4, <3>1
      <4> QED
        BY <4>1
    <3>2. CASE n + 1 \notin s
      BY <1>4, <3>2
    <3> QED
      BY <3>1, <3>2
  <2>2. without \cup with \subseteq SUBSET (1..(n + 1))
    BY <1>4
  <2> QED
    BY <2>1, <2>2
<1>9. without \cap with = {}
  BY <1>4
<1> HIDE DEF without, with, added
<1>10. Cardinality(without \cup with)
         = Cardinality(without) + Cardinality(with) - Cardinality(without \cap with)
  BY <1>2, <1>7, FS_Union
<1>11. Cardinality(without \cap with) = 0
  BY <1>9, FS_EmptySet
<1> DEFINE p == 2^n
           q == 2^(n + 1)
<1>12. p \in Nat /\ q = p + p - 0
  BY <1>2, <1>3, <1>7, <1>8, <1>10, <1>11
<1> HIDE DEF p, q
<1>13. q = 2 * p
  BY <1>12
<1> QED
  BY <1>13 DEF p, q

-----------------------------------------------------------------------------
(* The Merkle tree tells payloads apart.                                   *)

\* Level k of the tree over the level below it.
Parents(level, k) ==
  [i \in 1..(2 ^ (LEVELS - k)) |-> Keccak(<<level[2 * i - 1], level[2 * i]>>)]

\* The levels of the tree up to m, as BmtRoot has them.
Levels(f, segments, m) ==
  f = [k \in 0..m |-> IF k = 0 THEN segments ELSE Parents(f[k - 1], k)]

\* There are such levels.
LEMMA LevelsExist ==
  ASSUME NEW segments, NEW m \in Nat
  PROVE  \E f : Levels(f, segments, m)
<1> DEFINE S == {n \in Nat : ~ \E f : Levels(f, segments, n)}
<1> SUFFICES ASSUME S # {} PROVE FALSE
  OBVIOUS
<1>1. PICK n \in S : \A j \in S : n <= j
  BY LeastExists
<1>2. n \in Nat /\ ~ \E f : Levels(f, segments, n)
  BY <1>1
<1>3. CASE n = 0
  <2>1. Levels([k \in 0..0 |-> segments], segments, 0)
    BY DEF Levels
  <2> QED
    BY <1>2, <1>3, <2>1
<1>4. CASE n > 0
  <2>1. n - 1 \in Nat /\ n - 1 \notin S
    BY <1>1, <1>2, <1>4
  <2>2. PICK f : Levels(f, segments, n - 1)
    BY <2>1
  <2> DEFINE new == [k \in 0..n |-> IF k = n THEN Parents(f[n - 1], n) ELSE f[k]]
  <2>3. \A k \in 0..(n - 1) :
          new[k] = f[k] /\ f[k] = IF k = 0 THEN segments ELSE Parents(f[k - 1], k)
    BY <1>2, <2>2 DEF Levels
  <2>4. new[n] = Parents(f[n - 1], n)
    BY <1>2
  <2>5. \A k \in 0..n : k # 0 => new[k - 1] = f[k - 1]
    <3>1. \A k \in 0..n : k # 0 => k - 1 \in 0..(n - 1)
      BY <1>2
    <3> HIDE DEF new
    <3> QED
      BY <2>3, <3>1
  <2>6. ASSUME NEW k \in 0..n PROVE new[k] = IF k = 0 THEN segments ELSE Parents(new[k - 1], k)
    <3> HIDE DEF new
    <3>1. CASE k = n
      BY <1>4, <2>4, <2>5, <3>1
    <3>2. CASE k # n
      <4>1. k \in 0..(n - 1)
        BY <1>2, <3>2
      <4> QED
        BY <2>3, <2>5, <4>1
    <3> QED
      BY <3>1, <3>2
  <2>7. new = [k \in 0..n |-> new[k]]
    OBVIOUS
  <2> HIDE DEF new
  <2>8. Levels(new, segments, n)
    BY <2>6, <2>7 DEF Levels
  <2> QED
    BY <1>2, <2>8
<1> QED
  BY <1>2, <1>3, <1>4

\* BmtRoot is what the last of them begins with.
LEMMA RootOfLevels ==
  ASSUME NEW segments
  PROVE  \E f : Levels(f, segments, LEVELS) /\ BmtRoot(segments) = f[LEVELS][1]
<1> DEFINE Level[k \in 0..LEVELS] ==
             IF k = 0 THEN segments
             ELSE [i \in 1..(2 ^ (LEVELS - k)) |->
                     Keccak(<<Level[k - 1][2 * i - 1], Level[k - 1][2 * i]>>)]
<1>1. Levels(Level, segments, LEVELS)
  <2>1. \E f : Levels(f, segments, LEVELS)
    BY LevelsExist, SocAssumption DEF SocAssumption
  <2> QED
    BY <2>1 DEF Levels, Parents
<1>2. BmtRoot(segments) = Level[LEVELS][1]
  BY DEF BmtRoot
<1> HIDE DEF Level
<1> QED
  BY <1>1, <1>2

\* Every segment of a level is the first or the second of a pair.
LEMMA Halves ==
  ASSUME NEW h \in Nat, NEW j \in 1..(2 * h)
  PROVE  \E i \in 1..h : j = 2 * i - 1 \/ j = 2 * i
<1>1. PICK q \in Int, r \in 0..1 : j + 1 = 2 * q + r
  <2>1. (j + 1) \div 2 \in Int /\ (j + 1) % 2 \in 0..1 /\ j + 1 = 2 * ((j + 1) \div 2) + ((j + 1) % 2)
    OBVIOUS
  <2> QED
    BY <2>1
<1>2. q \in 1..h /\ (j = 2 * q - 1 \/ j = 2 * q)
  BY <1>1
<1> QED
  BY <1>2

\* Two trees with one root agree, level by level from the root down to the segments.
LEMMA RootTells ==
  ASSUME NEW a, NEW b, BmtRoot(a) = BmtRoot(b),
         a = [i \in 1..CHUNK_SIZE |-> a[i]], b = [i \in 1..CHUNK_SIZE |-> b[i]]
  PROVE  a = b
<1>1. LEVELS \in Nat
  BY SocAssumption DEF SocAssumption
<1>2. PICK f : Levels(f, a, LEVELS) /\ BmtRoot(a) = f[LEVELS][1]
  BY RootOfLevels
<1>3. PICK g : Levels(g, b, LEVELS) /\ BmtRoot(b) = g[LEVELS][1]
  BY RootOfLevels
<1> DEFINE Agree(n) == \A i \in 1..(2 ^ n) : f[LEVELS - n][i] = g[LEVELS - n][i]
           S == {n \in 0..LEVELS : ~Agree(n)}
<1>4. S = {}
  <2> SUFFICES ASSUME S # {} PROVE FALSE
    OBVIOUS
  <2>1. PICK n \in S : \A j \in S : n <= j
    <3>1. S \in SUBSET Nat
      OBVIOUS
    <3> HIDE DEF S
    <3> QED
      BY <3>1, LeastExists
  <2>2. n \in 0..LEVELS /\ ~Agree(n)
    BY <2>1
  <2>3. CASE n = 0
    <3>1. 2 ^ 0 = 1 /\ LEVELS - 0 = LEVELS
      BY <1>1
    <3> QED
      BY <1>2, <1>3, <2>2, <2>3, <3>1
  <2>4. CASE n > 0
    <3> DEFINE k == LEVELS - (n - 1)
    <3>1. n - 1 \in 0..LEVELS /\ n - 1 \notin S
      BY <1>1, <2>1, <2>2, <2>4
    <3>2. Agree(n - 1)
      BY <3>1
    <3>3. k \in 1..LEVELS /\ k - 1 = LEVELS - n /\ LEVELS - k = n - 1
      BY <1>1, <2>2, <2>4
    <3>4. 2 ^ n = 2 * 2 ^ (n - 1) /\ 2 ^ (n - 1) \in Nat
      <4>1. n - 1 \in Nat /\ (n - 1) + 1 = n
        BY <2>2, <2>4
      <4> QED
        BY <4>1, PowerDoubles, PowerCounts
    <3> DEFINE half == 2 ^ (n - 1)
    <3>5. ASSUME NEW i \in 1..half
          PROVE  f[k - 1][2 * i - 1] = g[k - 1][2 * i - 1] /\ f[k - 1][2 * i] = g[k - 1][2 * i]
      <4>1. f[k] = Parents(f[k - 1], k) /\ g[k] = Parents(g[k - 1], k)
        <5> HIDE DEF k
        <5>1. k \in 0..LEVELS /\ k # 0
          BY <3>3
        <5> QED
          BY <1>2, <1>3, <5>1 DEF Levels
      <4>2. f[k][i] = Keccak(<<f[k - 1][2 * i - 1], f[k - 1][2 * i]>>)
        BY <3>3, <3>5, <4>1 DEF Parents
      <4>3. g[k][i] = Keccak(<<g[k - 1][2 * i - 1], g[k - 1][2 * i]>>)
        BY <3>3, <3>5, <4>1 DEF Parents
      <4>4. f[k][i] = g[k][i]
        BY <3>2, <3>5
      <4> QED
        BY <4>2, <4>3, <4>4 DEF Keccak
    <3>6. ASSUME NEW j \in 1..(2 ^ n) PROVE f[k - 1][j] = g[k - 1][j]
      <4>1. \E i \in 1..half : j = 2 * i - 1 \/ j = 2 * i
        <5> HIDE DEF half, k
        <5>1. half \in Nat /\ j \in 1..(2 * half)
          BY <3>4, <3>6 DEF half
        <5> QED
          BY <5>1, Halves
      <4> QED
        BY <3>5, <4>1
    <3> QED
      BY <2>2, <3>3, <3>6
  <2> QED
    BY <2>2, <2>3, <2>4
<1>5. Agree(LEVELS)
  BY <1>1, <1>4
<1>6. LEVELS - LEVELS = 0 /\ f[0] = a /\ g[0] = b
  BY <1>1, <1>2, <1>3 DEF Levels
<1>7. \A i \in 1..CHUNK_SIZE : a[i] = b[i]
  BY <1>5, <1>6 DEF CHUNK_SIZE
<1> HIDE DEF Agree, S
<1> QED
  BY <1>7

\* Two chunks of one address have one span and, up to zeros at the end, one payload.
LEMMA AddressTells ==
  ASSUME NEW m, NEW n, NEW p, NEW q, ChunkAddress(m, p) = ChunkAddress(n, q)
  PROVE  m = n /\ SameUpToZeros(p, q)
<1>1. m = n /\ BmtRoot(Padded(p)) = BmtRoot(Padded(q))
  BY DEF ChunkAddress, Keccak
<1>2. Padded(p) = [i \in 1..CHUNK_SIZE |-> Padded(p)[i]] /\ Padded(q) = [i \in 1..CHUNK_SIZE |-> Padded(q)[i]]
  BY DEF Padded
<1>3. Padded(p) = Padded(q)
  <2> DEFINE a == Padded(p)
             b == Padded(q)
  <2>1. BmtRoot(a) = BmtRoot(b) /\ a = [i \in 1..CHUNK_SIZE |-> a[i]] /\ b = [i \in 1..CHUNK_SIZE |-> b[i]]
    BY <1>1, <1>2
  <2> HIDE DEF a, b
  <2>2. a = b
    BY <2>1, RootTells
  <2> QED
    BY <2>2 DEF a, b
<1> QED
  BY <1>1, <1>3 DEF SameUpToZeros

-----------------------------------------------------------------------------
(* The single-owner chunks.                                                *)

\* A chunk that was made is signed by the key of its owner.
MadeOK(soc) ==
  /\ DOMAIN soc = {"identifier", "span", "payload", "signature", "owner"}
  /\ Fits(soc.payload)
  /\ \E key \in PrivateKey : soc.signature = Sign(key, Signed(soc)) /\ soc.owner = Address(key)

\* Those that were made, and nothing else, are posted and kept, each at its address; what
\* was read is right.
SocInv ==
  /\ \A soc \in made : MadeOK(soc)
  /\ posting \subseteq made
  /\ \A a \in DOMAIN kept :
       kept[a] \in made /\ a = SocAddress(kept[a].identifier, kept[a].owner)
  /\ DownloadIsTheOwners

\* A key that is in use is a number, and is not the one of nobody.
LEMMA KeysCount ==
  ASSUME NEW key \in PrivateKey
  PROVE  key \in Nat /\ key # 0 /\ RecoveryId(key) \in 0..1
<1>1. key \in Nat \ {0}
  BY SocAssumption DEF SocAssumption
<1> QED
  BY <1>1 DEF RecoveryId

\* A download returns what was read to the end: more chunks that are made do not matter.
LEMMA MoreAreMade ==
  ASSUME DownloadIsTheOwners, reading' = reading, made \subseteq made'
  PROVE  DownloadIsTheOwners'
  BY DEF DownloadIsTheOwners

\* A chunk is made with the signature of its owner.
LEMMA UploadOK ==
  ASSUME SocInv, NEW key \in PrivateKey, NEW i \in Identifier, NEW p \in Body,
         SocUpload(key, i, p)
  PROVE  SocInv'
<1> DEFINE soc == MakeSingleOwnerChunk(i, p, key)
<1>1. /\ made' = made \cup {soc} /\ posting' = posting \cup {soc}
      /\ kept' = kept /\ reading' = reading /\ Fits(p)
  BY DEF SocUpload, Posted
<1>2. MadeOK(soc)
  BY <1>1 DEF MakeSingleOwnerChunk, MadeOK, Signed
<1>3. DownloadIsTheOwners'
  BY <1>1, MoreAreMade DEF SocInv
<1> HIDE DEF soc
<1> QED
  BY <1>1, <1>2, <1>3 DEF SocInv

\* The node keeps a chunk at its address, in the place of another one perhaps.
LEMMA StoredAtAddress ==
  ASSUME SocInv, NEW soc \in posting, SocStored(soc) \/ SocLost(soc)
  PROVE  SocInv'
<1>1. made' = made /\ posting' = posting \ {soc} /\ reading' = reading /\ soc \in made
  BY DEF SocInv, SocStored, SocLost
<1>2. DownloadIsTheOwners'
  BY <1>1, MoreAreMade DEF SocInv
<1>3. ASSUME NEW a \in DOMAIN kept'
      PROVE  kept'[a] \in made /\ a = SocAddress(kept'[a].identifier, kept'[a].owner)
  <2>1. CASE SocStored(soc)
    <3> DEFINE address == SocAddress(soc.identifier, soc.owner)
    <3>1. kept' = [x \in DOMAIN kept \cup {address} |-> IF x = address THEN soc ELSE kept[x]]
      BY <2>1 DEF SocStored, Keep
    <3> HIDE DEF address
    <3>2. CASE a = address
      BY <1>1, <3>1, <3>2 DEF address
    <3>3. CASE a # address
      <4>1. a \in DOMAIN kept /\ kept'[a] = kept[a]
        BY <1>3, <3>1, <3>3
      <4> QED
        BY <4>1 DEF SocInv
    <3> QED
      BY <3>2, <3>3
  <2>2. CASE SocLost(soc)
    BY <1>3, <2>2 DEF SocLost, SocInv
  <2> QED
    BY <2>1, <2>2
<1> QED
  BY <1>1, <1>2, <1>3 DEF SocInv

\* Bytes that parse as the chunk of an owner and identifier have the signature of a chunk
\* that the owner has made, and over the same contents.
LEMMA ReadIsTheOwners ==
  ASSUME SocInv, NEW key \in PrivateKey, NEW i \in Identifier, NEW wire \in Deliverable,
         Unmarshals(wire, SocAddress(i, Address(key)))
  PROVE  \E soc \in made :
           /\ i = soc.identifier /\ Address(key) = soc.owner
           /\ wire.identifier = soc.identifier /\ wire.span = soc.span
           /\ SameUpToZeros(wire.payload, soc.payload)
<1>1. PICK soc \in made, v \in {0, 1, 26, 27, 28} :
        wire.signature = [soc.signature EXCEPT !.v = v]
  <2> DEFINE Payloads == UNION {[1..k -> Byte] : k \in 0..(CHUNK_SIZE + 1)}
             Versions == {0, 1, 26, 27, 28}
             Spans    == 0..CHUNK_SIZE
  <2>1. wire \in {[identifier |-> x, owner |-> Address(0), span |-> n, payload |-> p,
                   signature |-> [s.signature EXCEPT !.v = v]] :
                     x \in Identifier, n \in Spans, s \in made, v \in Versions, p \in Payloads}
    BY DEF Deliverable
  <2> HIDE DEF Payloads, Versions, Spans
  <2>2. \E x \in Identifier, n \in Spans, s \in made, v \in Versions, p \in Payloads :
          wire = [identifier |-> x, owner |-> Address(0), span |-> n, payload |-> p,
                  signature |-> [s.signature EXCEPT !.v = v]]
    BY <2>1
  <2>3. PICK x \in Identifier, n \in Spans, s \in made, v \in Versions, p \in Payloads :
          wire = [identifier |-> x, owner |-> Address(0), span |-> n, payload |-> p,
                  signature |-> [s.signature EXCEPT !.v = v]]
    BY <2>2
  <2>4. wire.signature = [s.signature EXCEPT !.v = v]
    BY <2>3
  <2> QED
    BY <2>4 DEF Versions
<1>2. PICK own \in PrivateKey : soc.signature = Sign(own, Signed(soc)) /\ soc.owner = Address(own)
  BY DEF SocInv, MadeOK
<1>3. wire.signature.by = own /\ wire.signature.digest = EthSignedMessageDigest(Signed(soc))
  BY <1>1, <1>2 DEF Sign
<1>4. wire.identifier = i /\ Signer(wire) = key
  BY DEF Unmarshals, SocAddress, Keccak, Address, Point
<1>5. own = key /\ EthSignedMessageDigest(Signed(soc)) = EthSignedMessageDigest(Signed(wire))
  <2>1. key # 0
    BY KeysCount
  <2> QED
    BY <1>3, <1>4, <2>1 DEF Signer, RecoverPublicKey
<1>6. Signed(soc) = Signed(wire)
  BY <1>5 DEF EthSignedMessageDigest, Keccak
<1>7. soc.identifier = wire.identifier
      /\ ChunkAddress(wire.span, wire.payload) = ChunkAddress(soc.span, soc.payload)
  BY <1>6 DEF Signed
<1>8. wire.span = soc.span /\ SameUpToZeros(wire.payload, soc.payload)
  BY <1>7, AddressTells
<1> QED
  BY <1>2, <1>4, <1>5, <1>7, <1>8

\* And the bytes of a chunk that was made do parse, at its address.
LEMMA MadeIsRead ==
  ASSUME NEW soc, MadeOK(soc)
  PROVE  Unmarshals(Wire(soc), SocAddress(soc.identifier, soc.owner))
<1> DEFINE wire == Wire(soc)
<1>1. /\ wire.identifier = soc.identifier /\ wire.span = soc.span
      /\ wire.payload = soc.payload /\ wire.signature = soc.signature
  BY DEF MadeOK, Wire
<1>2. PICK key \in PrivateKey : soc.signature = Sign(key, Signed(soc)) /\ soc.owner = Address(key)
  BY DEF MadeOK
<1>3. Signed(wire) = Signed(soc)
  BY <1>1 DEF Signed
<1> HIDE DEF wire
<1>4. Signer(wire) = key
  <2>1. RecoveryId(key) \in 0..1
    BY KeysCount
  <2>2. RecoveryId(key) + 27 >= 27 /\ (RecoveryId(key) + 27) - 27 = RecoveryId(key)
    BY <2>1
  <2>3. /\ wire.signature.by = key /\ wire.signature.v = RecoveryId(key) + 27
        /\ wire.signature.digest = EthSignedMessageDigest(Signed(wire))
    BY <1>1, <1>2, <1>3 DEF Sign
  <2> QED
    BY <2>2, <2>3 DEF Signer, RecoverPublicKey
<1>5. Unmarshals(wire, SocAddress(soc.identifier, soc.owner))
  BY <1>1, <1>2, <1>4 DEF Unmarshals, MadeOK
<1> QED
  BY <1>5 DEF wire

\* What is read is the owner's, or is refused; a chunk that is delivered as it is kept
\* is not refused.
LEMMA DownloadOK ==
  ASSUME SocInv, NEW key \in PrivateKey, NEW i \in Identifier, NEW wire \in Deliverable,
         SocDownload(Address(key), i, wire)
  PROVE  SocInv'
<1> DEFINE address == SocAddress(i, Address(key))
           ok      == Unmarshals(wire, address)
           intact  == address \in DOMAIN kept /\ wire = Wire(kept[address])
<1>1. /\ reading' = [asked |-> <<i, Address(key)>>, ok |-> ok, intact |-> intact,
                     wire |-> IF ok THEN wire ELSE <<>>]
      /\ made' = made /\ posting' = posting /\ kept' = kept
  BY DEF SocDownload
<1>2. /\ reading'.asked = <<i, Address(key)>> /\ (reading'.ok <=> ok) /\ (reading'.intact <=> intact)
      /\ ok => reading'.wire = wire
  <2> HIDE DEF ok, intact
  <2> QED
    BY <1>1
<1>3. ASSUME ok
      PROVE  \E soc \in made :
               /\ i = soc.identifier /\ Address(key) = soc.owner
               /\ wire.identifier = soc.identifier /\ wire.span = soc.span
               /\ SameUpToZeros(wire.payload, soc.payload)
  BY <1>3, ReadIsTheOwners
<1>4. ASSUME intact PROVE ok
  <2>1. kept[address] \in made /\ address = SocAddress(kept[address].identifier, kept[address].owner)
    BY <1>4 DEF SocInv
  <2>2. MadeOK(kept[address])
    BY <2>1 DEF SocInv
  <2> DEFINE soc == kept[address]
  <2>3. Unmarshals(Wire(soc), SocAddress(soc.identifier, soc.owner))
    <3> HIDE DEF soc, address
    <3> QED
      BY <2>2, MadeIsRead DEF soc
  <2> QED
    BY <1>4, <2>1, <2>3
<1> HIDE DEF ok, intact, address
<1>5. DownloadIsTheOwners'
  BY <1>1, <1>2, <1>3, <1>4 DEF DownloadIsTheOwners
<1> QED
  BY <1>1, <1>5 DEF SocInv

\* Nothing is made at first.
LEMMA SocInitOK == SocInit => SocInv
<1> SUFFICES ASSUME SocInit PROVE SocInv
  OBVIOUS
<1>1. made = {} /\ posting = {} /\ DOMAIN kept = {}
  BY DEF SocInit
<1>2. reading.ok = FALSE /\ reading.intact = FALSE
  BY DEF SocInit, NotRead
<1>3. DownloadIsTheOwners
  BY <1>2 DEF DownloadIsTheOwners
<1> QED
  BY <1>1, <1>3 DEF SocInv

\* The invariant is kept by writers, readers and the node.
LEMMA SocStepOK == SocInv /\ [SocNext]_socVars => SocInv'
<1> SUFFICES ASSUME SocInv, SocNext \/ UNCHANGED socVars PROVE SocInv'
  OBVIOUS
<1>1. CASE UNCHANGED socVars
  <2>1. made' = made /\ posting' = posting /\ kept' = kept /\ reading' = reading
    BY <1>1 DEF socVars
  <2>2. DownloadIsTheOwners'
    BY <2>1, MoreAreMade DEF SocInv
  <2> QED
    BY <2>1, <2>2 DEF SocInv
<1>2. ASSUME NEW key \in PrivateKey, NEW i \in Identifier, NEW p \in Body, SocUpload(key, i, p)
      PROVE  SocInv'
  BY <1>2, UploadOK
<1>3. ASSUME NEW soc \in posting, SocStored(soc) \/ SocLost(soc)
      PROVE  SocInv'
  BY <1>3, StoredAtAddress
<1>4. ASSUME NEW key \in PrivateKey, NEW i \in Identifier, NEW wire \in Deliverable,
             SocDownload(Address(key), i, wire)
      PROVE  SocInv'
  BY <1>4, DownloadOK
<1> QED
  BY <1>1, <1>2, <1>3, <1>4 DEF SocNext

\* For any keys, identifiers and payloads, and any height of the Merkle tree: whatever a node
\* puts together of the chunks that were made, a download returns what the owner has signed
\* under the identifier, or fails, and it does not fail for a chunk delivered as it is kept.
THEOREM ReadsAreSigned == SocSpec => []DownloadIsTheOwners
<1>1. SocInv => DownloadIsTheOwners
  BY DEF SocInv
<1> QED
  BY <1>1, SocInitOK, SocStepOK, PTL DEF SocSpec
=============================================================================
