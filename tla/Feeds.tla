------------------------------- MODULE Feeds --------------------------------
(***************************************************************************)
(* The updates of one feed, a pair of owner and topic (file/feeds.rs).     *)
(* The update at an index is the single-owner chunk whose address is made  *)
(* of owner, topic and index; the client keeps nothing of the feed and     *)
(* asks the node for the next index before it writes there.  Several       *)
(* programs hold the owner's key and write at once, and another checks     *)
(* whether the feed can be retrieved.                                      *)
(***************************************************************************)
EXTENDS Naturals, Sequences

CONSTANTS
  Writers,   \* programs with the owner's key
  MaxCalls,  \* bound: updates that are begun
  MaxIndex   \* bound: indexes that a caller gives or asks about

ASSUME FeedsAssumption == MaxCalls \in Nat /\ MaxIndex \in Nat

VARIABLES
  log,     \* the updates the node has stored, in the order it stored them
  hidden,  \* indexes whose chunks the network cannot produce at the moment
  late,    \* requests in flight that their writer no longer waits for
  calls,   \* updates begun
  writer,  \* what each writer is doing: its step and its update
  acked,   \* per writer, the indexes of the updates it was told are stored
  check    \* the retrievability check: the chunks from next to upto remain

vars == <<log, hidden, late, calls, writer, acked, check>>

\* An update: its number and index, how the index was come by, and, of the
\* lookup, how much was stored then and which chunks the node could not see.
\*   given  by the caller          empty   the feed had no update to be seen
\*   next   after the latest one   failed  a 500 for a feed that has updates
Hows   == {"given", "next", "empty", "failed"}
Update == [n : Nat, at : Nat, how : Hows, seen : Nat, missing : SUBSET Nat]
Fresh(n, i) == [n |-> n, at |-> i, how |-> "given", seen |-> 0, missing |-> {}]

Steps    == {"idle", "looking", "ready", "waiting", "stored"}
Verdicts == {"none", "checking", "true", "false", "error"}

Init ==
  /\ log = <<>> /\ hidden = {} /\ late = {} /\ calls = 0
  /\ writer = [p \in Writers |-> [step |-> "idle", update |-> Fresh(0, 0)]]
  /\ acked = [p \in Writers |-> <<>>]
  /\ check = [next |-> 0, upto |-> 0, verdict |-> "none"]

-----------------------------------------------------------------------------
(* The node.                                                               *)

\* The indexes of the first m updates stored, of all, and of those to be seen.
StoredBy(m) == {log[k].at : k \in 1..m}
Stored  == StoredBy(Len(log))
Visible == Stored \ hidden

\* The latest update of a lookup: one that has no visible successor.
Latest(i) == i \in Visible /\ i + 1 \notin Visible

Hide(i) ==
  /\ i \in Visible
  /\ hidden' = hidden \cup {i}
  /\ UNCHANGED <<log, late, calls, writer, acked, check>>

Reappear(i) ==
  /\ i \in hidden
  /\ hidden' = hidden \ {i}
  /\ UNCHANGED <<log, late, calls, writer, acked, check>>

\* A request arrives although its writer has given up, or never does.
StoreLate(u) ==
  /\ u \in late
  /\ late' = late \ {u} /\ log' = Append(log, u)
  /\ UNCHANGED <<hidden, calls, writer, acked, check>>

LoseLate(u) ==
  /\ u \in late
  /\ late' = late \ {u}
  /\ UNCHANGED <<log, hidden, calls, writer, acked, check>>

-----------------------------------------------------------------------------
(* The writers.                                                            *)

Doing(p, step, update) == writer' = [writer EXCEPT ![p] = [step |-> step, update |-> update]]
Idle(p) == Doing(p, "idle", Fresh(0, 0))

\* update_feed, or update_feed_with_reference without an index.
UpdateFeed(p) ==
  /\ writer[p].step = "idle" /\ calls < MaxCalls
  /\ calls' = calls + 1
  /\ Doing(p, "looking", Fresh(calls + 1, 0))
  /\ UNCHANGED <<log, hidden, late, acked, check>>

UpdateFeedWithIndex(p, index) ==
  /\ writer[p].step = "idle" /\ calls < MaxCalls
  /\ calls' = calls + 1
  /\ Doing(p, "ready", Fresh(calls + 1, index))
  /\ UNCHANGED <<log, hidden, late, acked, check>>

\* The lookup's answer gave an index; the node has answered as of now.
FoundIndex(p, index, how) ==
  /\ writer[p].step = "looking"
  /\ Doing(p, "ready", [n |-> writer[p].update.n, at |-> index, how |-> how,
                       seen |-> Len(log), missing |-> hidden])
  /\ UNCHANGED <<log, hidden, late, calls, acked, check>>

\* Mutants: the latest index for the next, and one index further.
LookupTakesLatest(p)  == \E i \in Visible : Latest(i) /\ FoundIndex(p, i, "next")
LookupSkipsAnIndex(p) == \E i \in Visible : Latest(i) /\ FoundIndex(p, i + 2, "next")

LookupFound(p) == \E i \in Visible : Latest(i) /\ FoundIndex(p, i + 1, "next")

\* 404 and 500 both stand for an empty feed, whatever the reason of the 500.
LookupNone(p) ==
  FoundIndex(p, 0, IF 0 \in Visible THEN "failed" ELSE "empty")

\* Any other status, a broken connection, a header that is missing or does not
\* parse, or a caller that drops the future.
LookupFails(p) ==
  /\ writer[p].step = "looking"
  /\ Idle(p)
  /\ UNCHANGED <<log, hidden, late, calls, acked, check>>

\* The chunk is made and signed and its request sent.
Post(p) ==
  /\ writer[p].step = "ready"
  /\ Doing(p, "waiting", writer[p].update)
  /\ UNCHANGED <<log, hidden, late, calls, acked, check>>

\* The payload is too large for a chunk, or the request cannot be sent.
NotPosted(p) ==
  /\ writer[p].step = "ready"
  /\ Idle(p)
  /\ UNCHANGED <<log, hidden, late, calls, acked, check>>

Store(p) ==
  /\ writer[p].step = "waiting"
  /\ log' = Append(log, writer[p].update)
  /\ Doing(p, "stored", writer[p].update)
  /\ UNCHANGED <<hidden, late, calls, acked, check>>

PostReturns(p) ==
  /\ writer[p].step = "stored"
  /\ acked' = [acked EXCEPT ![p] = Append(@, writer[p].update.at)]
  /\ Idle(p)
  /\ UNCHANGED <<log, hidden, late, calls, check>>

\* The node refuses the chunk; or the call fails, or its future is dropped, with
\* the request still on its way or only its answer lost.
PostFails(p) ==
  /\ writer[p].step \in {"waiting", "stored"}
  /\ late' = late \cup (IF writer[p].step = "stored" THEN {} ELSE {writer[p].update})
  /\ Idle(p)
  /\ UNCHANGED <<log, hidden, calls, acked, check>>

-----------------------------------------------------------------------------
(* are_all_sequential_feeds_update_retrievable.                            *)

Verdict(v) ==
  /\ check.verdict = "checking"
  /\ check' = [check EXCEPT !.verdict = v]
  /\ UNCHANGED <<log, hidden, late, calls, writer, acked>>

StartCheck(index) ==
  /\ check.verdict # "checking"
  /\ check' = [next |-> 0, upto |-> index, verdict |-> "checking"]
  /\ UNCHANGED <<log, hidden, late, calls, writer, acked>>

\* Mutant: the range 0..index without its last index.
ChunkFoundExclusive ==
  /\ check.verdict = "checking" /\ check.next \in Visible
  /\ check' = IF check.next + 1 >= check.upto
              THEN [check EXCEPT !.verdict = "true"]
              ELSE [check EXCEPT !.next = @ + 1]
  /\ UNCHANGED <<log, hidden, late, calls, writer, acked>>

ChunkFound ==
  /\ check.verdict = "checking" /\ check.next \in Visible
  /\ check' = IF check.next = check.upto
              THEN [check EXCEPT !.verdict = "true"]
              ELSE [check EXCEPT !.next = @ + 1]
  /\ UNCHANGED <<log, hidden, late, calls, writer, acked>>

ChunkMissing == Verdict("false")  \* a 404, or a 500 whatever its reason
CheckFails   == Verdict("error")

-----------------------------------------------------------------------------

WriterStep(p) ==
  \/ UpdateFeed(p)
  \/ \E i \in 0..MaxIndex : UpdateFeedWithIndex(p, i)
  \/ LookupFound(p) \/ LookupNone(p) \/ LookupFails(p)
  \/ Post(p) \/ NotPosted(p) \/ Store(p) \/ PostReturns(p) \/ PostFails(p)

Node == \/ \E i \in Visible : Hide(i)
        \/ \E i \in hidden : Reappear(i)
        \/ \E u \in late : StoreLate(u) \/ LoseLate(u)

Check == \/ \E i \in 0..MaxIndex : StartCheck(i)
         \/ ChunkFound \/ ChunkMissing \/ CheckFails

Next == (\E p \in Writers : WriterStep(p)) \/ Node \/ Check

Spec == Init /\ [][Next]_vars

-----------------------------------------------------------------------------
(* Correctness.                                                            *)

ExtendsFeed(u) ==
  u.how = "next" => u.at > 0 /\ u.at - 1 \in StoredBy(u.seen)

\* An update whose index was looked up extends the feed: the update before it was
\* stored by then.  So whatever the writers, failures and delays, an index that
\* was found leaves no gap in the sequence the feed is read back by.
FoundIndexExtends == \A k \in DOMAIN log : ExtendsFeed(log[k])

ReplacesUnseen(u) ==
  u.how \in {"next", "empty"} => u.at \notin StoredBy(u.seen) \ u.missing

\* An update whose index was looked up takes the place of another only in a race:
\* of every update that is replaced, the lookup was answered before it was stored
\* or could not see it.  (An index that is given, and a 500 that stands for
\* another failure than an empty feed, replace what they like.)
ReplacesOnlyUnseen == \A k \in DOMAIN log : ReplacesUnseen(log[k])

Undisturbed ==
  \A k \in DOMAIN log : log[k].how \in {"next", "empty"} /\ log[k].missing = {}

\* While no index is given, no chunk is out of reach and no 500 is misread, the
\* updates a writer is told are stored have rising indexes, whatever the other
\* writers do and however late abandoned requests arrive: the feed reads back in
\* the order in which each writer wrote.
AckedInOrder ==
  Undisturbed => \A p \in Writers : \A i, j \in DOMAIN acked[p] :
                    i < j => acked[p][i] < acked[p][j]

\* "True iff every feed-update chunk from 0 through index is retrievable": each of
\* them was stored, although they are asked for one by one while the feed changes.
RetrievableMeansStored ==
  check.verdict = "true" => 0..check.upto \subseteq Stored
=============================================================================
