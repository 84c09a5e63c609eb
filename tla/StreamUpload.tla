---------------------------- MODULE StreamUpload ----------------------------
(***************************************************************************)
(* stream_collection_entries of file/stream.rs: one file after the other,  *)
(* its chunks are posted to the node with at most STREAM_CONCURRENCY       *)
(* requests in flight; then the manifest is saved children first.          *)
(*                                                                         *)
(* The client task and the node are two actors.  A request is queued when  *)
(* its future is pushed, sent when the task polls it, and answered by the  *)
(* node, which may have stored the body although the answer is an error or *)
(* never read.  The caller may drop the future wherever the task awaits.   *)
(* Paths differ in their first byte, so each entry is one fork of the      *)
(* manifest root; module Manifest has the general trie.                    *)
(***************************************************************************)
EXTENDS ChunkTree, FiniteSets

CONSTANTS
  STREAM_CONCURRENCY,  \* in-flight cap (64)
  Lengths,             \* bound: the file lengths an entry may have
  MaxEntries           \* bound: entries of the collection

ASSUME UploadAssumption ==
  /\ STREAM_CONCURRENCY \in Nat \ {0}
  /\ Lengths \subseteq Nat /\ MaxEntries \in Nat

VARIABLES
  lens,      \* the entries: their data lengths, in upload order
  website,   \* a website fork "/" is added (index.html or document options)
  phase,     \* where the task is
  file,      \* the entry being uploaded
  next,      \* the chunk pushed next; while saving, the fork saved next
  req,       \* what became of each request
  stored,    \* what the node has accepted
  processed, \* the progress counter
  forks      \* entries the manifest has a fork for

vars == <<lens, website, phase, file, next, req, stored, processed, forks>>

-----------------------------------------------------------------------------
(* Requests: the chunks of every file, the manifest nodes below the root    *)
(* (fork 0 is "/"), and the manifest root.                                  *)

Count(f)    == TotalChunksFor(lens[f])
Chunk(f, i) == <<"chunk", f, i>>
Fork(f)     == <<"fork", f, 0>>
RootNode    == <<"root", 0, 0>>

ChunksOf(f)   == {Chunk(f, i) : i \in 1..Count(f)}
AllChunks     == UNION {ChunksOf(f) : f \in DOMAIN lens}
FirstFork     == IF website THEN 0 ELSE 1
AllForks      == {Fork(f) : f \in FirstFork..Len(lens)}
Requests      == AllChunks \cup AllForks \cup {RootNode}

\* The pre-count over every file, before anything is uploaded.
total_chunks ==
  LET sum[f \in 0..Len(lens)] == IF f = 0 THEN 0 ELSE sum[f - 1] + Count(f)
  IN  sum[Len(lens)]

Inflight  == {r \in Requests : req[r] \in {"queued", "sent", "acked", "failed"}}
WindowFull == Cardinality(Inflight) >= STREAM_CONCURRENCY
AllPushed == next > Count(file)

\* Mutant: the trailing requests are not drained.
HarvestingFullOnly == phase = "upload" /\ Inflight # {} /\ WindowFull

\* The task awaits inflight.next(), or the answer for one manifest node.
Harvesting == phase = "upload" /\ Inflight # {} /\ (WindowFull \/ AllPushed)
Awaiting   == Harvesting \/ (phase = "save" /\ Inflight # {})

-----------------------------------------------------------------------------
Init ==
  /\ lens \in UNION {[1..n -> Lengths] : n \in 0..MaxEntries}
  /\ website \in BOOLEAN
  /\ phase = "entry" /\ file = 1 /\ next = 1
  /\ req = [r \in Requests |-> "idle"]
  /\ stored = {} /\ processed = 0 /\ forks = {}

\* The futures are dropped: what was not sent never will be, what was sent may
\* still reach the node.
Abort(end) ==
  /\ phase' = end
  /\ req' = [r \in Requests |->
               CASE req[r] = "queued" -> "idle"
                 [] req[r] = "sent"   -> "gone"
                 [] OTHER             -> req[r]]
  /\ UNCHANGED <<lens, website, file, next, stored, processed, forks>>

\* Mutant: the counter is not shared between the files.
StartEntryResetting ==
  /\ phase = "entry" /\ file <= Len(lens)
  /\ IF lens[file] = 0 THEN Abort("err")
     ELSE /\ phase' = "upload" /\ next' = 1 /\ processed' = 0
          /\ UNCHANGED <<lens, website, file, req, stored, forks>>

\* The next file is chunked as a whole; the chunker rejects an empty one.
StartEntry ==
  /\ phase = "entry" /\ file <= Len(lens)
  /\ IF lens[file] = 0 THEN Abort("err")
     ELSE /\ phase' = "upload" /\ next' = 1
          /\ UNCHANGED <<lens, website, file, req, stored, processed, forks>>

\* Mutant: the window is not waited for.
PushChunkUnbounded ==
  /\ phase = "upload" /\ ~AllPushed
  /\ req' = [req EXCEPT ![Chunk(file, next)] = "queued"]
  /\ next' = next + 1
  /\ UNCHANGED <<lens, website, phase, file, stored, processed, forks>>

\* Push one future; nothing is sent before it is polled.
PushChunk ==
  /\ phase = "upload" /\ ~AllPushed /\ ~WindowFull
  /\ req' = [req EXCEPT ![Chunk(file, next)] = "queued"]
  /\ next' = next + 1
  /\ UNCHANGED <<lens, website, phase, file, stored, processed, forks>>

\* Awaiting polls a queued future, which sends its request.
Poll(r) ==
  /\ Harvesting /\ req[r] = "queued"
  /\ req' = [req EXCEPT ![r] = "sent"]
  /\ UNCHANGED <<lens, website, phase, file, next, stored, processed, forks>>

\* A chunk upload completed; its error aborts the whole upload.
Harvest(r) ==
  /\ Harvesting
  /\ \/ /\ req[r] = "acked"
        /\ req' = [req EXCEPT ![r] = "done"]
        /\ processed' = processed + 1
        /\ UNCHANGED <<lens, website, phase, file, next, stored, forks>>
     \/ req[r] = "failed" /\ Abort("err")

\* The file's last chunk is in: the manifest gets its fork.
FinishEntry ==
  /\ phase = "upload" /\ AllPushed /\ Inflight = {}
  /\ forks' = forks \cup {file}
  /\ file' = file + 1 /\ phase' = "entry"
  /\ UNCHANGED <<lens, website, next, req, stored, processed>>

\* All entries are in: add the website fork, start saving.
StartSave ==
  /\ phase = "entry" /\ file > Len(lens)
  /\ phase' = "save" /\ next' = FirstFork
  /\ forks' = IF website THEN forks \cup {0} ELSE forks
  /\ UNCHANGED <<lens, website, file, req, stored, processed>>

\* save_manifest_recursively: the forks in turn, then the root.
Saving == IF next \in forks THEN Fork(next) ELSE RootNode

SaveNode ==
  /\ phase = "save" /\ Inflight = {}
  /\ req' = [req EXCEPT ![Saving] = "sent"]
  /\ UNCHANGED <<lens, website, phase, file, next, stored, processed, forks>>

\* Mutant: the error of a child is not propagated.
SaveReturnIgnoringError ==
  /\ phase = "save"
  /\ req[Saving] \in {"acked", "failed"}
  /\ req' = [req EXCEPT ![Saving] = "done"]
  /\ IF Saving = RootNode THEN phase' = "ok" /\ UNCHANGED next
                          ELSE next' = next + 1 /\ UNCHANGED phase
  /\ UNCHANGED <<lens, website, file, stored, processed, forks>>

SaveReturn ==
  /\ phase = "save"
  /\ \/ /\ req[Saving] = "acked"
        /\ req' = [req EXCEPT ![Saving] = "done"]
        /\ IF Saving = RootNode THEN phase' = "ok" /\ UNCHANGED next
                                ELSE next' = next + 1 /\ UNCHANGED phase
        /\ UNCHANGED <<lens, website, file, stored, processed, forks>>
     \/ req[Saving] = "failed" /\ Abort("err")

-----------------------------------------------------------------------------
(* The node and the caller.                                                 *)

\* The node accepts a body it was sent, also when nobody waits for the answer any
\* more or the connection broke.
NodeStores(r) ==
  /\ req[r] \in {"sent", "gone", "failed"} /\ r \notin stored
  /\ stored' = stored \cup {r}
  /\ UNCHANGED <<lens, website, phase, file, next, req, processed, forks>>

\* A 2xx answer follows acceptance; an error answer, or a broken connection,
\* may come before it or after it.
Answer(r) ==
  /\ req[r] = "sent"
  /\ \/ r \in stored /\ req' = [req EXCEPT ![r] = "acked"]
     \/ req' = [req EXCEPT ![r] = "failed"]
  /\ UNCHANGED <<lens, website, phase, file, next, stored, processed, forks>>

\* The caller drops the future while it is suspended.
DropUpload == Awaiting /\ Abort("dropped")

Ended == phase \in {"ok", "err", "dropped"}

Finished == Ended /\ UNCHANGED vars

TaskStep ==
  \/ StartEntry \/ PushChunk \/ FinishEntry \/ StartSave \/ SaveNode \/ SaveReturn
  \/ \E r \in Requests : Poll(r) \/ Harvest(r)

Next ==
  \/ TaskStep
  \/ \E r \in Requests : NodeStores(r) \/ Answer(r)
  \/ DropUpload
  \/ Finished

Spec == Init /\ [][Next]_vars

\* The executor runs a task that can run; the node answers what it was sent.
FairSpec == Spec /\ WF_vars(TaskStep) /\ WF_vars(\E r \in Requests : Answer(r))

-----------------------------------------------------------------------------
(* Correctness.                                                             *)

\* At no time, also after an error or a drop, does the node hold a manifest node
\* that refers to something it does not hold; and a returned reference is held.
ManifestNeverDangles ==
  /\ \A f \in DOMAIN lens : Fork(f) \in stored => ChunksOf(f) \subseteq stored
  /\ RootNode \in stored => AllForks \subseteq stored
  /\ phase = "ok" => RootNode \in stored

\* The progress callback counts acknowledged chunks, each once, never past the
\* announced total, and has reached it when the manifest is saved.
ProgressIsExact ==
  /\ processed = Cardinality({r \in AllChunks : req[r] = "done"})
  /\ processed <= total_chunks
  /\ phase \in {"save", "ok"} => processed = total_chunks

\* What the node has accepted beyond the reported progress, the orphans an error or
\* a drop leaves included, is never more than one window of chunks; and a chunk of
\* a later file reaches it only when it holds every earlier file, so that what an
\* aborted upload leaves is a prefix of the files.
OrphansWithinWindow ==
  /\ Cardinality(stored \cap AllChunks) <= processed + STREAM_CONCURRENCY
  /\ \A f, g \in DOMAIN lens :
       f < g /\ ChunksOf(g) \cap stored # {} => ChunksOf(f) \subseteq stored

\* If the node answers, the upload ends.
UploadEnds == <>Ended

=============================================================================
