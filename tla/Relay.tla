------------------------------- MODULE Relay -------------------------------
(***************************************************************************)
(* swarm-relay: every chunk of a file is stamped with the saved counters   *)
(* before the file is uploaded, so that a file that no longer fits the     *)
(* batch is refused first.  A file is the buckets of its chunks in the     *)
(* order they are sealed, and how many of them write() seals; finalize     *)
(* seals the others.                                                       *)
(***************************************************************************)
EXTENDS StateFile

CONSTANTS
  Relayable, \* the files relayed: [chunks |-> Seq(Bucket), written |-> Nat]
  Bucket,    \* collision buckets of the batch
  MAX_SLOT   \* stamps of one bucket, 2^(depth - 16)

ASSUME RelayAssumption ==
  /\ Relayable \subseteq [chunks : Seq(Bucket), written : Nat]
  /\ MAX_SLOT \in Nat

NoStamps == [b \in Bucket |-> 0]

Fresh == [buckets |-> NoStamps, uploaded |-> <<>>, rejected |-> 0]

Stamps(chunks) ==
  [b \in Bucket |-> Cardinality({i \in DOMAIN chunks : chunks[i] = b})]

Stamped(buckets, chunks) == [b \in Bucket |-> buckets[b] + Stamps(chunks)[b]]

Fits(buckets, chunks) == \A b \in Bucket : Stamped(buckets, chunks)[b] <= MAX_SLOT

Sealed(f) == SubSeq(f.chunks, 1, f.written)

\* cmd_init reads the batch, then saves counters at nought.
RelayInit(c) ==
  /\ file = Absent
  /\ Begin(c, [at |-> "batch", cmd |-> "init", st |-> Fresh])

RelayBatch(c) ==
  /\ job[c].at = "batch"
  /\ Request(c, node, [job[c] EXCEPT !.at = "save"])

\* cmd_relay: load, stamp everything.  A bucket that overflows while the chunker is
\* written to ends the command at once; in finalize, or with an empty file, the
\* refusal is counted and saved.  The counters are not taken over then.
RelayFile(c, f) ==
  LET j        == [at |-> "upload", cmd |-> "relay", f |-> f, st |-> file]
      accepted == [j EXCEPT !.st.buckets = Stamped(@, f.chunks)]
      refused  == [j EXCEPT !.at = "save", !.cmd = "refuse", !.st.rejected = @ + 1]
  IN  /\ Loads
      /\ Fits(file.buckets, Sealed(f))
      /\ Begin(c, IF f.chunks # <<>> /\ Fits(file.buckets, f.chunks) THEN accepted ELSE refused)

\* upload_data; a reference that differs from the root is only warned of.
RelayUpload(c) ==
  /\ job[c].at = "upload"
  /\ Upload(c, job[c].f, [job[c] EXCEPT !.at = "save", !.st.uploaded = Append(@, job[c].f)])

\* cmd_reset.
RelayReset(c) ==
  /\ ~InCommand(c) /\ file # Absent /\ commands < MaxCommands
  /\ commands' = commands + 1
  /\ file' = Absent /\ kept' = Absent
  /\ trouble' = IF \E d \in Proc : InCommand(d) THEN trouble \cup {"overlap"} ELSE trouble
  /\ UNCHANGED <<program, node, dir, job>>

Relayed(j, st) ==
  CASE j.cmd = "init"   -> Fresh
    [] j.cmd = "refuse" -> [st EXCEPT !.rejected = @ + 1]
    [] j.cmd = "relay"  -> [st EXCEPT !.buckets = Stamped(@, j.f.chunks),
                                      !.uploaded = Append(@, j.f)]

RelayStep(c) ==
  /\ program = "relay"
  /\ \/ RelayInit(c) \/ RelayBatch(c) \/ RelayUpload(c) \/ RelayReset(c)
     \/ \E f \in Relayable : RelayFile(c, f)
     \/ Truncate(c) \/ Write(c, Relayed(job[c], kept)) \/ Stop(c)

\* The chunks of the files that lie in the bucket.
ChunksIn(files, b) ==
  UNION {{<<i, n>> : n \in {k \in DOMAIN files[i].chunks : files[i].chunks[k] = b}} : i \in DOMAIN files}

\* The counters saved are the stamps of the files counted as uploaded, no more and no
\* less, also when commands overlap or fail; no bucket is beyond its slots; what is
\* counted was uploaded, and what could never fit was not.
CountersMatchFiles ==
  program = "relay" =>
    /\ Loads =>
         /\ file.buckets = [b \in Bucket |-> Cardinality(ChunksIn(file.uploaded, b))]
         /\ \A b \in Bucket : file.buckets[b] <= MAX_SLOT
         /\ ToSet(file.uploaded) \subseteq node.stored
    /\ \A f \in node.stored : \A b \in Bucket : Stamps(f.chunks)[b] <= MAX_SLOT
=============================================================================
