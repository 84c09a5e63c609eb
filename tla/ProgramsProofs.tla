--------------------------- MODULE ProgramsProofs ---------------------------
(***************************************************************************)
(* Proofs about the programs that keep a state file, for any number of     *)
(* processes, commands, names and contents: what overlaps, fails or is     *)
(* killed at any step leaves no reference to what the node does not hold,  *)
(* no untrue copy, and no row of a history that was not live.  And about   *)
(* the integration check: its exit code tells success only of what passed. *)
(***************************************************************************)
EXTENDS Programs, Integration, FiniteSetTheorems, SequenceTheorems, WellFoundedInduction, TLAPS

\* What the feeds show is held; and the shape of the node.
NodeOK ==
  node \in [stored : {node.stored}, feed : Seq(node.stored), lists : Seq(SUBSET Grantee)]

-----------------------------------------------------------------------------
(* The commands of each program, and what is true of the states they have  *)
(* loaded, made and saved.                                                 *)

Saving == {"save", "write"}

VaultJob ==
  {Idle}
    \cup [at : {"manifest"} \cup Saving, cmd : {"init"}, st : {EmptyIndex}]
    \cup [at : {"data", "index", "feed"} \cup Saving, cmd : {"put"}, name : Name, data : Data, st : Index]
    \cup [at : {"index", "feed"} \cup Saving, cmd : {"rm"}, name : Name, st : Index]

\* Every file an index names is held; an index is held before the feed shows it.
VaultOK ==
  /\ job \in [Proc -> VaultJob]
  /\ Loads => file \in Index /\ Listed(file) \subseteq node.stored
  /\ \A k \in DOMAIN node.feed : Listed(node.feed[k]) \subseteq node.stored
  /\ \A c \in Proc :
       /\ InCommand(c) => Listed(job[c].st) \subseteq node.stored
       /\ job[c].at = "feed" => Held(job[c].st)

TreeJob ==
  {Idle}
    \cup [at : Saving, cmd : {"init"}, st : {EmptyIndex}]
    \cup [at : Saving, cmd : {"add"}, name : Name, data : Data, st : Index]
    \cup [at : Saving, cmd : {"rm"}, name : Name, st : Index]
    \cup [at : Saving, cmd : {"mv"}, name : Name, to : Name, st : Index]
    \cup [at : {"collection"}, cmd : {"publish"}, st : Index]

TreeOK ==
  /\ job \in [Proc -> TreeJob]
  /\ Loads => file \in Index

DeployJob(stored) ==
  {Idle}
    \cup [at : {"manifest"} \cup Saving, cmd : {"init"}, st : {<<>>}]
    \cup [at : {"collection", "feed"} \cup Saving, cmd : {"push"}, site : Site, st : Seq(stored)]
    \cup [at : {"feed"} \cup Saving, cmd : {"rollback"}, site : stored, st : Seq(stored)]
    \cup [at : {"collection", "feed"}, cmd : {"publish"}, site : Site, st : Seq(stored)]

\* The rows were updates of the feed, in their order.
Shown(rows, feed) ==
  \E shown \in [DOMAIN rows -> DOMAIN feed] :
    /\ \A i, k \in DOMAIN rows : i < k => shown[i] < shown[k]
    /\ \A i \in DOMAIN rows : rows[i] = feed[shown[i]]

DeployOK ==
  /\ job \in [Proc -> DeployJob(node.stored)]
  /\ Loads => file \in Seq(node.stored) /\ Shown(file, node.feed)
  /\ \A c \in Proc :
       /\ InCommand(c) => Shown(job[c].st, node.feed)
       /\ job[c].at = "feed" => Held(job[c].site)

ShareJob ==
  {Idle}
    \cup [at : {"upload", "create"}, cmd : {"share"}, share : [file : File, grantees : SUBSET Grantee]]
    \cup [at : {"load"}, cmd : {"share"},
          share : [file : File, grantees : SUBSET Grantee, list : Nat]]
    \cup [at : Saving, cmd : {"share"}, row : Row, st : Seq(Row)]
    \cup [at : {"patch"}, cmd : {"revoke"}, id : Second, gone : SUBSET Grantee, st : Seq(Row)]
    \cup [at : Saving, cmd : {"revoke"}, id : Second, gone : SUBSET Grantee, list : Nat, st : Seq(Row)]

\* A row's file is held, and its grantees are those of its list.
RowOK(row, bee) ==
  /\ row.file \in bee.stored
  /\ row.list \in DOMAIN bee.lists /\ bee.lists[row.list] = row.grantees

RowsOK(rows, bee) == rows \in Seq(Row) /\ \A i \in DOMAIN rows : RowOK(rows[i], bee)

\* What a command goes about with.
InShare(j, bee) ==
  /\ j.at \in Saving \cup {"patch"} => RowsOK(j.st, bee)
  /\ j.at \in {"create", "load"} => j.share.file \in bee.stored
  /\ j.at = "load" => RowOK(j.share, bee)
  /\ j.at = "patch" => HasId(j.st, j.id)

ShareOK ==
  /\ job \in [Proc -> ShareJob]
  /\ Loads => RowsOK(file, node)
  /\ \A c \in Proc : InShare(job[c], node)

RelayState == [buckets : [Bucket -> Nat], uploaded : Seq(Relayable), rejected : Nat]

RelayJob ==
  {Idle}
    \cup [at : {"batch"} \cup Saving, cmd : {"init"}, st : {Fresh}]
    \cup [at : {"upload"} \cup Saving, cmd : {"relay"}, f : Relayable, st : RelayState]
    \cup [at : Saving, cmd : {"refuse"}, f : Relayable, st : RelayState]

\* The counters are the chunks of the files counted as uploaded, and within the slots.
CountersOK(st, stored) ==
  /\ st.buckets = [b \in Bucket |-> Cardinality(ChunksIn(st.uploaded, b))]
  /\ \A b \in Bucket : st.buckets[b] <= MAX_SLOT
  /\ ToSet(st.uploaded) \subseteq stored

\* They are so again once the file has been counted.
AheadByFile(st, f, stored) ==
  /\ \A b \in Bucket :
       /\ st.buckets[b] = Cardinality(ChunksIn(st.uploaded, b)) + Stamps(f.chunks)[b]
       /\ st.buckets[b] <= MAX_SLOT
  /\ ToSet(st.uploaded) \subseteq stored

RelayOK ==
  /\ job \in [Proc -> RelayJob]
  /\ Loads => file \in RelayState /\ CountersOK(file, node.stored)
  /\ \A c \in Proc :
       /\ job[c].at \in Saving \cup {"batch"} => CountersOK(job[c].st, node.stored)
       /\ job[c].at = "upload" => AheadByFile(job[c].st, job[c].f, node.stored)
  /\ \A f \in node.stored : f \in Relayable /\ \A b \in Bucket : Stamps(f.chunks)[b] <= MAX_SLOT

KeyringJob == {Idle} \cup [at : Saving, cmd : {"insert"}, row : Entry, st : Seq(Entry)]

\* A name is there once, beside the address of its key.
EntriesOK(rows) ==
  /\ rows \in Seq(Entry)
  /\ \A i, k \in DOMAIN rows : rows[i].name = rows[k].name => i = k
  /\ \A i \in DOMAIN rows : rows[i].address = rows[i].cipher.of

KeyringOK ==
  /\ job \in [Proc -> KeyringJob]
  /\ Loads => EntriesOK(file)
  /\ \A c \in Proc : InCommand(c) => EntriesOK(job[c].st)

\* What a state names is held.
PinsOK(st, stored) == st \in [DOMAIN st -> [of : stored, ok : BOOLEAN]]

PinnerOK ==
  /\ \A c \in Proc :
       \/ job[c] \in {Idle, [at |-> "sleep"]}
       \/ job[c].at = "upload" /\ job[c] \in [at : {"upload"}, st : {job[c].st}, todo : {job[c].todo}]
       \/ job[c].at \in Saving /\ job[c] \in [at : Saving, st : {job[c].st}]
  /\ job \in [Proc -> {job[c] : c \in Proc}]
  /\ Loads => PinsOK(file, node.stored)
  /\ \A c \in Proc : job[c].at \in Saving \cup {"upload"} => PinsOK(job[c].st, node.stored)

\* The inductive invariant: the programs are nine, and each has its part.
IInv ==
  /\ NodeOK
  /\ program = "vault" => VaultOK
  /\ program = "fs" => TreeOK
  /\ program \in {"deploy", "blog"} => DeployOK
  /\ program = "share" => ShareOK
  /\ program = "relay" => RelayOK
  /\ program \in {"keyring", "rss"} => KeyringOK
  /\ program = "pinner" => PinnerOK

-----------------------------------------------------------------------------
(* Commands in turn.                                                       *)

\* What a command makes of what the file should hold.
Change(j, was) ==
  CASE program = "vault"                 -> Edited(j, was)
    [] program = "fs"                    -> Tree(j, was)
    [] program \in {"deploy", "blog"}    -> Deployed(j, was)
    [] program = "share"                 -> Shared(j, IF was = Absent THEN NoShares ELSE was)
    [] program = "relay"                 -> Relayed(j, was)
    [] program \in {"keyring", "rss"}    -> Append(IF was = Absent THEN NoKeys ELSE was, j.row)

\* The state a command goes about with is the one that was kept, before its change
\* and after.
InHand(j, was) ==
  /\ j.at \in Saving => j.st = Change(j, was)
  /\ program = "vault" /\ j.at \in {"index", "feed"} => j.st = Edited(j, was)
  /\ program = "vault" /\ j.at = "data" => j.st = was
  /\ program \in {"deploy", "blog"} /\ j.at \in {"collection", "feed"} => j.st = was
  /\ program = "share" /\ j.at = "patch" => j.st = (IF was = Absent THEN NoShares ELSE was)
  /\ program = "relay" /\ j.at = "upload" =>
       j.st = [was EXCEPT !.buckets = Stamped(@, j.f.chunks)]

\* The feed shows what the command is about to save, or what was saved.
FeedOK ==
  /\ kept = Absent => node.feed = <<>>
  /\ "ahead" \notin trouble /\ Loads /\ node.feed # <<>> => Last(node.feed) = file
  /\ \A c \in Proc :
       InCommand(c) =>
         IF job[c].cmd = "init" THEN node.feed = <<>>
         ELSE /\ kept # Absent
              /\ job[c].at \in Saving => node.feed # <<>> /\ Last(node.feed) = job[c].st

\* One command at a time has the file; it is torn just while one writes.
TurnInv ==
  program # "pinner" /\ InTurn =>
    /\ \A c, d \in Proc : InCommand(c) /\ InCommand(d) => c = d
    /\ (\A c \in Proc : job[c].at # "write") => file = kept
    /\ (\E c \in Proc : job[c].at = "write") => file = Torn
    /\ \A c \in Proc : InHand(job[c], kept)
    /\ program \in {"share", "keyring", "rss"} /\ kept # Absent => kept # Torn
    /\ program = "vault" => FeedOK


-----------------------------------------------------------------------------
(* Requests.                                                               *)

\* What is uploaded is added to what the node holds.
LEMMA UploadKeeps ==
  ASSUME NodeOK, NEW c \in Proc, NEW content, NEW j, Upload(c, content, j)
  PROVE  /\ NodeOK'
         /\ node'.stored = node.stored \cup {content}
         /\ node'.feed = node.feed /\ node'.lists = node.lists
<1>1. node' = [node EXCEPT !.stored = @ \cup {content}]
  BY DEF Upload, Request
<1>2. /\ node.feed \in Seq(node.stored) /\ node.lists \in Seq(SUBSET Grantee)
      /\ node = [stored |-> node.stored, feed |-> node.feed, lists |-> node.lists]
  BY DEF NodeOK
<1>3. Seq(node.stored) \subseteq Seq(node.stored \cup {content})
  BY SeqMonotonic
<1> QED
  BY <1>1, <1>2, <1>3 DEF NodeOK

\* A feed update adds a reference that is held.
LEMMA UpdateKeeps ==
  ASSUME NodeOK, NEW c \in Proc, NEW ref \in node.stored, NEW j, UpdateFeed(c, ref, j)
  PROVE  /\ NodeOK'
         /\ node'.stored = node.stored /\ node'.lists = node.lists
         /\ node'.feed = Append(node.feed, ref)
<1>1. node' = [node EXCEPT !.feed = Append(@, ref)]
  BY DEF UpdateFeed
<1>2. /\ node.feed \in Seq(node.stored) /\ node.lists \in Seq(SUBSET Grantee)
      /\ node = [stored |-> node.stored, feed |-> node.feed, lists |-> node.lists]
  BY DEF NodeOK
<1>3. Append(node.feed, ref) \in Seq(node.stored)
  BY <1>2, AppendProperties
<1> QED
  BY <1>1, <1>2, <1>3 DEF NodeOK

\* No process in a command.
LEMMA IdleIsIdle == Idle.at = "idle"
  BY DEF Idle

-----------------------------------------------------------------------------
(* The vault.                                                              *)

\* A command has an index in hand.
LEMMA VaultHasIndex ==
  ASSUME NEW j \in VaultJob, j.at # "idle"
  PROVE  j.st \in Index
<1>1. EmptyIndex \in [{} -> Data]
  BY DEF EmptyIndex
<1>2. EmptyIndex \in Index
  BY <1>1 DEF Index
<1> QED
  BY <1>2 DEF VaultJob, Idle

\* What an edited index names are the old entries' contents and the new one's.
LEMMA EditedListed ==
  ASSUME NEW j, NEW index \in Index,
         j.cmd = "rm" \/ (j.cmd = "put" /\ j.name \in Name /\ j.data \in Data)
  PROVE  /\ Edited(j, index) \in Index
         /\ Listed(Edited(j, index)) \subseteq Listed(index) \cup (IF j.cmd = "put" THEN {j.data} ELSE {})
<1>1. CASE j.cmd = "put"
  <2>1. j.name \in Name /\ j.data \in Data
    BY <1>1
  <2>2. Edited(j, index) = Set(index, j.name, j.data)
    BY <1>1 DEF Edited
  <2>3. DOMAIN index \in SUBSET Name /\ index \in [DOMAIN index -> Data]
    BY DEF Index
  <2>4. Set(index, j.name, j.data) \in [DOMAIN index \cup {j.name} -> Data]
    BY <2>1, <2>3 DEF Set
  <2> QED
    BY <1>1, <2>1, <2>2, <2>3, <2>4 DEF Set, Index, Listed
<1>2. CASE j.cmd = "rm"
  <2>1. Edited(j, index) = Unset(index, j.name)
    BY <1>2 DEF Edited
  <2>3. DOMAIN index \in SUBSET Name /\ index \in [DOMAIN index -> Data]
    BY DEF Index
  <2>4. Unset(index, j.name) \in [DOMAIN index \ {j.name} -> Data]
    BY <2>3 DEF Unset
  <2> QED
    BY <1>2, <2>1, <2>3, <2>4 DEF Unset, Index, Listed
<1> QED
  BY <1>1, <1>2

\* What is held stays so; a step has to see to what it changes.
LEMMA VaultGoes ==
  ASSUME VaultOK, NEW c \in Proc, node.stored \subseteq node'.stored,
         job' \in [Proc -> VaultJob], \A d \in Proc \ {c} : job'[d] = job[d],
         job'[c].at # "idle" => Listed(job'[c].st) \subseteq node'.stored,
         job'[c].at = "feed" => job'[c].st \in node'.stored,
         file' \in {file, Torn, job[c].st},
         file' = job[c].st => job[c].st \in Index /\ InCommand(c),
         \A k \in DOMAIN node'.feed : Listed(node'.feed[k]) \subseteq node'.stored
  PROVE  VaultOK'
<1>1. Loads' => file' \in Index /\ Listed(file') \subseteq node'.stored
  BY DEF VaultOK, Loads, InCommand
<1>2. ASSUME NEW d \in Proc
      PROVE  /\ job'[d].at # "idle" => Listed(job'[d].st) \subseteq node'.stored
             /\ job'[d].at = "feed" => job'[d].st \in node'.stored
  BY DEF VaultOK, InCommand, Held
<1> QED
  BY <1>1, <1>2 DEF VaultOK, InCommand, Held

\* Every step of the vault's commands.
LEMMA VaultKeeps ==
  ASSUME NodeOK, VaultOK, NEW c \in Proc, VaultStep(c)
  PROVE  NodeOK' /\ VaultOK'
<1> DEFINE J == job[c]
<1>0. job \in [Proc -> VaultJob] /\ J \in VaultJob
  BY DEF VaultOK
<1>1. CASE VaultInit(c)
  BY <1>0, <1>1 DEF VaultInit, Begin, Goto, VaultOK, NodeOK, VaultJob, Saving, InCommand, Idle, Listed, EmptyIndex, Held, Loads
<1>2. CASE VaultManifest(c)
  BY <1>0, <1>2 DEF VaultManifest, Request, Goto, VaultOK, NodeOK, VaultJob, Saving, InCommand, Idle, Held, Loads
<1>3. ASSUME NEW n \in Name, NEW d \in Data, VaultPut(c, n, d) PROVE NodeOK' /\ VaultOK'
  BY <1>0, <1>3 DEF VaultPut, Begin, Goto, VaultOK, NodeOK, VaultJob, Saving, InCommand, Idle, Held, Loads
<1>4. CASE VaultData(c)
  <2> DEFINE st == Edited(J, J.st)
             next == [J EXCEPT !.at = "index", !.st = Edited(J, @)]
  <2>1. /\ J \in [at : {"data"}, cmd : {"put"}, name : Name, data : Data, st : Index]
        /\ Upload(c, J.data, next)
    BY <1>0, <1>4 DEF VaultData, VaultJob, Saving, Idle
  <2>2. st \in Index /\ Listed(st) \subseteq Listed(J.st) \cup {J.data}
    BY <2>1, EditedListed
  <2>3. /\ next \in VaultJob /\ next.at = "index" /\ next.st = st
    BY <2>1, <2>2 DEF VaultJob
  <2>4. /\ NodeOK' /\ node'.stored = node.stored \cup {J.data} /\ node'.feed = node.feed
    BY <2>1, UploadKeeps
  <2> HIDE DEF next, st
  <2>5. Listed(J.st) \subseteq node.stored
    BY <2>1 DEF VaultOK, InCommand
  <2>6. job' \in [Proc -> VaultJob] /\ job'[c] \in {next, Idle} /\ \A d \in Proc \ {c} : job'[d] = job[d]
    BY <1>0, <2>1, <2>3 DEF Upload, Request, Goto, VaultJob
  <2>7. file' = file
    BY <2>1 DEF Upload, Request
  <2> QED
    <3>1. Listed(st) \subseteq node'.stored
      BY <2>2, <2>4, <2>5
    <3>2. job'[c].at # "idle" => job'[c].st = st /\ job'[c].at = "index"
      BY <2>3, <2>6, IdleIsIdle
    <3>3. \A k \in DOMAIN node'.feed : Listed(node'.feed[k]) \subseteq node'.stored
      BY <2>4 DEF VaultOK
    <3> QED
      BY <2>1, <2>4, <2>6, <2>7, <3>1, <3>2, <3>3, VaultGoes DEF InCommand
<1>5. ASSUME NEW n \in Name, VaultRm(c, n) PROVE NodeOK' /\ VaultOK'
  <2> DEFINE j == [at |-> "index", cmd |-> "rm", name |-> n, st |-> file]
             next == [j EXCEPT !.st = Edited(j, @)]
  <2>1. Loads /\ file \in Index /\ Listed(file) \subseteq node.stored /\ Begin(c, next)
    BY <1>5 DEF VaultRm, VaultOK
  <2>2. Edited(j, file) \in Index /\ Listed(Edited(j, file)) \subseteq Listed(file)
    BY <2>1, EditedListed
  <2>3. next \in VaultJob /\ next.at = "index" /\ next.st = Edited(j, file)
    BY <2>2 DEF VaultJob
  <2> QED
    BY <1>0, <2>1, <2>2, <2>3 DEF Begin, Goto, VaultOK, NodeOK, InCommand, Idle, Held, Loads
<1>6. CASE PublishIndex(c)
  <2>1. CASE J.at = "index"
    <3> DEFINE next == [J EXCEPT !.at = "feed"]
    <3>1. Upload(c, J.st, next)
      BY <1>6, <2>1 DEF PublishIndex
    <3>2. next \in VaultJob /\ next.at = "feed" /\ next.st = J.st
      BY <1>0, <2>1 DEF VaultJob, Saving, Idle
    <3> HIDE DEF next
    <3>3. NodeOK' /\ node'.stored = node.stored \cup {J.st} /\ node'.feed = node.feed
      BY <3>1, UploadKeeps
    <3>4. job' \in [Proc -> VaultJob] /\ job'[c] \in {next, Idle} /\ \A d \in Proc \ {c} : job'[d] = job[d]
      BY <1>0, <3>1, <3>2 DEF Upload, Request, Goto, VaultJob
    <3>5. file' = file /\ InCommand(c)
      BY <2>1, <3>1 DEF Upload, Request, InCommand
    <3>6. J.st \in Index /\ Listed(J.st) \subseteq node.stored
      BY <1>0, <3>5, VaultHasIndex DEF VaultOK, InCommand
    <3>7. job'[c].at # "idle" => job'[c].st = J.st
      BY <3>2, <3>4, IdleIsIdle
    <3>8. \A k \in DOMAIN node'.feed : Listed(node'.feed[k]) \subseteq node'.stored
      BY <3>3 DEF VaultOK
    <3>9. job'[c].at = "feed" => job'[c].st \in node'.stored
      BY <3>2, <3>3, <3>4, IdleIsIdle
    <3> QED
      BY <3>3, <3>4, <3>5, <3>6, <3>7, <3>8, <3>9, VaultGoes
  <2>2. CASE J.at = "feed"
    <3> DEFINE next == [J EXCEPT !.at = "save"]
    <3>1. UpdateFeed(c, J.st, next)
      BY <1>6, <2>2 DEF PublishIndex
    <3>2. next \in VaultJob /\ next.at = "save" /\ next.st = J.st
      BY <1>0, <2>2 DEF VaultJob, Saving, Idle
    <3> HIDE DEF next
    <3>3. J.st \in node.stored /\ Listed(J.st) \subseteq node.stored
      BY <2>2 DEF VaultOK, Held, InCommand
    <3>4. NodeOK' /\ node'.stored = node.stored /\ node'.feed = Append(node.feed, J.st)
      BY <3>1, <3>3, UpdateKeeps
    <3>5. \A k \in DOMAIN node'.feed : Listed(node'.feed[k]) \subseteq node.stored
      <4>1. node.feed \in Seq(node.stored)
        BY DEF NodeOK
      <4>2. \A k \in DOMAIN node'.feed :
              node'.feed[k] = J.st \/ (k \in DOMAIN node.feed /\ node'.feed[k] = node.feed[k])
        BY <3>3, <3>4, <4>1, AppendProperties, LenProperties
      <4> QED
        BY <3>3, <4>2 DEF VaultOK
    <3>6. job' \in [Proc -> VaultJob] /\ job'[c] \in {next, Idle} /\ \A d \in Proc \ {c} : job'[d] = job[d]
      BY <1>0, <3>1, <3>2 DEF UpdateFeed, Goto, VaultJob
    <3>7. file' = file
      BY <3>1 DEF UpdateFeed
    <3>8. J.st \in Index /\ InCommand(c)
      BY <1>0, <2>2, VaultHasIndex DEF InCommand
    <3>9. job'[c].at # "feed" /\ (job'[c].at # "idle" => job'[c].st = J.st)
      BY <3>2, <3>6, IdleIsIdle
    <3> QED
      BY <3>3, <3>4, <3>5, <3>6, <3>7, <3>8, <3>9, VaultGoes
  <2> QED
    BY <1>6, <2>1, <2>2 DEF PublishIndex
<1>7. CASE Truncate(c)
  <2> DEFINE next == [J EXCEPT !.at = "write"]
  <2>1. /\ J.at = "save" /\ Goto(c, next) /\ file' = Torn /\ node' = node
    BY <1>7 DEF Truncate
  <2>2. next \in VaultJob /\ next.at = "write" /\ next.st = J.st
    BY <1>0, <2>1 DEF VaultJob, Saving, Idle
  <2> HIDE DEF next
  <2>3. job' \in [Proc -> VaultJob] /\ job'[c] = next /\ \A d \in Proc \ {c} : job'[d] = job[d]
    BY <1>0, <2>1, <2>2 DEF Goto
  <2>4. Listed(J.st) \subseteq node.stored /\ J.st \in Index /\ InCommand(c)
    BY <1>0, <2>1, VaultHasIndex DEF VaultOK, InCommand
  <2>5. \A k \in DOMAIN node'.feed : Listed(node'.feed[k]) \subseteq node'.stored
    BY <2>1 DEF VaultOK
  <2> QED
    BY <2>1, <2>2, <2>3, <2>4, <2>5, VaultGoes DEF NodeOK
<1>8. CASE Write(c, Edited(job[c], kept))
  <2>1. /\ J.at = "write" /\ Goto(c, Idle) /\ file' = J.st /\ node' = node
    BY <1>8 DEF Write
  <2>2. Idle \in VaultJob /\ Idle.at = "idle"
    BY DEF VaultJob, Idle
  <2>3. job' \in [Proc -> VaultJob] /\ job'[c] = Idle /\ \A d \in Proc \ {c} : job'[d] = job[d]
    BY <1>0, <2>1, <2>2 DEF Goto
  <2>4. J.st \in Index /\ InCommand(c)
    BY <1>0, <2>1, VaultHasIndex DEF VaultOK, InCommand
  <2>5. \A k \in DOMAIN node'.feed : Listed(node'.feed[k]) \subseteq node'.stored
    BY <2>1 DEF VaultOK
  <2> QED
    BY <2>1, <2>2, <2>3, <2>4, <2>5, VaultGoes DEF NodeOK
<1>9. CASE Stop(c)
  BY <1>0, <1>9 DEF Stop, Goto, VaultOK, NodeOK, VaultJob, Saving, InCommand, Idle, Held, Loads
<1> QED
  BY <1>1, <1>2, <1>3, <1>4, <1>5, <1>6, <1>7, <1>8, <1>9 DEF VaultStep

-----------------------------------------------------------------------------
(* The tree of staged files, and the entries of keyring and reader.         *)

\* Every staged tree is an index.
LEMMA TreeIsIndex ==
  ASSUME NEW j, NEW entries \in Index,
         \/ j.cmd = "init"
         \/ j.cmd = "add" /\ j.name \in Name /\ j.data \in Data
         \/ j.cmd = "rm"
         \/ j.cmd = "mv" /\ j.name \in DOMAIN entries /\ j.to \in Name
  PROVE  Tree(j, entries) \in Index
<1>1. DOMAIN entries \in SUBSET Name /\ entries \in [DOMAIN entries -> Data]
  BY DEF Index
<1>2. CASE j.cmd = "init"
  <2>1. Tree(j, entries) \in [{} -> Data]
    BY <1>2 DEF Tree, EmptyIndex
  <2> QED
    BY <2>1 DEF Index
<1>3. CASE j.cmd = "add" /\ j.name \in Name /\ j.data \in Data
  <2>1. Tree(j, entries) \in [DOMAIN entries \cup {j.name} -> Data]
    BY <1>1, <1>3 DEF Tree, Set
  <2> QED
    BY <1>1, <1>3, <2>1 DEF Index
<1>4. CASE j.cmd = "rm"
  <2>1. Tree(j, entries) \in [DOMAIN entries \ {j.name} -> Data]
    BY <1>1, <1>4 DEF Tree, Unset
  <2> QED
    BY <1>1, <2>1 DEF Index
<1>5. CASE j.cmd = "mv" /\ j.name \in DOMAIN entries /\ j.to \in Name
  <2>1. Tree(j, entries) = Set(Unset(entries, j.name), j.to, entries[j.name])
    BY <1>5 DEF Tree
  <2>2. Unset(entries, j.name) \in [DOMAIN entries \ {j.name} -> Data]
    BY <1>1 DEF Unset
  <2>3. entries[j.name] \in Data
    BY <1>1, <1>5
  <2>4. Tree(j, entries) \in [(DOMAIN entries \ {j.name}) \cup {j.to} -> Data]
    BY <2>1, <2>2, <2>3 DEF Set
  <2> QED
    BY <1>1, <1>5, <2>4 DEF Index
<1> QED
  BY <1>2, <1>3, <1>4, <1>5

\* Every step of the commands that stage a tree and publish it.
LEMMA TreeKeeps ==
  ASSUME NodeOK, TreeOK, NEW c \in Proc, TreeStep(c)
  PROVE  NodeOK' /\ TreeOK'
<1> DEFINE J == job[c]
<1>0. job \in [Proc -> TreeJob] /\ J \in TreeJob /\ (Loads => file \in Index)
  BY DEF TreeOK
<1>e. EmptyIndex \in Index
  <2>1. EmptyIndex \in [{} -> Data]
    BY DEF EmptyIndex
  <2> QED
    BY <2>1 DEF Index
<1>1. ASSUME NEW j, Begin(c, j), j \in TreeJob PROVE NodeOK' /\ TreeOK'
  BY <1>0, <1>1 DEF Begin, Goto, TreeOK, NodeOK, Loads
<1>2. CASE TreeInit(c)
  <2> DEFINE j == [at |-> "save", cmd |-> "init", st |-> EmptyIndex]
  <2>1. [j EXCEPT !.st = Tree(j, @)] = j
    BY DEF Tree
  <2>2. Begin(c, j) /\ j \in TreeJob
    BY <1>2, <2>1 DEF TreeInit, Staged, TreeJob, Saving
  <2> QED
    BY <1>1, <2>2
<1>3. ASSUME NEW n \in Name, NEW d \in Data, TreeAdd(c, n, d) PROVE NodeOK' /\ TreeOK'
  <2> DEFINE j == [at |-> "save", cmd |-> "add", name |-> n, data |-> d, st |-> file]
  <2>1. Loads /\ Tree(j, file) \in Index
    BY <1>0, <1>3, TreeIsIndex DEF TreeAdd
  <2>2. Begin(c, [j EXCEPT !.st = Tree(j, @)]) /\ [j EXCEPT !.st = Tree(j, @)] \in TreeJob
    BY <1>3, <2>1 DEF TreeAdd, Staged, TreeJob, Saving
  <2> QED
    BY <1>1, <2>2
<1>4. ASSUME NEW n \in Name, TreeRm(c, n) PROVE NodeOK' /\ TreeOK'
  <2> DEFINE j == [at |-> "save", cmd |-> "rm", name |-> n, st |-> file]
  <2>1. Loads /\ Tree(j, file) \in Index
    BY <1>0, <1>4, TreeIsIndex DEF TreeRm
  <2>2. Begin(c, [j EXCEPT !.st = Tree(j, @)]) /\ [j EXCEPT !.st = Tree(j, @)] \in TreeJob
    BY <1>4, <2>1 DEF TreeRm, Staged, TreeJob, Saving
  <2> QED
    BY <1>1, <2>2
<1>5. ASSUME NEW n \in Name, NEW m \in Name, TreeMv(c, n, m) PROVE NodeOK' /\ TreeOK'
  <2> DEFINE j == [at |-> "save", cmd |-> "mv", name |-> n, to |-> m, st |-> file]
  <2>1. Loads /\ Tree(j, file) \in Index
    BY <1>0, <1>5, TreeIsIndex DEF TreeMv
  <2>2. Begin(c, [j EXCEPT !.st = Tree(j, @)]) /\ [j EXCEPT !.st = Tree(j, @)] \in TreeJob
    BY <1>5, <2>1 DEF TreeMv, Staged, TreeJob, Saving
  <2> QED
    BY <1>1, <2>2
<1>6. CASE TreePublish(c)
  <2>1. CASE Loads /\ Begin(c, [at |-> "collection", cmd |-> "publish", st |-> file])
    <3>1. [at |-> "collection", cmd |-> "publish", st |-> file] \in TreeJob
      BY <1>0, <2>1 DEF TreeJob
    <3> QED
      BY <1>1, <2>1, <3>1
  <2>2. CASE Upload(c, job[c].st, Idle)
    <3>1. NodeOK'
      BY <2>2, UploadKeeps
    <3>2. file' = file /\ job' \in [Proc -> TreeJob]
      BY <1>0, <2>2 DEF Upload, Request, Goto, TreeJob
    <3> QED
      BY <1>0, <3>1, <3>2 DEF TreeOK, Loads
  <2> QED
    BY <1>6, <2>1, <2>2 DEF TreePublish
<1>7. CASE Truncate(c)
  <2>1. J.at = "save" /\ Goto(c, [J EXCEPT !.at = "write"]) /\ file' = Torn /\ node' = node
    BY <1>7 DEF Truncate
  <2>2. [J EXCEPT !.at = "write"] \in TreeJob
    BY <1>0, <2>1 DEF TreeJob, Saving, Idle
  <2>3. job' \in [Proc -> TreeJob]
    BY <1>0, <2>1, <2>2 DEF Goto
  <2> QED
    BY <2>1, <2>3 DEF TreeOK, NodeOK, Loads
<1>8. CASE Write(c, Tree(job[c], kept))
  <2>1. J.at = "write" /\ Goto(c, Idle) /\ file' = J.st /\ node' = node
    BY <1>8 DEF Write
  <2>2. J.st \in Index
    BY <1>0, <1>e, <2>1 DEF TreeJob, Saving, Idle
  <2>3. job' \in [Proc -> TreeJob]
    BY <1>0, <2>1 DEF Goto, TreeJob
  <2> QED
    BY <2>1, <2>2, <2>3 DEF TreeOK, NodeOK, Loads
<1>9. CASE Stop(c)
  <2>1. Goto(c, Idle) /\ file' = file /\ node' = node
    BY <1>9 DEF Stop
  <2>2. job' \in [Proc -> TreeJob]
    BY <1>0, <2>1 DEF Goto, TreeJob
  <2> QED
    BY <1>0, <2>1, <2>2 DEF TreeOK, NodeOK, Loads
<1> QED
  BY <1>2, <1>3, <1>4, <1>5, <1>6, <1>7, <1>8, <1>9 DEF TreeStep

\* An entry is added when none has its name.
LEMMA InsertKeepsEntries ==
  ASSUME NEW rows, EntriesOK(rows), NEW row \in Entry, ~Has(rows, row.name),
         row.address = row.cipher.of
  PROVE  EntriesOK(Append(rows, row))
<1>1. rows \in Seq(Entry) /\ DOMAIN rows = 1 .. Len(rows) /\ Len(rows) \in Nat
  BY DEF EntriesOK
<1>2. /\ Append(rows, row) \in Seq(Entry) /\ DOMAIN Append(rows, row) = 1 .. Len(rows) + 1
      /\ \A i \in 1 .. Len(rows) : Append(rows, row)[i] = rows[i]
      /\ Append(rows, row)[Len(rows) + 1] = row
  BY <1>1
<1>3. \A i \in 1 .. Len(rows) : rows[i].name # row.name
  BY <1>1 DEF Has
<1> QED
  BY <1>1, <1>2, <1>3 DEF EntriesOK

\* Every step of the commands that add an entry.
LEMMA KeyringKeeps ==
  ASSUME NodeOK, KeyringOK, NEW c \in Proc, KeyringStep(c)
  PROVE  NodeOK' /\ KeyringOK'
<1> DEFINE J == job[c]
<1>0. job \in [Proc -> KeyringJob] /\ J \in KeyringJob
  BY DEF KeyringOK
<1>1. ASSUME NEW n \in KeyName, NEW k \in Key, NEW p \in Passphrase \cup {Clear}, Insert(c, n, k, p)
      PROVE  NodeOK' /\ KeyringOK'
  <2> DEFINE row == [name |-> n, address |-> k, cipher |-> [of |-> k, pass |-> p]]
             st  == LoadedOr(NoKeys)
             j   == [at |-> "save", cmd |-> "insert", row |-> row, st |-> Append(st, row)]
  <2>1. ~Has(st, n) /\ Begin(c, j)
    BY <1>1 DEF Insert
  <2>2. EntriesOK(st)
    BY DEF KeyringOK, LoadedOr, NoKeys, EntriesOK
  <2>3. row \in Entry /\ row.name = n /\ row.address = row.cipher.of
    BY DEF Entry
  <2> HIDE DEF row, st
  <2>4. EntriesOK(Append(st, row))
    BY <2>1, <2>2, <2>3, InsertKeepsEntries
  <2>5. j \in KeyringJob /\ j.at = "save" /\ j.st = Append(st, row)
    BY <2>3, <2>4 DEF KeyringJob, EntriesOK, Saving
  <2> HIDE DEF j
  <2>6. /\ job' \in [Proc -> KeyringJob] /\ job'[c] = j /\ \A d \in Proc \ {c} : job'[d] = job[d]
        /\ file' = file /\ node' = node
    BY <1>0, <2>1, <2>5 DEF Begin, Goto
  <2> QED
    BY <2>4, <2>5, <2>6 DEF KeyringOK, NodeOK, Loads, InCommand
<1>2. CASE Truncate(c)
  <2> DEFINE next == [J EXCEPT !.at = "write"]
  <2>1. J.at = "save" /\ Goto(c, next) /\ file' = Torn /\ node' = node
    BY <1>2 DEF Truncate
  <2>2. next \in KeyringJob /\ next.st = J.st
    BY <1>0, <2>1 DEF KeyringJob, Saving, Idle
  <2> HIDE DEF next
  <2>3. job' \in [Proc -> KeyringJob] /\ job'[c] = next /\ \A d \in Proc \ {c} : job'[d] = job[d]
    BY <1>0, <2>1, <2>2 DEF Goto
  <2> QED
    BY <2>1, <2>2, <2>3 DEF KeyringOK, NodeOK, Loads, InCommand
<1>3. CASE Write(c, Append(IF kept = Absent THEN NoKeys ELSE kept, job[c].row))
  <2>1. J.at = "write" /\ Goto(c, Idle) /\ file' = J.st /\ node' = node
    BY <1>3 DEF Write
  <2>2. EntriesOK(J.st)
    BY <2>1 DEF KeyringOK, InCommand
  <2>3. job' \in [Proc -> KeyringJob] /\ job'[c] = Idle /\ \A d \in Proc \ {c} : job'[d] = job[d]
    BY <1>0, <2>1 DEF Goto, KeyringJob
  <2> QED
    BY <2>1, <2>2, <2>3, IdleIsIdle DEF KeyringOK, NodeOK, Loads, InCommand
<1>4. CASE Stop(c)
  <2>1. Goto(c, Idle) /\ file' = file /\ node' = node
    BY <1>4 DEF Stop
  <2>2. job' \in [Proc -> KeyringJob] /\ job'[c] = Idle /\ \A d \in Proc \ {c} : job'[d] = job[d]
    BY <1>0, <2>1 DEF Goto, KeyringJob
  <2> QED
    BY <2>1, <2>2, IdleIsIdle DEF KeyringOK, NodeOK, Loads, InCommand
<1> QED
  BY <1>1, <1>2, <1>3, <1>4 DEF KeyringStep, AddFeed

-----------------------------------------------------------------------------
(* The deployments.                                                        *)

\* Rows that were shown have been shown when the feed goes on, and a row for the last
\* update can be added.
LEMMA ShownGrows ==
  ASSUME NEW S, NEW rows \in Seq(S), NEW feed \in Seq(S), NEW ref \in S, Shown(rows, feed)
  PROVE  /\ Shown(rows, Append(feed, ref))
         /\ Shown(Append(rows, ref), Append(feed, ref))
<1> DEFINE longer == Append(feed, ref)
           more   == Append(rows, ref)
<1>1. PICK shown \in [DOMAIN rows -> DOMAIN feed] :
        /\ \A i, k \in DOMAIN rows : i < k => shown[i] < shown[k]
        /\ \A i \in DOMAIN rows : rows[i] = feed[shown[i]]
  BY DEF Shown
<1>2. /\ Len(feed) \in Nat /\ DOMAIN feed = 1 .. Len(feed) /\ DOMAIN longer = 1 .. Len(feed) + 1
      /\ \A i \in 1 .. Len(feed) : longer[i] = feed[i]
      /\ longer[Len(feed) + 1] = ref
  BY AppendProperties, LenProperties
<1>3. /\ Len(rows) \in Nat /\ DOMAIN rows = 1 .. Len(rows) /\ DOMAIN more = 1 .. Len(rows) + 1
      /\ \A i \in 1 .. Len(rows) : more[i] = rows[i]
      /\ more[Len(rows) + 1] = ref
  BY AppendProperties, LenProperties
<1> HIDE DEF longer, more
<1>4. Shown(rows, longer)
  <2>1. shown \in [DOMAIN rows -> DOMAIN longer]
    BY <1>2
  <2>2. \A i \in DOMAIN rows : rows[i] = longer[shown[i]]
    BY <1>1, <1>2
  <2> QED
    BY <1>1, <2>1, <2>2 DEF Shown
<1>5. Shown(more, longer)
  <2> DEFINE with == [i \in DOMAIN more |-> IF i = Len(rows) + 1 THEN Len(feed) + 1 ELSE shown[i]]
  <2>1. with \in [DOMAIN more -> DOMAIN longer]
    BY <1>2, <1>3
  <2>2. ASSUME NEW i \in DOMAIN more, NEW k \in DOMAIN more, i < k
        PROVE  with[i] < with[k]
    <3>1. i \in 1 .. Len(rows) /\ with[i] = shown[i] /\ shown[i] \in 1 .. Len(feed)
      BY <1>2, <1>3, <2>2
    <3> QED
      BY <1>1, <1>2, <1>3, <2>2, <3>1
  <2>3. \A i \in DOMAIN more : more[i] = longer[with[i]]
    BY <1>1, <1>2, <1>3
  <2> QED
    BY <2>1, <2>2, <2>3 DEF Shown
<1> QED
  BY <1>4, <1>5 DEF longer, more

\* Nothing has to be shown of no rows.
LEMMA NothingShown == ASSUME NEW feed PROVE Shown(<<>>, feed)
<1>1. <<>> \in [DOMAIN <<>> -> DOMAIN feed] /\ DOMAIN <<>> = {}
  OBVIOUS
<1> QED
  BY <1>1 DEF Shown

\* A command has rows in hand.
LEMMA DeployHasRows ==
  ASSUME NEW stored, NEW j \in DeployJob(stored), j.at # "idle"
  PROVE  j.st \in Seq(stored)
<1>1. <<>> \in Seq(stored)
  BY EmptySeq
<1>2. CASE j \in [at : {"manifest"} \cup Saving, cmd : {"init"}, st : {<<>>}]
  BY <1>1, <1>2
<1> QED
  BY <1>2, IdleIsIdle DEF DeployJob

\* The commands are those they were when the node holds more.
LEMMA DeployJobGrows ==
  ASSUME NEW stored, NEW content
  PROVE  DeployJob(stored) \subseteq DeployJob(stored \cup {content})
<1>1. Seq(stored) \subseteq Seq(stored \cup {content})
  BY SeqMonotonic
<1> QED
  BY <1>1 DEF DeployJob

\* A step has to see to what it changes; the feed grows at most by what is held.
LEMMA DeployGoes ==
  ASSUME NodeOK, NodeOK', DeployOK, NEW c \in Proc, node.stored \subseteq node'.stored,
         node'.feed = node.feed \/ \E ref \in node.stored : node'.feed = Append(node.feed, ref),
         job' \in [Proc -> DeployJob(node'.stored)], \A d \in Proc \ {c} : job'[d] = job[d],
         job'[c].at # "idle" => Shown(job'[c].st, node'.feed),
         job'[c].at = "feed" => job'[c].site \in node'.stored,
         file' \in {file, Torn} \/ (file' = job[c].st /\ InCommand(c))
  PROVE  DeployOK'
<1>1. /\ node.feed \in Seq(node.stored) /\ Seq(node.stored) \subseteq Seq(node'.stored)
  <2>1. node.feed \in Seq(node.stored)
    BY DEF NodeOK
  <2> QED
    BY <2>1, SeqMonotonic
<1>2. ASSUME NEW rows \in Seq(node.stored), Shown(rows, node.feed)
      PROVE  Shown(rows, node'.feed)
  BY <1>1, <1>2, ShownGrows
<1>3. \A d \in Proc : InCommand(d) => job[d].st \in Seq(node.stored) /\ Shown(job[d].st, node.feed)
  BY DeployHasRows DEF DeployOK, InCommand
<1>4. Loads' => file' \in Seq(node'.stored) /\ Shown(file', node'.feed)
  <2>1. Loads => file \in Seq(node.stored) /\ Shown(file, node.feed)
    BY DEF DeployOK
  <2>2. CASE file' = file
    BY <1>1, <1>2, <2>1, <2>2 DEF Loads
  <2>3. CASE file' = Torn
    BY <2>3 DEF Loads
  <2>4. CASE file' = job[c].st /\ InCommand(c)
    BY <1>1, <1>2, <1>3, <2>4
  <2> QED
    BY <2>2, <2>3, <2>4
<1>5. ASSUME NEW d \in Proc
      PROVE  /\ job'[d].at # "idle" => Shown(job'[d].st, node'.feed)
             /\ job'[d].at = "feed" => job'[d].site \in node'.stored
  <2>1. CASE d = c
    BY <2>1
  <2>2. CASE d # c
    <3>1. job'[d] = job[d] /\ (job[d].at = "feed" => job[d].site \in node.stored)
      BY <2>2 DEF DeployOK, Held
    <3> QED
      BY <1>2, <1>3, <3>1 DEF InCommand
  <2> QED
    BY <2>1, <2>2
<1> QED
  BY <1>4, <1>5 DEF DeployOK, InCommand, Held

\* Every step of the commands that deploy.
LEMMA DeployKeeps ==
  ASSUME NodeOK, DeployOK, NEW c \in Proc, DeployStep(c)
  PROVE  NodeOK' /\ DeployOK'
<1> DEFINE J == job[c]
           D == DeployJob(node.stored)
<1>0. job \in [Proc -> D] /\ J \in D /\ node.feed \in Seq(node.stored)
  BY DEF DeployOK, NodeOK
<1>f. Loads => file \in Seq(node.stored) /\ Shown(file, node.feed)
  BY DEF DeployOK
<1>i. Idle \in D
  BY DEF DeployJob
<1>r. InCommand(c) => J.st \in Seq(node.stored) /\ Shown(J.st, node.feed)
  BY <1>0, DeployHasRows DEF DeployOK, InCommand
<1>b. ASSUME NEW j \in D, Begin(c, j), Shown(j.st, node.feed), j.at = "feed" => j.site \in node.stored
      PROVE  NodeOK' /\ DeployOK'
  <2>1. node' = node /\ file' = file
    BY <1>b DEF Begin
  <2>2. job' \in [Proc -> D] /\ job'[c] = j /\ \A d \in Proc \ {c} : job'[d] = job[d]
    BY <1>0, <1>b DEF Begin, Goto
  <2>3. NodeOK'
    BY <2>1 DEF NodeOK
  <2> QED
    BY <1>b, <2>1, <2>2, <2>3, DeployGoes
<1>1. CASE DeployInit(c)
  <2> DEFINE j == [at |-> "manifest", cmd |-> "init", st |-> <<>>]
  <2>1. j \in D /\ j.at = "manifest" /\ j.st = <<>> /\ Begin(c, j)
    BY <1>1, EmptySeq DEF DeployInit, DeployJob
  <2> QED
    BY <1>b, <2>1, NothingShown
<1>2. CASE DeployManifest(c)
  <2> DEFINE next == [J EXCEPT !.at = "save"]
  <2>1. J.at = "manifest" /\ Request(c, node, next)
    BY <1>2 DEF DeployManifest
  <2>2. next \in D /\ next.at = "save" /\ next.st = J.st /\ InCommand(c)
    BY <1>0, <2>1 DEF DeployJob, Saving, Idle, InCommand
  <2> HIDE DEF next
  <2>3. job' \in [Proc -> D] /\ job'[c] \in {next, Idle} /\ \A d \in Proc \ {c} : job'[d] = job[d]
    BY <1>0, <1>i, <2>1, <2>2 DEF Request, Goto
  <2>4. node' = node /\ file' = file /\ NodeOK'
    BY <2>1 DEF Request, NodeOK
  <2> QED
    BY <1>r, <2>2, <2>3, <2>4, IdleIsIdle, DeployGoes
<1>3. ASSUME NEW s \in Site, Push(c, s) PROVE NodeOK' /\ DeployOK'
  <2> DEFINE j == [at |-> "collection", cmd |-> "push", site |-> s, st |-> file]
  <2>1. j \in D /\ j.at = "collection" /\ j.st = file /\ Begin(c, j) /\ Loads
    BY <1>3, <1>f DEF Push, DeployJob
  <2> QED
    BY <1>b, <1>f, <2>1
<1>4. ASSUME NEW s \in Site, BlogPublish(c, s) PROVE NodeOK' /\ DeployOK'
  <2> DEFINE j == [at |-> "collection", cmd |-> "publish", site |-> s, st |-> file]
  <2>1. j \in D /\ j.at = "collection" /\ j.st = file /\ Begin(c, j) /\ Loads
    BY <1>4, <1>f DEF BlogPublish, DeployJob
  <2> QED
    BY <1>b, <1>f, <2>1
<1>5. ASSUME NEW i, Rollback(c, i) PROVE NodeOK' /\ DeployOK'
  <2> DEFINE j == [at |-> "feed", cmd |-> "rollback", site |-> file[i], st |-> file]
  <2>1. Begin(c, j) /\ Loads /\ file[i] \in node.stored
    BY <1>5, <1>f, LenProperties DEF Rollback
  <2>2. j \in D /\ j.at = "feed" /\ j.st = file /\ j.site = file[i]
    BY <1>f, <2>1 DEF DeployJob
  <2> QED
    BY <1>b, <1>f, <2>1, <2>2
<1>6. CASE Collection(c)
  <2> DEFINE next == [J EXCEPT !.at = "feed"]
  <2>1. J.at = "collection" /\ Upload(c, J.site, next) /\ InCommand(c)
    BY <1>6 DEF Collection, InCommand
  <2>2. next \in D /\ next.at = "feed" /\ next.st = J.st /\ next.site = J.site
    BY <1>0, <2>1 DEF DeployJob, Saving, Idle
  <2> HIDE DEF next
  <2>3. /\ NodeOK' /\ node'.stored = node.stored \cup {J.site} /\ node'.feed = node.feed
    BY <2>1, UploadKeeps
  <2>4. D \subseteq DeployJob(node'.stored)
    BY <2>3, DeployJobGrows
  <2> HIDE DEF D
  <2>5. /\ job' \in [Proc -> DeployJob(node'.stored)] /\ job'[c] \in {next, Idle}
        /\ \A d \in Proc \ {c} : job'[d] = job[d]
        /\ file' = file
    BY <1>0, <1>i, <2>1, <2>2, <2>4 DEF Upload, Request, Goto
  <2> QED
    BY <1>r, <2>1, <2>2, <2>3, <2>5, IdleIsIdle, DeployGoes
<1>7. CASE DeployFeed(c)
  <2> DEFINE rows == Append(J.st, J.site)
             next == IF J.cmd = "publish" THEN Idle ELSE [J EXCEPT !.at = "save", !.st = Append(@, J.site)]
  <2>1. J.at = "feed" /\ UpdateFeed(c, J.site, next) /\ InCommand(c) /\ J.site \in node.stored
    BY <1>7 DEF DeployFeed, InCommand, DeployOK, Held
  <2>2. rows \in Seq(node.stored)
    BY <1>r, <2>1, AppendProperties
  <2>3. next = Idle \/ (next \in D /\ next.at = "save" /\ next.st = rows)
    <3>1. CASE J.cmd = "publish"
      BY <3>1
    <3>2. CASE J.cmd # "publish"
      <4>1. \/ J \in [at : {"feed"}, cmd : {"push"}, site : Site, st : Seq(node.stored)]
            \/ J \in [at : {"feed"}, cmd : {"rollback"}, site : node.stored, st : Seq(node.stored)]
        BY <1>0, <2>1, <3>2 DEF DeployJob, Saving, Idle
      <4> QED
        BY <2>2, <3>2, <4>1 DEF DeployJob, Saving
    <3> QED
      BY <3>1, <3>2
  <2> HIDE DEF next
  <2>4. /\ NodeOK' /\ node'.stored = node.stored /\ node'.feed = Append(node.feed, J.site)
    BY <2>1, UpdateKeeps
  <2>5. Shown(rows, node'.feed)
    BY <1>0, <1>r, <2>1, <2>4, ShownGrows
  <2>6. /\ job' \in [Proc -> D] /\ job'[c] \in {next, Idle}
        /\ \A d \in Proc \ {c} : job'[d] = job[d]
        /\ file' = file
    BY <1>0, <1>i, <2>1, <2>3 DEF UpdateFeed, Goto
  <2> QED
    BY <2>1, <2>3, <2>4, <2>5, <2>6, IdleIsIdle, DeployGoes
<1>8. CASE Truncate(c)
  <2> DEFINE next == [J EXCEPT !.at = "write"]
  <2>1. J.at = "save" /\ Goto(c, next) /\ file' = Torn /\ node' = node /\ InCommand(c)
    BY <1>8 DEF Truncate, InCommand
  <2>2. next \in D /\ next.at = "write" /\ next.st = J.st
    BY <1>0, <2>1 DEF DeployJob, Saving, Idle
  <2> HIDE DEF next
  <2>3. job' \in [Proc -> D] /\ job'[c] = next /\ \A d \in Proc \ {c} : job'[d] = job[d]
    BY <1>0, <2>1, <2>2 DEF Goto
  <2>4. NodeOK'
    BY <2>1 DEF NodeOK
  <2> QED
    BY <1>r, <2>1, <2>2, <2>3, <2>4, DeployGoes
<1>9. CASE Write(c, Deployed(job[c], kept))
  <2>1. J.at = "write" /\ Goto(c, Idle) /\ file' = J.st /\ node' = node /\ InCommand(c)
    BY <1>9 DEF Write, InCommand
  <2>3. job' \in [Proc -> D] /\ job'[c] = Idle /\ \A d \in Proc \ {c} : job'[d] = job[d]
    BY <1>0, <1>i, <2>1 DEF Goto
  <2>4. NodeOK'
    BY <2>1 DEF NodeOK
  <2> QED
    BY <2>1, <2>3, <2>4, IdleIsIdle, DeployGoes
<1>10. CASE Stop(c)
  <2>1. Goto(c, Idle) /\ file' = file /\ node' = node
    BY <1>10 DEF Stop
  <2>3. job' \in [Proc -> D] /\ job'[c] = Idle /\ \A d \in Proc \ {c} : job'[d] = job[d]
    BY <1>0, <1>i, <2>1 DEF Goto
  <2>4. NodeOK'
    BY <2>1 DEF NodeOK
  <2> QED
    BY <2>1, <2>3, <2>4, IdleIsIdle, DeployGoes
<1> QED
  BY <1>1, <1>2, <1>3, <1>4, <1>5, <1>6, <1>7, <1>8, <1>9, <1>10 DEF DeployStep

-----------------------------------------------------------------------------
(* The shares.                                                             *)

\* A row stays true: files stay held, and lists are added only.
LEMMA RowsStay ==
  ASSUME NEW old, NEW new, old.stored \subseteq new.stored, old.lists \in Seq(SUBSET Grantee),
         new.lists = old.lists \/ \E s \in SUBSET Grantee : new.lists = Append(old.lists, s)
  PROVE  /\ \A row : RowOK(row, old) => RowOK(row, new)
         /\ \A rows : RowsOK(rows, old) => RowsOK(rows, new)
         /\ \A j : InShare(j, old) => InShare(j, new)
<1>1. \A i \in DOMAIN old.lists : i \in DOMAIN new.lists /\ new.lists[i] = old.lists[i]
  BY AppendProperties, LenProperties
<1>2. \A row : RowOK(row, old) => RowOK(row, new)
  BY <1>1 DEF RowOK
<1>3. \A rows : RowsOK(rows, old) => RowsOK(rows, new)
  BY <1>2 DEF RowsOK
<1>4. \A j : InShare(j, old) => InShare(j, new)
  BY <1>2, <1>3 DEF InShare
<1> QED
  BY <1>2, <1>3, <1>4

\* A step has to see to what it changes.
LEMMA ShareGoes ==
  ASSUME NodeOK, ShareOK, NEW c \in Proc, node.stored \subseteq node'.stored,
         node'.lists = node.lists \/ \E s \in SUBSET Grantee : node'.lists = Append(node.lists, s),
         job' \in [Proc -> ShareJob], \A d \in Proc \ {c} : job'[d] = job[d],
         job'[c].at # "idle" => InShare(job'[c], node'),
         file' \in {file, Torn} \/ (file' = job[c].st /\ job[c].at \in Saving)
  PROVE  ShareOK'
<1>1. node.lists \in Seq(SUBSET Grantee)
  BY DEF NodeOK
<1>2. /\ \A rows : RowsOK(rows, node) => RowsOK(rows, node')
      /\ \A j : InShare(j, node) => InShare(j, node')
  BY <1>1, RowsStay
<1>3. Loads' => RowsOK(file', node')
  <2>1. Loads => RowsOK(file, node)
    BY DEF ShareOK
  <2>2. job[c].at \in Saving => RowsOK(job[c].st, node)
    BY DEF ShareOK, InShare
  <2>3. CASE file' = file
    BY <1>2, <2>1, <2>3 DEF Loads
  <2>4. CASE file' = Torn
    BY <2>4 DEF Loads
  <2>5. CASE file' = job[c].st /\ job[c].at \in Saving
    BY <1>2, <2>2, <2>5
  <2> QED
    BY <2>3, <2>4, <2>5
<1>4. ASSUME NEW d \in Proc PROVE InShare(job'[d], node')
  <2>1. CASE d = c /\ job'[c].at = "idle"
    BY <2>1 DEF InShare, Saving
  <2>2. CASE d # c
    <3>1. job'[d] = job[d] /\ InShare(job[d], node)
      BY <2>2 DEF ShareOK
    <3> QED
      BY <1>2, <3>1
  <2> QED
    BY <2>1, <2>2
<1> QED
  BY <1>3, <1>4 DEF ShareOK

\* A new grantee list comes after the others.
LEMMA ListAdded ==
  ASSUME NodeOK, NEW grantees \in SUBSET Grantee,
         node' = [node EXCEPT !.lists = Append(@, grantees)]
  PROVE  /\ NodeOK'
         /\ node'.stored = node.stored /\ node'.lists = Append(node.lists, grantees)
         /\ Len(node.lists) + 1 \in Nat /\ Len(node.lists) + 1 \in DOMAIN node'.lists
         /\ node'.lists[Len(node.lists) + 1] = grantees
<1>1. /\ node.feed \in Seq(node.stored) /\ node.lists \in Seq(SUBSET Grantee)
      /\ node = [stored |-> node.stored, feed |-> node.feed, lists |-> node.lists]
  BY DEF NodeOK
<1>2. node' = [stored |-> node.stored, feed |-> node.feed, lists |-> Append(node.lists, grantees)]
  BY <1>1
<1>3. /\ Append(node.lists, grantees) \in Seq(SUBSET Grantee)
      /\ Len(node.lists) \in Nat /\ DOMAIN Append(node.lists, grantees) = 1 .. Len(node.lists) + 1
      /\ Append(node.lists, grantees)[Len(node.lists) + 1] = grantees
  BY <1>1
<1>4. /\ node'.stored = node.stored /\ node'.feed = node.feed
      /\ node'.lists = Append(node.lists, grantees)
  BY <1>2
<1>5. NodeOK'
  BY <1>1, <1>2, <1>3 DEF NodeOK
<1> QED
  BY <1>3, <1>4, <1>5

\* A set of numbers that is not empty has a least one.
LEMMA LeastExists ==
  ASSUME NEW S \in SUBSET Nat, S # {}
  PROVE  \E n \in S : \A m \in S : n <= m
<1> DEFINE Less == OpToRel(<, Nat)
<1>1. IsWellFoundedOn(Less, Nat)
  BY NatLessThanWellFounded
<1>2. \A x, y \in Nat : <<x, y>> \in Less <=> x < y
  BY DEF OpToRel
<1> HIDE DEF Less
<1>3. PICK n \in S : \A m \in S : ~ (<<m, n>> \in Less)
  BY <1>1, WFMin
<1>4. \A m \in S : m \in Nat /\ n \in Nat /\ ~ (m < n)
  BY <1>2, <1>3
<1> QED
  BY <1>4

\* The share to be patched is there, and its list is the one shown.
LEMMA PatchedShare ==
  ASSUME NEW rows, NEW id, NEW bee, RowsOK(rows, bee), HasId(rows, id)
  PROVE  /\ Position(rows, id) \in DOMAIN rows /\ rows[Position(rows, id)] \in Row
         /\ rows[Position(rows, id)].grantees \in SUBSET Grantee
         /\ RowOK(rows[Position(rows, id)], bee)
<1> DEFINE i == Position(rows, id)
           S == {k \in DOMAIN rows : rows[k].id = id}
<1>1. rows \in Seq(Row) /\ \A k \in DOMAIN rows : RowOK(rows[k], bee)
  BY DEF RowsOK
<1>2. S \in SUBSET Nat /\ S # {}
  BY <1>1, LenProperties DEF HasId
<1>3. \E n \in S : \A m \in S : n <= m
  BY <1>2, LeastExists
<1>4. \E n \in DOMAIN rows : rows[n].id = id /\ \A k \in DOMAIN rows : rows[k].id = id => n <= k
  BY <1>3
<1>5. i \in DOMAIN rows
  BY <1>4 DEF Position
<1> HIDE DEF i
<1>6. rows[i] \in Row
  BY <1>1, <1>5, ElementOfSeq, LenProperties
<1>7. rows[i].grantees \in SUBSET Grantee
  BY <1>6 DEF Row
<1> QED
  BY <1>1, <1>5, <1>6, <1>7 DEF i

\* The rows of a patched share are true of the node with the new list.
LEMMA PatchedRows ==
  ASSUME NEW rows, NEW id, NEW gone \in SUBSET Grantee, NEW old, NEW new,
         RowsOK(rows, old), HasId(rows, id), old.lists \in Seq(SUBSET Grantee),
         new.stored = old.stored,
         new.lists = Append(old.lists, old.lists[rows[Position(rows, id)].list] \ gone)
  PROVE  RowsOK(Without(rows, Position(rows, id), gone, Len(old.lists) + 1), new)
<1> DEFINE i    == Position(rows, id)
           list == Len(old.lists) + 1
           rest == old.lists[rows[i].list] \ gone
<1>1. rows \in Seq(Row) /\ \A k \in DOMAIN rows : RowOK(rows[k], old)
  BY DEF RowsOK
<1>2. /\ i \in DOMAIN rows /\ rows[i] \in Row
      /\ rows[i].grantees \in SUBSET Grantee /\ RowOK(rows[i], old)
  BY PatchedShare
<1> HIDE DEF i
<1>3. /\ old.lists[rows[i].list] = rows[i].grantees /\ rows[i].file \in old.stored
      /\ rest = rows[i].grantees \ gone /\ rest \in SUBSET Grantee
  BY <1>2 DEF RowOK
<1>4. list \in Nat /\ list \in DOMAIN new.lists /\ new.lists[list] = rest
  BY <1>3, AppendProperties, LenProperties DEF i
<1>5. RowsOK(rows, new)
  BY <1>3, RowsStay DEF i
<1> DEFINE row == [rows[i] EXCEPT !.grantees = @ \ gone, !.list = list]
<1>6. row \in Row /\ row.file = rows[i].file /\ row.grantees = rest /\ row.list = list
  BY <1>2, <1>3, <1>4 DEF Row
<1>7. Without(rows, i, gone, list) = [rows EXCEPT ![i] = row]
  BY <1>1, <1>2 DEF Without
<1> HIDE DEF row, list, rest
<1>8. RowOK(row, new)
  BY <1>3, <1>4, <1>6 DEF RowOK
<1>9. [rows EXCEPT ![i] = row] \in Seq(Row)
  BY <1>1, <1>2, <1>6, ExceptSeq, LenProperties
<1>10. RowsOK([rows EXCEPT ![i] = row], new)
  BY <1>1, <1>2, <1>5, <1>8, <1>9 DEF RowsOK
<1> QED
  BY <1>7, <1>10 DEF i, list, rest

\* Every step of the commands that share and revoke.
LEMMA ShareKeeps ==
  ASSUME NodeOK, ShareOK, NEW c \in Proc, ShareStep(c)
  PROVE  NodeOK' /\ ShareOK'
<1> DEFINE J == job[c]
<1>0. job \in [Proc -> ShareJob] /\ J \in ShareJob /\ InShare(J, node) /\ Idle \in ShareJob
  BY DEF ShareOK, ShareJob
<1>f. Loads => RowsOK(file, node)
  BY DEF ShareOK
<1>l. node.lists \in Seq(SUBSET Grantee)
  BY DEF NodeOK
<1>o. RowsOK(LoadedOr(NoShares), node)
  BY <1>f, EmptySeq DEF LoadedOr, NoShares, RowsOK
<1>s. ASSUME NEW j \in ShareJob, InShare(j, node), Goto(c, j), node' = node,
             file' \in {file, Torn} \/ (file' = J.st /\ J.at \in Saving)
      PROVE  NodeOK' /\ ShareOK'
  <2>1. job' \in [Proc -> ShareJob] /\ job'[c] = j /\ \A d \in Proc \ {c} : job'[d] = job[d]
    BY <1>0, <1>s DEF Goto
  <2>2. NodeOK'
    BY <1>s DEF NodeOK
  <2> QED
    BY <1>s, <2>1, <2>2, ShareGoes
<1>i. InShare(Idle, node)
  BY IdleIsIdle DEF InShare, Saving
<1>1. ASSUME NEW f \in File, NEW to \in To, ShareFile(c, f, to) PROVE NodeOK' /\ ShareOK'
  <2> DEFINE j == [at |-> "upload", cmd |-> "share", share |-> [file |-> f, grantees |-> to]]
  <2>1. Goto(c, j) /\ node' = node /\ file' = file
    BY <1>1 DEF ShareFile, Begin
  <2>2. j \in ShareJob /\ j.at = "upload"
    BY ShareAssumption DEF ShareAssumption, ShareJob
  <2> HIDE DEF j
  <2>3. InShare(j, node)
    BY <2>2 DEF InShare, Saving
  <2> QED
    BY <1>s, <2>1, <2>2, <2>3
<1>2. CASE ShareUpload(c)
  <2> DEFINE next == [J EXCEPT !.at = "create"]
  <2>1. J.at = "upload" /\ Upload(c, J.share.file, next)
    BY <1>2 DEF ShareUpload
  <2>2. next \in ShareJob /\ next.at = "create" /\ next.share = J.share
    BY <1>0, <2>1 DEF ShareJob, Saving, Idle
  <2> HIDE DEF next
  <2>3. /\ NodeOK' /\ node'.stored = node.stored \cup {J.share.file} /\ node'.lists = node.lists
    BY <2>1, UploadKeeps
  <2>4. /\ job' \in [Proc -> ShareJob] /\ job'[c] \in {next, Idle} /\ \A d \in Proc \ {c} : job'[d] = job[d]
        /\ file' = file
    BY <1>0, <2>1, <2>2 DEF Upload, Request, Goto
  <2>5. InShare(next, node')
    BY <2>2, <2>3 DEF InShare, Saving
  <2> QED
    BY <2>3, <2>4, <2>5, IdleIsIdle, ShareGoes
<1>3. CASE CreateGrantees(c)
  <2> DEFINE s    == J.share
             next == [at |-> "load", cmd |-> "share",
                      share |-> [file |-> s.file, grantees |-> s.grantees, list |-> Len(node.lists) + 1]]
  <2>1. J.at = "create" /\ Request(c, [node EXCEPT !.lists = Append(@, s.grantees)], next)
    BY <1>3 DEF CreateGrantees
  <2>2. J \in [at : {"create"}, cmd : {"share"}, share : [file : File, grantees : SUBSET Grantee]]
    BY <1>0, <2>1 DEF ShareJob, Saving, Idle
  <2>3. s.file \in File /\ s.grantees \in SUBSET Grantee /\ s.file \in node.stored
    BY <1>0, <2>1, <2>2 DEF InShare
  <2>4. node' = [node EXCEPT !.lists = Append(@, s.grantees)]
    BY <2>1 DEF Request
  <2>5. /\ NodeOK' /\ node'.stored = node.stored /\ node'.lists = Append(node.lists, s.grantees)
        /\ Len(node.lists) + 1 \in Nat /\ Len(node.lists) + 1 \in DOMAIN node'.lists
        /\ node'.lists[Len(node.lists) + 1] = s.grantees
    BY <2>3, <2>4, ListAdded
  <2>6. next \in ShareJob
    BY <2>3, <2>5 DEF ShareJob
  <2>7. next.at = "load" /\ RowOK(next.share, node') /\ next.share.file \in node'.stored
    BY <2>3, <2>5 DEF RowOK
  <2> HIDE DEF next
  <2>8. /\ job' \in [Proc -> ShareJob] /\ job'[c] \in {next, Idle} /\ \A d \in Proc \ {c} : job'[d] = job[d]
        /\ file' = file
    BY <1>0, <2>1, <2>6 DEF Request, Goto
  <2>9. InShare(next, node')
    BY <2>7 DEF InShare, Saving
  <2> QED
    BY <2>3, <2>5, <2>8, <2>9, IdleIsIdle, ShareGoes
<1>4. ASSUME NEW id \in Second, ShareLoad(c, id) PROVE NodeOK' /\ ShareOK'
  <2> DEFINE row == [id |-> id, file |-> J.share.file, grantees |-> J.share.grantees, list |-> J.share.list]
             st  == Append(LoadedOr(NoShares), row)
             next == [at |-> "save", cmd |-> "share", row |-> row, st |-> st]
  <2>1. J.at = "load" /\ Goto(c, next) /\ node' = node /\ file' = file
    BY <1>4 DEF ShareLoad
  <2>2. J \in [at : {"load"}, cmd : {"share"}, share : [file : File, grantees : SUBSET Grantee, list : Nat]]
    BY <1>0, <2>1 DEF ShareJob, Saving, Idle
  <2>3. RowOK(J.share, node)
    BY <1>0, <2>1 DEF InShare
  <2>4. row \in Row /\ RowOK(row, node)
    BY <2>2, <2>3 DEF Row, RowOK
  <2> HIDE DEF row
  <2>5. RowsOK(st, node)
    <3>1. LoadedOr(NoShares) \in Seq(Row) /\ \A i \in DOMAIN LoadedOr(NoShares) : RowOK(LoadedOr(NoShares)[i], node)
      BY <1>o DEF RowsOK
    <3>2. /\ st \in Seq(Row) /\ DOMAIN st = 1 .. Len(LoadedOr(NoShares)) + 1
          /\ \A i \in 1 .. Len(LoadedOr(NoShares)) : st[i] = LoadedOr(NoShares)[i]
          /\ st[Len(LoadedOr(NoShares)) + 1] = row /\ DOMAIN LoadedOr(NoShares) = 1 .. Len(LoadedOr(NoShares))
          /\ Len(LoadedOr(NoShares)) \in Nat
      BY <2>4, <3>1, AppendProperties, LenProperties
    <3> QED
      BY <2>4, <3>1, <3>2 DEF RowsOK
  <2>6. next \in ShareJob /\ next.at = "save" /\ next.st = st
    BY <2>4, <2>5 DEF ShareJob, RowsOK, Saving
  <2> HIDE DEF next, st
  <2>7. InShare(next, node)
    BY <2>5, <2>6 DEF InShare
  <2> QED
    BY <1>s, <2>1, <2>6, <2>7
<1>5. ASSUME NEW id \in Second, NEW g \in Grantee, Revoke(c, id, {g}) PROVE NodeOK' /\ ShareOK'
  <2> DEFINE j == [at |-> "patch", cmd |-> "revoke", id |-> id, gone |-> {g}, st |-> LoadedOr(NoShares)]
  <2>1. HasId(LoadedOr(NoShares), id) /\ Goto(c, j) /\ node' = node /\ file' = file
    BY <1>5 DEF Revoke, Begin
  <2>2. j \in ShareJob /\ j.at = "patch" /\ j.st = LoadedOr(NoShares) /\ j.id = id
    BY <1>o DEF ShareJob, RowsOK
  <2> HIDE DEF j
  <2>3. InShare(j, node)
    BY <1>o, <2>1, <2>2 DEF InShare, Saving
  <2> QED
    BY <1>s, <2>1, <2>2, <2>3
<1>6. CASE PatchGrantees(c)
  <2> DEFINE i    == Position(J.st, J.id)
             list == Len(node.lists) + 1
             rest == node.lists[J.st[i].list] \ J.gone
             st   == Without(J.st, i, J.gone, list)
             next == [at |-> "save", cmd |-> "revoke", id |-> J.id, gone |-> J.gone, list |-> list, st |-> st]
  <2>1. J.at = "patch" /\ Request(c, [node EXCEPT !.lists = Append(@, rest)], next)
    BY <1>6 DEF PatchGrantees
  <2>2. J \in [at : {"patch"}, cmd : {"revoke"}, id : Second, gone : SUBSET Grantee, st : Seq(Row)]
    BY <1>0, <2>1 DEF ShareJob, Saving, Idle
  <2>3. RowsOK(J.st, node) /\ HasId(J.st, J.id)
    BY <1>0, <2>1 DEF InShare
  <2>4. node' = [node EXCEPT !.lists = Append(@, rest)]
    BY <2>1 DEF Request
  <2>5. rest \in SUBSET Grantee
    <3>1. /\ J.gone \in SUBSET Grantee
          /\ J.st[i].grantees \in SUBSET Grantee /\ RowOK(J.st[i], node)
      BY <2>2, <2>3, PatchedShare
    <3> QED
      BY <3>1 DEF RowOK
  <2>6. /\ NodeOK' /\ node'.stored = node.stored /\ node'.lists = Append(node.lists, rest)
    BY <2>4, <2>5, ListAdded
  <2>7. list \in Nat /\ RowsOK(st, node')
    <3>1. J.gone \in SUBSET Grantee
      BY <2>2
    <3>2. RowsOK(st, node')
      BY <1>l, <2>3, <2>6, <3>1, PatchedRows
    <3> QED
      BY <1>l, <3>2, LenProperties
  <2> HIDE DEF st, list, rest
  <2>8. next \in ShareJob /\ next.at = "save" /\ next.st = st
    BY <2>2, <2>7 DEF ShareJob, RowsOK, Saving
  <2> HIDE DEF next
  <2>9. /\ job' \in [Proc -> ShareJob] /\ job'[c] \in {next, Idle} /\ \A d \in Proc \ {c} : job'[d] = job[d]
        /\ file' = file
    BY <1>0, <2>1, <2>8 DEF Request, Goto
  <2>10. InShare(next, node')
    BY <2>7, <2>8 DEF InShare
  <2> QED
    BY <2>5, <2>6, <2>9, <2>10, IdleIsIdle, ShareGoes
<1>7. CASE Truncate(c)
  <2> DEFINE next == [J EXCEPT !.at = "write"]
  <2>1. J.at = "save" /\ Goto(c, next) /\ file' = Torn /\ node' = node
    BY <1>7 DEF Truncate
  <2>2. next \in ShareJob /\ next.at = "write" /\ next.st = J.st
    BY <1>0, <2>1 DEF ShareJob, Saving, Idle
  <2> HIDE DEF next
  <2>3. InShare(next, node)
    BY <1>0, <2>1, <2>2 DEF InShare, Saving
  <2> QED
    BY <1>s, <2>1, <2>2, <2>3
<1>8. CASE Write(c, Shared(job[c], IF kept = Absent THEN NoShares ELSE kept))
  <2>1. J.at = "write" /\ Goto(c, Idle) /\ file' = J.st /\ node' = node
    BY <1>8 DEF Write
  <2> QED
    BY <1>0, <1>i, <1>s, <2>1 DEF Saving
<1>9. CASE Stop(c)
  <2>1. Goto(c, Idle) /\ file' = file /\ node' = node
    BY <1>9 DEF Stop
  <2> QED
    BY <1>0, <1>i, <1>s, <2>1
<1> QED
  BY <1>1, <1>2, <1>3, <1>4, <1>5, <1>6, <1>7, <1>8, <1>9 DEF ShareStep

-----------------------------------------------------------------------------
(* The relay.                                                              *)

\* The chunks of a list of files are finitely many.
LEMMA ChunksFinite ==
  ASSUME NEW files \in Seq(Relayable), NEW b
  PROVE  IsFiniteSet(ChunksIn(files, b))
<1> DEFINE In(i) == {<<i, n>> : n \in {k \in DOMAIN files[i].chunks : files[i].chunks[k] = b}}
           All   == {In(i) : i \in DOMAIN files}
<1>1. Len(files) \in Nat /\ DOMAIN files = 1 .. Len(files)
  BY LenProperties
<1>2. IsFiniteSet(DOMAIN files)
  BY <1>1, FS_Interval
<1>3. IsFiniteSet(All)
  <2> DEFINE g == [i \in DOMAIN files |-> In(i)]
  <2>1. g \in Surjection(DOMAIN files, All)
    BY DEF Surjection
  <2> HIDE DEF g, All
  <2> QED
    BY <1>2, <2>1, FS_Surjection DEF ExistsSurjection
<1>4. ASSUME NEW i \in DOMAIN files PROVE IsFiniteSet(In(i))
  <2> DEFINE N == {k \in DOMAIN files[i].chunks : files[i].chunks[k] = b}
  <2>1. files[i].chunks \in Seq(Bucket)
    <3>1. files[i] \in Relayable
      BY <1>1, ElementOfSeq
    <3> QED
      BY <3>1, RelayAssumption DEF RelayAssumption
  <2>2. IsFiniteSet(DOMAIN files[i].chunks)
    <3>1. Len(files[i].chunks) \in Nat /\ DOMAIN files[i].chunks = 1 .. Len(files[i].chunks)
      BY <2>1, LenProperties
    <3> QED
      BY <3>1, FS_Interval
  <2>3. IsFiniteSet(N)
    BY <2>2, FS_Subset
  <2> DEFINE g == [n \in N |-> <<i, n>>]
  <2>4. g \in Surjection(N, In(i))
    BY DEF Surjection
  <2> HIDE DEF g, In, N
  <2> QED
    BY <2>3, <2>4, FS_Surjection DEF ExistsSurjection
<1>5. IsFiniteSet(UNION All)
  BY <1>3, <1>4, FS_UNION
<1> QED
  BY <1>5 DEF ChunksIn

\* A file more is as many chunks more as it has.
LEMMA ChunksAdded ==
  ASSUME NEW files \in Seq(Relayable), NEW f \in Relayable, NEW b \in Bucket
  PROVE  /\ Cardinality(ChunksIn(files, b)) \in Nat
         /\ Stamps(f.chunks)[b] \in Nat
         /\ Cardinality(ChunksIn(Append(files, f), b)) = Cardinality(ChunksIn(files, b)) + Stamps(f.chunks)[b]
<1> DEFINE N    == {k \in DOMAIN f.chunks : f.chunks[k] = b}
           top  == Len(files) + 1
           New1 == {<<top, n>> : n \in N}
           Old  == ChunksIn(files, b)
<1>1. /\ Len(files) \in Nat /\ DOMAIN files = 1 .. Len(files)
      /\ DOMAIN Append(files, f) = 1 .. top /\ Append(files, f)[top] = f
      /\ \A i \in 1 .. Len(files) : Append(files, f)[i] = files[i]
  BY AppendProperties, LenProperties
<1>2. f.chunks \in Seq(Bucket)
  BY RelayAssumption DEF RelayAssumption
<1>3. IsFiniteSet(N)
  <2>1. Len(f.chunks) \in Nat /\ DOMAIN f.chunks = 1 .. Len(f.chunks)
    BY <1>2, LenProperties
  <2>2. IsFiniteSet(DOMAIN f.chunks)
    BY <2>1, FS_Interval
  <2> QED
    BY <2>2, FS_Subset
<1>4. IsFiniteSet(New1) /\ Cardinality(New1) = Cardinality(N)
  <2> DEFINE g == [n \in N |-> <<top, n>>]
  <2>1. g \in Bijection(N, New1)
    <3>1. g \in [N -> New1]
      OBVIOUS
    <3>2. \A k, n \in N : g[k] = g[n] => k = n
      OBVIOUS
    <3>3. \A p \in New1 : \E n \in N : g[n] = p
      OBVIOUS
    <3> QED
      BY <3>1, <3>2, <3>3 DEF Bijection, Injection, Surjection, IsInjective
  <2> HIDE DEF g, N, New1
  <2> QED
    BY <1>3, <2>1, FS_Bijection DEF ExistsBijection
<1>5. IsFiniteSet(Old)
  BY ChunksFinite
<1>6. Old \cap New1 = {}
  BY <1>1 DEF ChunksIn
<1>7. ChunksIn(Append(files, f), b) = Old \cup New1
  BY <1>1 DEF ChunksIn
<1>8. Cardinality(Old \cup New1) = Cardinality(Old) + Cardinality(New1)
  <2> HIDE DEF Old, New1
  <2>1. Cardinality(Old \cup New1) = Cardinality(Old) + Cardinality(New1) - Cardinality(Old \cap New1)
    BY <1>4, <1>5, FS_Union
  <2>2. Cardinality(Old \cap New1) = 0
    BY <1>6, FS_EmptySet
  <2>3. Cardinality(Old) \in Nat /\ Cardinality(New1) \in Nat
    BY <1>4, <1>5, FS_CardinalityType
  <2> QED
    BY <2>1, <2>2, <2>3
<1>9. Stamps(f.chunks)[b] = Cardinality(N)
  BY DEF Stamps
<1> QED
  BY <1>3, <1>4, <1>5, <1>7, <1>8, <1>9, FS_CardinalityType

\* Files held stay held.
LEMMA CountersStay ==
  ASSUME NEW old, NEW new, old \subseteq new
  PROVE  /\ \A st : CountersOK(st, old) => CountersOK(st, new)
         /\ \A st, f : AheadByFile(st, f, old) => AheadByFile(st, f, new)
BY DEF CountersOK, AheadByFile

\* Counters at nought are those of no file.
LEMMA FreshCounters ==
  ASSUME NEW stored
  PROVE  Fresh \in RelayState /\ CountersOK(Fresh, stored)
<1>1. Fresh \in RelayState
  BY DEF Fresh, RelayState, NoStamps
<1>2. ToSet(<<>>) = {}
  BY DEF ToSet
<1>3. \A b \in Bucket : ChunksIn(<<>>, b) = {}
  BY DEF ChunksIn
<1>4. /\ Fresh.buckets = [b \in Bucket |-> 0] /\ Fresh.uploaded = <<>>
  BY DEF Fresh, NoStamps
<1>5. \A b \in Bucket : Cardinality(ChunksIn(<<>>, b)) = 0
  BY <1>3, FS_EmptySet
<1>6. \A b \in Bucket : Fresh.buckets[b] <= MAX_SLOT
  BY <1>4, RelayAssumption DEF RelayAssumption
<1>7. Fresh.buckets = [b \in Bucket |-> Cardinality(ChunksIn(Fresh.uploaded, b))]
  BY <1>4, <1>5
<1> QED
  BY <1>1, <1>2, <1>4, <1>6, <1>7 DEF CountersOK

\* The counters taken over for a file that fits are ahead by that file.
LEMMA AheadNow ==
  ASSUME NEW st \in RelayState, NEW stored, CountersOK(st, stored), NEW f \in Relayable, Fits(st.buckets, f.chunks),
         NEW new, new = [st EXCEPT !.buckets = Stamped(@, f.chunks)]
  PROVE  /\ new \in RelayState /\ new.uploaded = st.uploaded
         /\ AheadByFile(new, f, stored)
         /\ \A b \in Bucket : Stamps(f.chunks)[b] <= MAX_SLOT
<1>1. /\ st.buckets \in [Bucket -> Nat] /\ st.uploaded \in Seq(Relayable)
      /\ st = [buckets |-> st.buckets, uploaded |-> st.uploaded, rejected |-> st.rejected]
  BY DEF RelayState
<1>2. \A b \in Bucket :
        /\ st.buckets[b] = Cardinality(ChunksIn(st.uploaded, b))
        /\ Cardinality(ChunksIn(st.uploaded, b)) \in Nat /\ Stamps(f.chunks)[b] \in Nat
        /\ Stamped(st.buckets, f.chunks)[b] = st.buckets[b] + Stamps(f.chunks)[b]
        /\ Stamped(st.buckets, f.chunks)[b] <= MAX_SLOT
  BY <1>1, ChunksAdded DEF CountersOK, Stamped, Fits
<1>3. Stamped(st.buckets, f.chunks) \in [Bucket -> Nat]
  BY <1>1, <1>2 DEF Stamped
<1>4. new.buckets = Stamped(st.buckets, f.chunks) /\ new.uploaded = st.uploaded /\ new \in RelayState
  BY <1>1, <1>3 DEF RelayState
<1>5. \A b \in Bucket : Stamps(f.chunks)[b] <= MAX_SLOT
  <2> TAKE b \in Bucket
  <2>1. st.buckets[b] \in Nat /\ MAX_SLOT \in Nat
    BY <1>1, RelayAssumption DEF RelayAssumption
  <2> QED
    BY <1>2, <2>1
<1> QED
  BY <1>2, <1>4, <1>5 DEF AheadByFile, CountersOK

\* Once the file is counted, the counters are right again.
LEMMA AheadNoMore ==
  ASSUME NEW st \in RelayState, NEW stored, NEW f \in Relayable, AheadByFile(st, f, stored),
         NEW new, new = [st EXCEPT !.uploaded = Append(@, f)]
  PROVE  new \in RelayState /\ CountersOK(new, stored \cup {f})
<1>1. /\ st.buckets \in [Bucket -> Nat] /\ st.uploaded \in Seq(Relayable)
      /\ st = [buckets |-> st.buckets, uploaded |-> st.uploaded, rejected |-> st.rejected]
  BY DEF RelayState
<1>2. /\ new.buckets = st.buckets /\ new.uploaded = Append(st.uploaded, f)
      /\ Append(st.uploaded, f) \in Seq(Relayable) /\ new \in RelayState
  BY <1>1, AppendProperties DEF RelayState
<1>3. \A b \in Bucket : st.buckets[b] = Cardinality(ChunksIn(Append(st.uploaded, f), b))
  BY <1>1, ChunksAdded DEF AheadByFile
<1>4. new.buckets = [b \in Bucket |-> Cardinality(ChunksIn(new.uploaded, b))]
  BY <1>1, <1>2, <1>3
<1>5. ToSet(new.uploaded) \subseteq stored \cup {f}
  <2>1. ToSet(Append(st.uploaded, f)) \subseteq ToSet(st.uploaded) \cup {f}
    BY <1>1, AppendProperties, LenProperties DEF ToSet
  <2> QED
    BY <1>2, <2>1 DEF AheadByFile
<1> QED
  BY <1>2, <1>4, <1>5 DEF CountersOK, AheadByFile

\* A step has to see to what it changes.
LEMMA RelayGoes ==
  ASSUME RelayOK, NEW c \in Proc, node.stored \subseteq node'.stored,
         \A f \in node'.stored : f \in Relayable /\ \A b \in Bucket : Stamps(f.chunks)[b] <= MAX_SLOT,
         job' \in [Proc -> RelayJob], \A d \in Proc \ {c} : job'[d] = job[d],
         job'[c].at \in Saving \cup {"batch"} => CountersOK(job'[c].st, node'.stored),
         job'[c].at = "upload" => AheadByFile(job'[c].st, job'[c].f, node'.stored),
         file' \in {file, Torn, Absent} \/ (file' = job[c].st /\ job[c].at \in Saving)
  PROVE  RelayOK'
<1>1. /\ \A st : CountersOK(st, node.stored) => CountersOK(st, node'.stored)
      /\ \A st, f : AheadByFile(st, f, node.stored) => AheadByFile(st, f, node'.stored)
  BY CountersStay
<1>2. \A j \in RelayJob : j.at \in Saving => j.st \in RelayState
  BY FreshCounters DEF RelayJob, Saving, Idle
<1>3. Loads' => file' \in RelayState /\ CountersOK(file', node'.stored)
  <2>1. Loads => file \in RelayState /\ CountersOK(file, node.stored)
    BY DEF RelayOK
  <2>2. job[c].at \in Saving => CountersOK(job[c].st, node.stored) /\ job[c].st \in RelayState
    BY <1>2 DEF RelayOK
  <2>3. CASE file' = file
    BY <1>1, <2>1, <2>3 DEF Loads
  <2>4. CASE file' \in {Torn, Absent}
    BY <2>4 DEF Loads
  <2>5. CASE file' = job[c].st /\ job[c].at \in Saving
    BY <1>1, <2>2, <2>5
  <2> QED
    BY <2>3, <2>4, <2>5
<1>4. ASSUME NEW d \in Proc
      PROVE  /\ job'[d].at \in Saving \cup {"batch"} => CountersOK(job'[d].st, node'.stored)
             /\ job'[d].at = "upload" => AheadByFile(job'[d].st, job'[d].f, node'.stored)
  BY <1>1 DEF RelayOK
<1> QED
  BY <1>3, <1>4 DEF RelayOK

\* Every step of the commands that relay and reset.
LEMMA RelayKeeps ==
  ASSUME NodeOK, RelayOK, NEW c \in Proc, RelayStep(c)
  PROVE  NodeOK' /\ RelayOK'
<1> DEFINE J == job[c]
           St == node.stored
<1>0. job \in [Proc -> RelayJob] /\ J \in RelayJob /\ Idle \in RelayJob
  BY DEF RelayOK, RelayJob
<1>f. Loads => file \in RelayState /\ CountersOK(file, St)
  BY DEF RelayOK
<1>h. \A f \in St : f \in Relayable /\ \A b \in Bucket : Stamps(f.chunks)[b] <= MAX_SLOT
  BY DEF RelayOK
<1>r. \A j \in RelayJob : j.at \in Saving => j.st \in RelayState
  BY FreshCounters DEF RelayJob, Saving, Idle
<1>s. ASSUME NEW j \in RelayJob, Goto(c, j), node' = node,
             j.at \in Saving \cup {"batch"} => CountersOK(j.st, St),
             j.at = "upload" => AheadByFile(j.st, j.f, St),
             file' \in {file, Torn} \/ (file' = J.st /\ J.at \in Saving)
      PROVE  NodeOK' /\ RelayOK'
  <2>1. job' \in [Proc -> RelayJob] /\ job'[c] = j /\ \A d \in Proc \ {c} : job'[d] = job[d]
    BY <1>0, <1>s DEF Goto
  <2>2. NodeOK'
    BY <1>s DEF NodeOK
  <2> QED
    BY <1>h, <1>s, <2>1, <2>2, RelayGoes
<1>1. CASE RelayInit(c)
  <2> DEFINE j == [at |-> "batch", cmd |-> "init", st |-> Fresh]
  <2>1. Goto(c, j) /\ node' = node /\ file' = file
    BY <1>1 DEF RelayInit, Begin
  <2>2. j \in RelayJob /\ j.at = "batch" /\ j.st = Fresh
    BY DEF RelayJob
  <2> HIDE DEF j
  <2> QED
    BY <1>s, <2>1, <2>2, FreshCounters
<1>2. CASE RelayBatch(c)
  <2> DEFINE next == [J EXCEPT !.at = "save"]
  <2>1. J.at = "batch" /\ Request(c, node, next)
    BY <1>2 DEF RelayBatch
  <2>2. next \in RelayJob /\ next.at = "save" /\ next.st = J.st
    BY <1>0, <2>1 DEF RelayJob, Saving, Idle
  <2> HIDE DEF next
  <2>3. CountersOK(J.st, St)
    BY <2>1 DEF RelayOK
  <2>4. node' = node /\ file' = file /\ (Goto(c, next) \/ Goto(c, Idle))
    BY <2>1 DEF Request
  <2> QED
    BY <1>0, <1>s, <2>2, <2>3, <2>4, IdleIsIdle DEF Saving
<1>3. ASSUME NEW f \in Relayable, RelayFile(c, f) PROVE NodeOK' /\ RelayOK'
  <2> DEFINE j        == [at |-> "upload", cmd |-> "relay", f |-> f, st |-> file]
             accepted == [j EXCEPT !.st.buckets = Stamped(@, f.chunks)]
             refused  == [j EXCEPT !.at = "save", !.cmd = "refuse", !.st.rejected = @ + 1]
  <2>1. Loads /\ node' = node /\ file' = file
    BY <1>3 DEF RelayFile, Begin
  <2>2. file \in RelayState /\ CountersOK(file, St)
    BY <1>f, <2>1
  <2>3. CASE Fits(file.buckets, f.chunks) /\ Goto(c, accepted)
    <3> DEFINE st == [file EXCEPT !.buckets = Stamped(@, f.chunks)]
    <3>1. st \in RelayState /\ AheadByFile(st, f, St)
      BY <2>2, <2>3, AheadNow
    <3>2. accepted = [at |-> "upload", cmd |-> "relay", f |-> f, st |-> st]
      OBVIOUS
    <3> HIDE DEF st
    <3>3. accepted \in RelayJob /\ accepted.at = "upload" /\ accepted.st = st /\ accepted.f = f
      BY <3>1, <3>2 DEF RelayJob
    <3> HIDE DEF accepted
    <3> QED
      BY <1>s, <2>1, <2>3, <3>1, <3>3 DEF Saving
  <2>4. CASE Goto(c, refused)
    <3> DEFINE st == [file EXCEPT !.rejected = @ + 1]
    <3>1. st \in RelayState /\ st.buckets = file.buckets /\ st.uploaded = file.uploaded
      BY <2>2 DEF RelayState
    <3>2. CountersOK(st, St)
      BY <2>2, <3>1 DEF CountersOK
    <3>3. refused.st = st
      OBVIOUS
    <3> HIDE DEF st
    <3>4. refused \in [at : Saving, cmd : {"refuse"}, f : Relayable, st : RelayState] /\ refused.at = "save"
      BY <3>1, <3>3 DEF Saving
    <3>5. refused \in RelayJob
      BY <3>4 DEF RelayJob
    <3> HIDE DEF refused
    <3> QED
      BY <1>s, <2>1, <2>4, <3>2, <3>3, <3>4, <3>5 DEF Saving
  <2> QED
    BY <1>3, <2>3, <2>4 DEF RelayFile, Begin
<1>4. CASE RelayUpload(c)
  <2> DEFINE st   == [J.st EXCEPT !.uploaded = Append(@, J.f)]
             next == [J EXCEPT !.at = "save", !.st.uploaded = Append(@, J.f)]
  <2>1. J.at = "upload" /\ Upload(c, J.f, next)
    BY <1>4 DEF RelayUpload
  <2>2. J \in [at : {"upload"}, cmd : {"relay"}, f : Relayable, st : RelayState]
    BY <1>0, <2>1 DEF RelayJob, Saving, Idle
  <2>3. J.f \in Relayable /\ J.st \in RelayState /\ AheadByFile(J.st, J.f, St)
    BY <2>1, <2>2 DEF RelayOK
  <2>4. st \in RelayState /\ CountersOK(st, St \cup {J.f})
    BY <2>3, AheadNoMore
  <2>5. next.st = st
    BY <2>2
  <2> HIDE DEF st
  <2>6. next \in RelayJob /\ next.at = "save"
    BY <2>2, <2>4, <2>5 DEF RelayJob, Saving
  <2> HIDE DEF next
  <2>7. NodeOK' /\ node'.stored = St \cup {J.f}
    BY <2>1, UploadKeeps
  <2>8. \A b \in Bucket : Stamps(J.f.chunks)[b] <= MAX_SLOT
    <3> TAKE b \in Bucket
    <3>1. /\ J.st.buckets[b] = Cardinality(ChunksIn(J.st.uploaded, b)) + Stamps(J.f.chunks)[b]
          /\ J.st.buckets[b] <= MAX_SLOT
      BY <2>3 DEF AheadByFile
    <3>2. J.st.uploaded \in Seq(Relayable)
      BY <2>3 DEF RelayState
    <3>3. Cardinality(ChunksIn(J.st.uploaded, b)) \in Nat /\ Stamps(J.f.chunks)[b] \in Nat
      BY <2>3, <3>2, ChunksAdded
    <3> QED
      BY <3>1, <3>3, RelayAssumption DEF RelayAssumption
  <2>9. /\ job' \in [Proc -> RelayJob] /\ job'[c] \in {next, Idle} /\ \A d \in Proc \ {c} : job'[d] = job[d]
        /\ file' = file
    BY <1>0, <2>1, <2>6 DEF Upload, Request, Goto
  <2>10. \A f \in node'.stored : f \in Relayable /\ \A b \in Bucket : Stamps(f.chunks)[b] <= MAX_SLOT
    BY <1>h, <2>3, <2>7, <2>8
  <2> QED
    BY <2>4, <2>5, <2>6, <2>7, <2>9, <2>10, IdleIsIdle, RelayGoes DEF Saving
<1>5. CASE RelayReset(c)
  <2>1. file' = Absent /\ node' = node /\ job' = job
    BY <1>5 DEF RelayReset
  <2> QED
    BY <2>1 DEF RelayOK, NodeOK, Loads
<1>6. CASE Truncate(c)
  <2> DEFINE next == [J EXCEPT !.at = "write"]
  <2>1. J.at = "save" /\ Goto(c, next) /\ file' = Torn /\ node' = node
    BY <1>6 DEF Truncate
  <2>2. next \in RelayJob /\ next.at = "write" /\ next.st = J.st
    BY <1>0, <2>1 DEF RelayJob, Saving, Idle
  <2> HIDE DEF next
  <2>3. CountersOK(J.st, St)
    BY <2>1 DEF RelayOK, Saving
  <2> QED
    BY <1>s, <2>1, <2>2, <2>3
<1>7. CASE Write(c, Relayed(job[c], kept))
  <2>1. J.at = "write" /\ Goto(c, Idle) /\ file' = J.st /\ node' = node
    BY <1>7 DEF Write
  <2> QED
    BY <1>0, <1>s, <2>1, IdleIsIdle DEF Saving
<1>8. CASE Stop(c)
  <2>1. Goto(c, Idle) /\ file' = file /\ node' = node
    BY <1>8 DEF Stop
  <2> QED
    BY <1>0, <1>s, <2>1, IdleIsIdle DEF Saving
<1> QED
  BY <1>1, <1>2, <1>3, <1>4, <1>5, <1>6, <1>7, <1>8 DEF RelayStep

-----------------------------------------------------------------------------
(* The pinner.                                                             *)

\* The jobs of a pinner: what a pass does next, with the state it has.
PinnerJob(j) ==
  \/ j \in {Idle, [at |-> "sleep"]}
  \/ j.at = "upload" /\ j \in [at : {"upload"}, st : {j.st}, todo : {j.todo}]
  \/ j.at \in Saving /\ j \in [at : Saving, st : {j.st}]

\* Files held stay held.
LEMMA PinsStay ==
  ASSUME NEW old, NEW new, old \subseteq new, NEW st, PinsOK(st, old)
  PROVE  PinsOK(st, new)
BY DEF PinsOK

\* A step has to see to what it changes.
LEMMA PinnerGoes ==
  ASSUME PinnerOK, NEW c \in Proc, node.stored \subseteq node'.stored,
         NEW j, job' = [job EXCEPT ![c] = j], PinnerJob(j),
         j.at \in Saving \cup {"upload"} => PinsOK(j.st, node'.stored),
         file' \in {file, Torn} \/ (file' = job[c].st /\ job[c].at \in Saving)
  PROVE  PinnerOK'
<1>1. job \in [Proc -> {job[d] : d \in Proc}]
  BY DEF PinnerOK
<1>2. /\ job'[c] = j /\ \A d \in Proc \ {c} : job'[d] = job[d]
      /\ job' \in [Proc -> {job'[d] : d \in Proc}]
  BY <1>1
<1>3. \A d \in Proc : PinnerJob(job'[d])
  <2>1. \A d \in Proc : PinnerJob(job[d])
    BY DEF PinnerOK, PinnerJob
  <2> QED
    BY <1>2, <2>1
<1>4. \A d \in Proc : job'[d].at \in Saving \cup {"upload"} => PinsOK(job'[d].st, node'.stored)
  BY <1>2, PinsStay DEF PinnerOK
<1>5. Loads' => PinsOK(file', node'.stored)
  <2>1. CASE file' = file
    BY <2>1, PinsStay DEF PinnerOK, Loads
  <2>2. CASE file' = Torn
    BY <2>2 DEF Loads
  <2>3. CASE file' = job[c].st /\ job[c].at \in Saving
    BY <2>3, PinsStay DEF PinnerOK
  <2> QED
    BY <2>1, <2>2, <2>3
<1> QED
  BY <1>2, <1>3, <1>4, <1>5 DEF PinnerOK, PinnerJob

\* Every step of the passes, of the directory and of the process.
LEMMA PinnerKeeps ==
  ASSUME NodeOK, PinnerOK, NEW c \in Proc, PinnerStep(c)
  PROVE  NodeOK' /\ PinnerOK'
<1> DEFINE J == job[c]
           sleep == [at |-> "sleep"]
<1>0. PinnerJob(J) /\ (J.at \in Saving \cup {"upload"} => PinsOK(J.st, node.stored))
  BY DEF PinnerOK, PinnerJob
<1>i. PinnerJob(Idle) /\ PinnerJob(sleep) /\ sleep.at = "sleep"
  BY DEF PinnerJob
<1>o. PinsOK(LoadedOr(NoPins), node.stored)
  <2>1. PinsOK(NoPins, node.stored)
    BY DEF PinsOK, NoPins
  <2> QED
    BY <2>1 DEF PinnerOK, LoadedOr
<1>s. ASSUME NEW j, Goto(c, j), node' = node, PinnerJob(j),
             j.at \in Saving \cup {"upload"} => PinsOK(j.st, node.stored),
             file' \in {file, Torn} \/ (file' = J.st /\ J.at \in Saving)
      PROVE  NodeOK' /\ PinnerOK'
  <2>1. NodeOK'
    BY <1>s DEF NodeOK
  <2>2. job' = [job EXCEPT ![c] = j]
    BY <1>s DEF Goto
  <2> QED
    BY <1>s, <2>1, <2>2, PinnerGoes
<1> HIDE DEF sleep
<1>1. CASE StartPinner(c)
  <2>1. Goto(c, sleep) /\ node' = node /\ file' = file
    BY <1>1 DEF StartPinner, Begin, sleep
  <2> QED
    BY <1>i, <1>s, <2>1 DEF Saving
<1>2. CASE StartPass(c)
  <2> DEFINE j == [at |-> "upload", st |-> LoadedOr(NoPins), todo |-> New(LoadedOr(NoPins))]
  <2>1. Goto(c, j) /\ node' = node /\ file' = file
    BY <1>2 DEF StartPass
  <2>2. PinnerJob(j) /\ j.st = LoadedOr(NoPins)
    BY DEF PinnerJob
  <2> HIDE DEF j
  <2> QED
    BY <1>o, <1>s, <2>1, <2>2
<1>3. CASE PinNext(c)
  <2> DEFINE p   == Head(J.todo)
             st  == Set(J.st, p, [of |-> dir[p], ok |-> TRUE])
             next == [J EXCEPT !.todo = Tail(@), !.st = Set(@, p, [of |-> dir[p], ok |-> TRUE])]
  <2>1. /\ J.at = "upload" /\ Goto(c, next) /\ file' = file
        /\ node' = [node EXCEPT !.stored = @ \cup {dir[p]}]
    BY <1>3 DEF PinNext
  <2>2. J \in [at : {"upload"}, st : {J.st}, todo : {J.todo}] /\ PinsOK(J.st, node.stored)
    BY <1>0, <2>1, IdleIsIdle DEF PinnerJob, Saving
  <2>3. /\ NodeOK' /\ node'.stored = node.stored \cup {dir[p]}
    <3>1. /\ node.feed \in Seq(node.stored) /\ node.lists \in Seq(SUBSET Grantee)
          /\ node = [stored |-> node.stored, feed |-> node.feed, lists |-> node.lists]
      BY DEF NodeOK
    <3>2. Seq(node.stored) \subseteq Seq(node.stored \cup {dir[p]})
      BY SeqMonotonic
    <3> QED
      BY <2>1, <3>1, <3>2 DEF NodeOK
  <2>4. PinsOK(st, node'.stored)
    <3>1. [of |-> dir[p], ok |-> TRUE] \in [of : node'.stored, ok : BOOLEAN]
      BY <2>3
    <3>2. \A q \in DOMAIN J.st : J.st[q] \in [of : node'.stored, ok : BOOLEAN]
      BY <2>2, <2>3 DEF PinsOK
    <3> QED
      BY <3>1, <3>2 DEF PinsOK, Set
  <2>5. next.st = st /\ next.at = "upload" /\ next \in [at : {"upload"}, st : {st}, todo : {next.todo}]
    BY <2>2
  <2> HIDE DEF next, st
  <2>6. PinnerJob(next)
    BY <2>5 DEF PinnerJob
  <2>7. job' = [job EXCEPT ![c] = next]
    BY <2>1 DEF Goto
  <2> QED
    BY <2>1, <2>3, <2>4, <2>5, <2>6, <2>7, PinnerGoes
<1>4. CASE PassError(c)
  <2>1. Goto(c, sleep) /\ file' = file
    BY <1>4 DEF PassError, sleep
  <2>2. node' = node \/ \E x : node' = [node EXCEPT !.stored = @ \cup {x}]
    BY <1>4 DEF PassError
  <2>3. CASE node' = node
    BY <1>i, <1>s, <2>1, <2>3 DEF Saving
  <2>4. ASSUME NEW x, node' = [node EXCEPT !.stored = @ \cup {x}] PROVE NodeOK' /\ PinnerOK'
    <3>1. /\ node.feed \in Seq(node.stored) /\ node.lists \in Seq(SUBSET Grantee)
          /\ node = [stored |-> node.stored, feed |-> node.feed, lists |-> node.lists]
      BY DEF NodeOK
    <3>2. Seq(node.stored) \subseteq Seq(node.stored \cup {x})
      BY SeqMonotonic
    <3>3. NodeOK' /\ node.stored \subseteq node'.stored
      BY <2>4, <3>1, <3>2 DEF NodeOK
    <3>4. job' = [job EXCEPT ![c] = sleep]
      BY <2>1 DEF Goto
    <3> QED
      BY <1>i, <2>1, <3>3, <3>4, PinnerGoes DEF Saving
  <2> QED
    BY <2>2, <2>3, <2>4
<1>5. CASE Recheck(c)
  <2>1. PICK found : Goto(c, [at |-> "save", st |-> [p \in Pinned(J.st) |-> [J.st[p] EXCEPT !.ok = p \in found]]])
    BY <1>5 DEF Recheck
  <2> DEFINE st == [p \in Pinned(J.st) |-> [J.st[p] EXCEPT !.ok = p \in found]]
             next == [at |-> "save", st |-> st]
  <2>2. J.at = "upload" /\ node' = node /\ file' = file
    BY <1>5 DEF Recheck
  <2>3. PinsOK(st, node.stored)
    <3>1. PinsOK(J.st, node.stored)
      BY <1>0, <2>2
    <3>2. ASSUME NEW p \in DOMAIN J.st PROVE st[p] \in [of : node.stored, ok : BOOLEAN]
      <4>1. J.st[p] \in [of : node.stored, ok : BOOLEAN] /\ (p \in found) \in BOOLEAN
        BY <3>1 DEF PinsOK
      <4>2. st[p] = [J.st[p] EXCEPT !.ok = p \in found]
        BY DEF Pinned
      <4> HIDE DEF st
      <4> QED
        BY <4>1, <4>2
    <3> QED
      BY <3>2 DEF PinsOK, Pinned
  <2> HIDE DEF st
  <2>4. PinnerJob(next) /\ next.st = st /\ Goto(c, next)
    BY <2>1 DEF PinnerJob, Saving, st
  <2> HIDE DEF next
  <2> QED
    BY <1>s, <2>2, <2>3, <2>4
<1>6. CASE PassSaves(c)
  <2>1. CASE Truncate(c)
    <3> DEFINE next == [J EXCEPT !.at = "write"]
    <3>1. J.at = "save" /\ Goto(c, next) /\ file' = Torn /\ node' = node
      BY <2>1 DEF Truncate
    <3>2. J \in [at : Saving, st : {J.st}] /\ PinsOK(J.st, node.stored)
      BY <1>0, <1>i, <3>1, IdleIsIdle DEF PinnerJob, Saving, sleep
    <3>3. next \in [at : Saving, st : {J.st}] /\ next.at = "write" /\ next.st = J.st
      BY <3>2 DEF Saving
    <3> HIDE DEF next
    <3>4. PinnerJob(next)
      BY <3>3 DEF PinnerJob, Saving
    <3> QED
      BY <1>s, <3>1, <3>2, <3>3, <3>4
  <2>2. CASE J.at = "write" /\ file' = J.st /\ Goto(c, sleep) /\ node' = node
    BY <1>i, <1>s, <2>2 DEF Saving
  <2> QED
    BY <1>6, <2>1, <2>2 DEF PassSaves, sleep
<1>7. CASE Stop(c)
  <2>1. Goto(c, Idle) /\ file' = file /\ node' = node
    BY <1>7 DEF Stop
  <2> QED
    BY <1>i, <1>s, <2>1, IdleIsIdle DEF Saving
<1>8. CASE \E p \in Path : FileGoes(p) \/ \E x \in Content : FileAppears(p, x)
  <2>1. file' = file /\ node' = node /\ job' = job
    BY <1>8 DEF FileGoes, FileAppears
  <2> QED
    BY <2>1 DEF PinnerOK, NodeOK, Loads
<1> QED
  BY <1>1, <1>2, <1>3, <1>4, <1>5, <1>6, <1>7, <1>8 DEF PinnerStep, Pass

-----------------------------------------------------------------------------
(* All programs.                                                           *)

\* Nothing is published, shown or saved at the start.
LEMMA InitOK == Init => IInv
<1> SUFFICES ASSUME Init PROVE IInv
  OBVIOUS
<1>1. NodeOK
  BY EmptySeq DEF Init, NodeOK
<1>2. /\ job \in [Proc -> {Idle}] /\ \A c \in Proc : job[c] = Idle /\ job[c].at = "idle"
      /\ ~Loads /\ node.feed = <<>> /\ node.stored = {}
  BY IdleIsIdle DEF Init, Loads
<1>3. VaultOK
  BY <1>2 DEF VaultOK, VaultJob, InCommand
<1>4. TreeOK
  BY <1>2 DEF TreeOK, TreeJob
<1>5. DeployOK
  BY <1>2 DEF DeployOK, DeployJob, InCommand
<1>6. ShareOK
  BY <1>2 DEF ShareOK, ShareJob, InShare, Saving
<1>7. RelayOK
  BY <1>2 DEF RelayOK, RelayJob, Saving
<1>8. KeyringOK
  BY <1>2 DEF KeyringOK, KeyringJob, InCommand
<1>9. PinnerOK
  BY <1>2 DEF PinnerOK, Saving
<1> QED
  BY <1>1, <1>3, <1>4, <1>5, <1>6, <1>7, <1>8, <1>9 DEF IInv

\* The program that runs is not exchanged.
LEMMA SameProgram == ASSUME [Next]_all PROVE program' = program
<1> USE DEF Begin, Request, Upload, UpdateFeed
<1>0. ASSUME NEW c \in Proc, NEW x, Truncate(c) \/ Write(c, x) \/ Stop(c) PROVE program' = program
  BY <1>0 DEF Truncate, Write, Stop
<1>1. ASSUME NEW c \in Proc, VaultStep(c) PROVE program' = program
  BY <1>0, <1>1 DEF VaultStep, VaultInit, VaultManifest, VaultData, PublishIndex, VaultRm, VaultPut
<1>2. ASSUME NEW c \in Proc, TreeStep(c) PROVE program' = program
  BY <1>0, <1>2 DEF TreeStep, TreeInit, TreePublish, TreeRm, TreeAdd, TreeMv, Staged
<1>3. ASSUME NEW c \in Proc, DeployStep(c) PROVE program' = program
  BY <1>0, <1>3 DEF DeployStep, DeployInit, DeployManifest, Collection, DeployFeed, BlogPublish,
    Push, Rollback
<1>4. ASSUME NEW c \in Proc, ShareStep(c) PROVE program' = program
  BY <1>0, <1>4 DEF ShareStep, ShareFile, ShareUpload, CreateGrantees, PatchGrantees, ShareLoad, Revoke
<1>5. ASSUME NEW c \in Proc, RelayStep(c) PROVE program' = program
  BY <1>0, <1>5 DEF RelayStep, RelayInit, RelayBatch, RelayUpload, RelayReset, RelayFile
<1>6. ASSUME NEW c \in Proc, KeyringStep(c) PROVE program' = program
  BY <1>0, <1>6 DEF KeyringStep, Insert, AddFeed
<1>7. ASSUME NEW c \in Proc, PinnerStep(c) PROVE program' = program
  BY <1>0, <1>7 DEF PinnerStep, Pass, StartPinner, StartPass, PinNext, PassError, Recheck,
    PassSaves, FileAppears, FileGoes
<1> QED
  BY <1>1, <1>2, <1>3, <1>4, <1>5, <1>6, <1>7 DEF Next, all, vars

\* Each program keeps its part of the invariant.
LEMMA StepOK == IInv /\ [Next]_all => IInv'
<1> SUFFICES ASSUME IInv, [Next]_all PROVE IInv'
  OBVIOUS
<1>p. program' = program
  BY SameProgram
<1>1. ASSUME NEW c \in Proc, VaultStep(c) PROVE IInv'
  <2>1. program = "vault"
    BY <1>1 DEF VaultStep
  <2> QED
    BY <1>1, <1>p, <2>1, VaultKeeps DEF IInv
<1>2. ASSUME NEW c \in Proc, TreeStep(c) PROVE IInv'
  <2>1. program = "fs"
    BY <1>2 DEF TreeStep
  <2> QED
    BY <1>2, <1>p, <2>1, TreeKeeps DEF IInv
<1>3. ASSUME NEW c \in Proc, DeployStep(c) PROVE IInv'
  <2>1. program \in {"deploy", "blog"}
    BY <1>3 DEF DeployStep
  <2> QED
    BY <1>3, <1>p, <2>1, DeployKeeps DEF IInv
<1>4. ASSUME NEW c \in Proc, ShareStep(c) PROVE IInv'
  <2>1. program = "share"
    BY <1>4 DEF ShareStep
  <2> QED
    BY <1>4, <1>p, <2>1, ShareKeeps DEF IInv
<1>5. ASSUME NEW c \in Proc, RelayStep(c) PROVE IInv'
  <2>1. program = "relay"
    BY <1>5 DEF RelayStep
  <2> QED
    BY <1>5, <1>p, <2>1, RelayKeeps DEF IInv
<1>6. ASSUME NEW c \in Proc, KeyringStep(c) PROVE IInv'
  <2>1. program \in {"keyring", "rss"}
    BY <1>6 DEF KeyringStep
  <2> QED
    BY <1>6, <1>p, <2>1, KeyringKeeps DEF IInv
<1>7. ASSUME NEW c \in Proc, PinnerStep(c) PROVE IInv'
  <2>1. program = "pinner"
    BY <1>7 DEF PinnerStep
  <2> QED
    BY <1>7, <1>p, <2>1, PinnerKeeps DEF IInv
<1>8. CASE UNCHANGED all
  <2>1. node' = node /\ file' = file /\ job' = job
    BY <1>8 DEF all, vars
  <2>2. NodeOK' /\ (VaultOK => VaultOK') /\ (TreeOK => TreeOK')
    BY <2>1 DEF IInv, NodeOK, VaultOK, TreeOK, Loads, InCommand, Held
  <2>3. (DeployOK => DeployOK') /\ (ShareOK => ShareOK') /\ (KeyringOK => KeyringOK')
    BY <2>1 DEF DeployOK, ShareOK, KeyringOK, Loads, InCommand, Held
  <2>4. (RelayOK => RelayOK') /\ (PinnerOK => PinnerOK')
    BY <2>1 DEF RelayOK, PinnerOK, Loads
  <2> QED
    BY <1>p, <2>2, <2>3, <2>4 DEF IInv
<1> QED
  BY <1>1, <1>2, <1>3, <1>4, <1>5, <1>6, <1>7, <1>8 DEF Next

\* What holds of every state of the programs.
THEOREM Kept == Spec => []IInv
<1>1. Init => IInv
  BY InitOK
<1>2. IInv /\ [Next]_all => IInv'
  BY StepOK
<1> QED
  BY <1>1, <1>2, PTL DEF Spec

\* What is published, listed or entered is held by the node, in every state.
THEOREM NothingDangles == Spec => []PublishedIsHeld
<1>1. IInv => PublishedIsHeld
  <2> SUFFICES ASSUME IInv PROVE PublishedIsHeld
    OBVIOUS
  <2>1. /\ \A k \in DOMAIN node.feed : Held(node.feed[k])
        /\ program = "vault" =>
             \A k \in DOMAIN node.feed : \A d \in Listed(node.feed[k]) : Held(d)
    <3>1. node.feed \in Seq(node.stored)
      BY DEF IInv, NodeOK
    <3> QED
      BY <3>1 DEF IInv, VaultOK, Held
  <2> SUFFICES ASSUME Loads
               PROVE  CASE program = "vault"  -> \A d \in Listed(file) : Held(d)
                        [] program = "deploy" -> \A s \in ToSet(file) : Held(s)
                        [] program = "share"  -> \A s \in ToSet(file) : Held(s.file)
                        [] program = "relay"  -> \A f \in ToSet(file.uploaded) : Held(f)
                        [] program = "pinner" -> \A e \in Listed(file) : Held(e.of)
                        [] OTHER -> TRUE
    BY <2>1 DEF PublishedIsHeld
  <2>2. CASE program = "vault"
    BY <2>2 DEF IInv, VaultOK, Held
  <2>3. CASE program = "deploy"
    BY <2>3 DEF IInv, DeployOK, Held, ToSet
  <2>4. CASE program = "share"
    BY <2>4 DEF IInv, ShareOK, RowsOK, RowOK, Held, ToSet
  <2>5. CASE program = "relay"
    BY <2>5 DEF IInv, RelayOK, CountersOK, Held
  <2>6. CASE program = "pinner"
    BY <2>6 DEF IInv, PinnerOK, PinsOK, Held, Listed
  <2> QED
    BY <2>2, <2>3, <2>4, <2>5, <2>6
<1> QED
  BY <1>1, Kept, PTL

\* Every row of a history was live, in its order.
THEOREM NoInventedRow == Spec => []HistoryWasLive
<1>1. IInv => HistoryWasLive
  BY DEF IInv, DeployOK, Shown, HistoryWasLive
<1> QED
  BY <1>1, Kept, PTL

\* The first entry of a name is there.
LEMMA FirstOfName ==
  ASSUME NEW rows, EntriesOK(rows), NEW n, Has(rows, n)
  PROVE  LET i == CHOOSE i \in DOMAIN rows :
                    rows[i].name = n /\ \A k \in DOMAIN rows : rows[k].name = n => i <= k
         IN  i \in DOMAIN rows /\ rows[i].name = n
<1>1. PICK i \in DOMAIN rows : rows[i].name = n
  BY DEF Has
<1>2. i \in Nat /\ \A k \in DOMAIN rows : rows[k].name = n => i <= k
  BY <1>1 DEF EntriesOK
<1> QED
  BY <1>1, <1>2

\* Copies of what is elsewhere are true.
THEOREM NoStaleCopy == Spec => []CachesAreTrue
<1>1. IInv => CachedIsLive
  BY DEF IInv, ShareOK, RowsOK, RowOK, CachedIsLive
<1>2. IInv => CountersMatchFiles
  BY DEF IInv, RelayOK, CountersOK, CountersMatchFiles
<1>3. IInv => OneKeyForAName
  <2> SUFFICES ASSUME IInv, program \in {"keyring", "rss"}, Loads, NEW n \in KeyName
               PROVE  /\ Cardinality(Address(file, n)) <= 1
                      /\ \A p \in Passphrase \cup {Clear} : Export(file, n, p) \subseteq Address(file, n)
    BY DEF OneKeyForAName
  <2>1. EntriesOK(file)
    BY DEF IInv, KeyringOK
  <2>2. Cardinality(Address(file, n)) <= 1
    <3>1. CASE Address(file, n) = {}
      BY <3>1, FS_EmptySet
    <3>2. ASSUME NEW a \in Address(file, n) PROVE Cardinality(Address(file, n)) = 1
      <4>1. Address(file, n) = {a}
        BY <2>1, <3>2 DEF Address, EntriesOK
      <4> QED
        BY <4>1, FS_Singleton
    <3> QED
      BY <3>1, <3>2
  <2>3. ASSUME NEW p \in Passphrase \cup {Clear}, NEW k \in Export(file, n, p)
        PROVE  k \in Address(file, n)
    <3> DEFINE i == CHOOSE i \in DOMAIN file :
                      file[i].name = n /\ \A m \in DOMAIN file : file[m].name = n => i <= m
    <3>1. Has(file, n) /\ k = file[i].cipher.of
      BY <2>3 DEF Export
    <3>2. i \in DOMAIN file /\ file[i].name = n
      BY <2>1, <3>1, FirstOfName
    <3> QED
      BY <2>1, <3>1, <3>2 DEF Address, EntriesOK
  <2> QED
    BY <2>2, <2>3
<1>4. IInv => CachesAreTrue
  BY <1>1, <1>2, <1>3 DEF CachesAreTrue
<1> QED
  BY <1>4, Kept, PTL

-----------------------------------------------------------------------------
(* Commands in turn.                                                       *)

\* The commands of all programs but the pinner are a function of the processes.
LEMMA JobsOfProcesses ==
  ASSUME IInv, program \in {"vault", "fs", "deploy", "blog", "share", "relay", "keyring", "rss"}
  PROVE  job = [c \in Proc |-> job[c]]
<1>1. CASE program = "vault"
  BY <1>1 DEF IInv, VaultOK
<1>2. CASE program = "fs"
  BY <1>2 DEF IInv, TreeOK
<1>3. CASE program \in {"deploy", "blog"}
  BY <1>3 DEF IInv, DeployOK
<1>4. CASE program = "share"
  BY <1>4 DEF IInv, ShareOK
<1>5. CASE program = "relay"
  BY <1>5 DEF IInv, RelayOK
<1>6. CASE program \in {"keyring", "rss"}
  BY <1>6 DEF IInv, KeyringOK
<1> QED
  BY <1>1, <1>2, <1>3, <1>4, <1>5, <1>6

\* What is true of one command that goes on while no other runs.
LEMMA TurnGoes ==
  ASSUME job = [d \in Proc |-> job[d]], NEW c \in Proc, NEW j, job' = [job EXCEPT ![c] = j],
         \A d \in Proc \ {c} : ~InCommand(d), program' = program,
         InHand(j, kept'),
         IF j.at = "write" THEN file' = Torn ELSE file' = kept',
         program \in {"share", "keyring", "rss"} /\ kept' # Absent => kept' # Torn,
         program = "vault" =>
           /\ kept' = Absent => node'.feed = <<>>
           /\ "ahead" \notin trouble' /\ Loads' /\ node'.feed # <<>> => Last(node'.feed) = file'
           /\ j.at # "idle" =>
                IF j.cmd = "init" THEN node'.feed = <<>>
                ELSE /\ kept' # Absent
                     /\ j.at \in Saving => node'.feed # <<>> /\ Last(node'.feed) = j.st
  PROVE  TurnInv'
<1>1. job'[c] = j /\ \A d \in Proc \ {c} : job'[d] = job[d]
  OBVIOUS
<1>2. \A d \in Proc \ {c} : job'[d].at = "idle"
  BY <1>1 DEF InCommand
<1>3. \A d, e \in Proc : InCommand(d)' /\ InCommand(e)' => d = e
  BY <1>2 DEF InCommand
<1>4. /\ (\A d \in Proc : job'[d].at # "write") => file' = kept'
      /\ (\E d \in Proc : job'[d].at = "write") => file' = Torn
  BY <1>1, <1>2
<1>5. InHand(job[c], kept)'
  BY <1>1 DEF InHand, Change
<1>6. ASSUME NEW d \in Proc \ {c} PROVE InHand(job[d], kept)'
  BY <1>2, <1>6 DEF InHand, Saving
<1>7. program = "vault" => FeedOK'
  BY <1>1, <1>2 DEF FeedOK, InCommand
<1> QED
  BY <1>3, <1>4, <1>5, <1>6, <1>7 DEF TurnInv

\* A command that begins in turn finds the file as it was kept.
LEMMA TurnBegins ==
  ASSUME TurnInv, program # "pinner", NEW c \in Proc, NEW j, Begin(c, j), InTurn'
  PROVE  /\ InTurn /\ trouble' = trouble /\ file' = file /\ kept' = kept /\ node' = node
         /\ job' = [job EXCEPT ![c] = j]
         /\ \A d \in Proc : ~InCommand(d)
         /\ file = kept
         /\ program = "vault" => FeedOK
         /\ program \in {"share", "keyring", "rss"} /\ kept # Absent => kept # Torn
<1>1. /\ trouble' = (IF \E d \in Proc : InCommand(d) THEN trouble \cup {"overlap"} ELSE trouble)
      /\ file' = file /\ kept' = kept /\ node' = node /\ job' = [job EXCEPT ![c] = j]
  BY DEF Begin, Goto
<1>2. \A d \in Proc : ~InCommand(d)
  BY <1>1 DEF InTurn
<1>3. trouble' = trouble /\ InTurn
  BY <1>1, <1>2 DEF InTurn
<1>4. \A d \in Proc : job[d].at # "write"
  BY <1>2 DEF InCommand
<1> QED
  BY <1>1, <1>2, <1>3, <1>4 DEF TurnInv

\* One that goes on does so alone, with what it has in hand.
LEMMA TurnAlone ==
  ASSUME TurnInv, program # "pinner", NEW c \in Proc, InCommand(c), InTurn
  PROVE  /\ \A d \in Proc \ {c} : ~InCommand(d)
         /\ InHand(job[c], kept)
         /\ job[c].at # "write" => file = kept
         /\ program = "vault" => FeedOK
         /\ program \in {"share", "keyring", "rss"} /\ kept # Absent => kept # Torn
<1>1. \A d \in Proc \ {c} : ~InCommand(d)
  BY DEF TurnInv
<1>2. job[c].at # "write" => \A d \in Proc : job[d].at # "write"
  BY <1>1 DEF InCommand
<1> QED
  BY <1>1, <1>2 DEF TurnInv

\* The three steps that all commands have.
LEMMA TurnSaves ==
  ASSUME IInv, TurnInv, program' = program, InTurn', NEW c \in Proc,
         program \in {"vault", "fs", "deploy", "blog", "share", "relay", "keyring", "rss"},
         Truncate(c) \/ Write(c, Change(job[c], kept)) \/ Stop(c),
         job[c].at = "save" =>
           /\ job[c] \in [DOMAIN job[c] -> UNION {{job[c][x]} : x \in DOMAIN job[c]}]
           /\ "at" \in DOMAIN job[c] /\ "cmd" \in DOMAIN job[c] /\ "st" \in DOMAIN job[c]
           /\ Change([job[c] EXCEPT !.at = "write"], kept) = Change(job[c], kept),
         job[c].at = "write" =>
           /\ program = "vault" => job[c].st # Absent
           /\ program \in {"share", "keyring", "rss"} => job[c].st # Torn
  PROVE  TurnInv'
<1> DEFINE J == job[c]
<1>0. job = [d \in Proc |-> job[d]] /\ program # "pinner"
  BY JobsOfProcesses
<1>1. CASE Truncate(c)
  <2> DEFINE next == [J EXCEPT !.at = "write"]
  <2>1. /\ J.at = "save" /\ job' = [job EXCEPT ![c] = next] /\ file' = Torn
        /\ node' = node /\ kept' = kept /\ trouble' = trouble /\ InCommand(c) /\ InTurn
    BY <1>1 DEF Truncate, Goto, InCommand, InTurn
  <2>2. /\ next.at = "write" /\ next.cmd = J.cmd /\ next.st = J.st
        /\ Change(next, kept) = Change(J, kept)
    BY <2>1
  <2>3. /\ \A d \in Proc \ {c} : ~InCommand(d)
        /\ InHand(J, kept) /\ (program = "vault" => FeedOK)
        /\ program \in {"share", "keyring", "rss"} /\ kept # Absent => kept # Torn
    BY <1>0, <2>1, TurnAlone
  <2> HIDE DEF next
  <2>4. InHand(next, kept)
    BY <2>1, <2>2, <2>3 DEF InHand, Saving
  <2>5. program = "vault" =>
          /\ kept' = Absent => node'.feed = <<>>
          /\ "ahead" \notin trouble' /\ Loads' /\ node'.feed # <<>> => Last(node'.feed) = file'
          /\ IF next.cmd = "init" THEN node'.feed = <<>>
             ELSE /\ kept' # Absent
                  /\ node'.feed # <<>> /\ Last(node'.feed) = next.st
    BY <2>1, <2>2, <2>3 DEF FeedOK, Saving, Loads
  <2> QED
    BY <1>0, <2>1, <2>2, <2>3, <2>4, <2>5, TurnGoes
<1>2. CASE Write(c, Change(J, kept))
  <2>1. /\ J.at = "write" /\ job' = [job EXCEPT ![c] = Idle] /\ file' = J.st /\ node' = node
        /\ kept' = (IF InTurn THEN Change(J, kept) ELSE kept) /\ trouble' = trouble \ {"ahead"}
        /\ InCommand(c)
    BY <1>2 DEF Write, Goto, InCommand
  <2>2. InTurn
    BY <2>1 DEF InTurn
  <2>3. /\ \A d \in Proc \ {c} : ~InCommand(d)
        /\ InHand(J, kept) /\ (program = "vault" => FeedOK)
    BY <1>0, <2>1, <2>2, TurnAlone
  <2>4. kept' = J.st
    BY <2>1, <2>2, <2>3 DEF InHand, Saving
  <2>5. Idle.at = "idle" /\ InHand(Idle, kept')
    BY DEF Idle, InHand, Saving
  <2>6. program = "vault" /\ node'.feed # <<>> => Last(node'.feed) = file'
    BY <2>1, <2>3 DEF FeedOK, Saving
  <2> QED
    BY <1>0, <2>1, <2>3, <2>4, <2>5, <2>6, TurnGoes
<1>3. CASE Stop(c)
  <2>1. /\ job' = [job EXCEPT ![c] = Idle] /\ file' = file /\ node' = node /\ kept' = kept
        /\ trouble' = (IF J.at = "write" THEN trouble \cup {"cut"} ELSE trouble)
        /\ InCommand(c)
    BY <1>3 DEF Stop, Goto, InCommand
  <2>2. J.at # "write" /\ trouble' = trouble /\ InTurn
    BY <2>1 DEF InTurn
  <2>3. /\ \A d \in Proc \ {c} : ~InCommand(d) /\ (program = "vault" => FeedOK)
        /\ file = kept
        /\ program \in {"share", "keyring", "rss"} /\ kept # Absent => kept # Torn
    BY <1>0, <2>1, <2>2, TurnAlone
  <2>4. Idle.at = "idle" /\ InHand(Idle, kept')
    BY DEF Idle, InHand, Saving
  <2>5. program = "vault" =>
          /\ kept' = Absent => node'.feed = <<>>
          /\ "ahead" \notin trouble' /\ Loads' /\ node'.feed # <<>> => Last(node'.feed) = file'
    BY <2>1, <2>2, <1>0, TurnAlone DEF FeedOK, Loads
  <2> QED
    BY <1>0, <2>1, <2>3, <2>4, <2>5, TurnGoes
<1> QED
  BY <1>1, <1>2, <1>3

\* A command that begins.
LEMMA TurnStarts ==
  ASSUME IInv, TurnInv, program' = program, InTurn', NEW c \in Proc,
         program \in {"vault", "fs", "deploy", "blog", "share", "relay", "keyring", "rss"},
         NEW j, Begin(c, j), j.at # "write", file = kept => InHand(j, kept),
         program = "vault" =>
           IF j.cmd = "init" THEN file = Absent ELSE file # Absent /\ j.at \notin Saving
  PROVE  TurnInv'
<1>0. job = [d \in Proc |-> job[d]] /\ program # "pinner"
  BY JobsOfProcesses
<1>1. /\ InTurn /\ trouble' = trouble /\ file' = file /\ kept' = kept /\ node' = node
      /\ job' = [job EXCEPT ![c] = j]
      /\ \A d \in Proc : ~InCommand(d)
      /\ file = kept
      /\ program = "vault" => FeedOK
      /\ program \in {"share", "keyring", "rss"} /\ kept # Absent => kept # Torn
  BY <1>0, TurnBegins
<1>2. program = "vault" =>
        /\ kept' = Absent => node'.feed = <<>>
        /\ "ahead" \notin trouble' /\ Loads' /\ node'.feed # <<>> => Last(node'.feed) = file'
        /\ j.at # "idle" =>
             IF j.cmd = "init" THEN node'.feed = <<>>
             ELSE /\ kept' # Absent
                  /\ j.at \in Saving => node'.feed # <<>> /\ Last(node'.feed) = j.st
  BY <1>1 DEF FeedOK, Loads
<1> QED
  BY <1>0, <1>1, <1>2, TurnGoes

\* One that goes on, or ends, without a change to the file.
LEMMA TurnRequests ==
  ASSUME IInv, TurnInv, program' = program, InTurn', NEW c \in Proc,
         program \in {"vault", "fs", "deploy", "blog", "share", "relay", "keyring", "rss"},
         InCommand(c), job[c].at # "write", NEW j, Goto(c, j) \/ Goto(c, Idle),
         file' = file, kept' = kept, trouble' \in {trouble, trouble \cup {"ahead"}},
         j.at # "write", InHand(job[c], kept) => InHand(j, kept),
         program = "vault" =>
           \/ /\ node'.feed = node.feed /\ trouble' = trouble
              /\ IF j.cmd = "init" THEN job[c].cmd = "init"
                 ELSE job[c].cmd # "init" /\ j.at \notin Saving
           \/ /\ job[c].cmd # "init" /\ j.cmd # "init" /\ "ahead" \in trouble'
              /\ node'.feed # <<>> /\ Last(node'.feed) = j.st
  PROVE  TurnInv'
<1>0. job = [d \in Proc |-> job[d]] /\ program # "pinner"
  BY JobsOfProcesses
<1>1. InTurn
  BY DEF InTurn
<1>2. /\ \A d \in Proc \ {c} : ~InCommand(d)
      /\ InHand(job[c], kept) /\ file = kept
      /\ program = "vault" => FeedOK
      /\ program \in {"share", "keyring", "rss"} /\ kept # Absent => kept # Torn
  BY <1>0, <1>1, TurnAlone
<1>3. program = "vault" =>
        /\ kept' = Absent => node'.feed = <<>>
        /\ "ahead" \notin trouble' /\ Loads' /\ node'.feed # <<>> => Last(node'.feed) = file'
        /\ j.at # "idle" =>
             IF j.cmd = "init" THEN node'.feed = <<>>
             ELSE /\ kept' # Absent
                  /\ j.at \in Saving => node'.feed # <<>> /\ Last(node'.feed) = j.st
  BY <1>2 DEF FeedOK, Loads
<1>4. CASE Goto(c, j)
  <2>1. job' = [job EXCEPT ![c] = j]
    BY <1>4 DEF Goto
  <2> QED
    BY <1>0, <1>2, <1>3, <2>1, TurnGoes
<1>5. CASE Goto(c, Idle)
  <2>1. job' = [job EXCEPT ![c] = Idle]
    BY <1>5 DEF Goto
  <2>2. Idle.at = "idle" /\ InHand(Idle, kept')
    BY DEF Idle, InHand, Saving
  <2> QED
    BY <1>0, <1>2, <1>3, <2>1, <2>2, TurnGoes
<1> QED
  BY <1>4, <1>5

\* The vault: an index that was uploaded, and one the feed shows, is the one that is saved.
LEMMA VaultTurn ==
  ASSUME IInv, TurnInv, program' = program, InTurn', NEW c \in Proc, VaultStep(c)
  PROVE  TurnInv'
<1> DEFINE J == job[c]
<1>0. program = "vault" /\ J \in VaultJob
  BY DEF VaultStep, IInv, VaultOK
<1>1. CASE VaultInit(c)
  <2> DEFINE j == [at |-> "manifest", cmd |-> "init", st |-> EmptyIndex]
  <2>1. InHand(j, kept)
    BY <1>0 DEF InHand, Saving
  <2> QED
    BY <1>0, <1>1, <2>1, TurnStarts DEF VaultInit
<1>2. CASE VaultManifest(c)
  <2> DEFINE next == [J EXCEPT !.at = "save"]
  <2>1. J.at = "manifest" /\ Request(c, node, next)
    BY <1>2 DEF VaultManifest
  <2>2. J \in [at : {"manifest"} \cup Saving, cmd : {"init"}, st : {EmptyIndex}]
    BY <1>0, <2>1, IdleIsIdle DEF VaultJob, Saving
  <2>3. J.cmd = "init" /\ next.at = "save" /\ next.cmd = "init" /\ next.st = EmptyIndex
    BY <2>2
  <2> HIDE DEF next
  <2>4. InHand(next, kept)
    BY <1>0, <2>3 DEF InHand, Saving, Change, Edited
  <2> QED
    BY <1>0, <2>1, <2>3, <2>4, TurnRequests DEF Request, InCommand
<1>3. CASE VaultData(c)
  <2> DEFINE next == [J EXCEPT !.at = "index", !.st = Edited(J, @)]
  <2>1. J.at = "data" /\ Upload(c, J.data, next)
    BY <1>3 DEF VaultData
  <2>2. J \in [at : {"data", "index", "feed"} \cup Saving, cmd : {"put"}, name : Name, data : Data, st : Index]
    BY <1>0, <2>1, IdleIsIdle DEF VaultJob, Saving
  <2>3. /\ J.cmd = "put" /\ next.at = "index" /\ next.cmd = "put" /\ next.st = Edited(J, J.st)
        /\ next.name = J.name /\ next.data = J.data
    BY <2>2
  <2> HIDE DEF next
  <2>4. InHand(J, kept) => InHand(next, kept)
    BY <1>0, <2>1, <2>3 DEF InHand, Saving, Edited
  <2>5. node'.feed = node.feed
    BY <2>1, UploadKeeps DEF IInv
  <2> QED
    BY <1>0, <2>1, <2>3, <2>4, <2>5, TurnRequests DEF Upload, Request, InCommand, Saving
<1>4. CASE PublishIndex(c)
  <2>1. J.at \in {"index", "feed"} /\ J.cmd \in {"put", "rm"}
    BY <1>0, <1>4, IdleIsIdle DEF PublishIndex, VaultJob, Saving
  <2>2. CASE J.at = "index"
    <3> DEFINE next == [J EXCEPT !.at = "feed"]
    <3>1. Upload(c, J.st, next)
      BY <1>4, <2>2 DEF PublishIndex
    <3>2. /\ next.at = "feed" /\ next.cmd = J.cmd /\ next.st = J.st
          /\ Edited(next, kept) = Edited(J, kept)
      BY <1>0, <2>1, <2>2 DEF VaultJob, Edited
    <3> HIDE DEF next
    <3>3. InHand(J, kept) => InHand(next, kept)
      BY <1>0, <2>2, <3>2 DEF InHand, Saving
    <3>4. node'.feed = node.feed
      BY <3>1, UploadKeeps DEF IInv
    <3> QED
      BY <1>0, <2>1, <2>2, <3>1, <3>2, <3>3, <3>4, TurnRequests DEF Upload, Request, InCommand, Saving
  <2>3. CASE J.at = "feed"
    <3> DEFINE next == [J EXCEPT !.at = "save"]
    <3>1. UpdateFeed(c, J.st, next)
      BY <1>4, <2>3 DEF PublishIndex
    <3>2. /\ next.at = "save" /\ next.cmd = J.cmd /\ next.st = J.st
          /\ Edited(next, kept) = Edited(J, kept)
      BY <1>0, <2>1, <2>3 DEF VaultJob, Edited
    <3> HIDE DEF next
    <3>3. InHand(J, kept) => InHand(next, kept)
      BY <1>0, <2>3, <3>2 DEF InHand, Saving, Change
    <3>4. node'.feed # <<>> /\ Last(node'.feed) = J.st
      <4>1. NodeOK /\ J.st \in node.stored
        BY <1>0, <2>3 DEF IInv, VaultOK, Held
      <4>2. node'.feed = Append(node.feed, J.st) /\ node.feed \in Seq(node.stored)
        BY <3>1, <4>1, UpdateKeeps DEF NodeOK
      <4>3. /\ Len(node'.feed) = Len(node.feed) + 1 /\ Len(node.feed) \in Nat
            /\ node'.feed[Len(node.feed) + 1] = J.st
        BY <4>1, <4>2, AppendProperties, LenProperties
      <4> QED
        BY <4>2, <4>3, EmptySeq DEF Last
    <3> QED
      BY <1>0, <2>1, <2>3, <3>1, <3>2, <3>3, <3>4, TurnRequests DEF UpdateFeed, InCommand
  <2> QED
    BY <2>1, <2>2, <2>3
<1>5. ASSUME NEW n \in Name, VaultRm(c, n) PROVE TurnInv'
  <2> DEFINE j == [at |-> "index", cmd |-> "rm", name |-> n, st |-> file]
             next == [j EXCEPT !.st = Edited(j, @)]
  <2>1. Loads /\ Begin(c, next)
    BY <1>5 DEF VaultRm
  <2>2. /\ next.at = "index" /\ next.cmd = "rm" /\ next.st = Edited(next, file)
    BY DEF Edited
  <2> HIDE DEF next
  <2>3. file = kept => InHand(next, kept)
    BY <1>0, <2>2 DEF InHand, Saving
  <2> QED
    BY <1>0, <2>1, <2>2, <2>3, TurnStarts DEF Loads, Saving
<1>6. ASSUME NEW n \in Name, NEW d \in Data, VaultPut(c, n, d) PROVE TurnInv'
  <2> DEFINE j == [at |-> "data", cmd |-> "put", name |-> n, data |-> d, st |-> file]
  <2>1. Loads /\ Begin(c, j)
    BY <1>6 DEF VaultPut
  <2>2. file = kept => InHand(j, kept)
    BY <1>0 DEF InHand, Saving
  <2>3. j.at = "data" /\ j.cmd = "put"
    OBVIOUS
  <2> HIDE DEF j
  <2> QED
    BY <1>0, <2>1, <2>2, <2>3, TurnStarts DEF Loads, Saving
<1>7. CASE Truncate(c) \/ Write(c, Edited(J, kept)) \/ Stop(c)
  <2>1. Truncate(c) \/ Write(c, Change(J, kept)) \/ Stop(c)
    BY <1>0, <1>7 DEF Change
  <2>2. J.at = "save" =>
          /\ J \in [DOMAIN J -> UNION {{J[x]} : x \in DOMAIN J}]
          /\ "at" \in DOMAIN J /\ "cmd" \in DOMAIN J /\ "st" \in DOMAIN J
          /\ Change([J EXCEPT !.at = "write"], kept) = Change(J, kept)
    BY <1>0, IdleIsIdle DEF VaultJob, Change, Edited
  <2>3. J.at = "write" => J.st # Absent
    <3>1. EmptyIndex \in Index
      BY DEF EmptyIndex, Index
    <3>2. J.at = "write" => J.st \in Index
      BY <1>0, <3>1, IdleIsIdle DEF VaultJob, Saving
    <3> QED
      BY <3>2, VaultAssumption
  <2> QED
    BY <1>0, <2>1, <2>2, <2>3, TurnSaves
<1> QED
  BY <1>1, <1>2, <1>3, <1>4, <1>5, <1>6, <1>7 DEF VaultStep

\* The file tree is edited and saved in one command.
LEMMA TreeTurn ==
  ASSUME IInv, TurnInv, program' = program, InTurn', NEW c \in Proc, TreeStep(c)
  PROVE  TurnInv'
<1> DEFINE J == job[c]
<1>0. program = "fs" /\ J \in TreeJob
  BY DEF TreeStep, IInv, TreeOK
<1>s. ASSUME NEW j, Staged(c, j), j.at = "save", j.st = file,
             j \in [DOMAIN j -> UNION {{j[x]} : x \in DOMAIN j}], "st" \in DOMAIN j,
             Tree([j EXCEPT !.st = Tree(j, @)], file) = Tree(j, file)
      PROVE  TurnInv'
  <2> DEFINE next == [j EXCEPT !.st = Tree(j, @)]
  <2>1. Begin(c, next) /\ next.at = "save" /\ next.st = Tree(next, file)
    BY <1>s DEF Staged
  <2> HIDE DEF next
  <2>2. file = kept => InHand(next, kept)
    BY <1>0, <2>1 DEF InHand, Saving, Change
  <2> QED
    BY <1>0, <2>1, <2>2, TurnStarts
<1>1. CASE TreeInit(c)
  <2> DEFINE j == [at |-> "save", cmd |-> "init", st |-> EmptyIndex]
             next == [j EXCEPT !.st = Tree(j, @)]
  <2>1. Begin(c, next)
    BY <1>1 DEF TreeInit, Staged
  <2>2. next.at = "save" /\ next.cmd = "init" /\ next.st = EmptyIndex
    BY DEF Tree
  <2> HIDE DEF next
  <2>3. InHand(next, kept)
    BY <1>0, <2>2 DEF InHand, Saving, Change, Tree
  <2> QED
    BY <1>0, <2>1, <2>2, <2>3, TurnStarts
<1>2. CASE TreePublish(c)
  <2>1. CASE Loads /\ Begin(c, [at |-> "collection", cmd |-> "publish", st |-> file])
    <3> DEFINE j == [at |-> "collection", cmd |-> "publish", st |-> file]
    <3>1. InHand(j, kept)
      BY <1>0 DEF InHand, Saving
    <3> QED
      BY <1>0, <2>1, <3>1, TurnStarts
  <2>2. CASE J.at = "collection" /\ Upload(c, J.st, Idle)
    <3>1. InHand(Idle, kept) /\ Idle.at # "write"
      BY DEF Idle, InHand, Saving
    <3> QED
      BY <1>0, <2>2, <3>1, TurnRequests DEF Upload, Request, InCommand
  <2> QED
    BY <1>2, <2>1, <2>2 DEF TreePublish
<1>3. ASSUME NEW n \in Name, TreeRm(c, n) PROVE TurnInv'
  <2> DEFINE j == [at |-> "save", cmd |-> "rm", name |-> n, st |-> file]
  <2>1. Tree([j EXCEPT !.st = Tree(j, @)], file) = Tree(j, file)
    BY DEF Tree
  <2> QED
    BY <1>3, <1>s, <2>1 DEF TreeRm
<1>4. ASSUME NEW n \in Name, NEW d \in Data, TreeAdd(c, n, d) PROVE TurnInv'
  <2> DEFINE j == [at |-> "save", cmd |-> "add", name |-> n, data |-> d, st |-> file]
  <2>1. Tree([j EXCEPT !.st = Tree(j, @)], file) = Tree(j, file)
    BY DEF Tree
  <2> QED
    BY <1>4, <1>s, <2>1 DEF TreeAdd
<1>5. ASSUME NEW n \in Name, NEW m \in Name, TreeMv(c, n, m) PROVE TurnInv'
  <2> DEFINE j == [at |-> "save", cmd |-> "mv", name |-> n, to |-> m, st |-> file]
  <2>1. Tree([j EXCEPT !.st = Tree(j, @)], file) = Tree(j, file)
    BY DEF Tree
  <2> QED
    BY <1>5, <1>s, <2>1 DEF TreeMv
<1>6. CASE Truncate(c) \/ Write(c, Tree(J, kept)) \/ Stop(c)
  <2>1. Truncate(c) \/ Write(c, Change(J, kept)) \/ Stop(c)
    BY <1>0, <1>6 DEF Change
  <2>2. J.at = "save" =>
          /\ J \in [DOMAIN J -> UNION {{J[x]} : x \in DOMAIN J}]
          /\ "at" \in DOMAIN J /\ "cmd" \in DOMAIN J /\ "st" \in DOMAIN J
          /\ Change([J EXCEPT !.at = "write"], kept) = Change(J, kept)
    BY <1>0, IdleIsIdle DEF TreeJob, Change, Tree
  <2> QED
    BY <1>0, <2>1, <2>2, TurnSaves
<1> QED
  BY <1>1, <1>2, <1>3, <1>4, <1>5, <1>6 DEF TreeStep

\* A site is deployed, and the row it makes is saved.
LEMMA DeployTurn ==
  ASSUME IInv, TurnInv, program' = program, InTurn', NEW c \in Proc, DeployStep(c)
  PROVE  TurnInv'
<1> DEFINE J == job[c]
<1>0. program \in {"deploy", "blog"} /\ J \in DeployJob(node.stored)
  BY DEF DeployStep, IInv, DeployOK
<1>1. CASE DeployInit(c)
  <2> DEFINE j == [at |-> "manifest", cmd |-> "init", st |-> <<>>]
  <2>1. InHand(j, kept)
    BY <1>0 DEF InHand, Saving
  <2> QED
    BY <1>0, <1>1, <2>1, TurnStarts DEF DeployInit
<1>2. CASE DeployManifest(c)
  <2> DEFINE next == [J EXCEPT !.at = "save"]
  <2>1. J.at = "manifest" /\ Request(c, node, next)
    BY <1>2 DEF DeployManifest
  <2>2. J.cmd = "init" /\ next.at = "save" /\ next.cmd = "init" /\ next.st = J.st /\ J.st = <<>>
    BY <1>0, <2>1, IdleIsIdle DEF DeployJob, Saving
  <2> HIDE DEF next
  <2>3. InHand(next, kept)
    BY <1>0, <2>2 DEF InHand, Saving, Change, Deployed
  <2> QED
    BY <1>0, <2>1, <2>2, <2>3, TurnRequests DEF Request, InCommand
<1>3. CASE Collection(c)
  <2> DEFINE next == [J EXCEPT !.at = "feed"]
  <2>1. J.at = "collection" /\ Upload(c, J.site, next)
    BY <1>3 DEF Collection
  <2>2. next.at = "feed" /\ next.st = J.st
    BY <1>0, <2>1, IdleIsIdle DEF DeployJob, Saving
  <2> HIDE DEF next
  <2>3. InHand(J, kept) => InHand(next, kept)
    BY <1>0, <2>1, <2>2 DEF InHand, Saving
  <2> QED
    BY <1>0, <2>1, <2>2, <2>3, TurnRequests DEF Upload, Request, InCommand
<1>4. CASE DeployFeed(c)
  <2>1. J.at = "feed"
    BY <1>4 DEF DeployFeed
  <2>2. CASE J.cmd = "publish"
    <3>1. UpdateFeed(c, J.site, Idle)
      BY <1>4, <2>2 DEF DeployFeed
    <3>2. InHand(Idle, kept) /\ Idle.at # "write"
      BY DEF Idle, InHand, Saving
    <3> QED
      BY <1>0, <2>1, <3>1, <3>2, TurnRequests DEF UpdateFeed, InCommand
  <2>3. CASE J.cmd # "publish"
    <3> DEFINE next == [J EXCEPT !.at = "save", !.st = Append(@, J.site)]
    <3>1. UpdateFeed(c, J.site, next)
      BY <1>4, <2>3 DEF DeployFeed
    <3>2. /\ J.cmd # "init" /\ next.at = "save" /\ next.cmd = J.cmd /\ next.site = J.site
          /\ next.st = Append(J.st, J.site)
      BY <1>0, <2>1, IdleIsIdle DEF DeployJob, Saving
    <3> HIDE DEF next
    <3>3. InHand(J, kept) => InHand(next, kept)
      BY <1>0, <2>1, <3>2 DEF InHand, Saving, Change, Deployed
    <3> QED
      BY <1>0, <2>1, <3>1, <3>2, <3>3, TurnRequests DEF UpdateFeed, InCommand
  <2> QED
    BY <2>2, <2>3
<1>5. ASSUME NEW s \in Site, Push(c, s) \/ BlogPublish(c, s) PROVE TurnInv'
  <2>1. PICK cmd \in {"push", "publish"} :
          Begin(c, [at |-> "collection", cmd |-> cmd, site |-> s, st |-> file])
    BY <1>5 DEF Push, BlogPublish
  <2> DEFINE j == [at |-> "collection", cmd |-> cmd, site |-> s, st |-> file]
  <2>2. j.at # "write" /\ (file = kept => InHand(j, kept))
    BY <1>0 DEF InHand, Saving
  <2> HIDE DEF j
  <2> QED
    BY <1>0, <2>1, <2>2, TurnStarts DEF j
<1>6. ASSUME NEW i \in 1 .. MaxCommands, Rollback(c, i) PROVE TurnInv'
  <2> DEFINE j == [at |-> "feed", cmd |-> "rollback", site |-> file[i], st |-> file]
  <2>1. Begin(c, j) /\ j.at # "write" /\ (file = kept => InHand(j, kept))
    BY <1>0, <1>6 DEF Rollback, InHand, Saving
  <2> HIDE DEF j
  <2> QED
    BY <1>0, <2>1, TurnStarts
<1>7. CASE Truncate(c) \/ Write(c, Deployed(J, kept)) \/ Stop(c)
  <2>1. Truncate(c) \/ Write(c, Change(J, kept)) \/ Stop(c)
    BY <1>0, <1>7 DEF Change
  <2>2. J.at = "save" =>
          /\ J \in [DOMAIN J -> UNION {{J[x]} : x \in DOMAIN J}]
          /\ "at" \in DOMAIN J /\ "cmd" \in DOMAIN J /\ "st" \in DOMAIN J
          /\ Change([J EXCEPT !.at = "write"], kept) = Change(J, kept)
    BY <1>0, IdleIsIdle DEF DeployJob, Change, Deployed
  <2> QED
    BY <1>0, <2>1, <2>2, TurnSaves
<1> QED
  BY <1>1, <1>2, <1>3, <1>4, <1>5, <1>6, <1>7 DEF DeployStep

\* A file is shared, or a share revoked, and the rows are saved.
LEMMA ShareTurn ==
  ASSUME IInv, TurnInv, program' = program, InTurn', NEW c \in Proc, ShareStep(c)
  PROVE  TurnInv'
<1> DEFINE J == job[c]
<1>0. program = "share" /\ J \in ShareJob
  BY DEF ShareStep, IInv, ShareOK
<1>1. ASSUME NEW f \in File, NEW to \in To, ShareFile(c, f, to) PROVE TurnInv'
  <2> DEFINE j == [at |-> "upload", cmd |-> "share", share |-> [file |-> f, grantees |-> to]]
  <2>1. Begin(c, j) /\ j.at # "write" /\ InHand(j, kept)
    BY <1>0, <1>1 DEF ShareFile, InHand, Saving
  <2> HIDE DEF j
  <2> QED
    BY <1>0, <2>1, TurnStarts
<1>2. CASE ShareUpload(c)
  <2> DEFINE next == [J EXCEPT !.at = "create"]
  <2>1. J.at = "upload" /\ Upload(c, J.share.file, next)
    BY <1>2 DEF ShareUpload
  <2>2. next.at = "create"
    BY <1>0, <2>1, IdleIsIdle DEF ShareJob, Saving
  <2> HIDE DEF next
  <2>3. InHand(next, kept)
    BY <1>0, <2>2 DEF InHand, Saving
  <2> QED
    BY <1>0, <2>1, <2>2, <2>3, TurnRequests DEF Upload, Request, InCommand
<1>3. CASE CreateGrantees(c)
  <2> DEFINE next == [at |-> "load", cmd |-> "share",
                      share |-> [file |-> J.share.file, grantees |-> J.share.grantees,
                                 list |-> Len(node.lists) + 1]]
  <2>1. J.at = "create" /\ Request(c, [node EXCEPT !.lists = Append(@, J.share.grantees)], next)
    BY <1>3 DEF CreateGrantees
  <2>2. next.at = "load"
    OBVIOUS
  <2> HIDE DEF next
  <2>3. InHand(next, kept)
    BY <1>0, <2>2 DEF InHand, Saving
  <2> QED
    BY <1>0, <2>1, <2>2, <2>3, TurnRequests DEF Request, InCommand
<1>4. CASE PatchGrantees(c)
  <2> DEFINE i    == Position(J.st, J.id)
             list == Len(node.lists) + 1
             next == [at |-> "save", cmd |-> "revoke", id |-> J.id, gone |-> J.gone,
                      list |-> list, st |-> Without(J.st, i, J.gone, list)]
  <2>1. J.at = "patch" /\ Request(c, [node EXCEPT !.lists = Append(@, @[J.st[i].list] \ J.gone)], next)
    BY <1>4 DEF PatchGrantees
  <2>2. /\ next.at = "save" /\ next.cmd = "revoke"
        /\ next.st = Without(J.st, Position(J.st, next.id), next.gone, next.list)
    OBVIOUS
  <2> HIDE DEF next
  <2>3. InHand(J, kept) => InHand(next, kept)
    BY <1>0, <2>1, <2>2 DEF InHand, Saving, Change, Shared
  <2> QED
    BY <1>0, <2>1, <2>2, <2>3, TurnRequests DEF Request, InCommand
<1>5. ASSUME NEW id \in Second, ShareLoad(c, id) PROVE TurnInv'
  <2> DEFINE row == [id       |-> id,
                     file     |-> J.share.file,
                     grantees |-> J.share.grantees,
                     list     |-> J.share.list]
             next == [at |-> "save", cmd |-> "share", row |-> row,
                      st |-> Append(LoadedOr(NoShares), row)]
  <2>1. /\ J.at = "load" /\ Goto(c, next) /\ file' = file /\ kept' = kept /\ trouble' = trouble
    BY <1>5 DEF ShareLoad
  <2>2. /\ next.at = "save" /\ next.cmd = "share" /\ next.st = Append(LoadedOr(NoShares), next.row)
    OBVIOUS
  <2> HIDE DEF next
  <2>3. InCommand(c) /\ InTurn
    BY <2>1 DEF InCommand, InTurn
  <2>4. file = kept /\ (kept # Absent => kept # Torn)
    BY <1>0, <2>1, <2>3, TurnAlone
  <2>5. InHand(next, kept)
    BY <1>0, <2>2, <2>4 DEF InHand, Saving, Change, Shared, LoadedOr, Loads
  <2> QED
    BY <1>0, <2>1, <2>2, <2>3, <2>5, TurnRequests
<1>6. ASSUME NEW id \in Second, NEW g \in Grantee, Revoke(c, id, {g}) PROVE TurnInv'
  <2> DEFINE j == [at |-> "patch", cmd |-> "revoke", id |-> id, gone |-> {g},
                   st |-> LoadedOr(NoShares)]
  <2>1. Begin(c, j)
    BY <1>6 DEF Revoke
  <2>2. kept # Absent => kept # Torn
    BY <1>0, <2>1, TurnBegins
  <2>3. j.at # "write" /\ (file = kept => InHand(j, kept))
    BY <1>0, <2>2 DEF InHand, Saving, LoadedOr, Loads
  <2> HIDE DEF j
  <2> QED
    BY <1>0, <2>1, <2>3, TurnStarts
<1>7. CASE \/ Truncate(c) \/ Stop(c)
           \/ Write(c, Shared(J, IF kept = Absent THEN NoShares ELSE kept))
  <2>1. Truncate(c) \/ Write(c, Change(J, kept)) \/ Stop(c)
    BY <1>0, <1>7 DEF Change
  <2>2. J.at = "save" =>
          /\ J \in [DOMAIN J -> UNION {{J[x]} : x \in DOMAIN J}]
          /\ "at" \in DOMAIN J /\ "cmd" \in DOMAIN J /\ "st" \in DOMAIN J
          /\ Change([J EXCEPT !.at = "write"], kept) = Change(J, kept)
    BY <1>0, IdleIsIdle DEF ShareJob, Change, Shared
  <2>3. J.at = "write" => J.st # Torn
    <3>1. J.at = "write" => J.st \in Seq(Row)
      BY <1>0, IdleIsIdle DEF ShareJob, Saving
    <3> QED
      BY <3>1, ShareAssumption
  <2> QED
    BY <1>0, <2>1, <2>2, <2>3, TurnSaves
<1> QED
  BY <1>1, <1>2, <1>3, <1>4, <1>5, <1>6, <1>7 DEF ShareStep

\* A file is relayed or refused, and the counters are saved.
LEMMA RelayTurn ==
  ASSUME IInv, TurnInv, program' = program, InTurn', NEW c \in Proc, RelayStep(c)
  PROVE  TurnInv'
<1> DEFINE J == job[c]
<1>0. program = "relay" /\ J \in RelayJob
  BY DEF RelayStep, IInv, RelayOK
<1>1. CASE RelayInit(c)
  <2> DEFINE j == [at |-> "batch", cmd |-> "init", st |-> Fresh]
  <2>1. Begin(c, j) /\ j.at # "write" /\ InHand(j, kept)
    BY <1>0, <1>1 DEF RelayInit, InHand, Saving
  <2> HIDE DEF j
  <2> QED
    BY <1>0, <2>1, TurnStarts
<1>2. CASE RelayBatch(c)
  <2> DEFINE next == [J EXCEPT !.at = "save"]
  <2>1. J.at = "batch" /\ Request(c, node, next)
    BY <1>2 DEF RelayBatch
  <2>2. next.at = "save" /\ next.cmd = "init" /\ next.st = Fresh
    BY <1>0, <2>1, IdleIsIdle DEF RelayJob, Saving
  <2> HIDE DEF next
  <2>3. InHand(next, kept)
    BY <1>0, <2>2 DEF InHand, Saving, Change, Relayed
  <2> QED
    BY <1>0, <2>1, <2>2, <2>3, TurnRequests DEF Request, InCommand
<1>3. CASE RelayUpload(c)
  <2> DEFINE next == [J EXCEPT !.at = "save", !.st.uploaded = Append(@, J.f)]
  <2>1. J.at = "upload" /\ Upload(c, J.f, next)
    BY <1>3 DEF RelayUpload
  <2>2. /\ next.at = "save" /\ next.cmd = "relay" /\ next.f = J.f
        /\ next.st = [J.st EXCEPT !.uploaded = Append(@, J.f)]
    BY <1>0, <2>1, IdleIsIdle DEF RelayJob, Saving
  <2> HIDE DEF next
  <2>3. InHand(J, kept) => InHand(next, kept)
    BY <1>0, <2>1, <2>2 DEF InHand, Saving, Change, Relayed
  <2> QED
    BY <1>0, <2>1, <2>2, <2>3, TurnRequests DEF Upload, Request, InCommand
<1>4. CASE RelayReset(c)
  <2>1. /\ file' = Absent /\ kept' = Absent /\ job' = job
        /\ trouble' = (IF \E d \in Proc : InCommand(d) THEN trouble \cup {"overlap"} ELSE trouble)
    BY <1>4 DEF RelayReset
  <2>2. \A d \in Proc : job'[d].at = "idle"
    BY <2>1 DEF InTurn, InCommand
  <2> QED
    BY <1>0, <2>1, <2>2 DEF TurnInv, InCommand, InHand, Saving
<1>5. ASSUME NEW f \in Relayable, RelayFile(c, f) PROVE TurnInv'
  <2> DEFINE j        == [at |-> "upload", cmd |-> "relay", f |-> f, st |-> file]
             accepted == [j EXCEPT !.st.buckets = Stamped(@, f.chunks)]
             refused  == [j EXCEPT !.at = "save", !.cmd = "refuse", !.st.rejected = @ + 1]
  <2>1. Begin(c, accepted) \/ Begin(c, refused)
    BY <1>5 DEF RelayFile
  <2>2. /\ accepted.at = "upload" /\ accepted.f = f
        /\ accepted.st = [file EXCEPT !.buckets = Stamped(@, f.chunks)]
        /\ refused.at = "save" /\ refused.cmd = "refuse"
        /\ refused.st = [file EXCEPT !.rejected = @ + 1]
    OBVIOUS
  <2> HIDE DEF accepted, refused
  <2>3. file = kept => InHand(accepted, kept) /\ InHand(refused, kept)
    BY <1>0, <2>2 DEF InHand, Saving, Change, Relayed
  <2> QED
    BY <1>0, <2>1, <2>2, <2>3, TurnStarts
<1>6. CASE Truncate(c) \/ Write(c, Relayed(J, kept)) \/ Stop(c)
  <2>1. Truncate(c) \/ Write(c, Change(J, kept)) \/ Stop(c)
    BY <1>0, <1>6 DEF Change
  <2>2. J.at = "save" =>
          /\ J \in [DOMAIN J -> UNION {{J[x]} : x \in DOMAIN J}]
          /\ "at" \in DOMAIN J /\ "cmd" \in DOMAIN J /\ "st" \in DOMAIN J
          /\ Change([J EXCEPT !.at = "write"], kept) = Change(J, kept)
    BY <1>0, IdleIsIdle DEF RelayJob, Change, Relayed
  <2> QED
    BY <1>0, <2>1, <2>2, TurnSaves
<1> QED
  BY <1>1, <1>2, <1>3, <1>4, <1>5, <1>6 DEF RelayStep

\* A key, or a feed, is put in and the rows are saved.
LEMMA KeyringTurn ==
  ASSUME IInv, TurnInv, program' = program, InTurn', NEW c \in Proc, KeyringStep(c)
  PROVE  TurnInv'
<1> DEFINE J == job[c]
<1>0. program \in {"keyring", "rss"} /\ J \in KeyringJob
  BY DEF KeyringStep, IInv, KeyringOK
<1>1. ASSUME NEW n \in KeyName, NEW k \in Key, NEW p, Insert(c, n, k, p) PROVE TurnInv'
  <2> DEFINE row == [name |-> n, address |-> k, cipher |-> [of |-> k, pass |-> p]]
             j == [at |-> "save", cmd |-> "insert", row |-> row,
                   st |-> Append(LoadedOr(NoKeys), row)]
  <2>1. Begin(c, j)
    BY <1>1 DEF Insert
  <2>2. kept # Absent => kept # Torn
    BY <1>0, <2>1, TurnBegins
  <2>3. j.at = "save" /\ j.st = Append(LoadedOr(NoKeys), j.row)
    OBVIOUS
  <2> HIDE DEF j
  <2>4. file = kept => InHand(j, kept)
    BY <1>0, <2>2, <2>3 DEF InHand, Saving, Change, LoadedOr, Loads
  <2> QED
    BY <1>0, <2>1, <2>3, <2>4, TurnStarts
<1>2. CASE \/ Truncate(c) \/ Stop(c)
           \/ Write(c, Append(IF kept = Absent THEN NoKeys ELSE kept, J.row))
  <2>1. Truncate(c) \/ Write(c, Change(J, kept)) \/ Stop(c)
    BY <1>0, <1>2 DEF Change
  <2>2. J.at = "save" =>
          /\ J \in [DOMAIN J -> UNION {{J[x]} : x \in DOMAIN J}]
          /\ "at" \in DOMAIN J /\ "cmd" \in DOMAIN J /\ "st" \in DOMAIN J
          /\ Change([J EXCEPT !.at = "write"], kept) = Change(J, kept)
    BY <1>0, IdleIsIdle DEF KeyringJob, Change
  <2>3. J.at = "write" => J.st # Torn
    <3>1. J.at = "write" => J.st \in Seq(Entry)
      BY <1>0, IdleIsIdle DEF KeyringJob, Saving
    <3> QED
      BY <3>1, KeyringAssumption
  <2> QED
    BY <1>0, <2>1, <2>2, <2>3, TurnSaves
<1> QED
  BY <1>1, <1>2 DEF KeyringStep, AddFeed

\* In turn at the start, and after each step.
LEMMA TurnAtFirst == Init => TurnInv
<1> SUFFICES ASSUME Init PROVE TurnInv
  OBVIOUS
<1>1. /\ \A c \in Proc : job[c] = Idle /\ job[c].at = "idle"
      /\ file = Absent /\ kept = Absent /\ node.feed = <<>>
  BY IdleIsIdle DEF Init
<1>2. \A c \in Proc : InHand(job[c], kept)
  BY <1>1 DEF InHand, Saving
<1>3. FeedOK
  BY <1>1 DEF FeedOK, InCommand
<1> QED
  BY <1>1, <1>2, <1>3 DEF TurnInv, InCommand

\* Whatever the program, and whichever step it takes.
LEMMA TurnKept == IInv /\ TurnInv /\ [Next]_all => TurnInv'
<1> SUFFICES ASSUME IInv, TurnInv, [Next]_all PROVE TurnInv'
  OBVIOUS
<1>p. program' = program
  BY SameProgram
<1>1. CASE program = "pinner" \/ ~InTurn'
  BY <1>1, <1>p DEF TurnInv
<1>2. CASE InTurn' /\ \E c \in Proc : VaultStep(c) \/ TreeStep(c) \/ DeployStep(c)
                                        \/ ShareStep(c) \/ RelayStep(c) \/ KeyringStep(c)
  BY <1>2, <1>p, VaultTurn, TreeTurn, DeployTurn, ShareTurn, RelayTurn, KeyringTurn
<1>3. CASE \E c \in Proc : PinnerStep(c)
  BY <1>1, <1>3 DEF PinnerStep
<1>4. CASE UNCHANGED all
  BY <1>4 DEF all, vars, TurnInv, InTurn, InCommand, InHand, Change, FeedOK, Loads
<1> QED
  BY <1>1, <1>2, <1>3, <1>4 DEF Next

\* What the commands that returned Ok have done stays done, as long as they run in
\* turn, and the feed of a vault shows it.
THEOREM NothingLostInTurn == Spec => []OkCommandsStay
<1>1. Init => IInv /\ TurnInv
  BY InitOK, TurnAtFirst
<1>2. (IInv /\ TurnInv) /\ [Next]_all => (IInv /\ TurnInv)'
  BY StepOK, TurnKept
<1>3. TurnInv => OkCommandsStay
  BY DEF TurnInv, FeedOK, OkCommandsStay, OkCommandsKept
<1> QED
  BY <1>1, <1>2, <1>3, PTL DEF Spec

-----------------------------------------------------------------------------
(* The integration check.                                                  *)

\* No word: of a check that needs, gives or does nothing.
None == ""
Word == {None, "data", "file", "key", "grantees", "batch", "mutable", "pin", "unpin", "tag", "sign", "owner"}
Kind == [needs : Word, gives : Word, does : Word, tries : Nat \cup {BATCH_TRIES}]

\* What the check of a number needs and gives; only the 43rd pins and the 45th unpins,
\* and the 47th is the first to sign.
NeedOf(i) ==
  IF i \in {35, 36, 38, 43, 44, 45} \cup 51 .. 55
  THEN IF i = 38 THEN "file" ELSE IF i = 54 THEN "key" ELSE IF i = 55 THEN "grantees" ELSE "data"
  ELSE None
GiftOf(i) == IF i = 34 THEN "data" ELSE IF i = 37 THEN "file" ELSE IF i = 54 THEN "grantees" ELSE None

AsNumbered(i, check) ==
  /\ check \in Kind
  /\ check.needs = NeedOf(i) /\ check.gives = GiftOf(i)
  /\ i = 47 => check.does = "sign"
  /\ check.does = "pin" <=> i = 43
  /\ check.does = "unpin" <=> i = 45

\* A part of the list, of k checks that come after the first n.
Part(checks, n, k) ==
  checks \in Seq(Kind) /\ Len(checks) = k /\ \A i \in 1 .. k : AsNumbered(n + i, checks[i])

\* Two parts are one.
LEMMA Joined ==
  ASSUME NEW n \in Nat, NEW k \in Nat, NEW m \in Nat, NEW s, NEW t,
         Part(s, n, k), NEW from, from = n + k, Part(t, from, m), NEW both, both = k + m
  PROVE  Part(s \o t, n, both)
<1>1. /\ s \in Seq(Kind) /\ Len(s) = k /\ \A i \in 1 .. k : AsNumbered(n + i, s[i])
      /\ t \in Seq(Kind) /\ Len(t) = m /\ \A i \in 1 .. m : AsNumbered(from + i, t[i])
  BY DEF Part
<1>2. /\ s \o t \in Seq(Kind) /\ Len(s \o t) = both
      /\ \A i \in 1 .. both : (s \o t)[i] = IF i <= k THEN s[i] ELSE t[i - k]
  BY <1>1, ConcatProperties
<1>3. ASSUME NEW i \in 1 .. both PROVE AsNumbered(n + i, (s \o t)[i])
  <2>1. i \in Nat /\ (i <= k \/ i > k)
    OBVIOUS
  <2>2. CASE i <= k
    BY <1>1, <1>2, <2>1, <2>2
  <2>3. CASE i > k
    <3>1. i - k \in 1 .. m /\ from + (i - k) = n + i /\ (s \o t)[i] = t[i - k]
      BY <1>2, <2>1, <2>3
    <3>2. AsNumbered(from + (i - k), t[i - k])
      BY <1>1, <3>1
    <3> QED
      BY <3>1, <3>2
  <2> QED
    BY <2>1, <2>2, <2>3
<1> QED
  BY <1>2, <1>3 DEF Part

\* A sequence of one value.
LEMMA ConstantSeq ==
  ASSUME NEW S, NEW e \in S, NEW k \in Nat
  PROVE  /\ [i \in 1 .. k |-> e] \in Seq(S) /\ Len([i \in 1 .. k |-> e]) = k
         /\ \A j \in 1 .. k : [i \in 1 .. k |-> e][j] = e
<1>1. [i \in 1 .. k |-> e] \in Seq(S)
  OBVIOUS
<1>2. Len([i \in 1 .. k |-> e]) = k
  OBVIOUS
<1>3. \A j \in 1 .. k : [i \in 1 .. k |-> e][j] = e
  OBVIOUS
<1> QED
  BY <1>1, <1>2, <1>3

\* Checks that need the same, and neither give nor do anything.
LEMMA AlikePart ==
  ASSUME NEW n \in Nat, NEW k \in Nat, NEW needs,
         \A i \in 1 .. k : AsNumbered(n + i, Check(needs, "", "", 1)),
         Check(needs, "", "", 1) \in Kind
  PROVE  Part(Needing(k, needs), n, k)
<1> DEFINE check == Check(needs, "", "", 1)
           list == [i \in 1 .. k |-> check]
<1>1. check \in Kind /\ \A i \in 1 .. k : AsNumbered(n + i, check)
  OBVIOUS
<1> HIDE DEF check
<1>2. list \in Seq(Kind) /\ Len(list) = k /\ \A i \in 1 .. k : list[i] = check
  BY <1>1, ConstantSeq
<1> HIDE DEF list
<1>3. Part(list, n, k)
  BY <1>1, <1>2 DEF Part
<1> QED
  BY <1>3 DEF list, check, Needing

\* Checks that need nothing.
LEMMA PlainPart ==
  ASSUME NEW n \in Nat, NEW k \in Nat,
         \A i \in 1 .. k : AsNumbered(n + i, Check("", "", "", 1)),
         Check("", "", "", 1) \in Kind
  PROVE  Part(Plain(k), n, k)
<1>1. Plain(k) = Needing(k, "")
  BY DEF Plain, Needing
<1> QED
  BY <1>1, AlikePart

\* A check that is listed by itself.
LEMMA OnePart ==
  ASSUME NEW n \in Nat, NEW check, AsNumbered(n + 1, check)
  PROVE  Part(<<check>>, n, 1)
<1>1. <<check>> \in Seq(Kind) /\ Len(<<check>>) = 1 /\ <<check>>[1] = check
  BY DEF AsNumbered
<1> QED
  BY <1>1 DEF Part

\* Two checks that are listed by themselves.
LEMMA TwoPart ==
  ASSUME NEW n \in Nat, NEW a, NEW b, AsNumbered(n + 1, a), AsNumbered(n + 2, b)
  PROVE  Part(<<a, b>>, n, 2)
<1>1. /\ <<a, b>> \in Seq(Kind) /\ Len(<<a, b>>) = 2
      /\ <<a, b>>[1] = a /\ <<a, b>>[2] = b
  BY DEF AsNumbered
<1> QED
  BY <1>1 DEF Part

\* And four.
LEMMA FourPart ==
  ASSUME NEW n \in Nat, NEW a, NEW b, NEW c, NEW d,
         AsNumbered(n + 1, a), AsNumbered(n + 2, b), AsNumbered(n + 3, c), AsNumbered(n + 4, d)
  PROVE  Part(<<a, b, c, d>>, n, 4)
<1>1. /\ <<a, b, c, d>> \in Seq(Kind) /\ Len(<<a, b, c, d>>) = 4
      /\ <<a, b, c, d>>[1] = a /\ <<a, b, c, d>>[2] = b
      /\ <<a, b, c, d>>[3] = c /\ <<a, b, c, d>>[4] = d
  BY DEF AsNumbered
<1> QED
  BY <1>1 DEF Part

\* The checks that are made of every node are numbered from 1 to 59.
LEMMA NumberedChecks == Part(CheckList, 0, 59)
<1>k. Check("", "", "", 1) \in Kind /\ Check("data", "", "", 1) \in Kind
      /\ Check("file", "", "", 1) \in Kind /\ Check("grantees", "", "", 1) \in Kind
  BY DEF Check, Kind, Word, None
<1>1. Part(NodeChecks, 0, 9)
  <2>1. \A i \in 1 .. 9 : AsNumbered(0 + i, Check("", "", "", 1))
    BY DEF AsNumbered, Check, Kind, NeedOf, GiftOf, Word, None
  <2> QED
    BY <1>k, <2>1, PlainPart DEF NodeChecks
<1>2. Part(OperatorChecks, 9, 20)
  <2>1. \A i \in 1 .. 20 : AsNumbered(9 + i, Check("", "", "", 1))
    BY DEF AsNumbered, Check, Kind, NeedOf, GiftOf, Word, None
  <2> QED
    BY <1>k, <2>1, PlainPart DEF OperatorChecks
<1>3. Part(ObtainBatch, 29, 1)
  <2>1. AsNumbered(29 + 1, Check("", "", "batch", 1))
    BY DEF AsNumbered, Check, Kind, NeedOf, GiftOf, Word, None
  <2> QED
    BY <2>1, OnePart DEF ObtainBatch
<1>4. Part(PostageChecks, 30, 3)
  <2>1. \A i \in 1 .. 3 : AsNumbered(30 + i, Check("", "", "", 1))
    BY DEF AsNumbered, Check, Kind, NeedOf, GiftOf, Word, None
  <2> QED
    BY <1>k, <2>1, PlainPart DEF PostageChecks
<1>5. Part(DataChecks, 33, 3)
  <2> DEFINE one == <<Check("", "data", "", 1)>>
  <2>0. DataChecks = one \o Needing(2, "data")
    BY DEF DataChecks
  <2>1. /\ AsNumbered(33 + 1, Check("", "data", "", 1))
        /\ \A i \in 1 .. 2 : AsNumbered(34 + i, Check("data", "", "", 1))
    BY DEF AsNumbered, Check, Kind, NeedOf, GiftOf, Word, None
  <2>2. Part(one, 33, 1)
    BY <2>1, OnePart
  <2> HIDE DEF one
  <2>3. Part(Needing(2, "data"), 34, 2)
    BY <1>k, <2>1, AlikePart
  <2> QED
    BY <2>0, <2>2, <2>3, Joined
<1>6. Part(BzzChecks, 36, 3)
  <2> DEFINE one == <<Check("", "file", "", 1)>>
  <2>0. BzzChecks = one \o Needing(1, "file") \o Plain(1)
    BY DEF BzzChecks
  <2>1. /\ AsNumbered(36 + 1, Check("", "file", "", 1))
        /\ \A i \in 1 .. 1 : AsNumbered(37 + i, Check("file", "", "", 1))
        /\ \A i \in 1 .. 1 : AsNumbered(38 + i, Check("", "", "", 1))
    BY DEF AsNumbered, Check, Kind, NeedOf, GiftOf, Word, None
  <2>2. Part(one, 36, 1)
    BY <2>1, OnePart
  <2> HIDE DEF one
  <2>3. Part(Needing(1, "file"), 37, 1) /\ Part(Plain(1), 38, 1)
    BY <1>k, <2>1, AlikePart, PlainPart
  <2>4. Part(one \o Needing(1, "file"), 36, 2)
    BY <2>2, <2>3, Joined
  <2> QED
    BY <2>0, <2>3, <2>4, Joined
<1>7. Part(StreamChecks, 39, 1) /\ Part(EncryptedCheck, 40, 1) /\ Part(ChunkCheck, 41, 1)
  <2>1. \A i \in 1 .. 1 : /\ AsNumbered(39 + i, Check("", "", "", 1))
                          /\ AsNumbered(40 + i, Check("", "", "", 1))
                          /\ AsNumbered(41 + i, Check("", "", "", 1))
    BY DEF AsNumbered, Check, Kind, NeedOf, GiftOf, Word, None
  <2> QED
    BY <1>k, <2>1, PlainPart DEF StreamChecks, EncryptedCheck, ChunkCheck
<1>8. Part(PinChecks, 42, 4)
  <2>1. /\ AsNumbered(42 + 1, Check("data", "", "pin", 1)) /\ AsNumbered(42 + 2, Check("data", "", "", 1))
        /\ AsNumbered(42 + 3, Check("data", "", "unpin", 1)) /\ AsNumbered(42 + 4, Check("", "", "tag", 1))
    BY DEF AsNumbered, Check, Kind, NeedOf, GiftOf, Word, None
  <2> QED
    BY <2>1, FourPart DEF PinChecks
<1>9. Part(FeedChecks, 46, 5)
  <2> DEFINE four == <<Check("", "", "sign", 6), Check("", "", "owner", 1), Check("", "", "owner", 1),
                       Check("", "", "owner", 7)>>
  <2>0. FeedChecks = four \o Needing(1, "data")
    BY DEF FeedChecks
  <2>1. /\ AsNumbered(46 + 1, Check("", "", "sign", 6)) /\ AsNumbered(46 + 2, Check("", "", "owner", 1))
        /\ AsNumbered(46 + 3, Check("", "", "owner", 1)) /\ AsNumbered(46 + 4, Check("", "", "owner", 7))
        /\ \A i \in 1 .. 1 : AsNumbered(50 + i, Check("data", "", "", 1))
    BY DEF AsNumbered, Check, Kind, NeedOf, GiftOf, Word, None
  <2>2. Part(four, 46, 4)
    BY <2>1, FourPart
  <2> HIDE DEF four
  <2>3. Part(Needing(1, "data"), 50, 1)
    BY <1>k, <2>1, AlikePart
  <2> QED
    BY <2>0, <2>2, <2>3, Joined
<1>10. Part(StewardChecks, 51, 1)
  <2>1. \A i \in 1 .. 1 : AsNumbered(51 + i, Check("data", "", "", 1))
    BY DEF AsNumbered, Check, Kind, NeedOf, GiftOf, Word, None
  <2> QED
    BY <1>k, <2>1, AlikePart DEF StewardChecks
<1>11. Part(ActChecks, 52, 3)
  <2> DEFINE one == <<Check("key", "grantees", "", 1)>>
  <2>0. ActChecks = Needing(1, "data") \o one \o Needing(1, "grantees")
    BY DEF ActChecks
  <2>1. /\ \A i \in 1 .. 1 : AsNumbered(52 + i, Check("data", "", "", 1))
        /\ AsNumbered(53 + 1, Check("key", "grantees", "", 1))
        /\ \A i \in 1 .. 1 : AsNumbered(54 + i, Check("grantees", "", "", 1))
    BY DEF AsNumbered, Check, Kind, NeedOf, GiftOf, Word, None
  <2>2. Part(Needing(1, "data"), 52, 1) /\ Part(Needing(1, "grantees"), 54, 1)
    BY <1>k, <2>1, AlikePart
  <2>3. Part(one, 53, 1)
    BY <2>1, OnePart
  <2> HIDE DEF one
  <2>4. Part(Needing(1, "data") \o one, 52, 2)
    BY <2>2, <2>3, Joined
  <2> QED
    BY <2>0, <2>2, <2>4, Joined
<1>12. Part(PssChecks, 55, 2) /\ Part(GsocChecks, 57, 2)
  <2>1. /\ AsNumbered(55 + 1, Check("", "", "", 3)) /\ AsNumbered(55 + 2, Check("", "", "", 1))
        /\ AsNumbered(57 + 1, Check("", "", "sign", 1)) /\ AsNumbered(57 + 2, Check("", "", "sign", 1))
    BY DEF AsNumbered, Check, Kind, NeedOf, GiftOf, Word, None
  <2> QED
    BY <2>1, TwoPart DEF PssChecks, GsocChecks
<1> DEFINE toData  == NodeChecks \o OperatorChecks \o ObtainBatch \o PostageChecks \o DataChecks
           toChunk == toData \o BzzChecks \o StreamChecks \o EncryptedCheck \o ChunkCheck
           toFeeds == toChunk \o PinChecks \o FeedChecks
           toAct   == toFeeds \o StewardChecks \o ActChecks
<1>13. Part(toData, 0, 36)
  <2>1. Part(NodeChecks \o OperatorChecks, 0, 29)
    BY <1>1, <1>2, Joined
  <2>2. Part(NodeChecks \o OperatorChecks \o ObtainBatch, 0, 30)
    BY <1>3, <2>1, Joined
  <2>3. Part(NodeChecks \o OperatorChecks \o ObtainBatch \o PostageChecks, 0, 33)
    BY <1>4, <2>2, Joined
  <2> QED
    BY <1>5, <2>3, Joined
<1> HIDE DEF toData
<1>14. Part(toChunk, 0, 42)
  <2>1. Part(toData \o BzzChecks, 0, 39)
    BY <1>6, <1>13, Joined
  <2>2. Part(toData \o BzzChecks \o StreamChecks, 0, 40)
    BY <1>7, <2>1, Joined
  <2>3. Part(toData \o BzzChecks \o StreamChecks \o EncryptedCheck, 0, 41)
    BY <1>7, <2>2, Joined
  <2> QED
    BY <1>7, <2>3, Joined
<1> HIDE DEF toChunk
<1>15. Part(toFeeds, 0, 51)
  <2>1. Part(toChunk \o PinChecks, 0, 46)
    BY <1>8, <1>14, Joined
  <2> QED
    BY <1>9, <2>1, Joined
<1> HIDE DEF toFeeds
<1>16. Part(toAct, 0, 55)
  <2>1. Part(toFeeds \o StewardChecks, 0, 52)
    BY <1>10, <1>15, Joined
  <2> QED
    BY <1>11, <2>1, Joined
<1>17. CheckList = toAct \o PssChecks \o GsocChecks
  BY DEF CheckList, toData, toChunk, toFeeds
<1> HIDE DEF toAct
<1>18. Part(toAct \o PssChecks, 0, 57)
  BY <1>12, <1>16, Joined
<1> QED
  BY <1>12, <1>17, <1>18, Joined

\* So are those of a run with a mutable batch, which come after them.
LEMMA NumberedWithMutable == \E n \in {59, 63} : Part(Checks, 0, n)
<1>1. CASE "mutable" \in gates
  <2>1. /\ AsNumbered(59 + 1, Check("", "", "mutable", 1))
        /\ AsNumbered(59 + 2, Check("", "", "mutable", BATCH_TRIES))
        /\ \A i \in 1 .. 2 : AsNumbered(61 + i, Check("", "", "", 1))
        /\ Check("", "", "", 1) \in Kind
    BY DEF AsNumbered, Check, Kind, NeedOf, GiftOf, Word, None
  <2> DEFINE two == <<Check("", "", "mutable", 1), Check("", "", "mutable", BATCH_TRIES)>>
  <2>0. MutableChecks = two \o Plain(2)
    BY DEF MutableChecks
  <2>2. Part(two, 59, 2)
    BY <2>1, TwoPart
  <2> HIDE DEF two
  <2>3. Part(Plain(2), 61, 2)
    BY <2>1, PlainPart
  <2>4. Part(MutableChecks, 59, 4)
    BY <2>0, <2>2, <2>3, Joined
  <2>5. Part(CheckList \o MutableChecks, 0, 63)
    BY <2>4, NumberedChecks, Joined
  <2> QED
    BY <1>1, <2>5 DEF Checks
<1>2. CASE "mutable" \notin gates
  <2>1. CheckList \in Seq(Kind)
    BY NumberedChecks DEF Part
  <2>2. Checks = CheckList
    BY <1>2, <2>1, ConcatEmptySeq DEF Checks
  <2> QED
    BY <2>2, NumberedChecks
<1> QED
  BY <1>1, <1>2

\* The tally is that of the checks come to; while nothing has failed, what they give
\* is there, the pin is between its checks, and only the list of grantees is missed.
CheckInv ==
  /\ tally \in [pass : Nat, fail : Nat, skip : Nat]
  /\ at \in Nat /\ at >= 1 /\ at <= Len(Checks) + 1
  /\ None \in has
  /\ over = "running" => Counted = at - 1
  /\ over = "running" /\ tally.fail = 0 =>
       /\ tally.skip <= (IF at > 55 THEN 1 ELSE 0)
       /\ at > 34 => "data" \in has
       /\ at > 37 => "file" \in has
       /\ at > 47 => "key" \in has
       /\ pinned => at \in {44, 45}
       /\ ~tagged
  /\ over = "success" =>
       /\ tally.fail = 0 /\ ~pinned /\ ~tagged
       /\ tally.skip <= 1 + (IF "mutable" \in gates THEN 0 ELSE 1)

\* One more is counted.
LEMMA OneMore ==
  ASSUME NEW t, t \in [pass : Nat, fail : Nat, skip : Nat]
  PROVE  /\ [t EXCEPT !.pass = @ + 1] = [pass |-> t.pass + 1, fail |-> t.fail, skip |-> t.skip]
         /\ [t EXCEPT !.fail = @ + 1] = [pass |-> t.pass, fail |-> t.fail + 1, skip |-> t.skip]
         /\ \A n \in Nat :
              [t EXCEPT !.skip = @ + n] = [pass |-> t.pass, fail |-> t.fail, skip |-> t.skip + n]
OBVIOUS

\* What is known of the check come to.
LEMMA AtCheck ==
  ASSUME CheckInv, Running
  PROVE  /\ at \in Nat /\ at >= 1 /\ at <= Len(Checks) /\ Len(Checks) \in {59, 63}
         /\ AsNumbered(at, Current)
<1>1. PICK n \in {59, 63} : Part(Checks, 0, n)
  BY NumberedWithMutable
<1>2. Len(Checks) = n /\ \A i \in 1 .. n : AsNumbered(0 + i, Checks[i])
  BY <1>1 DEF Part
<1>3. at \in Nat /\ at >= 1
  BY DEF CheckInv
<1>4. at <= Len(Checks)
  BY DEF Running
<1>5. at \in 1 .. n /\ 0 + at = at
  BY <1>2, <1>3, <1>4
<1> QED
  BY <1>2, <1>3, <1>4, <1>5 DEF Current

\* The list does not change.
LEMMA SameChecks == ASSUME [CheckNext]_checkVars PROVE gates' = gates /\ Checks' = Checks
BY DEF CheckNext, checkVars, CheckSkipped, CheckPasses, CheckRetries, CheckFails, CheckPanics,
  CheckSums, GoOn, Checks

\* Nothing has been counted before the first check.
LEMMA CheckInvInit == CheckInit => CheckInv
<1> SUFFICES ASSUME CheckInit PROVE CheckInv
  OBVIOUS
<1>1. Len(Checks) \in {59, 63}
  BY NumberedWithMutable DEF Part
<1>2. /\ at = 1 /\ tally = [pass |-> 0, fail |-> 0, skip |-> 0] /\ over = "running"
  BY DEF CheckInit
<1>h. None \in has
  BY DEF CheckInit, None
<1>b. ~pinned /\ ~tagged
  BY DEF CheckInit
<1>3. at <= Len(Checks) + 1
  BY <1>1, <1>2
<1>4. Counted = at - 1
  BY <1>2 DEF Counted
<1> QED
  BY <1>2, <1>3, <1>4, <1>b, <1>h DEF CheckInv

\* The tally goes on with the checks.
LEMMA CheckInvNext == CheckInv /\ [CheckNext]_checkVars => CheckInv'
<1> SUFFICES ASSUME CheckInv, [CheckNext]_checkVars PROVE CheckInv'
  OBVIOUS
<1>c. gates' = gates /\ Checks' = Checks
  BY SameChecks
<1>t. /\ tally \in [pass : Nat, fail : Nat, skip : Nat] /\ None \in has
      /\ at \in Nat /\ at >= 1 /\ at <= Len(Checks) + 1
  BY DEF CheckInv
<1>p. tally.pass \in Nat /\ tally.fail \in Nat /\ tally.skip \in Nat
  BY <1>t
<1>1. CASE CheckSkipped
  <2>1. /\ Running /\ Current.needs \notin has /\ tally' = [tally EXCEPT !.skip = @ + 1]
        /\ at' = at + 1 /\ has' = has /\ over' = over
    BY <1>1 DEF CheckSkipped, GoOn
  <2>b. (pinned' <=> pinned) /\ (tagged' <=> tagged)
    BY <1>1 DEF CheckSkipped
  <2>2. at >= 1 /\ at <= Len(Checks) /\ Len(Checks) \in {59, 63} /\ Current.needs = NeedOf(at)
    BY <2>1, AtCheck DEF AsNumbered
  <2>3. over = "running" /\ over' = "running" /\ at' <= Len(Checks) + 1 /\ at' \in Nat /\ at' >= 1
    BY <1>t, <2>1, <2>2 DEF Running
  <2>4. tally' = [pass |-> tally.pass, fail |-> tally.fail, skip |-> tally.skip + 1]
    BY <1>t, <2>1, OneMore
  <2>5. Counted' = at' - 1
    <3>1. tally.pass + tally.fail + tally.skip = at - 1
      BY <2>3 DEF CheckInv, Counted
    <3> QED
      BY <1>p, <1>t, <2>1, <2>4, <3>1 DEF Counted
  <2>6. tally.fail = 0 => at = 55
    <3> SUFFICES ASSUME tally.fail = 0 PROVE at = 55
      OBVIOUS
    <3>1. (at > 34 => "data" \in has) /\ (at > 37 => "file" \in has) /\ (at > 47 => "key" \in has)
      BY <2>3 DEF CheckInv
    <3>2. NeedOf(at) \notin has
      BY <2>1, <2>2
    <3> QED
      BY <1>t, <3>1, <3>2 DEF NeedOf
  <2>7. tally.fail = 0 =>
          /\ tally'.skip <= (IF at' > 55 THEN 1 ELSE 0)
          /\ "data" \in has' /\ "file" \in has' /\ "key" \in has' /\ ~pinned' /\ ~tagged'
    <3> SUFFICES ASSUME tally.fail = 0
                 PROVE  /\ tally'.skip <= (IF at' > 55 THEN 1 ELSE 0)
                        /\ "data" \in has' /\ "file" \in has' /\ "key" \in has' /\ ~pinned' /\ ~tagged'
      OBVIOUS
    <3>1. at = 55 /\ at' = 56
      BY <2>1, <2>6
    <3>2. /\ tally.skip <= (IF at > 55 THEN 1 ELSE 0)
          /\ at > 34 => "data" \in has
          /\ at > 37 => "file" \in has
          /\ at > 47 => "key" \in has
          /\ pinned => at \in {44, 45}
          /\ ~tagged
      BY <2>3 DEF CheckInv
    <3>3. tally'.skip = tally.skip + 1
      BY <2>4
    <3>4. tally.skip <= 0 /\ "data" \in has /\ "file" \in has /\ "key" \in has /\ ~pinned
      BY <3>1, <3>2
    <3> QED
      BY <1>p, <2>1, <2>b, <3>1, <3>2, <3>3, <3>4
  <2>8. tally' \in [pass : Nat, fail : Nat, skip : Nat] /\ tally'.fail = tally.fail /\ None \in has'
    BY <1>p, <1>t, <2>1, <2>4
  <2> QED
    BY <1>c, <2>3, <2>5, <2>7, <2>8 DEF CheckInv
<1>2. CASE CheckPasses
  <2>1. /\ Running /\ Current.needs \in has /\ Signable /\ tally' = [tally EXCEPT !.pass = @ + 1]
        /\ at' = at + 1 /\ over' = over /\ has \subseteq has'
    BY <1>2 DEF CheckPasses, GoOn
  <2>b. /\ tagged' <=> tagged
        /\ pinned' <=> (pinned \/ Current.does = "pin") /\ Current.does # "unpin"
    BY <1>2 DEF CheckPasses
  <2>2. at >= 1 /\ at <= Len(Checks) /\ Len(Checks) \in {59, 63} /\ AsNumbered(at, Current)
    BY <2>1, AtCheck
  <2>3. over = "running" /\ over' = "running" /\ at' <= Len(Checks) + 1 /\ at' \in Nat /\ at' >= 1
    BY <1>t, <2>1, <2>2 DEF Running
  <2>4. tally' = [pass |-> tally.pass + 1, fail |-> tally.fail, skip |-> tally.skip]
    BY <1>t, <2>1, OneMore
  <2>5. Counted' = at' - 1
    <3>1. tally.pass + tally.fail + tally.skip = at - 1
      BY <2>3 DEF CheckInv, Counted
    <3> QED
      BY <1>p, <1>t, <2>1, <2>4, <3>1 DEF Counted
  <2>6. (at = 34 => "data" \in has') /\ (at = 37 => "file" \in has')
    <3>1. Current.gives = GiftOf(at)
      BY <2>2 DEF AsNumbered
    <3>2. Current.gives \in has' \/ Current.gives = "grantees"
      BY <1>2 DEF CheckPasses
    <3> QED
      BY <3>1, <3>2 DEF GiftOf
  <2>7. at = 47 => "key" \in has
    BY <2>1, <2>2 DEF AsNumbered, Signable
  <2>8. pinned' => at = 43 \/ (pinned /\ at # 45)
    <3>1. (Current.does = "pin" <=> at = 43) /\ (Current.does = "unpin" <=> at = 45)
      BY <2>2 DEF AsNumbered
    <3> QED
      BY <2>b, <3>1
  <2>9. tally.fail = 0 =>
          /\ tally'.skip <= (IF at' > 55 THEN 1 ELSE 0)
          /\ at' > 34 => "data" \in has'
          /\ at' > 37 => "file" \in has'
          /\ at' > 47 => "key" \in has'
          /\ pinned' => at' \in {44, 45}
          /\ ~tagged'
    <3> SUFFICES ASSUME tally.fail = 0
                 PROVE  /\ tally'.skip <= (IF at' > 55 THEN 1 ELSE 0)
                        /\ at' > 34 => "data" \in has'
                        /\ at' > 37 => "file" \in has'
                        /\ at' > 47 => "key" \in has'
                        /\ pinned' => at' \in {44, 45}
                        /\ ~tagged'
      OBVIOUS
    <3>1. /\ tally.skip <= (IF at > 55 THEN 1 ELSE 0)
          /\ at > 34 => "data" \in has
          /\ at > 37 => "file" \in has
          /\ at > 47 => "key" \in has
          /\ pinned => at \in {44, 45}
          /\ ~tagged
      BY <2>3 DEF CheckInv
    <3>2. tally'.skip = tally.skip
      BY <2>4
    <3>3. tally'.skip <= (IF at' > 55 THEN 1 ELSE 0)
      BY <1>p, <1>t, <2>1, <3>1, <3>2
    <3>4. at' > 34 => "data" \in has'
      BY <1>t, <2>1, <2>6, <3>1
    <3>5. at' > 37 => "file" \in has'
      BY <1>t, <2>1, <2>6, <3>1
    <3>6. at' > 47 => "key" \in has'
      BY <1>t, <2>1, <2>7, <3>1
    <3>7. pinned' => at' \in {44, 45}
      BY <1>t, <2>1, <2>8, <3>1
    <3> QED
      BY <2>b, <3>1, <3>3, <3>4, <3>5, <3>6, <3>7
  <2>10. tally' \in [pass : Nat, fail : Nat, skip : Nat] /\ tally'.fail = tally.fail /\ None \in has'
    BY <1>p, <1>t, <2>1, <2>4
  <2> QED
    BY <1>c, <2>3, <2>5, <2>9, <2>10 DEF CheckInv
<1>3. CASE CheckFails
  <2>1. /\ Running /\ tally' = [tally EXCEPT !.fail = @ + 1]
        /\ at' = at + 1 /\ has' = has /\ over' \in {"failure", over}
    BY <1>3 DEF CheckFails, GoOn
  <2>2. at >= 1 /\ at <= Len(Checks) /\ Len(Checks) \in {59, 63}
    BY <2>1, AtCheck
  <2>3. /\ over = "running" /\ over' # "success" /\ None \in has'
        /\ at' <= Len(Checks) + 1 /\ at' \in Nat /\ at' >= 1
    BY <1>t, <2>1, <2>2 DEF Running
  <2>4. tally' = [pass |-> tally.pass, fail |-> tally.fail + 1, skip |-> tally.skip]
    BY <1>t, <2>1, OneMore
  <2>5. Counted' = at' - 1
    <3>1. tally.pass + tally.fail + tally.skip = at - 1
      BY <2>3 DEF CheckInv, Counted
    <3> QED
      BY <1>p, <1>t, <2>1, <2>4, <3>1 DEF Counted
  <2>6. tally' \in [pass : Nat, fail : Nat, skip : Nat] /\ tally'.fail # 0
    BY <1>p, <2>4
  <2> QED
    BY <1>c, <2>3, <2>5, <2>6 DEF CheckInv
<1>4. CASE CheckSums
  <2> DEFINE left1 == IF "mutable" \in gates THEN 0 ELSE 1
  <2>1. /\ over = "running" /\ at = Len(Checks) + 1
        /\ tally' = [tally EXCEPT !.skip = @ + left1]
        /\ over' = IF tally.fail > 0 THEN "failure" ELSE "success"
        /\ at' = at /\ has' = has
    BY <1>4 DEF CheckSums
  <2>b. (pinned' <=> pinned) /\ (tagged' <=> tagged)
    BY <1>4 DEF CheckSums
  <2>2. Len(Checks) \in {59, 63}
    BY NumberedWithMutable DEF Part
  <2>3. left1 \in Nat /\ left1' = left1
    BY <1>c
  <2>4. tally' = [pass |-> tally.pass, fail |-> tally.fail, skip |-> tally.skip + left1]
    BY <1>t, <2>1, <2>3, OneMore
  <2>5. over' # "running" /\ (over' = "success" => tally.fail = 0)
    BY <1>p, <2>1
  <2>6. tally.fail = 0 => tally'.skip <= 1 + left1 /\ ~pinned' /\ ~tagged'
    <3> SUFFICES ASSUME tally.fail = 0 PROVE tally'.skip <= 1 + left1 /\ ~pinned' /\ ~tagged'
      OBVIOUS
    <3>1. /\ tally.skip <= (IF at > 55 THEN 1 ELSE 0)
          /\ pinned => at \in {44, 45}
          /\ ~tagged
      BY <2>1 DEF CheckInv
    <3>2. tally'.skip = tally.skip + left1
      BY <2>4
    <3>3. at > 55
      <4>1. at = Len(Checks) + 1
        BY <2>1
      <4>2. Len(Checks) = 59 \/ Len(Checks) = 63
        BY <2>2
      <4>3. CASE Len(Checks) = 59
        BY <4>1, <4>3
      <4>4. CASE Len(Checks) = 63
        BY <4>1, <4>4
      <4> QED
        BY <4>2, <4>3, <4>4
    <3>4. tally.skip <= 1 /\ ~pinned
      BY <3>1, <3>3
    <3>5. tally'.skip <= 1 + left1
      BY <1>p, <3>2, <3>4
    <3> QED
      BY <2>b, <3>1, <3>4, <3>5
  <2>7. tally' \in [pass : Nat, fail : Nat, skip : Nat] /\ tally'.fail = tally.fail
    BY <1>p, <2>3, <2>4
  <2> QED
    BY <1>c, <1>t, <2>1, <2>3, <2>5, <2>6, <2>7 DEF CheckInv
<1>5. CASE CheckRetries \/ CheckPanics \/ UNCHANGED checkVars
  <2>1. /\ tally' = tally /\ at' = at /\ has' = has /\ pinned' = pinned /\ tagged' = tagged
        /\ over' \in {over, "panic"}
    BY <1>5 DEF CheckRetries, CheckPanics, checkVars
  <2> QED
    BY <1>c, <2>1 DEF CheckInv, Counted
<1> QED
  BY <1>1, <1>2, <1>3, <1>4, <1>5 DEF CheckNext

\* The exit code of the integration check can be trusted, for any number of polls.
THEOREM ExitCodeIsTrue == CheckInit /\ [][CheckNext]_checkVars => []SuccessMeansChecked
<1>1. CheckInv => SuccessMeansChecked
  BY DEF CheckInv, SuccessMeansChecked
<1> QED
  BY <1>1, CheckInvInit, CheckInvNext, PTL
=============================================================================
