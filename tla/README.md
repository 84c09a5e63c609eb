# A verification of bee-rs

`bee-rs` is a Rust client of the Swarm Bee node. This directory models the parts
that keep state, run concurrently with the node or with each other, or compute
something that must come out the same on every path: the library's, and those of
the programs under `examples/` that keep a file, a batch or a count. The modules
are TLA+; TLC checks them on small instances, and TLAPS proves some of the results
for every instance.

Paths below are relative to `src/src/`, those that begin with `examples/` to `src/`.

## The system

### Components, their state and how they meet

| Component | State | Operations | Modules |
|---|---|---|---|
| Chunker, `swarm/file_chunker.rs` | leaf buffer, stack of levels of references | `write`, `finalize`, the `on_chunk` callback | `ChunkTree`, `FileChunker`, `FileChunkerProofs` |
| Streaming upload, `file/stream.rs` | window of in-flight requests, progress, manifest | `stream_collection_entries`, `save_manifest_recursively` | `StreamUpload`, `StreamUploadProofs` |
| Stamper, `postage/stamper.rs` | one counter per bucket, depth, slot limit | `from_blank`, `from_state`, `stamp`, `state`, clone | `Stamper`, `StamperProofs` |
| Subscription, `pss/mod.rs` | websocket, spawned task, message channel (64), cancel channel (1) | `open`, `recv`, `cancel`, drop, `receive` with a timeout | `Mailbox`, `Subscription`, `SubscriptionProofs` |
| GSOC, `gsoc/mod.rs`, `swarm/gsoc.rs`, `examples/gsoc-mined-pubsub.rs` | none in the library; the example's two tasks | `proximity`, `gsoc_mine`, `send`, publish and listen | `Gsoc`, `SubscriptionProofs` |
| Manifest trie, `manifest/node.rs` | tree of nodes with targets, metadata, known addresses | `add_fork`, `remove_fork`, `find`, `collect` | `EntryMap`, `Manifest` |
| Manifest wire format, `manifest/wire.rs`, `manifest/locator.rs` | none | `marshal`, `unmarshal`, both address computations, the walk that loads | `Manifest`, `ManifestWire` |
| Feeds, `file/feeds.rs` | none in the client; the feed is on the node | find the next index, then write it; check chunk by chunk | `Feeds`, `FeedsProofs` |
| Single-owner chunks, `swarm/soc.rs`, `swarm/bmt.rs`, `swarm/keys.rs`, `file/soc.rs` | none | make, sign, upload, download, verify | `Soc`, `FeedsProofs` |
| Chunk stream, `file/chunks_stream.rs` | websocket, `closed` | `send_chunk` and its acknowledgement, `close`, drop | `ChunkStream`, `WireProofs` |
| HTTP client and endpoints, `client.rs`, `api/endpoints.rs`, `swarm/errors.rs` | none | one request, a capped body, a result | `Http`, `WireProofs` |
| Options, `api/options.rs` | none | options to headers | `Options`, `WireProofs` |
| Uploads, downloads, collections, `file/data.rs`, `file/chunk.rs`, `file/bzz.rs` | entries read so far | headers, directory walk, archive | `Transfers`, `WireProofs` |
| Storage, `storage.rs`, `postage/*`, three examples | none in the client; the batch is on the chain | buy, extend, dilute, quote, poll | `StampMath`, `Storage`, `StorageProofs` |
| Quantities, `swarm/tokens.rs`, `duration.rs`, `network.rs`; not the texts of `size.rs` | none | parse, print, exchange | `Positional`, `Quantities`, `Conversions`, `StorageProofs` |
| Encodings, `swarm/bytes.rs`, `typed_bytes.rs`, `cid.rs`, `api/result.rs` | none | hex, checksums, CIDs, fixed width numbers, short keys, file names | `Positional`, `Codecs`, `Conversions`, `StorageProofs` |
| Programs with a state file, `examples/swarm-*.rs` | a JSON file, a feed, pins | commands that load, call the node, and save | `StateFile`, `Vault`, `Deploy`, `Share`, `Relay`, `Keyring`, `Pinner`, `Programs`, `ProgramsProofs` |
| The integration check, `examples/integration-check.rs` | a tally, what earlier checks gave | a list of checks and an exit code | `Integration`, `ProgramsProofs` |

How they interact. A streaming upload feeds every file to a chunker, whose callback
collects the sealed chunks; it posts them one by one through `upload_chunk`, keeps
at most a window of requests in flight, adds the file's root to a manifest with
`add_fork`, and saves the manifest, children first, through `upload_data`. A stamper
gives each chunk a slot of a batch, which the storage helpers buy and extend. A feed
update is a single-owner chunk at an address that follows from owner, topic and
index. A subscription's task and its owner share two channels; the owner is a user's
program, `receive`, or the GSOC example. Every call goes through the HTTP client,
but for the websockets of subscriptions and of the chunk stream. The programs compose
these: they upload, then point a feed to what they uploaded, then save their file.

### What is hard here, and what correctness means

* **Chunker.** Full levels are collapsed while `finalize` scans them, a callback may
  refuse any chunk, and the caller may go on after a refusal. Correct: the root is
  that of the reference tree whatever the cuts of the input; chunks are sealed in
  order; every call returns.
* **Upload.** Answers arrive in any order or not at all, one failure aborts with other
  requests in flight, the future may be dropped at every await. Correct: the node
  never holds a manifest node that refers to something it lacks; progress is exact;
  what an abort leaves behind is bounded by the window; the upload ends.
* **Stamper.** A signature may fail after the counter moved; stampers are cloned,
  persisted, resumed after a crash and at another depth. Correct: along one line of
  stampers no slot is issued twice, and the counters account for every slot.
* **Subscription.** Node, network, task and owner interleave; the channel fills; the
  timeout of `receive` races the message. Correct: it implements a mailbox, the end
  is told only after everything before it, a dropped handle closes the socket, and a
  `recv` that can return does.
* **GSOC.** Leading bits are counted over byte borders; messages to one address
  replace each other. Correct: a mined key is the first that is near enough; the
  example ends well only if every message was told.
* **Manifest.** A path may end inside another, diverge inside a chunk of a long path,
  be removed with others below it; addresses are cached in the nodes; a trie read back
  has unloaded children. Correct: the trie acts as a map; a cached address is that of
  the node's content; what is saved reads back; an edit of a trie read back leaves the
  forks beside it alone.
* **Feeds.** The next index is read and then written: other writers, requests that
  outlive their callers, lookups that miss a chunk and a 500 that is taken for an empty
  feed come between. Correct: a found index extends the feed, an update is replaced in
  a race only, each writer's acknowledged updates are in order.
* **Single-owner chunks.** A node may deliver anything. Correct: what is read is what
  the owner asked for has signed.
* **Chunk stream.** No reply names its chunk; chunks are refused, calls abandoned, the
  socket closes. Correct: without abandoned calls a reply is that of the call's own
  chunk, no acknowledgement serves twice, a call returns.
* **Calls.** An answer comes in frames, of any length, while others change what it is
  about. Correct: a result was true at some moment of the call, a 404 and nothing else
  means "not pinned", nothing beyond the cap is taken in.
* **Transfers.** Unset, false and zero differ; a directory changes while it is read.
  Correct: the node reads from the headers what was meant; a collection has each path
  once, in order, with a content the file had.
* **Storage.** Price and batch are read before a write that is computed from them, and
  amounts are rounded on the way. Correct: a size said to be covered is, durations add
  up, a write is charged as it was quoted before, a buyer gets to see the batch usable.
* **Programs.** Nothing locks a state file; a process may end between upload, feed and
  save; a file being rewritten does not parse. Correct: what is published is held by
  the node, commands in turn are not lost, a row of a history was live, cached counters
  and grantees are those of the file saved, a watched file is pinned in the end.
* **Integration check.** Correct: success means that nothing failed, nothing was left
  on the node, and only what must be was skipped.

The hazards behind these are listed with their lines in `PROJECT.json`.

## The modules

Hashing is taken as injective everywhere: an address is the content it is of, or the
term that was hashed. A history variable (named as such in its module) says what
happened and is read by properties only.

**`ChunkTree`** is the reference tree over an input and the formulas for the number of
chunks. **`FileChunker`** has the chunker's fields and a program counter for the running
call; one action is one turn of a loop or one call of `on_chunk`. A refusal leaves the
state as the code does, with the buffer or level already taken.

**`StreamUpload`** has one request per chunk and per manifest node, which goes from
queued through sent and answered to done; the node may store a body whose answer never
arrives. `StartEntry`, `PushChunk`, `Harvest`, `FinishEntry` are the loop over the
entries, `StartSave`, `SaveNode`, `SaveReturn` the recursion that saves the manifest,
`DropUpload` the drop of the future.

**`Stamper`** has the stampers a program keeps in handles, and the counters it last
persisted. `SignFails` is `stamp` whose signature fails: the counter has moved already.

**`Mailbox`** is what a subscription promises: messages in order, then at most one end.
**`Subscription`** is the code: the spawned task's `select!` (`TakeCancel`, `Yield`,
`EndOfStream`), its wait for room in the channel (`Send`, `SendFails`), the owner's
calls, node and network. `Yield` and `Send` are two actions because the task waits
between them with a message in hand, and there looks at nothing but the channel.

**`Gsoc`** has the mining loop over a window of keys whose chunks may lie anywhere, and
the example's sender and receiver, with a node that keeps one message and notifies of it
when it gets to it, perhaps twice.

**`EntryMap`** is a map from paths to target and metadata. `ActsAsAMap` says that the trie
implements it operation by operation: `Insert(p, v)` is the map's `Add` of that path and
value, `Delete(p)` its `Remove` of that path, address computations and saves change no entry.
**`Manifest`** is the trie:
nodes are records, forks a function from the first byte, and `AddForkInner`, `Cut`,
`ReinsertForks`, `SplitForks`, `Populated`, `Saved` the recursive functions of the code.
`Marshal` is what a node serializes to, as a value. **`ManifestWire`** adds what the node
holds, reading back with its unloaded children, the walk that downloads them, and edits
of such a copy.

**`Feeds`** has the node's updates in the order it stored them; a lookup's answer and the
request that follows are two steps of a writer, storing and the answer two more; a call
that fails or is dropped may leave its request in `late`. What a node does with a second
chunk at one address is not said by this repository, and no property depends on it.

**`Soc`** makes and verifies chunks over symbolic hashes and signatures; the Merkle root
is computed over one-byte segments. `Deliverable` is every chunk that can be put
together from what was signed. The span is not checked against the length of the
payload, and zeros at the payload's end may be cut or added: the code verifies no more
than the signature, and `DownloadIsTheOwners` says so.

**`ChunkStream`** has both directions of the websocket, the session's flag and the
running call; one action is the sending of the frame or the reading of one reply.

**`Http`** is one call: the request, the node's status and body, its frames, the cap, the
parsing, while other clients change what it asks about. The client keeps nothing
between calls, so one is enough. **`Options`** has the functions from options to headers
and how a node reads headers; **`Transfers`** composes them into requests, and has the
walk over a directory, one name and one opening at a time.

**`StampMath`** has the sizes, depths and blocks. **`Storage`** has the helpers, each a
read followed by a write with anything between, the quotes, the poll after a purchase
and the refill of the cost monitor. **`Quantities`** and **`Codecs`** are conversions: a
value is chosen first, and an invariant says that it reads back. Amounts are big integers in
the code; a duration is parsed in floats, and modelled for whole seconds below `EXACT`, where
floats are exact. **`Positional`** has the
powers and the values of digits that both count with; **`Conversions`** puts the two side by
side.

**`StateFile`** has what the programs share: the file, which is torn between the two
halves of `fs::write`, requests whose answers may be lost, and commands that may stop
everywhere. `Vault` (swarm-vault and swarm-fs), `Deploy` (swarm-deploy, swarm-blog),
`Share`, `Relay`, `Keyring` (swarm-keyring, swarm-feed-rss) and `Pinner` have the steps
of their commands; **`Programs`** composes them, one program to a behaviour, in two
processes.

**`Integration`** is the list of checks with what each needs and gives.

`MCChunks`, `MCWire`, `MCSubscription`, `MCFeeds`, `MCStorage`, `MCPrograms` and
`MCManifest` instantiate the modules for TLC. All but the last put parts side by side that
share no state, of which one runs in a behaviour; every state of each part is reached
as if it ran alone, and their products are not.

## The runs

| Run | Configuration | What it shows |
|---|---|---|
| `chunks` | `Chunks.cfg` | every split of up to 17 bytes, one refusal anywhere: canonical root, the announced number of chunks, sealing in order, every call returns; stampers: no slot twice and an exact account, with clones, snapshots, losses and a wrapped shift |
| `chunker_panic` | `FileChunkerPanic.cfg` | **violated**: after a refusal during a collapse, `finalize` panics on an empty top level |
| `upload` | `StreamUpload.cfg` | nothing dangles, progress, orphans and the end, over every order of answers, one failure or drop anywhere |
| `subscription` | `Subscription.cfg` | the refinement of `Mailbox`, the truth of the end, drops and `recv`; mining and the GSOC example |
| `subscription_cancel` | `SubscriptionCancel.cfg` | **violated**: `cancel` does not close the socket while the channel is full |
| `manifest` | `Manifest.cfg` | every insertion and removal is its own step of `EntryMap`; true addresses; what is saved reads back |
| `manifest_stale` | `ManifestStale.cfg` | **violated**: after a removal the cached addresses between root and parent are stale |
| `feeds` | `Feeds.cfg` | found indexes, races, order and the retrievability check; single-owner chunks from any node |
| `chunk_stream` | `Wire.cfg` | acknowledgements serve once, calls return; HTTP answers are true; requests say what is meant |
| `storage` | `Storage.cfg` | covered sizes, added durations, charges as quoted, usable batches; conversions and encodings read back (`ReadBack`) |
| `storage_topup` | `StorageTopUp.cfg` | **violated**: a batch worth the target in total is told to be topped up |
| `programs` | `Programs.cfg` | the programs' files, feeds, caches and pins; the integration check's exit code |

The violated properties state what a comment or doc of the repository says; the findings
in `PROJECT.json` quote it. Every property of a passing run is also known to break under
a bug put into the code it is about: the mutants in `PROJECT.json`.

### Bounds

* `chunks`: chunk size 2 and two branches give, with 17 bytes, nine leaves and five
  levels, so that every kind of collapse happens: a full level in the middle, a lone
  reference carried up, a level that grows under the scan of `finalize`. For the
  stampers, two handles, two buckets of one or two slots and three depths, the last of
  which wraps. Two handles are enough for a clone or a resumed stamper to run ahead of
  the snapshot.
* `upload`: files of 0, 1 and 6 chunks with a window of 2: the window fills, is partly
  filled at the end of a file, and is never filled. Every property relates two files
  at most.
* `subscription`: a channel of 2 with six messages and three frames on the way: it fills
  while another message is held and more are waiting. For mining, a window of two keys
  and addresses of two bytes of two bits, so that proximity crosses a byte; every
  placement of the keys, every proximity up to one that cannot be. Three messages to
  one address, as in the example, and one notification more (`GsocNotify`).
* `manifest`: prefixes of at most 3 bytes and paths of up to 5, nested, long with a common
  start and with the separator first; five operations: an insertion into, at the end of
  and across a chunk, a removal with children and grandchildren, with address
  computations, saves and reads between.
* `feeds`: two writers and three updates: two that race and one that comes after, or an
  abandoned request that arrives after its successor. Given indexes are 0 and 1. Two
  owners, two identifiers and two chunks for the mixing of their parts, payloads of 1
  and 2 segments, and deliveries up to one segment too long.
* `chunk_stream`: four calls on the session, so that one can be abandoned, one refused and
  the pairing tried again after it. A cap of 6 bytes (three pins in two lines each reach
  and pass it), error pages up to twice theirs, two changes by others. A directory of
  three paths, one too long for an archive, and one change during the walk.
* `storage`: a table of three depths with sizes at a breakpoint, above one and beyond the
  table; two programs, three helper calls, one move of the price. Amounts about nought,
  decimals with more digits than the token has, durations about the bounds of units.
  Bytes strings of up to four bytes (references have two, encrypted ones four), numbers
  of three digits, a curve over eleven numbers. Arithmetic on amounts is not of bounded
  width, as the code has big integers there. Durations are floats in the code: those
  of the run are whole seconds far below 2^53 (`EXACT`), so their products and sums are exact.
* `programs`: four commands in two processes, so that two overlap and others follow; two
  names and two contents. The integration check runs in full, with three polls of the
  mutable batch.

Deadlock is checked where the system may not stop. It may in all composed runs, whose
calls, commands and operations are bounded or come to their end.

### Fairness

* `FileChunker`: a running call takes its next step. The code is sequential.
* `StreamUpload`: the executor polls a future that can go on, and a request that was sent
  is answered, perhaps with an error. The second is an assumption about node and
  connection: the client sets no timeout of its own.
* `Subscription`: the executor runs the task and a woken `recv` (weak fairness), and a
  pending cancel is not passed over for ever (strong fairness): `select!` picks among its
  ready arms at random. Nothing makes the node publish, the connection hold, or the
  owner receive.
* `ChunkStream`: a call that can go on is polled, and a node that is up gets to every
  frame; `send_chunk` has no timeout.
* `Storage`: a purchase is mined in the end, and the poll is repeated, as its loop does.
* `Programs`: a pass of the pinner goes on, as its loop does after every error; errors of
  a run are bounded (`MaxErrors`), for with errors without end no file need be pinned.
* `Feeds`, `Http`, `Transfers`, `Soc`, `Gsoc`, `Integration` assume none and state no
  liveness.

## The proofs

Nothing but the named assumptions on the constants is assumed.

`StamperProofs` proves, for every set of handles and of buckets and every depth, that
`Stamper` keeps `TypeOK`, `NoSlotTwice` and `SlotsAccounted`. `StamperAssumption` says that
a slot limit fits a counter. `NoSlotTwice` is not inductive: that the next slot of a bucket
was not issued before follows from every issued slot lying below its counter. So `IInv`
says of every live stamper and of the persisted counters (`LineOK`): the issued slots
differ, the counters account for exactly the issued and the burnt slots, and none is
both. `BumpAccounted` is the heart of it: moving a counter past the slot it gave out keeps
the account. `StampOK` and `BurnOK` apply it to the two outcomes of `stamp`; `FromStateOK`
and `CountersOK` show that resuming and persisting keep a line; `Update` lifts a new
stamper in one handle to the whole state.

`FeedsProofs` proves, for any writers and bounds, that `Feeds` keeps `FoundIndexExtends`,
`ReplacesOnlyUnseen` and `RetrievableMeansStored`. The first two speak of stored updates,
and what they say was decided at the lookup, several steps before; so `IInv` says it of
every update that is stored, held by a writer, or in flight without one (`UpdateOK`).
`AppendKeeps` is why it then stays true: it relates an update to the part of the log that
its lookup saw, and the log only grows. On top of it `WritersReadInOrder` proves `AckedInOrder`:
undisturbed, the stored indexes have no gap (`Closed`), so the first free one that a lookup finds
is above all that are stored, the writer's own among them (`FoundAhead`).

`SubscriptionProofs` proves, for any capacity of the channel and any number of messages and of
frames on their way, that `Subscription` implements `Mailbox` (`PromiseIsKept`) and keeps
`EndMeansAll`. The mailbox sees what recv returns; that it returns the next message
follows from the order of all that is under way behind it. `WireOK` says it with a
count: each frame on the wire is given the number of messages published up to it
(`Follows`), beginning with those in hand, and ending with the last one published unless the
connection was lost or the task told to end. `AppendFollows`, `TailFollows` and
`PrefixFollows` are what a wire may suffer. After the handle is dropped nothing is
received, and nothing is claimed of what was under way.

Its second part is about `Gsoc`, for any number of messages and addresses of any length. For
`AllWereHeard`: what the receiver has taken says nothing of the notifications by itself; the
invariant `GsocInv` says that while both tasks run the messages taken are the first
notifications, each the one expected, and the others are in the queue (`OpenOK`). `NotifyOK`
adds one to both; `TakeOK` is the step that matters, where the example ends or goes on. For
`MinedIsNear`: the key mined is the first that is near and stays it (`SearchInv`), and what
`proximity` counts byte by byte is the number of leading bits two addresses share, since the
first bit that differs is in the first byte that does (`ProximityIsAgreement`).

`StorageProofs` proves, for any breakpoint table without a gap, any programs, batches and
prices, that `Storage` keeps `SizesCovered`. Its `IInv` says that a purchase on its way
to the write has the depth of its size, and every promised size at most the depth of its
batch (`PromisesOK`); `BatchMoves` is the step that matters: a batch gets no shallower,
whatever depth was read before. `LeastExists`, from the
library's well-founded orders, gives the depth of a size, and `DeeperHolds` follows from the
assumption on the table. A second invariant on top of it, `AInv`, says what every helper under
way has computed from what it has read (`ComputedOK`), and that what was bought and added pays
for the seconds promised (`AmountOK`). `DurationsAddUp` and `RefillsAreClose` follow in every
state, and `ChargedAsQuoted` in every step: a purchase, an extension and a dilution take what any
other program was told they would (`PurchaseCharged`, `ExtensionCharged`, `DilutionCharged`).
The arithmetic is that of divisions (`BlocksWithin`, `AmountPays`, `RefillShort`) and of
powers of two: diluting cuts what each chunk has, so a quote is less than a PLUR per chunk short
of what they lose (`SizeCostFills`).

The provers know nothing of `2^n` with a variable `n`. `PowerCounts` and `PowerDoubles` get it
from the library's `FS_SUBSET`, by which `2^n` is the number of subsets of `1..n`. The library
takes the step `2^(n+1) = 2^n + 2^n` for granted in its own proof of that theorem, so this one
fact of arithmetic is the library's word.

The second part of `StorageProofs` is about `Conversions`: `WhatIsWrittenReadsBack` is `ReadBack`.
Of quantities it holds for any two precisions, and all amounts, decimals and durations of whole
seconds (`QuantitiesAreKept`); of encodings for all byte strings and file names, words of any
length to any radix, and any odd prime (`EncodingsAreKept`, `CurveAssumption`). Nothing moves in
this specification but the choice of the value, so all of the proof is arithmetic over sequences. A recursive function over a sequence is met through
`Iterates`: the least place where it would go wrong does not exist. From this come the values of
digits: joined texts (`ValueConcat`), leading noughts (`ValueZeros`), and that digits to a base are
told by their number and their value (`ValueInjective`). What is special to the code is in few
lemmas. `DigitsCases` shows that the digits of a number, printed without a width, are none too
many, so that the noughts in front make the precision exactly; `ExchangesNeverGain` bounds two
divisions that cut towards nought; `RenderingTakes` says that what a unit leaves is less than it
and loses no second. In base 32, a byte or a character that comes in
changes what the groups and the bits that are left count together by exactly its value
(`ByteTaken`, `CharTaken`), so text and bytes have one value up to the noughts at the end
(`Encodes`, `DecodesBack`), and a header of five bytes ends with a group, so that the reference
may be encoded apart from it (`HeaderIs`, `EncodesMore`). A short key has one root of each parity
(`SameRoot`), which is where the prime is needed, and a header's value is cut by its first marks
only (`NamesReadBack`).

`StreamUploadProofs` proves, for any window, any sizes of chunks and any collection, that
`StreamUpload` keeps `ManifestNeverDangles`, `OrphansWithinWindow` and `ProgressIsExact`. Its `IInv`
says where every request of every file is (`FilesOK`), that manifest nodes are sent when the files
are done, and the root when the other nodes are (`SaveOK`), what the node may hold (`StoredOK`),
and how many chunks are begun and not done (`WindowOK`); the latter counts what a dropped upload
has still on its way besides what is in flight, which is why a drop leaves no more than a window
of orphans. `Moves` is a request that goes on, `AbortOK` an error or a drop, `FinishEntryOK`
and `SaveStepOK` the steps that rely on an empty window. Two recursive functions are reasoned
about by the least number for which they would go wrong: that `TotalChunksFor` is a number
(`AboveExists`, `AboveCounts`) and that the total announced counts all chunks (`TotalIsAll`).

`WireProofs` proves, for any number of chunks, that `ChunkStream` keeps `OksCovered`.
Its `IInv` says in what order chunks are sent and taken (`OrderOK`), which is why each is taken
once and every acknowledgement adds one to both sides of the count; and, as long as no call was
abandoned, that only the chunk of the call that waits is under way, to the node or back as the only
answer (`OwnOK`). `SessionReadOK` is the step that matters; `AcksAppend`, `AcksTail` and `AcksPrefix` count
the acknowledgements of what it reads.

Its second part proves, for any finite set of roots, any caps and any frames, that `Http` keeps
`AnswersTrue`. A result speaks of a state the node was in when it served the call, several steps
before the client had read its answer. So `HttpInv` says of the body, of which part is in
the client's buffer and the rest on its way (`Whole`), that it is the document of a state seen
since the call began (`Foretold`); reading a frame moves bytes from one side to the other
(`CutInTwo`), so frames do not matter, and neither do changes meanwhile. A report of the pins is
written while they change: `ReportOK` says that it is made of whole lines, each of a root
that was pinned, and that a root pinned throughout has its line or is still to be gone through.
`LineWritten` is what a report suffers when the node writes on, `DocumentTrue` and `ReportTrue` what
the client makes of either in the end. `HttpAssumption` says that bounds are numbers, that the
roots are finitely many, and that an end of line is no other byte. No proof relies on the body
being JSON: a document is its values and an end.

Its third part proves, for any options, any files and any changes to them, that `Transfers` keeps
`SentIsMeant`. Half of that is about the headers alone. What a list of headers gives for a name
is a union over its parts (`ValuesJoined`), so one lemma for each kind of request says what
there is for every name (`ChunkHas` to `DownloadHas`), that there is one value at most
(`OneEach`), and that the node makes of it what the option means (`ReadsOption`, `UploadSays`,
`DownloadIsMeant`). The other half is the archive. `TransferInv` says of the entries read so far that
each has a content its file had since the walk began, no two the same path, and that every file
the walk has come to, and which was one all the time, was read or is being opened
(`ReadOK`, `WalkOK`); of those that were sorted that they are in order and complete (`WalkedOK`), and
of the callback that it was told a beginning of them (`ToldOK`). `WalkEndsOK` is the step that
matters. That entries of different paths can be put in order at all, `AllSort`, goes by
the least number of entries for which it would fail. `TransfersAssumption` gives the kinds of transfers
their options, by the types that the code gives them (`UploadOptions`, `DownloadOptions`), and says
that a path is a number, which stands for its place in the order of paths.

`ProgramsProofs` proves, for any names, contents, processes and commands, that `Programs` keeps
`PublishedIsHeld`, `HistoryWasLive`, `CachesAreTrue` and `OkCommandsStay`, and that `Integration` keeps
`SuccessMeansChecked`. `IInv` has one part for each program, and each says of the file and of the
copy a running command holds what its program's properties need of both: a command saves the
copy it loaded, so what is true of one must be true of the other. `TurnInv` adds what is
so while commands run in turn: the file is what the command that ended last saved, and what it
reported is in it. `CheckInv` says of the integration check which resources are on the node and why
each check was skipped.

`FileChunkerProofs` proves, for any sizes of chunks, any cuts of the input and any refusals, that
`FileChunker` keeps `SealedInOrder`. Its `IInv` says that the buffer holds the input's last bytes
(`BufferOK`), that a reference kept on a level is of an accepted chunk (`LevelsOK`), that no sealed
leaf reaches into the buffer (`LeavesOK`), and that nothing empty is sealed (`CallOK`).

On top of it, as long as nothing was refused, `RootIsCanonical` and `UploadSeesTheTree`. The stack
of levels forgets what was collapsed, so `TreeInv` says of what it is the rest: there is a tower
`T` with all the references that ever were on each level (`Tower`), every one the parent of a whole
run of the level below, and the stack holds those that have no parent yet; the leaves are the
input's up to the buffer (`LeavesIn`), and the chunks above each level are counted in `S`
(`Counted`). Below the scan of finalize the last parent may be that of a shorter run (`Low`).
`StackOK` says why a level is never pushed on when it is full. `GrowOK` is the step that matters:
whichever chunk is sealed, a leaf, the parent of a whole run, or that of what is left of a level
during finalize, the tower with it on top is the tower of the new stack. At the end the tower is whole
(`Peaked`); it narrows (`Narrows`), so it is what the reference computes (`TopIsRoot`) and
what the pre-count counts (`CountIsTotal`), both recursive functions, reasoned about by the
least number for which they would go wrong.

The second part of `FeedsProofs` is about `Soc`, for any keys, identifiers and payloads and any height
of the Merkle tree: `DownloadIsTheOwners`. `SocInv` says that every chunk made carries its owner's
signature and is kept at the address of its owner and identifier. A node puts deliveries together
from all of them, so what a download accepts has a signature some owner made; the address
recovered from it, the identifier and the chunk address inside it are then those of one chunk that
was made (`ReadIsTheOwners`). `RootTells` shows that two payloads of one Merkle root agree in every
segment, going down the levels of the tree from the root.

Only model-checked are liveness everywhere, which the prover does not do, and `LookupsAgree` of
`Manifest` and `KnownAddressesTrue`, `ReadBackExact`, `CopyKeepsTheRest` of `ManifestWire`, with
the refinement of `EntryMap` operation by operation (`ActsAsAMap`): the trie is recursive, in
its data and in its operators, which the code's own recursion makes the faithful form.

## What the documents say

Where the code and what is said of it differ, and a behaviour shows it, there is a run with
a finding (`chunker_panic`, `subscription_cancel`, `manifest_stale`, `storage_topup`). These were met besides:

* `file/mod.rs:15-19` promises memory bounded by a chunk; `file/stream.rs:142` runs the
  chunker over the whole file before the first upload, so all its chunks are buffered.
* `file/mod.rs:23-28` says that a dropped upload leaves no finalized manifest; the future can
  be dropped when the node has stored the root and the answer has not been read.
* `storage.rs:164` names the chain's price as a floor of the top-up; no price is read. The run
  `storage_topup` is about the target itself, which is said to be a total.
* `swarm/size.rs:111` adds up floats and rounds the sum up: '16.1kb' is 16101 bytes, and
  '1tb 0.3b 0.3b 0.4b' is a byte more than the same parts in reverse.
* `storage.rs:27` has an option `immutable` that `buy_storage` does not pass on.
* `swarm/gsoc.rs:6-7` names the range `[0xb33, 0xb33 + 0xffff]`; the loop over `0..0xffff` ends one
  key short of it. `MinedIsNear` is stated for the window of the code.
* `swarm/errors.rs:27` and `124` say that of an error page no more than the cap is read; the client
  reads all of it (`client.rs:98`) and then cuts it. `AnswersTrue` bounds the result only.
* `api/options.rs:352` says that each of the three ACT options turns ACT on; a publisher off
  the curve and a timestamp of 0 or less are dropped without a word.
* `upload_file` sends `Content-Type` twice when the options set it, with equal values; the
  `size` of its options becomes a `Content-Length` whatever the data is.
* `examples/swarm-pinner.rs`: restarts are said not to upload again; a pass that meets an error
  discards the entries it made, and their files are uploaded again.
* `examples/swarm-relay.rs` is said to load or initialise its state; loading a missing file is an
  error. A refusal by the chunker's `write` is not counted as rejected.
* `examples/integration-check.rs`: a signing key of zeros makes `expect("owner")` panic; the message
  for a missing mutable batch names `extend_storage_duration`, which no check calls.

## What is not modelled

* Wording, logging, printing; URLs, tokens and the construction of clients; zeroizing.
* The arithmetic of curves, hashes and ciphers: signatures and hashes are terms.
* Bytes of the manifest format, its obfuscation key and JSON, and the u16 that cuts the
  length of a long metadata block.
* Endpoints that are one request without any state, and of which nothing is composed: most
  of `debug/`, `dev.rs`, envelopes, reupload, the creation and listing of tags, the send of a
  PSS message, the streaming of downloads. They all go through what `Http` models.
* `hash_collection_entries`, which runs `FileChunker` and `Manifest` one after the other.
* The texts of sizes (`swarm/size.rs`), and the fractions and milliseconds of durations: their
  results depend on the binary rounding of every product and sum. A size is a number of bytes
  in `Storage`.
* `Share` has no history address: revoke passes the one of the upload every time, and the
  grantee history that the node returns is stored and never read (`examples/swarm-share.rs:227`,
  `234`). `Options` leaves out the `Content-Length` that comes from the size.
* `StateFile` has a torn file from the moment a write begins to its end; that two overlapping
  writes leave a mixture of both which parses is left out.
* `Transfers` reads a file as a whole: that it is rewritten between two reads of one opening
  is left out. `Programs` has no requests that arrive after their command was abandoned,
  as `Feeds` has.
* Examples that print what one call returns, chat, paste and blog's `new`. Tests and benches are
  read as documentation.

`PROJECT.json` lists every component with the reason.

## The plan

To model: the streaming of downloads, and metadata blocks at the limit of their length.
